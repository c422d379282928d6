------------------------------- MODULE Catalog -------------------------------
(***************************************************************************)
(* The product catalogue of one tenant and what writes to it: uploaded     *)
(* batches (ingestion.py, ingestion_tasks.py), syncs of the shop's         *)
(* listings (product_sync_tasks.py) and users (products.py).               *)
(*                                                                         *)
(* Each writer has a database session of its own: what it adds is seen by  *)
(* the others when it commits, and a commit that updates a row somebody    *)
(* deleted fails as a whole.  Workers acknowledge a task after it ran, so  *)
(* that one whose worker died is delivered again; a task stopped at its    *)
(* time limit is not.                                                      *)
(***************************************************************************)
EXTENDS Naturals, FiniteSets

CONSTANTS Batches,     \* uploads
          Listings,    \* what Etsy may list for the shop
          Syncs,       \* the workers' slots for sync tasks
          Manual,      \* the origin of a row typed in by a user
          MaxRetries,  \* process_ingestion_batch retries (3 in the code)
          MaxDeaths,   \* bound: workers that die
          MaxRows      \* bound: rows of one origin

Origins == Batches \cup Listings \cup {Manual}

ASSUME CatalogAssumption ==
  /\ Manual \notin Batches \cup Listings /\ Batches \cap Listings = {}
  /\ {MaxRetries, MaxDeaths} \subseteq Nat /\ MaxRows \in Nat \ {0}

VARIABLES
  batch,     \* the status of each batch; "none" before its upload
  job,       \* where the task of each batch is
  tries,     \* retries it has used
  deaths,    \* workers died so far
  products,  \* the committed rows: origin and number
  sync,      \* the syncs: listings to come, rows to add, rows read for update
  stale,     \* syncs one of whose rows was deleted since it was read
  left,      \* batches left behind by a death, or by a commit the database refused
  raced      \* listings two syncs of the shop found missing at once

batches == <<batch, job, tries, left>>
syncing == <<sync, stale, raced>>
vars    == <<batches, deaths, products, syncing>>

Idle == [at |-> "idle", todo |-> {}, adds |-> {}, reads |-> {}]

Rows(o) == {p \in products : p[1] = o}

\* Every variable has its type.
TypeOK ==
  /\ batch \in [Batches -> {"none", "pending", "processing", "completed", "failed"}]
  /\ job \in [Batches -> {"none", "posted", "queued", "running", "failing"}]
  /\ tries \in [Batches -> 0..MaxRetries]
  /\ left \subseteq Batches
  /\ deaths \in 0..MaxDeaths
  /\ products \subseteq Origins \X (1..MaxRows)
  /\ sync \in [Syncs -> [at : {"idle", "queued", "running"}, todo : SUBSET Listings,
                         adds : SUBSET Listings, reads : SUBSET products]]
  /\ stale \subseteq Syncs
  /\ raced \subseteq Listings

Init ==
  /\ batch = [b \in Batches |-> "none"] /\ job = [b \in Batches |-> "none"]
  /\ tries = [b \in Batches |-> 0] /\ deaths = 0 /\ left = {}
  /\ products = {}
  /\ sync = [s \in Syncs |-> Idle] /\ stale = {} /\ raced = {}

(***************************************************************************)
(* Uploads.                                                                *)
(***************************************************************************)
Is(b, j) == job[b] = j
Goes(b, j) == job' = [job EXCEPT ![b] = j]
Becomes(b, s) == batch' = [batch EXCEPT ![b] = s]
Leaves(b) == left' = left \cup {b}

Upload(b) ==
  /\ batch[b] = "none"
  /\ Becomes(b, "pending")
  /\ Goes(b, "posted")
  /\ UNCHANGED <<tries, left, deaths, products, syncing>>

\* Mutant: a batch that was not queued stays as it is.
NotQueuedKept(b) == UNCHANGED batch

\* The endpoint's handler of an error of delay().
NotQueued(b) == Becomes(b, "failed")

\* delay() puts the task into the queue, or raises, and the task may be in the
\* queue all the same; the handler's commit may fail, too.
Queue(b) ==
  /\ Is(b, "posted")
  /\ \/ Goes(b, "queued") /\ UNCHANGED <<batch, left>>
     \/ /\ \E j \in {"none", "queued"} : Goes(b, j)
        /\ \/ NotQueued(b) /\ UNCHANGED left
           \/ Leaves(b) /\ UNCHANGED batch
  /\ UNCHANGED <<tries, deaths, products, syncing>>

\* The API dies between the commit and delay(): the batch stays pending.
CrashUpload(b) ==
  /\ Is(b, "posted") /\ deaths < MaxDeaths
  /\ deaths' = deaths + 1
  /\ Goes(b, "none") /\ Leaves(b)
  /\ UNCHANGED <<batch, tries, products, syncing>>

(***************************************************************************)
(* process_ingestion_batch.                                                *)
(***************************************************************************)
Begin(b) ==
  /\ Is(b, "queued")
  /\ \/ Becomes(b, "processing") /\ Goes(b, "running")
     \/ UNCHANGED batch /\ Goes(b, "failing")
  /\ UNCHANGED <<tries, left, deaths, products, syncing>>

\* Both endpoints store a JSON text in the JSON column, which comes back as a
\* text; json.loads makes an object of it, and the parsers, which expect a text,
\* raise.  No batch gets past this point: nothing after it runs in this code.
Parse(b) ==
  /\ Is(b, "running")
  /\ Goes(b, "failing")
  /\ UNCHANGED <<batch, tries, left, deaths, products, syncing>>

\* Mutant: the task is retried without end.
AgainAlways(b) == TRUE

Again(b) == tries[b] < MaxRetries

\* The handler marks the batch failed, if the database lets it, and the task is
\* queued again until its retries are used up.
Fail(b) ==
  /\ Is(b, "failing")
  /\ \/ Becomes(b, "failed") /\ UNCHANGED left
     \/ UNCHANGED batch /\ Leaves(b)
  /\ IF Again(b)
       THEN tries' = [tries EXCEPT ![b] = @ + 1] /\ Goes(b, "queued")
       ELSE UNCHANGED tries /\ Goes(b, "none")
  /\ UNCHANGED <<deaths, products, syncing>>

\* The worker dies and the task is delivered again, or it runs into its limit and
\* is not.
Die(b) ==
  /\ job[b] \in {"running", "failing"} /\ deaths < MaxDeaths
  /\ deaths' = deaths + 1
  /\ \/ Goes(b, "queued") /\ UNCHANGED left
     \/ Goes(b, "none") /\ Leaves(b)
  /\ UNCHANGED <<batch, tries, products, syncing>>

(***************************************************************************)
(* sync_products_from_etsy, queued by the beat or by a user.               *)
(***************************************************************************)
Turns(s, r) == sync' = [sync EXCEPT ![s] = r]

QueueSync(s) ==
  /\ sync[s].at = "idle"
  /\ Turns(s, [Idle EXCEPT !.at = "queued"])
  /\ UNCHANGED <<batches, deaths, products, stale, raced>>

\* What the pages will show, each listing once.
StartSync(s) ==
  /\ sync[s].at = "queued"
  /\ \E ls \in SUBSET Listings : Turns(s, [Idle EXCEPT !.at = "running", !.todo = ls])
  /\ UNCHANGED <<batches, deaths, products, stale, raced>>

Running(s) == sync[s].at = "running"

\* Mutant: an existing row is added again.
ExistingNone(l) == {}

Existing(l) == Rows(l)

\* The row of the listing is read for an update, or one is to be added.
Look(s, l) ==
  /\ Running(s) /\ l \in sync[s].todo
  /\ \/ \E p \in Existing(l) :
          Turns(s, [sync[s] EXCEPT !.todo = @ \ {l}, !.reads = @ \cup {p}]) /\ UNCHANGED raced
     \/ /\ Existing(l) = {}
        /\ Turns(s, [sync[s] EXCEPT !.todo = @ \ {l}, !.adds = @ \cup {l}])
        /\ raced' = IF \E t \in Syncs \ {s} : l \in sync[t].adds THEN raced \cup {l} ELSE raced
  /\ UNCHANGED <<batches, deaths, products, stale>>

\* A commit writes what s has so far, under fresh numbers.
Commits(s) ==
  \E n \in [sync[s].adds -> 1..MaxRows] :
    LET new == {<<l, n[l]>> : l \in sync[s].adds}
    IN new \cap products = {} /\ products' = products \cup new

Ends(s) == Turns(s, Idle) /\ stale' = stale \ {s}

\* A page's request refreshes the token and commits the session half way.
CommitMidway(s) ==
  /\ Running(s) /\ sync[s].todo # {} /\ s \notin stale
  /\ Commits(s)
  /\ Turns(s, [sync[s] EXCEPT !.adds = {}, !.reads = {}])
  /\ UNCHANGED <<batches, deaths, stale, raced>>

\* All listings are through, or Etsy fails: the notice of the failure commits
\* what there is.
FinishSync(s) ==
  /\ Running(s) /\ s \notin stale
  /\ Commits(s)
  /\ Ends(s)
  /\ UNCHANGED <<batches, deaths, raced>>

\* A refused commit, a rollback or the worker's death undo what s has so far;
\* only a death brings the task back.
AbortSync(s) ==
  /\ Running(s)
  /\ \/ Ends(s) /\ UNCHANGED deaths
     \/ /\ deaths < MaxDeaths /\ deaths' = deaths + 1
        /\ Turns(s, [Idle EXCEPT !.at = "queued"]) /\ stale' = stale \ {s}
  /\ UNCHANGED <<batches, products, raced>>

(***************************************************************************)
(* Users.                                                                  *)
(***************************************************************************)
\* import_product, import_batch and import_csv: the rows of one request, here one.
Import ==
  /\ <<Manual, 1>> \notin products
  /\ products' = products \cup {<<Manual, 1>>}
  /\ UNCHANGED <<batches, deaths, syncing>>

\* delete_product.
Delete(p) ==
  /\ p \in products
  /\ products' = products \ {p}
  /\ stale' = stale \cup {s \in Syncs : p \in sync[s].reads}
  /\ sync' = [s \in Syncs |-> [sync[s] EXCEPT !.reads = @ \ {p}]]
  /\ UNCHANGED <<batches, deaths, raced>>

Next ==
  \/ \E b \in Batches : \/ Upload(b) \/ Queue(b) \/ CrashUpload(b)
                        \/ Begin(b) \/ Parse(b) \/ Fail(b) \/ Die(b)
  \/ \E s \in Syncs : \/ QueueSync(s) \/ StartSync(s) \/ CommitMidway(s)
                      \/ FinishSync(s) \/ AbortSync(s)
                      \/ \E l \in Listings : Look(s, l)
  \/ Import
  \/ \E p \in products : Delete(p)

Spec == Init /\ [][Next]_vars

\* A batch that nobody will look at any more says "failed" (no batch ends in
\* another way), unless a death or a refused commit came between: every error,
\* also one of delay() after the broker took the message, and every retry ends in
\* a handler that marks the batch (ingestion.py:110-123, ingestion_tasks.py:152-184).
BatchSettled ==
  \A b \in Batches \ left : Is(b, "none") => batch[b] \in {"none", "failed"}

\* A listing has one row, unless two syncs of the shop looked for it before
\* either had committed: nothing but the lookup keeps listings apart
\* (product_sync_tasks.py:107-118), through commits half way, deletions by users
\* and redelivered tasks.
OneRowPerListing ==
  \A l \in Listings \ raced :
    Cardinality(Rows(l)) + Cardinality({s \in Syncs : l \in sync[s].adds}) <= 1
=============================================================================
