---------------------------- MODULE CatalogProofs ----------------------------
(***************************************************************************)
(* Proofs about Catalog, for any batches, listings, syncs and bounds.      *)
(***************************************************************************)
EXTENDS Catalog, FiniteSetTheorems, TLAPS

USE CatalogAssumption

-----------------------------------------------------------------------------
(* The inductive invariants.                                               *)

\* BatchSettled for one batch: one that is queued is past its upload.
Settled(b) ==
  /\ b \notin left => (Is(b, "none") => batch[b] \in {"none", "failed"})
  /\ ~Is(b, "none") => batch[b] # "none"

\* OneRowPerListing without counting: what there is for a listing is a row, or a
\* row one sync is about to add.
Apart(l) ==
  /\ \A p, q \in Rows(l) : p = q
  /\ \A s, t \in Syncs : l \in sync[s].adds /\ l \in sync[t].adds => s = t
  /\ \A s \in Syncs : l \in sync[s].adds => Rows(l) = {}

ListingsFit == \A l \in Listings \ raced : Apart(l)

-----------------------------------------------------------------------------
(* Types.                                                                  *)

SyncRow == [at : {"idle", "queued", "running"}, todo : SUBSET Listings,
            adds : SUBSET Listings, reads : SUBSET products]

LEMMA TypeInit == Init => TypeOK
BY DEF Init, TypeOK, Idle

\* The steps of a batch, and those of the syncs.
BatchStep(b) ==
  \/ Upload(b) \/ Queue(b) \/ CrashUpload(b) \/ Begin(b) \/ Parse(b) \/ Fail(b) \/ Die(b)

\* A row typed in is of a kind of its own and new.
LEMMA SyncRowGrows ==
  ASSUME TypeOK, NEW new, products' = products \cup new, UNCHANGED sync
  PROVE  sync' \in [Syncs -> SyncRow']
BY DEF TypeOK, SyncRow

LEMMA BatchTypes ==
  ASSUME TypeOK, NEW b \in Batches, BatchStep(b)
  PROVE  TypeOK'
<1> USE DEF batches, syncing, Goes, Is, Becomes, Leaves, NotQueued
<1>0. tries[b] \in Nat /\ tries[b] <= MaxRetries /\ deaths \in Nat /\ deaths <= MaxDeaths
  BY DEF TypeOK
<1>1. CASE Upload(b)
  BY <1>1 DEF Upload, TypeOK
<1>2. CASE Queue(b)
  BY <1>0, <1>2 DEF Queue, TypeOK
<1>3. CASE CrashUpload(b)
  BY <1>0, <1>3 DEF CrashUpload, TypeOK
<1>4. CASE Begin(b)
  BY <1>0, <1>4 DEF Begin, TypeOK
<1>5. CASE Parse(b)
  BY <1>5 DEF Parse, TypeOK
<1>6. CASE Fail(b)
  <2>1. /\ batch' \in [Batches -> {"none", "pending", "processing", "completed", "failed"}]
        /\ left' \subseteq Batches
    BY <1>0, <1>6 DEF Fail, TypeOK
  <2>2. /\ tries' \in [Batches -> 0..MaxRetries]
        /\ job' \in [Batches -> {"none", "posted", "queued", "running", "failing"}]
    <3>1. CASE tries[b] < MaxRetries
      <4>1. tries' = [tries EXCEPT ![b] = @ + 1] /\ job' = [job EXCEPT ![b] = "queued"]
        BY <1>6, <3>1 DEF Fail, Again
      <4>2. tries[b] + 1 \in 0..MaxRetries
        BY <1>0, <3>1
      <4>. QED  BY <4>1, <4>2 DEF TypeOK
    <3>2. CASE ~(tries[b] < MaxRetries)
      BY <1>6, <3>2 DEF Fail, Again, TypeOK
    <3>. QED  BY <3>1, <3>2
  <2>. QED  BY <1>6, <2>1, <2>2 DEF Fail, TypeOK
<1>7. CASE Die(b)
  BY <1>0, <1>7 DEF Die, TypeOK
<1>. QED  BY <1>1, <1>2, <1>3, <1>4, <1>5, <1>6, <1>7 DEF BatchStep

LEMMA SyncTypes ==
  ASSUME TypeOK, NEW s \in Syncs,
         \/ QueueSync(s) \/ StartSync(s) \/ CommitMidway(s) \/ FinishSync(s) \/ AbortSync(s)
         \/ \E l \in Listings : Look(s, l)
  PROVE  TypeOK'
<1> USE DEF batches, syncing, Turns, Idle
<1>0. sync[s] \in SyncRow /\ sync \in [Syncs -> SyncRow]
  BY DEF TypeOK, SyncRow
<1>1. CASE QueueSync(s)
  BY <1>1 DEF QueueSync, TypeOK
<1>2. CASE StartSync(s)
  <2>1. \A ls \in SUBSET Listings : [Idle EXCEPT !.at = "running", !.todo = ls] \in SyncRow
    BY DEF SyncRow
  <2>2. sync' \in [Syncs -> SyncRow]
    BY <1>0, <1>2, <2>1 DEF StartSync
  <2>. QED  BY <1>2, <2>2 DEF StartSync, TypeOK, SyncRow
<1>3. ASSUME Commits(s)
      PROVE  products' \subseteq Origins \X (1..MaxRows) /\ products \subseteq products'
  <2>1. PICK n \in [sync[s].adds -> 1..MaxRows] :
          products' = products \cup {<<l, n[l]>> : l \in sync[s].adds}
    BY <1>3 DEF Commits
  <2>2. \A l \in sync[s].adds : l \in Origins /\ n[l] \in 1..MaxRows
    BY <1>0 DEF SyncRow, Origins
  <2>. QED  BY <2>1, <2>2 DEF TypeOK
<1>4. CASE CommitMidway(s)
  <2>1. sync' \in [Syncs -> SyncRow']
    BY <1>0, <1>3, <1>4 DEF CommitMidway, SyncRow
  <2>. QED  BY <1>3, <1>4, <2>1 DEF CommitMidway, TypeOK, SyncRow
<1>5. CASE FinishSync(s)
  <2>1. sync' \in [Syncs -> SyncRow']
    BY <1>0, <1>3, <1>5 DEF FinishSync, Ends, SyncRow
  <2>. QED  BY <1>3, <1>5, <2>1 DEF FinishSync, Ends, TypeOK, SyncRow
<1>6. CASE AbortSync(s)
  BY <1>6 DEF AbortSync, Ends, TypeOK
<1>7. ASSUME NEW l \in Listings, Look(s, l) PROVE TypeOK'
  <2>1. \A p \in products :
          [sync[s] EXCEPT !.todo = @ \ {l}, !.reads = @ \cup {p}] \in SyncRow
    BY <1>0 DEF SyncRow
  <2>2. [sync[s] EXCEPT !.todo = @ \ {l}, !.adds = @ \cup {l}] \in SyncRow
    BY <1>0 DEF SyncRow
  <2>3. /\ sync' \in [Syncs -> SyncRow]
        /\ raced' = raced \/ raced' = raced \cup {l}
    <3>1. CASE UNCHANGED raced /\ \E p \in Existing(l) :
                 Turns(s, [sync[s] EXCEPT !.todo = @ \ {l}, !.reads = @ \cup {p}])
      BY <1>0, <2>1, <3>1 DEF Existing, Rows
    <3>2. CASE /\ Turns(s, [sync[s] EXCEPT !.todo = @ \ {l}, !.adds = @ \cup {l}])
               /\ raced' = IF \E t \in Syncs \ {s} : l \in sync[t].adds THEN raced \cup {l} ELSE raced
      BY <1>0, <2>2, <3>2
    <3>. QED  BY <1>7, <3>1, <3>2, Zenon DEF Look
  <2>. QED  BY <1>7, <2>3 DEF Look, TypeOK, SyncRow
<1>. QED  BY <1>1, <1>2, <1>4, <1>5, <1>6, <1>7

LEMMA UserTypes ==
  ASSUME TypeOK, Import \/ \E p \in products : Delete(p)
  PROVE  TypeOK'
<1> USE DEF batches, syncing
<1>1. CASE Import
  <2>1. sync' \in [Syncs -> SyncRow']
    BY <1>1, SyncRowGrows DEF Import
  <2>2. <<Manual, 1>> \in Origins \X (1..MaxRows)
    BY DEF Origins
  <2>. QED  BY <1>1, <2>1, <2>2 DEF Import, TypeOK, SyncRow
<1>2. ASSUME NEW p \in products, Delete(p) PROVE TypeOK'
  <2>1. sync' \in [Syncs -> SyncRow']
    <3>1. \A r \in SyncRow : [r EXCEPT !.reads = @ \ {p}] \in SyncRow'
      BY <1>2 DEF Delete, SyncRow
    <3>2. sync' = [s \in Syncs |-> [sync[s] EXCEPT !.reads = @ \ {p}]]
      BY <1>2 DEF Delete
    <3>3. \A s \in Syncs : sync[s] \in SyncRow
      BY DEF TypeOK, SyncRow
    <3>. QED  BY <3>1, <3>2, <3>3
  <2>. QED  BY <1>2, <2>1 DEF Delete, TypeOK, SyncRow
<1>. QED  BY <1>1, <1>2

LEMMA TypeStep == TypeOK /\ [Next]_vars => TypeOK'
<1> SUFFICES ASSUME TypeOK, [Next]_vars PROVE TypeOK'
  OBVIOUS
<1>1. CASE UNCHANGED vars
  BY <1>1 DEF vars, batches, syncing, TypeOK
<1>. QED  BY <1>1, BatchTypes, SyncTypes, UserTypes DEF Next, BatchStep

\* Every variable has its type; in particular, the rows a sync has read for an
\* update exist as long as it holds them.
THEOREM TypeCorrect == Spec => []TypeOK
<1>. QED  BY TypeInit, TypeStep, PTL DEF Spec

-----------------------------------------------------------------------------
(* No batch is forgotten.                                                  *)

\* A step of b's task keeps b settled, and does nothing to other batches.
LEMMA SettledStep ==
  ASSUME TypeOK, NEW b \in Batches, BatchStep(b), NEW c \in Batches, Settled(c)
  PROVE  Settled(c)'
<1> USE DEF Goes, Is, Becomes, Leaves, NotQueued, Settled
<1>0. batch = [d \in Batches |-> batch[d]] /\ job = [d \in Batches |-> job[d]]
  BY DEF TypeOK
<1>1. CASE Upload(b)
  BY <1>0, <1>1 DEF Upload
<1>2. CASE Queue(b)
  BY <1>0, <1>2 DEF Queue
<1>3. CASE CrashUpload(b)
  BY <1>0, <1>3 DEF CrashUpload
<1>4. CASE Begin(b)
  BY <1>0, <1>4 DEF Begin
<1>5. CASE Parse(b)
  BY <1>0, <1>5 DEF Parse
<1>6. CASE Fail(b)
  BY <1>0, <1>6 DEF Fail
<1>7. CASE Die(b)
  BY <1>0, <1>7 DEF Die
<1>. QED  BY <1>1, <1>2, <1>3, <1>4, <1>5, <1>6, <1>7 DEF BatchStep

AllSettled == \A b \in Batches : Settled(b)

LEMMA AllSettledStep == TypeOK /\ AllSettled /\ [Next]_vars => AllSettled'
<1> SUFFICES ASSUME TypeOK, AllSettled, [Next]_vars, NEW c \in Batches PROVE Settled(c)'
  BY DEF AllSettled
<1>0. Settled(c)
  BY DEF AllSettled
<1>1. CASE UNCHANGED batches
  BY <1>0, <1>1 DEF batches, Settled, Is
<1>2. ASSUME NEW b \in Batches, BatchStep(b) PROVE Settled(c)'
  BY <1>0, <1>2, SettledStep
<1>3. ASSUME NEW s \in Syncs,
             \/ QueueSync(s) \/ StartSync(s) \/ CommitMidway(s) \/ FinishSync(s) \/ AbortSync(s)
             \/ \E l \in Listings : Look(s, l)
      PROVE  Settled(c)'
  BY <1>1, <1>3 DEF QueueSync, StartSync, CommitMidway, FinishSync, AbortSync, Look
<1>4. ASSUME Import \/ \E p \in products : Delete(p) PROVE Settled(c)'
  BY <1>1, <1>4 DEF Import, Delete
<1>5. CASE UNCHANGED vars
  BY <1>1, <1>5 DEF vars
<1>. QED  BY <1>2, <1>3, <1>4, <1>5 DEF Next, BatchStep

\* However a batch's task is queued, retried and redelivered, the batch ends
\* marked as failed, unless a death or a refused commit left it behind.
THEOREM SettledTheorem == Spec => []BatchSettled
<1>1. Init => AllSettled
  BY DEF Init, AllSettled, Settled, Is
<1>2. AllSettled => BatchSettled
  BY DEF AllSettled, Settled, BatchSettled
<1>. QED  BY <1>1, <1>2, TypeCorrect, AllSettledStep, PTL DEF Spec

-----------------------------------------------------------------------------
(* One row for a listing.                                                  *)

\* A step that adds neither rows of a listing nor rows to come keeps it apart.
LEMMA LessIsApart ==
  ASSUME NEW l, Apart(l), Rows(l)' \subseteq Rows(l),
         \A s \in Syncs : l \in sync'[s].adds => l \in sync[s].adds
  PROVE  Apart(l)'
BY DEF Apart

\* What others write is of no listing.
LEMMA OtherRows ==
  ASSUME TypeOK, NEW l \in Listings, NEW o \in Batches \cup {Manual}, NEW n,
         products' = products \cup {<<o, n>>}
  PROVE  Rows(l)' \subseteq Rows(l)
BY DEF Rows

\* A listing that is looked up has a row, or is to have one, or has been raced for.
LEMMA LookApart ==
  ASSUME TypeOK, ListingsFit, NEW s \in Syncs, NEW k \in Listings, Look(s, k),
         NEW l \in Listings \ raced'
  PROVE  Apart(l)'
<1>0. /\ UNCHANGED products /\ Rows(l)' = Rows(l) /\ sync[s].adds \subseteq Listings
      /\ sync \in [Syncs -> SyncRow] /\ sync[s] \in SyncRow
  BY DEF Look, Rows, TypeOK, SyncRow
<1>1. CASE UNCHANGED raced /\ \E p \in Existing(k) :
             Turns(s, [sync[s] EXCEPT !.todo = @ \ {k}, !.reads = @ \cup {p}])
  <2>1. PICK p \in Existing(k) : sync' = [sync EXCEPT ![s] =
                                   [sync[s] EXCEPT !.todo = @ \ {k}, !.reads = @ \cup {p}]]
    BY <1>1 DEF Turns
  <2>2. [sync[s] EXCEPT !.todo = @ \ {k}, !.reads = @ \cup {p}].adds = sync[s].adds
    BY <1>0 DEF SyncRow
  <2>3. \A t \in Syncs : sync'[t].adds = sync[t].adds
    BY <1>0, <2>1, <2>2
  <2>. QED  BY <1>0, <1>1, <2>3, LessIsApart DEF ListingsFit
<1>2. CASE /\ Existing(k) = {}
           /\ Turns(s, [sync[s] EXCEPT !.todo = @ \ {k}, !.adds = @ \cup {k}])
           /\ raced' = IF \E t \in Syncs \ {s} : k \in sync[t].adds THEN raced \cup {k} ELSE raced
  <2>1. [sync[s] EXCEPT !.todo = @ \ {k}, !.adds = @ \cup {k}].adds = sync[s].adds \cup {k}
    BY <1>0 DEF SyncRow
  <2>2. \A t \in Syncs : sync'[t].adds = IF t = s THEN sync[t].adds \cup {k} ELSE sync[t].adds
    BY <1>0, <1>2, <2>1 DEF Turns
  <2>3. Apart(l)
    BY <1>2 DEF ListingsFit
  <2>4. CASE l # k
    BY <1>0, <2>2, <2>3, <2>4, LessIsApart
  <2>5. CASE l = k
    <3>1. Rows(l) = {} /\ \A t \in Syncs \ {s} : l \notin sync[t].adds
      BY <1>2, <2>5 DEF Existing
    <3>. QED  BY <1>0, <2>2, <3>1 DEF Apart
  <2>. QED  BY <2>4, <2>5
<1>. QED  BY <1>1, <1>2, Zenon DEF Look

\* The rows a sync commits take the place of those it was to add.
LEMMA CommitApart ==
  ASSUME TypeOK, NEW s \in Syncs, Commits(s), sync'[s].adds = {},
         \A t \in Syncs \ {s} : sync'[t] = sync[t], NEW l \in Listings, Apart(l)
  PROVE  Apart(l)'
<1>1. PICK n \in [sync[s].adds -> 1..MaxRows] :
        products' = products \cup {<<k, n[k]>> : k \in sync[s].adds}
  BY DEF Commits
<1>2. CASE l \in sync[s].adds
  <2>1. Rows(l) = {}
    BY <1>2 DEF Apart
  <2>2. Rows(l)' \subseteq {<<l, n[l]>>}
    BY <1>1, <2>1 DEF Rows
  <2>3. \A t \in Syncs : l \notin sync'[t].adds
    BY <1>2 DEF Apart
  <2>. QED  BY <2>2, <2>3 DEF Apart
<1>3. CASE l \notin sync[s].adds
  <2>1. Rows(l)' \subseteq Rows(l)
    BY <1>1, <1>3 DEF Rows
  <2>. QED  BY <2>1, LessIsApart
<1>. QED  BY <1>2, <1>3

LEMMA ListingsStep == TypeOK /\ ListingsFit /\ [Next]_vars => ListingsFit'
<1> SUFFICES ASSUME TypeOK, ListingsFit, [Next]_vars, NEW l \in Listings \ raced'
             PROVE  Apart(l)'
  BY DEF ListingsFit
<1>0. sync \in [Syncs -> SyncRow] /\ \A s \in Syncs : sync[s] \in SyncRow
  BY DEF TypeOK, SyncRow
<1>1. ASSUME UNCHANGED <<sync, raced>>, Rows(l)' \subseteq Rows(l) PROVE Apart(l)'
  BY <1>1, LessIsApart DEF ListingsFit
<1>2. ASSUME NEW b \in Batches, BatchStep(b) PROVE Apart(l)'
  <2>1. UNCHANGED <<sync, raced, products>>
    BY <1>2 DEF BatchStep, Upload, Queue, CrashUpload, Begin, Parse, Fail, Die, syncing
  <2>. QED  BY <1>1, <2>1 DEF Rows
<1>3. ASSUME NEW s \in Syncs, QueueSync(s) \/ StartSync(s) \/ AbortSync(s) PROVE Apart(l)'
  <2>1. UNCHANGED <<products, raced>>
    BY <1>3 DEF QueueSync, StartSync, AbortSync
  <2>2. \A ls : [Idle EXCEPT !.at = "running", !.todo = ls].adds = {}
    BY DEF Idle
  <2>3. /\ [Idle EXCEPT !.at = "queued"].adds = {} /\ Idle.adds = {}
    BY DEF Idle
  <2>4. \E r : r.adds = {} /\ sync' = [sync EXCEPT ![s] = r]
    <3>1. CASE StartSync(s)
      BY <2>2, <3>1 DEF StartSync, Turns
    <3>2. CASE QueueSync(s) \/ AbortSync(s)
      BY <2>3, <3>2 DEF QueueSync, AbortSync, Ends, Turns
    <3>. QED  BY <1>3, <3>1, <3>2
  <2>5. \A t \in Syncs : l \in sync'[t].adds => l \in sync[t].adds
    BY <1>0, <2>4
  <2>. QED  BY <2>1, <2>5, LessIsApart DEF ListingsFit, Rows
<1>4. ASSUME NEW s \in Syncs, CommitMidway(s) \/ FinishSync(s) PROVE Apart(l)'
  <2>1. Commits(s) /\ UNCHANGED raced
    BY <1>4 DEF CommitMidway, FinishSync
  <2>2. [sync[s] EXCEPT !.adds = {}, !.reads = {}].adds = {} /\ Idle.adds = {}
    BY <1>0 DEF Idle, SyncRow
  <2>3. sync'[s].adds = {} /\ \A t \in Syncs \ {s} : sync'[t] = sync[t]
    BY <1>0, <1>4, <2>2 DEF CommitMidway, FinishSync, Ends, Turns
  <2>. QED  BY <2>1, <2>3, CommitApart DEF ListingsFit
<1>5. CASE Import
  BY <1>1, <1>5, OtherRows DEF Import, syncing
<1>6. ASSUME NEW p \in products, Delete(p) PROVE Apart(l)'
  <2>1. Rows(l)' \subseteq Rows(l) /\ UNCHANGED raced
    BY <1>6 DEF Delete, Rows
  <2>2. \A r \in SyncRow : [r EXCEPT !.reads = @ \ {p}].adds = r.adds
    BY DEF SyncRow
  <2>3. \A t \in Syncs : sync'[t].adds = sync[t].adds
    BY <1>0, <1>6, <2>2 DEF Delete
  <2>. QED  BY <2>1, <2>3, LessIsApart DEF ListingsFit
<1>7. CASE UNCHANGED vars
  BY <1>1, <1>7 DEF vars, syncing, Rows
<1>. QED  BY <1>2, <1>3, <1>4, <1>5, <1>6, <1>7, LookApart DEF Next, BatchStep

LEMMA AtMostOne ==
  ASSUME NEW S, \A x, y \in S : x = y
  PROVE  /\ Cardinality(S) \in {0, 1} /\ (S = {} => Cardinality(S) = 0)
<1>1. S = {} \/ \E x \in S : S = {x}
  OBVIOUS
<1>. QED  BY <1>1, FS_EmptySet, FS_Singleton

\* A listing no two syncs have raced for has one row, through commits half way,
\* deletions, refused commits and redelivered tasks.
THEOREM OneRowTheorem == Spec => []OneRowPerListing
<1>1. Init => ListingsFit
  BY DEF Init, ListingsFit, Apart, Rows, Idle
<1>2. ListingsFit => OneRowPerListing
  <2> SUFFICES ASSUME ListingsFit, NEW l \in Listings \ raced
               PROVE  Cardinality(Rows(l)) + Cardinality({s \in Syncs : l \in sync[s].adds}) <= 1
    BY DEF OneRowPerListing
  <2> DEFINE A == {s \in Syncs : l \in sync[s].adds}
  <2>1. /\ \A p, q \in Rows(l) : p = q
        /\ \A s, t \in A : s = t
        /\ A = {} \/ Rows(l) = {}
    BY DEF ListingsFit, Apart
  <2>2. /\ Cardinality(Rows(l)) \in {0, 1} /\ (Rows(l) = {} => Cardinality(Rows(l)) = 0)
        /\ Cardinality(A) \in {0, 1} /\ (A = {} => Cardinality(A) = 0)
    BY <2>1, AtMostOne
  <2>. QED  BY <2>1, <2>2
<1>. QED  BY <1>1, <1>2, TypeCorrect, ListingsStep, PTL DEF Spec
=============================================================================
