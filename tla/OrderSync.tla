------------------------------- MODULE OrderSync -------------------------------
(***************************************************************************)
(* The orders of one shop: the rows of the orders table, the receipts Etsy *)
(* holds, and the database sessions that copy one to the other.  A process *)
(* is a Celery task (sync_orders, sync_order_by_id, reconcile_orders) or a *)
(* request (fulfill_order, record_manual_tracking), with a SQLAlchemy      *)
(* session of its own.  Everything between two calls to Etsy is a step.    *)
(*                                                                         *)
(* A session holds objects: the columns as it loaded them (base) and as it *)
(* left them (obj).  A commit writes the columns in which the two differ   *)
(* and no others.  The call to Etsy goes through the token manager on the  *)
(* same session, whose commit or rollback takes the task's pending writes  *)
(* with it and expires its objects.                                        *)
(*                                                                         *)
(* Receipts are numbered in the order Etsy creates them.  The clock gives  *)
(* every change at Etsy an update_timestamp of its own.                    *)
(***************************************************************************)
EXTENDS Naturals, FiniteSets, FiniteSetsExt

CONSTANTS Procs,      \* the sessions that run concurrently
          Codes,      \* tracking codes
          NumReceipts,\* receipts Etsy will ever hold
          EtsyStates, \* the receipt statuses Etsy uses
          Calls,      \* the kinds of call each of Procs makes
          Margin,     \* the five minutes taken off the last synced_at
          TaskLimit,  \* the five minutes after which a task is killed
          MaxChange,  \* bound: Etsy changes nothing after this time
          MaxTime,    \* bound: the clock stops
          MaxEdits,   \* bound: trackings submitted by users
          MaxFails    \* bound: crashes, failed calls, skipped receipts

Receipts  == 1 .. NumReceipts
TaskKinds == {"sync", "byid", "reconcile"}
EditKinds == {"fulfil", "manual"}

ASSUME OrderAssumption ==
  /\ Codes # {}
  /\ NumReceipts \in Nat \ {0}
  /\ EtsyStates \subseteq {"paid", "shipped", "completed", "canceled", "refunded"}
  /\ "paid" \in EtsyStates
  /\ Calls \in [Procs -> SUBSET (TaskKinds \cup EditKinds)]
  /\ {Margin, TaskLimit, MaxChange, MaxTime, MaxEdits, MaxFails} \subseteq Nat

VARIABLES
  etsy,      \* Etsy's receipts
  row,       \* the committed rows of orders
  delivered, \* orders with a "delivered" ShipmentEvent
  shipped,   \* how many "shipped" events of fulfill_order each code has
  noted,     \* codes with a "shipped" event of record_manual_tracking
  now,       \* the clock
  edits,     \* trackings submitted so far
  fails,     \* failures so far
  pc,        \* where each session is
  kind,      \* what it runs
  began,     \* when it began, for a task
  since,     \* min_last_modified of its listing; 0 lists everything
  todo,      \* receipts it still has to process
  snap,      \* the receipts as Etsy returned them to it
  base,      \* its objects as loaded; off when absent or expired
  obj,       \* its objects as they stand
  found,     \* whether its query found the order it is at
  fresh,     \* "delivered" events it has added
  code       \* the tracking code of its request

dbVars   == <<row, delivered, shipped, noted>>
bounds   == <<edits, fails>>
procVars == <<pc, kind, began, since, todo, snap, base, obj, found, fresh, code>>
vars     == <<etsy, dbVars, now, bounds, procVars>>

Shipment == [code : Codes, etsy : BOOLEAN, delivered : BOOLEAN]
Receipt  == [on : BOOLEAN, stamp : Nat, state : EtsyStates, ships : SUBSET Shipment]
Order    == [on : BOOLEAN, stamp : Nat, ships : SUBSET Shipment,
             fulfil : {"unshipped", "shipped", "delivered"},
             life : {"processing", "in_transit", "completed", "cancelled", "refunded"},
             status : {"processing", "shipped", "delivered", "cancelled", "refunded"},
             synced : Nat]

NoReceipt == [on |-> FALSE, stamp |-> 0, state |-> "paid", ships |-> {}]
NoOrder   == [on |-> FALSE, stamp |-> 0, ships |-> {}, fulfil |-> "unshipped",
              life |-> "processing", status |-> "processing", synced |-> 0]
NoOrders   == [r \in Receipts |-> NoOrder]
NoReceipts == [r \in Receipts |-> NoReceipt]

Stages == {"idle", "fetch", "look", "get", "extract", "apply",
           "submit", "record"}

TypeOK ==
  /\ etsy \in [Receipts -> Receipt]
  /\ row \in [Receipts -> Order]
  /\ delivered \subseteq Receipts
  /\ shipped \in [Receipts -> [Codes -> Nat]]
  /\ noted \in [Receipts -> SUBSET Codes]
  /\ {now, edits, fails} \subseteq Nat
  /\ pc \in [Procs -> Stages]
  /\ kind \in [Procs -> TaskKinds \cup EditKinds]
  /\ {began[p] : p \in Procs} \cup {since[p] : p \in Procs} \subseteq Nat
  /\ todo \in [Procs -> SUBSET Receipts]
  /\ snap \in [Procs -> [Receipts -> Receipt]]
  /\ base \in [Procs -> [Receipts -> Order]]
  /\ obj \in [Procs -> [Receipts -> Order]]
  /\ found \in [Procs -> BOOLEAN]
  /\ fresh \in [Procs -> SUBSET Receipts]
  /\ code \in [Procs -> Codes]

\* The first receipt has been placed, and nothing is synced yet.
Init ==
  /\ etsy = [NoReceipts EXCEPT ![1].on = TRUE, ![1].stamp = 1]
  /\ row = NoOrders
  /\ delivered = {}
  /\ shipped = [r \in Receipts |-> [c \in Codes |-> 0]]
  /\ noted = [r \in Receipts |-> {}]
  /\ now = 1 /\ edits = 0 /\ fails = 0
  /\ pc = [p \in Procs |-> "idle"]
  /\ kind = [p \in Procs |-> "sync"]
  /\ began = [p \in Procs |-> 0]
  /\ since = [p \in Procs |-> 0]
  /\ todo = [p \in Procs |-> {}]
  /\ snap = [p \in Procs |-> NoReceipts]
  /\ base = [p \in Procs |-> NoOrders]
  /\ obj = [p \in Procs |-> NoOrders]
  /\ found = [p \in Procs |-> FALSE]
  /\ fresh = [p \in Procs |-> {}]
  /\ code = [p \in Procs |-> CHOOSE c \in Codes : TRUE]

-----------------------------------------------------------------------------
(* What a receipt says of an order.                                        *)

CodesOf(ships) == {s.code : s \in ships}

FulfillmentOptimistic(e) == IF e.ships = {} THEN "unshipped" ELSE "delivered"

FulfillmentOf(e) ==
  CASE \E s \in e.ships : s.delivered            -> "delivered"
    [] e.ships # {} /\ \A s \in e.ships : ~s.delivered -> "shipped"
    [] e.ships = {} /\ e.state = "shipped"       -> "shipped"
    [] OTHER                                     -> "unshipped"

LifecycleOf(state, fulfil) ==
  CASE state = "canceled"                                -> "cancelled"
    [] state = "refunded"                                -> "refunded"
    [] state = "completed"                               -> "completed"
    [] state \in {"paid", "shipped"} /\ fulfil = "delivered" -> "completed"
    [] state \in {"paid", "shipped"} /\ fulfil = "shipped"   -> "in_transit"
    [] OTHER                                             -> "processing"

LegacyUnmapped(life, fulfil) == life

Legacy(life, fulfil) ==
  CASE life = "completed" /\ fulfil = "delivered" -> "delivered"
    [] life = "completed" /\ fulfil # "delivered" -> "shipped"
    [] life = "in_transit"                        -> "shipped"
    [] OTHER                                      -> life

OrderData(e) ==
  LET fulfil == FulfillmentOf(e)
      life   == LifecycleOf(e.state, fulfil)
  IN  [on |-> TRUE, stamp |-> e.stamp, ships |-> e.ships, fulfil |-> fulfil,
       life |-> life, status |-> Legacy(life, fulfil), synced |-> now]

MergeNothing(old, new) == new

\* sync_orders keeps the shipments Etsy does not know, behind Etsy's own.
MergeShipments(old, new) ==
  new \cup {s \in old : ~s.etsy \/ s.code \notin CodesOf({x \in new : x.etsy})}

-----------------------------------------------------------------------------
(* Sessions.                                                               *)

Goto(p, stage) == pc' = [pc EXCEPT ![p] = stage]

End(p) ==
  /\ Goto(p, "idle")
  /\ kind' = [kind EXCEPT ![p] = "sync"]
  /\ began' = [began EXCEPT ![p] = 0]
  /\ since' = [since EXCEPT ![p] = 0]
  /\ todo' = [todo EXCEPT ![p] = {}]
  /\ snap' = [snap EXCEPT ![p] = NoReceipts]
  /\ base' = [base EXCEPT ![p] = NoOrders]
  /\ obj' = [obj EXCEPT ![p] = NoOrders]
  /\ found' = [found EXCEPT ![p] = FALSE]
  /\ fresh' = [fresh EXCEPT ![p] = {}]
  /\ code' = [code EXCEPT ![p] = CHOOSE c \in Codes : TRUE]

\* The session's next statement fails, or its worker dies.
Fail == fails < MaxFails /\ fails' = fails + 1 /\ UNCHANGED edits

\* An UPDATE sets the columns in which the object differs from what was loaded.
Updated(r, from, to) ==
  [f \in DOMAIN to |-> IF to[f] = from[f] THEN row[r][f] ELSE to[f]]

Inserts(p, r) == obj[p][r].on /\ ~base[p][r].on

Saved(p) ==
  [r \in Receipts |->
    IF ~obj[p][r].on THEN row[r]
    ELSE IF Inserts(p, r) THEN obj[p][r]
    ELSE Updated(r, base[p][r], obj[p][r])]

\* What a call to Etsy does to the session that makes it: nothing; or the
\* token manager commits it (a refresh, a shop marked revoked); or rolls it
\* back (a refresh that failed).  Both expire every object the session holds.
Quiet(p) == UNCHANGED <<dbVars, base, obj, fresh, bounds>>

Expire(p) ==
  /\ base' = [base EXCEPT ![p] = NoOrders]
  /\ obj' = [obj EXCEPT ![p] = NoOrders]
  /\ fresh' = [fresh EXCEPT ![p] = {}]

CommitsEarly(p) ==
  /\ row' = Saved(p)
  /\ delivered' = delivered \cup fresh[p]
  /\ Expire(p)
  /\ UNCHANGED <<shipped, noted, bounds>>

RollsBack(p) == Fail /\ Expire(p) /\ UNCHANGED dbVars

CallsEtsy(p) == Quiet(p) \/ CommitsEarly(p) \/ RollsBack(p)

\* The order the loop is at: Etsy lists the newest receipt first.
Current(p) == Max(todo[p])

Begin(p, k, stage, work) ==
  /\ k \in Calls[p]
  /\ pc[p] = "idle"
  /\ Goto(p, stage)
  /\ kind' = [kind EXCEPT ![p] = k]
  /\ began' = [began EXCEPT ![p] = IF k \in TaskKinds THEN now ELSE 0]
  /\ todo' = [todo EXCEPT ![p] = work]
  /\ UNCHANGED <<etsy, dbVars, now, fails, snap, found, fresh>>

Load(p, orders) ==
  LET objects == [r \in Receipts |-> IF r \in orders THEN row[r] ELSE NoOrder]
  IN  base' = [base EXCEPT ![p] = objects] /\ obj' = [obj EXCEPT ![p] = objects]

-----------------------------------------------------------------------------
(* sync_orders, sync_order_by_id, reconcile_orders.                        *)

Orders == {r \in Receipts : row[r].on}
LastSynced == {r \in Orders : \A q \in Orders : row[q].synced <= row[r].synced}

\* Mutant: the five minutes are not taken off.
WindowFromLast(last) == row[last].synced

WindowFrom(last) == IF row[last].synced > Margin THEN row[last].synced - Margin ELSE 0

\* The order synced last gives the window, and stays in the identity map.
BeginSync(p) ==
  /\ Begin(p, "sync", "fetch", {})
  /\ \/ /\ Orders = {}
        /\ UNCHANGED <<since, base, obj>>
     \/ \E last \in LastSynced :
          /\ since' = [since EXCEPT ![p] = WindowFrom(last)]
          /\ Load(p, {last})
  /\ UNCHANGED <<edits, code>>

BeginById(p) ==
  /\ \E r \in Receipts : etsy[r].on /\ Begin(p, "byid", "get", {r})
  /\ UNCHANGED <<edits, since, base, obj, code>>

BeginReconcile(p) ==
  /\ Orders # {}
  /\ Begin(p, "reconcile", "look", Orders)
  /\ Load(p, Orders)
  /\ UNCHANGED <<edits, since, code>>

Listed(from) == {r \in Receipts : etsy[r].on /\ etsy[r].stamp >= from}

\* The window; everything when the window is empty.
Listing(p) == IF Listed(since[p]) = {} THEN Listed(0) ELSE Listed(since[p])

Fetch(p) ==
  /\ pc[p] = "fetch"
  /\ CallsEtsy(p)
  /\ todo' = [todo EXCEPT ![p] = Listing(p)]
  /\ snap' = [snap EXCEPT ![p] =
                [r \in Receipts |-> IF r \in Listing(p) THEN etsy[r] ELSE NoReceipt]]
  /\ since' = [since EXCEPT ![p] = 0]
  /\ Goto(p, "look")
  /\ UNCHANGED <<etsy, now, kind, began, found, code>>

\* Etsy answers get_receipt for the current order.
Get(p) ==
  /\ pc[p] = "get"
  /\ CallsEtsy(p)
  /\ snap' = [snap EXCEPT ![p][Current(p)] = etsy[Current(p)]]
  /\ Goto(p, IF kind[p] = "byid" THEN "look" ELSE "extract")
  /\ UNCHANGED <<etsy, now, kind, began, since, todo, found, code>>

\* The query for the order: a row the session has loaded keeps its columns.
Look(p) ==
  LET r == Current(p) IN
  /\ pc[p] = "look" /\ todo[p] # {}
  /\ found' = [found EXCEPT ![p] = row[r].on]
  /\ IF obj[p][r].on \/ ~row[r].on THEN UNCHANGED <<base, obj>>
     ELSE /\ base' = [base EXCEPT ![p][r] = row[r]]
          /\ obj' = [obj EXCEPT ![p][r] = row[r]]
  /\ Goto(p, IF kind[p] = "reconcile" THEN "get" ELSE "extract")
  /\ UNCHANGED <<etsy, dbVars, now, bounds, kind, began, since, todo, snap, fresh, code>>

\* _extract_order_data asks Etsy for the receipt's transactions and images.
Extract(p) ==
  /\ pc[p] = "extract"
  /\ CallsEtsy(p)
  /\ Goto(p, "apply")
  /\ UNCHANGED <<etsy, now, kind, began, since, todo, snap, found, code>>

\* The object of the current order; one that expired is loaded again.
Existing(p) == IF obj[p][Current(p)].on THEN base[p][Current(p)] ELSE row[Current(p)]

Incoming(p) == OrderData(snap[p][Current(p)])

NeverStale(p) == FALSE
StaleOrEqual(p) == Incoming(p).stamp <= Existing(p).stamp

Stale(p) == Incoming(p).stamp < Existing(p).stamp

Done(p) ==
  /\ todo' = [todo EXCEPT ![p] = @ \ {Current(p)}]
  /\ snap' = [snap EXCEPT ![p][Current(p)] = NoReceipt]
  /\ found' = [found EXCEPT ![p] = FALSE]
  /\ Goto(p, "look")
  /\ UNCHANGED <<etsy, dbVars, now, kind, began, since, code>>

Forget(p) ==
  /\ base' = [base EXCEPT ![p][Current(p)] = NoOrder]
  /\ obj' = [obj EXCEPT ![p][Current(p)] = NoOrder]
  /\ UNCHANGED fresh

SkipStale(p) ==
  /\ pc[p] = "apply" /\ found[p] /\ Stale(p)
  /\ Forget(p) /\ Done(p)
  /\ UNCHANGED bounds

\* An exception while a receipt is processed: log and continue with the next.
SkipFailed(p) ==
  /\ pc[p] = "apply"
  /\ Fail
  /\ Forget(p) /\ Done(p)

\* A newer receipt overwrites the object.  Only sync_orders merges shipments
\* and adds an event when the order turns out to be delivered.
Update(p) ==
  LET r == Current(p)
      sync == kind[p] = "sync"
      d == Incoming(p)
      merged == MergeShipments(Existing(p).ships, d.ships)
  IN
  /\ pc[p] = "apply" /\ found[p] /\ ~Stale(p)
  /\ base' = [base EXCEPT ![p][r] = Existing(p)]
  /\ obj' = [obj EXCEPT ![p][r] = IF sync THEN [d EXCEPT !.ships = merged] ELSE d]
  /\ fresh' = [fresh EXCEPT ![p] =
       IF sync /\ Existing(p).fulfil # "delivered" /\ d.fulfil = "delivered"
         THEN @ \cup {r} ELSE @]
  /\ Done(p)
  /\ UNCHANGED bounds

\* INSERT at once (flush): it waits for another session's insert of the same
\* receipt to commit or abort, ...
Waits(p, r) == \E q \in Procs \ {p} : Inserts(q, r)

Create(p) ==
  LET r == Current(p) IN
  /\ pc[p] = "apply" /\ ~found[p] /\ ~Waits(p, r) /\ ~row[r].on
  /\ obj' = [obj EXCEPT ![p][r] = Incoming(p)]
  /\ Done(p)
  /\ UNCHANGED <<base, fresh, bounds>>

\* ... and violates the unique etsy_receipt_id if that one commits: the
\* session is unusable from there on and the task loses all it had pending.
Conflict(p) ==
  /\ pc[p] = "apply" /\ ~found[p] /\ row[Current(p)].on
  /\ End(p)
  /\ UNCHANGED <<etsy, dbVars, now, bounds>>

Commit(p) ==
  /\ pc[p] = "look" /\ todo[p] = {}
  /\ row' = Saved(p)
  /\ delivered' = delivered \cup fresh[p]
  /\ End(p)
  /\ UNCHANGED <<etsy, shipped, noted, now, bounds>>

-----------------------------------------------------------------------------
(* fulfill_order and record_manual_tracking.                               *)

BeginEdit(p, k, stage) ==
  /\ edits < MaxEdits /\ edits' = edits + 1
  /\ \E r \in Orders, c \in Codes :
       /\ c \notin CodesOf(row[r].ships)
       /\ Begin(p, k, stage, {r})
       /\ Load(p, {r})
       /\ code' = [code EXCEPT ![p] = c]
  /\ UNCHANGED since

BeginFulfil(p) == BeginEdit(p, "fulfil", "submit")
BeginManual(p) == BeginEdit(p, "manual", "record")

\* No task outlives its time limit: Crash kills the one that would.
ClockRuns ==
  /\ \A p \in Procs : pc[p] # "idle" /\ kind[p] \in TaskKinds => now < began[p] + TaskLimit
  /\ now' = now + 1

\* A change at Etsy takes a clock value of its own.
EtsyUpdates(r, e) ==
  /\ now < MaxChange
  /\ ClockRuns
  /\ etsy' = [etsy EXCEPT ![r] = [e EXCEPT !.stamp = now + 1]]

WithTracking(r, c) ==
  [etsy[r] EXCEPT !.ships = @ \cup {[code |-> c, etsy |-> TRUE, delivered |-> FALSE]}]

KnownAtEtsy(p) == code[p] \in CodesOf(etsy[Current(p)].ships)

\* The session holds nothing but the order: a commit or rollback on the way
\* expires it.  The list of shipments read before the call lives on in obj.
MayExpire(p) ==
  /\ base' \in {base, [base EXCEPT ![p] = NoOrders]}
  /\ UNCHANGED <<dbVars, obj, fresh, bounds>>

Submit(p) ==
  /\ pc[p] = "submit"
  /\ ~KnownAtEtsy(p)
  /\ EtsyUpdates(Current(p), WithTracking(Current(p), code[p]))
  /\ MayExpire(p)
  /\ Goto(p, "record")
  /\ UNCHANGED <<kind, began, since, todo, snap, found, code>>

\* Etsy has the shipment, the caller an error.
ReplyLost(p) ==
  /\ pc[p] = "submit"
  /\ ~KnownAtEtsy(p)
  /\ EtsyUpdates(Current(p), WithTracking(Current(p), code[p]))
  /\ Fail
  /\ End(p)
  /\ UNCHANGED dbVars

RefusedButRecorded(p) ==
  /\ pc[p] = "submit"
  /\ \/ /\ KnownAtEtsy(p)
        /\ Goto(p, "record")
        /\ UNCHANGED <<kind, began, since, todo, snap, base, obj, found, fresh, code>>
     \/ ~KnownAtEtsy(p) /\ End(p)
  /\ UNCHANGED <<etsy, dbVars, now, bounds>>

\* "already in use" returns without recording anything; so does an error.
Refused(p) ==
  /\ pc[p] = "submit"
  /\ End(p)
  /\ UNCHANGED <<etsy, dbVars, now, bounds>>

\* Append the shipment and set the order shipped.  A list that was loaded and
\* was not empty is the very list the object had: appending to it changes the
\* loaded value too, and the UPDATE leaves the column out.
Recording(p, r, final) ==
  LET same == base[p][r].on /\ obj[p][r].ships # {}
      from == IF base[p][r].on THEN base[p][r] ELSE row[r]
      entry == [code |-> code[p], etsy |-> FALSE, delivered |-> FALSE]
      to == [from EXCEPT
               !.ships  = IF same THEN from.ships ELSE obj[p][r].ships \cup {entry},
               !.fulfil = "shipped",
               !.life   = IF @ \in {"completed", "cancelled", "refunded"} THEN @ ELSE "in_transit",
               !.status = IF @ \in final THEN @ ELSE "shipped",
               !.synced = now]
  IN  Updated(r, from, to)

RecordedOver(p, r) == Recording(p, r, {})

Recorded(p, r) == Recording(p, r, {"cancelled", "refunded"})

Record(p) ==
  LET r == Current(p) IN
  /\ pc[p] = "record"
  /\ row' = [row EXCEPT ![r] = Recorded(p, r)]
  /\ IF kind[p] = "fulfil"
       THEN shipped' = [shipped EXCEPT ![r][code[p]] = @ + 1] /\ UNCHANGED noted
       ELSE noted' = [noted EXCEPT ![r] = @ \cup {code[p]}] /\ UNCHANGED shipped
  /\ End(p)
  /\ UNCHANGED <<etsy, delivered, now, bounds>>

-----------------------------------------------------------------------------
(* Etsy, the clock, failures.                                              *)

\* A buyer places an order; the shop or a carrier moves it along.
Placed ==
  \E r \in Receipts :
    /\ ~etsy[r].on /\ etsy[r - 1].on
    /\ EtsyUpdates(r, [etsy[r] EXCEPT !.on = TRUE])

Moved ==
  \E r \in Receipts :
    /\ etsy[r].on
    /\ \/ \E s \in EtsyStates \ {etsy[r].state} : EtsyUpdates(r, [etsy[r] EXCEPT !.state = s])
       \/ \E c \in Codes \ CodesOf(etsy[r].ships) : EtsyUpdates(r, WithTracking(r, c))
       \/ \E s \in etsy[r].ships :
            /\ ~s.delivered
            /\ EtsyUpdates(r, [etsy[r] EXCEPT !.ships = (@ \ {s}) \cup {[s EXCEPT !.delivered = TRUE]}])

EtsyChanges == (Placed \/ Moved) /\ UNCHANGED <<dbVars, bounds, procVars>>

Tick == now < MaxTime /\ ClockRuns /\ UNCHANGED <<etsy, dbVars, bounds, procVars>>

\* The worker dies, the time limit kills the task, or a call to Etsy raises.
Crash(p) ==
  /\ pc[p] # "idle"
  /\ Fail
  /\ End(p)
  /\ UNCHANGED <<etsy, dbVars, now>>

TaskStep(p) ==
  \/ Fetch(p) \/ Get(p) \/ Look(p) \/ Extract(p)
  \/ SkipStale(p) \/ Update(p) \/ Create(p) \/ Conflict(p) \/ Commit(p)

EditStep(p) == Submit(p) \/ Refused(p) \/ Record(p)

Next ==
  \/ EtsyChanges \/ Tick
  \/ \E p \in Procs :
       \/ BeginSync(p) \/ BeginById(p) \/ BeginReconcile(p)
       \/ BeginFulfil(p) \/ BeginManual(p)
       \/ TaskStep(p) \/ SkipFailed(p) \/ EditStep(p) \/ ReplyLost(p) \/ Crash(p)

Spec == Init /\ [][Next]_vars

\* Beat starts sync_orders every 15 minutes, a started task or request runs
\* on, and time passes; MaxFails makes the failures finitely many.
FairSpec ==
  /\ Spec
  /\ WF_vars(Tick)
  /\ \A p \in Procs : WF_vars(BeginSync(p)) /\ WF_vars(TaskStep(p)) /\ WF_vars(EditStep(p))

-----------------------------------------------------------------------------
(* Properties.                                                             *)

\* What the database says comes from Etsy: no order is newer than its receipt,
\* a shipment with Etsy's id exists there, and only a receipt with a delivered
\* shipment makes an order, or an event, "delivered".
RowFromEtsy ==
  \A r \in Receipts :
    /\ row[r].stamp <= etsy[r].stamp
    /\ \A s \in row[r].ships : s.etsy =>
         \E t \in etsy[r].ships : t.code = s.code /\ (s.delivered => t.delivered)
    /\ row[r].fulfil = "delivered" \/ r \in delivered =>
         \E t \in etsy[r].ships : t.delivered

\* fulfill_order records a tracking at most once, and only one that Etsy took:
\* two users who submit the same code at once, a reply that is lost and a
\* retry leave one "shipped" event.
EventsAtEtsy ==
  \A r \in Receipts, c \in Codes :
    /\ shipped[r][c] <= 1
    /\ shipped[r][c] = 1 => c \in CodesOf(etsy[r].ships)

\* A column a session is about to write, and nobody wrote since it was loaded.
Undisturbed(p, r, columns) ==
  /\ obj[p][r].on /\ base[p][r].on /\ row[r].on
  /\ \A f \in columns : base[p][r][f] = row[r][f]

\* The stale guard: whatever a task commits next, an order whose
\* etsy_updated_at no other session moved does not go back in Etsy's time.
NeverBackInTime ==
  \A p \in Procs, r \in Receipts :
    Undisturbed(p, r, {"stamp"}) => Saved(p)[r].stamp >= row[r].stamp

\* The merge of sync_orders: a tracking that only the platform knows survives
\* whatever it commits next, if no other session wrote the shipments.
SyncKeepsTracking ==
  \A p \in Procs, r \in Receipts :
    kind[p] = "sync" /\ Undisturbed(p, r, {"ships"})
      => {s \in row[r].ships : ~s.etsy} \subseteq Saved(p)[r].ships

\* The three status columns are written one by one, each only if it changed:
\* the legacy status still is the one its lifecycle and fulfilment stand for.
StatusAgrees(o) == o.status = Legacy(o.life, o.fulfil)

StatusKept ==
  \A p \in Procs, r \in Receipts :
    Undisturbed(p, r, {"fulfil", "life", "status"}) /\ StatusAgrees(row[r]) =>
      IF pc[p] = "record" THEN StatusAgrees(Recorded(p, r)) ELSE StatusAgrees(Saved(p)[r])

\* Once Etsy and the users have fallen silent, so that a window comes up empty
\* and the full listing follows (MaxChange < MaxTime - Margin), every order comes
\* to say what its receipt says and stays so, whatever concurrent sessions,
\* crashes and rollbacks did to it on the way.
Agrees(r) ==
  LET d == OrderData(etsy[r]) IN
  \A f \in {"on", "stamp", "fulfil", "life", "status"} : row[r][f] = d[f]

EventuallyAgrees ==
  <>[](\A r \in Receipts : etsy[r].on => Agrees(r))

\* Receipts of which the database has nothing, or not the latest.
Behind == {r \in Receipts : etsy[r].on /\ row[r].stamp < etsy[r].stamp}

\* What an incremental listing leaves out, the database already has: "Subtract
\* 5 minutes for safety (avoid missing updates)".
NothingMissed ==
  [][\A p \in Procs : Fetch(p) => Behind \subseteq todo'[p]]_vars

\* p's syncs, one after the other, are all that has set a synced_at so far, and
\* none of them has failed.
OnlySyncs(p) ==
  /\ Calls[p] \cap TaskKinds = {"sync"}
  /\ \A q \in Procs \ {p} : Calls[q] \cap TaskKinds = {}
  /\ edits = 0 /\ fails = 0

\* The same, as far as it is true: for syncs alone the five minutes are enough.
\* They have to make up for a whole run: a receipt changes after the listing, the
\* run goes on to stamp other orders up to its time limit, and the next window
\* starts at the last of these stamps.
SyncsMissNothing ==
  [][\A p \in Procs : Fetch(p) /\ OnlySyncs(p) => Behind \subseteq todo'[p]]_vars

\* A tracking whose event is recorded is among the order's shipments: the
\* column "supports multiple shipments".
TrackingRecorded ==
  \A r \in Receipts : noted[r] \subseteq CodesOf(row[r].ships)

\* Tracking that only the platform has is not dropped from an order: "Keep
\* platform-only shipments".
PlatformKept ==
  [][\A r \in Receipts :
       \A s \in row[r].ships : ~s.etsy => s.code \in CodesOf(row'[r].ships)]_vars
=============================================================================
