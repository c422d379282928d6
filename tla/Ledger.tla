-------------------------------- MODULE Ledger --------------------------------
(***************************************************************************)
(* The financial synchronisation of one shop: sync_ledger_entries and      *)
(* sync_payment_details (financial_tasks.py), which the beat and the users *)
(* start and no lock keeps apart.                                          *)
(*                                                                         *)
(* An entry of Etsy's ledger is named by the time of its creation; Etsy    *)
(* may show it some time later.  A ledger sync asks for windows of time,   *)
(* page by page, and commits every page; the next one starts a little      *)
(* before the newest entry that is stored.                                 *)
(***************************************************************************)
EXTENDS Naturals, FiniteSets, FiniteSetsExt

CONSTANTS Tasks,     \* the workers' slots
          MaxStarts, \* bound: tasks started
          Last,      \* bound: the last moment
          Late,      \* how late Etsy may show an entry
          Buffer,    \* what a sync goes back (5 minutes)
          Window,    \* the longest range of one request (30 days)
          PageSize   \* entries of one page (100)

ASSUME LedgerAssumption ==
  /\ {MaxStarts, Last, Late, Buffer} \subseteq Nat /\ {Window, PageSize} \subseteq Nat \ {0}
  /\ Late <= Buffer

Moments == 0..Last

VARIABLES
  now,
  etsy,      \* the entries Etsy shows
  oldest,    \* it serves the oldest first
  entries,   \* ledger_entries
  payments,  \* payment_details, by the entry that led to them
  task,      \* the tasks under way
  starts,    \* tasks started so far
  status,    \* financial_sync_status
  torn,      \* a sync that Etsy served newest first ended inside a window
  crossed    \* two tasks read the status before either had written it

vars == <<now, etsy, oldest, entries, payments, task, starts, status, torn, crossed>>

Errors == {"none", "auth", "other"}
Parts  == {"ledger", "payment"}
Status == [ledger : Errors, payment : Errors, flag : BOOLEAN]
Idle   == [at |-> "idle", kind |-> "ledger", from |-> 0, to |-> 0, offset |-> 0,
           adds |-> {}, full |-> FALSE, error |-> "none",
           seen |-> [ledger |-> "none", payment |-> "none", flag |-> FALSE]]

\* Every variable has its type.
TypeOK ==
  /\ now \in Moments
  /\ etsy \subseteq 0..now /\ entries \subseteq etsy /\ payments \subseteq entries
  /\ task \in [Tasks -> [at : {"idle", "asking", "storing", "ended", "telling"}, kind : Parts,
                         from : Moments, to : Moments, offset : Nat,
                         adds : SUBSET etsy, full : BOOLEAN, error : Errors, seen : Status]]
  /\ starts \in 0..MaxStarts
  /\ status \in Status
  /\ {oldest, torn, crossed} \subseteq BOOLEAN

Init ==
  /\ oldest \in BOOLEAN
  /\ now = 0 /\ etsy = {} /\ entries = {} /\ payments = {}
  /\ task = [t \in Tasks |-> Idle]
  /\ starts = 0
  /\ status = Idle.seen
  /\ torn = FALSE /\ crossed = FALSE

(***************************************************************************)
(* Time and Etsy.                                                          *)
(***************************************************************************)
Tick ==
  /\ now < Last /\ now' = now + 1
  /\ UNCHANGED <<etsy, oldest, entries, payments, task, starts, status, torn, crossed>>

Show(e) ==
  /\ e \in 0..now \ etsy /\ e + Late >= now
  /\ etsy' = etsy \cup {e}
  /\ UNCHANGED <<now, oldest, entries, payments, task, starts, status, torn, crossed>>

(***************************************************************************)
(* The ledger.                                                             *)
(***************************************************************************)
At(t, s) == task[t].at = s
Turns(t, r) == task' = [task EXCEPT ![t] = r]
Over(k, e) == [Idle EXCEPT !.at = "ended", !.kind = k, !.error = e]
Earlier(a, b) == IF a < b THEN a ELSE b

\* Mutant: the sync starts right after the newest entry.
SinceNewest == IF entries = {} THEN 0 ELSE Max(entries) + 1

\* Where a sync starts; 0 stands for a year ago.
Since == IF entries = {} \/ Max(entries) < Buffer THEN 0 ELSE Max(entries) - Buffer

StartLedger(t, full) ==
  /\ At(t, "idle") /\ starts < MaxStarts
  /\ starts' = starts + 1
  /\ LET from == IF full THEN 0 ELSE Earlier(Since, now)
     IN Turns(t, IF from = now THEN Over("ledger", "none")
                 ELSE [Idle EXCEPT !.at = "asking", !.from = from, !.to = now])
  /\ UNCHANGED <<now, etsy, oldest, entries, payments, status, torn, crossed>>

\* Mutant: the last window is not cut at the end.
WindowEndOver(r) == r.from + Window

WindowEnd(r) == Earlier(r.from + Window, r.to)

\* The entries of r's window on the page at its offset.
Page(r) ==
  LET all == {e \in etsy : r.from <= e /\ e <= WindowEnd(r)}
      Before(e) == {f \in all : IF oldest THEN f < e ELSE f > e}
  IN {e \in all : Cardinality(Before(e)) \in r.offset .. r.offset + PageSize - 1}

\* Etsy's answer is looked up row by row: what is not stored is to be added.
AskLedger(t) ==
  /\ At(t, "asking") /\ task[t].kind = "ledger"
  /\ LET p == Page(task[t])
     IN Turns(t, [task[t] EXCEPT !.at = "storing", !.adds = p \ entries,
                                 !.full = Cardinality(p) = PageSize])
  /\ UNCHANGED <<now, etsy, oldest, entries, payments, starts, status, torn, crossed>>

\* After a page: the next one, the next window, or the end.
Onward(r) ==
  IF r.full THEN [r EXCEPT !.at = "asking", !.adds = {}, !.offset = @ + PageSize]
  ELSE IF WindowEnd(r) = r.to THEN Over("ledger", "none")
  ELSE [r EXCEPT !.at = "asking", !.adds = {}, !.from = WindowEnd(r), !.offset = 0]

\* etsy_entry_id is unique: the commit fails if another sync stored one of them.
StoreLedger(t) ==
  /\ At(t, "storing") /\ task[t].kind = "ledger"
  /\ task[t].adds \cap entries = {}
  /\ entries' = entries \cup task[t].adds
  /\ Turns(t, Onward(task[t]))
  /\ UNCHANGED <<now, etsy, oldest, payments, starts, status, torn, crossed>>

\* A sync that Etsy served newest first has left older entries of its window out.
Tears(t) == task[t].kind = "ledger" /\ ~oldest /\ task[t].offset > 0

\* The request fails, or the task is stopped at its soft limit in the middle of
\* a page: the rows added so far stay in the session, and are committed with
\* the status.
Error(t) ==
  /\ At(t, "asking") \/ (At(t, "storing") /\ task[t].adds \cap entries = {})
  /\ \E e \in IF task[t].kind = "ledger" THEN {"auth", "other"} ELSE {"other"}, edge \in Moments :
       LET kept == {a \in task[t].adds : IF oldest THEN a < edge ELSE a >= edge}
       IN /\ Turns(t, [Over(task[t].kind, e) EXCEPT !.adds = kept])
          /\ torn' = (torn \/ Tears(t) \/ (~oldest /\ kept # {}))
  /\ UNCHANGED <<now, etsy, oldest, entries, payments, starts, status, crossed>>

\* The worker dies, or a commit is refused and the session, not rolled back,
\* refuses the status as well: nothing is told, and no further shop is synced.
Die(t) ==
  /\ ~At(t, "idle")
  /\ Turns(t, Idle)
  /\ torn' = (torn \/ Tears(t))
  /\ UNCHANGED <<now, etsy, oldest, entries, payments, starts, status, crossed>>

(***************************************************************************)
(* The payments: those of stored entries, added once and never changed.    *)
(***************************************************************************)
StartPayments(t) ==
  /\ At(t, "idle") /\ starts < MaxStarts
  /\ starts' = starts + 1
  /\ Turns(t, [Idle EXCEPT !.at = "asking", !.kind = "payment"])
  /\ UNCHANGED <<now, etsy, oldest, entries, payments, status, torn, crossed>>

\* Stored entries get their payments, the newest entries first, if they have none
\* yet; a request that fails ends that, and is no failure of the task.
StorePayments(t) ==
  /\ At(t, "asking") /\ task[t].kind = "payment"
  /\ \E from \in Moments : payments' = payments \cup {e \in entries : e >= from}
  /\ Turns(t, Over("payment", "none"))
  /\ UNCHANGED <<now, etsy, oldest, entries, starts, status, torn, crossed>>

(***************************************************************************)
(* The status row: read, then written column by column where it changed.   *)
(***************************************************************************)
ReadStatus(t) ==
  /\ At(t, "ended")
  /\ Turns(t, [task[t] EXCEPT !.at = "telling", !.seen = status])
  /\ crossed' = (crossed \/ \E u \in Tasks : At(u, "telling"))
  /\ UNCHANGED <<now, etsy, oldest, entries, payments, starts, status, torn>>

Other(k) == IF k = "ledger" THEN "payment" ELSE "ledger"

\* Mutant: a success takes the flag away, whatever the other part met.
FlagOwn(r) == r.error = "auth"

\* has_auth_error: a success leaves it to the other part's last error.
Flag(r) == IF r.error = "none" THEN r.seen[Other(r.kind)] = "auth" ELSE r.error = "auth"

WriteStatus(t) ==
  /\ At(t, "telling") /\ task[t].adds \cap entries = {}
  /\ entries' = entries \cup task[t].adds
  /\ LET r == task[t]
         told == [[r.seen EXCEPT ![r.kind] = r.error] EXCEPT !.flag = Flag(r)]
     IN status' = [f \in DOMAIN status |-> IF told[f] = r.seen[f] THEN status[f] ELSE told[f]]
  /\ Turns(t, Idle)
  /\ UNCHANGED <<now, etsy, oldest, payments, starts, torn, crossed>>

Next ==
  \/ Tick
  \/ \E e \in Moments : Show(e)
  \/ \E t \in Tasks : \/ \E full \in BOOLEAN : StartLedger(t, full)
                      \/ AskLedger(t) \/ StoreLedger(t) \/ Error(t) \/ Die(t)
                      \/ StartPayments(t) \/ StorePayments(t)
                      \/ ReadStatus(t) \/ WriteStatus(t)

Spec == Init /\ [][Next]_vars

(***************************************************************************)
(* Properties.                                                             *)
(***************************************************************************)
\* A sync reads a ledger that is served newest first.
Reading(t) == task[t].kind = "ledger" /\ ~oldest /\ task[t].at \in {"asking", "storing"}

\* financial_tasks.py 443-460 and 537: no entry of Etsy is left behind where the
\* next incremental sync starts, through failures, deaths, syncs at once and
\* entries shown late; unless Etsy serves its pages newest first, and a sync
\* is under way or has ended inside a window.
NothingLeftBehind ==
  \/ torn \/ \E t \in Tasks : Reading(t)
  \/ \A e \in etsy \ entries : \A n \in entries : e + Buffer >= n

\* financial_tasks.py 229-278: while the payments are well, the flag that asks
\* the user to reconnect says what the ledger's last error was, whichever task
\* wrote last, unless two tasks wrote the row at once.
FlagTells ==
  ~crossed /\ status.payment = "none" => (status.flag <=> status.ledger = "auth")
=============================================================================
