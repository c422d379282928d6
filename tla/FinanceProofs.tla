---------------------------- MODULE FinanceProofs ----------------------------
(***************************************************************************)
(* Proofs about Ledger, for any tasks, times, windows and pages; and about *)
(* what is worked out from the rows it stores and from the orders: the     *)
(* rates (Rates), the reports (Reports) and the pages of the orders        *)
(* (OrderViews), for every input of the kind the code meets.               *)
(***************************************************************************)
EXTENDS Ledger, OrderViews, FiniteSetTheorems, WellFoundedInduction, TLAPS

USE LedgerAssumption

-----------------------------------------------------------------------------
(* Types.                                                                  *)

TaskRow == [at : {"idle", "asking", "storing", "ended", "telling"}, kind : Parts,
            from : Moments, to : Moments, offset : Nat,
            adds : SUBSET etsy, full : BOOLEAN, error : Errors, seen : Status]

\* A set of moments that is not empty has a greatest: the least distance to the
\* last moment.
LEMMA Greatest ==
  ASSUME NEW S, S \subseteq Moments, S # {}
  PROVE  Max(S) \in S
<1> DEFINE T == {Last - e : e \in S}
<1>1. T \subseteq Nat /\ T # {}
  BY DEF Moments
<1>2. PICK x \in T : \A y \in T : ~(<<y, x>> \in OpToRel(<, Nat))
  BY <1>1, WFMin, NatLessThanWellFounded
<1>3. \A y \in T : ~(y < x)
  BY <1>1, <1>2 DEF OpToRel
<1>4. PICK e \in S : x = Last - e
  OBVIOUS
<1>5. \A f \in S : e >= f
  <2> TAKE f \in S
  <2>1. ~(Last - f < Last - e)
    BY <1>3, <1>4
  <2>. QED  BY <2>1 DEF Moments
<1>. QED  BY <1>5 DEF Max

LEMMA IdleTypes ==
  /\ Idle \in TaskRow
  /\ \A k \in Parts, e \in Errors : Over(k, e) \in TaskRow
<1>1. Idle.seen \in Status
  BY DEF Idle, Status, Errors
<1>2. 0 \in Moments /\ "ledger" \in Parts /\ "none" \in Errors
  BY DEF Moments, Parts, Errors
<1>3. Idle \in TaskRow
  <2>1. [ledger |-> "none", payment |-> "none", flag |-> FALSE] \in Status
    BY <1>1 DEF Idle
  <2>. QED  BY <1>2, <2>1 DEF Idle, TaskRow
<1>4. ASSUME NEW k \in Parts, NEW e \in Errors PROVE Over(k, e) \in TaskRow
  BY <1>3, <1>4 DEF Over, TaskRow
<1>. QED  BY <1>3, <1>4

\* A window ends between its beginning and the end of the sync.
LEMMA WindowTypes ==
  ASSUME NEW r \in TaskRow
  PROVE  WindowEnd(r) \in Moments
BY DEF TaskRow, WindowEnd, Earlier, Moments

LEMMA OnwardTypes ==
  ASSUME NEW r \in TaskRow
  PROVE  Onward(r) \in TaskRow
<1>1. r.offset + PageSize \in Nat
  BY DEF TaskRow
<1>2. [r EXCEPT !.at = "asking", !.adds = {}, !.offset = @ + PageSize] \in TaskRow
  BY <1>1 DEF TaskRow
<1>3. [r EXCEPT !.at = "asking", !.adds = {}, !.from = WindowEnd(r), !.offset = 0] \in TaskRow
  BY WindowTypes DEF TaskRow
<1>4. Over("ledger", "none") \in TaskRow
  BY IdleTypes DEF Parts, Errors
<1>. QED  BY <1>2, <1>3, <1>4 DEF Onward

\* A sync starts at a moment.
LEMMA SinceTypes ==
  ASSUME TypeOK
  PROVE  Earlier(Since, now) \in Moments
<1>1. entries \subseteq Moments /\ now \in Moments
  BY DEF TypeOK, Moments
<1>2. entries # {} => Max(entries) \in Moments
  BY <1>1, Greatest
<1>. QED  BY <1>1, <1>2 DEF Since, Earlier, Moments

\* A step of t that leaves Etsy alone and gives t a row that fits keeps the types
\* of the tasks.
LEMMA TurnTypes ==
  ASSUME TypeOK, NEW t \in Tasks, NEW r \in TaskRow, Turns(t, r), UNCHANGED etsy
  PROVE  task' \in [Tasks -> TaskRow']
BY DEF TypeOK, TaskRow, Turns

TypeInv ==
  /\ now \in Moments
  /\ etsy \subseteq 0..now /\ entries \subseteq etsy /\ payments \subseteq entries
  /\ task \in [Tasks -> TaskRow]
  /\ starts \in 0..MaxStarts
  /\ status \in Status
  /\ oldest \in BOOLEAN /\ torn \in BOOLEAN /\ crossed \in BOOLEAN

LEMMA TypeIs == TypeOK <=> TypeInv
BY DEF TypeOK, TypeInv, TaskRow

LEMMA TypeInit == Init => TypeInv
<1> SUFFICES ASSUME Init PROVE TypeInv
  OBVIOUS
<1>1. torn \in BOOLEAN /\ crossed \in BOOLEAN /\ oldest \in BOOLEAN
  BY Zenon DEF Init
<1>2. Idle.seen \in Status
  BY IdleTypes DEF TaskRow
<1>. QED  BY <1>1, <1>2, IdleTypes DEF Init, TypeInv, Moments

\* What a task tells: the error of its part, the other part's as it read it, and
\* the flag; what it found is not written again.
Told(t) ==
  LET r == task[t]
  IN [ledger  |-> IF r.kind = "ledger" THEN r.error ELSE r.seen.ledger,
      payment |-> IF r.kind = "payment" THEN r.error ELSE r.seen.payment,
      flag    |-> Flag(r)]

LEMMA ToldIs ==
  ASSUME TypeInv, NEW t \in Tasks, WriteStatus(t)
  PROVE  /\ status' \in Status
         /\ task[t].seen = status => status' = Told(t)
<1> DEFINE r == task[t]
           flag == Flag(r)
           mid == [r.seen EXCEPT ![r.kind] = r.error]
           told == [mid EXCEPT !.flag = flag]
           row == [f \in {"ledger", "payment", "flag"} |->
                     IF told[f] = r.seen[f] THEN status[f] ELSE told[f]]
<1>1. r \in TaskRow /\ status \in Status
  BY DEF TypeInv
<1>2. r.seen \in Status /\ r.kind \in Parts /\ r.error \in Errors
  BY <1>1 DEF TaskRow
<1>3. flag \in BOOLEAN
  BY DEF Flag
<1>4. told = Told(t)
  <2>. HIDE DEF flag
  <2>1. flag = Flag(r)
    BY DEF flag
  <2>2. mid \in Status /\ mid = [ledger  |-> IF r.kind = "ledger" THEN r.error ELSE r.seen.ledger,
                                payment |-> IF r.kind = "payment" THEN r.error ELSE r.seen.payment,
                                flag    |-> r.seen.flag]
    <3>1. CASE r.kind = "ledger"
      BY <1>2, <3>1 DEF Status
    <3>2. CASE r.kind = "payment"
      BY <1>2, <3>2 DEF Status
    <3>. QED  BY <1>2, <3>1, <3>2 DEF Parts
  <2>3. told = [ledger |-> mid.ledger, payment |-> mid.payment, flag |-> flag]
    <3>. HIDE DEF mid
    <3>. QED  BY <1>3, <2>2 DEF Status
  <2>4. /\ mid.ledger = IF r.kind = "ledger" THEN r.error ELSE r.seen.ledger
        /\ mid.payment = IF r.kind = "payment" THEN r.error ELSE r.seen.payment
    <3>. HIDE DEF mid
    <3>. QED  BY <2>2
  <2>. HIDE DEF mid, told
  <2>. QED  BY <2>1, <2>3, <2>4, Zenon DEF Told
<1>5. Told(t) \in Status
  BY <1>2, <1>3, Zenon DEF Told, Status
<1>6. DOMAIN status = {"ledger", "payment", "flag"}
  BY <1>1 DEF Status
<1>7. status' = row
  BY <1>6 DEF WriteStatus
<1>. HIDE DEF told
<1>8. row \in Status
  BY <1>1, <1>2, <1>4, <1>5 DEF Status
<1>9. ASSUME r.seen = status PROVE row = told
  <2>1. row = [f \in {"ledger", "payment", "flag"} |-> told[f]]
    BY <1>9
  <2>. QED  BY <1>4, <1>5, <2>1 DEF Status
<1>. QED  BY <1>4, <1>7, <1>8, <1>9

LEMMA TypeStep == TypeInv /\ [Next]_vars => TypeInv'
<1> SUFFICES ASSUME TypeInv, [Next]_vars PROVE TypeInv'
  OBVIOUS
<1>0. TypeOK /\ \A t \in Tasks : task[t] \in TaskRow
  BY TypeIs DEF TypeInv
<1>1. CASE Tick
  BY <1>1 DEF Tick, TypeInv, TaskRow, Moments
<1>2. ASSUME NEW e \in Moments, Show(e) PROVE TypeInv'
  BY <1>2 DEF Show, TypeInv, TaskRow
<1>3. ASSUME NEW t \in Tasks, NEW full \in BOOLEAN, StartLedger(t, full) PROVE TypeInv'
  <2> DEFINE from == IF full THEN 0 ELSE Earlier(Since, now)
             row == [Idle EXCEPT !.at = "asking", !.from = from, !.to = now]
  <2>1. from \in Moments
    BY <1>0, SinceTypes DEF Moments
  <2>2. row \in TaskRow
    <3>. HIDE DEF from
    <3>. QED  BY <2>1, IdleTypes DEF TaskRow, TypeInv
  <2>3. Turns(t, Over("ledger", "none")) \/ Turns(t, row)
    BY <1>3 DEF StartLedger
  <2>4. Over("ledger", "none") \in TaskRow
    BY IdleTypes DEF Parts, Errors
  <2>5. task' \in [Tasks -> TaskRow']
    <3>. HIDE DEF row
    <3>. QED  BY <1>0, <1>3, <2>2, <2>3, <2>4, TurnTypes DEF StartLedger
  <2>. QED  BY <1>3, <2>5 DEF StartLedger, TypeInv
<1>4. ASSUME NEW t \in Tasks, AskLedger(t) PROVE TypeInv'
  <2> DEFINE p == Page(task[t])
             more == Cardinality(p) = PageSize
  <2>1. p \subseteq etsy /\ more \in BOOLEAN
    BY DEF Page
  <2>2. [task[t] EXCEPT !.at = "storing", !.adds = p \ entries, !.full = more] \in TaskRow
    <3>. HIDE DEF p, more
    <3>. QED  BY <1>0, <2>1 DEF TaskRow
  <2>3. task' \in [Tasks -> TaskRow']
    BY <1>0, <1>4, <2>2, TurnTypes DEF AskLedger
  <2>. QED  BY <1>4, <2>3 DEF AskLedger, TypeInv
<1>5. ASSUME NEW t \in Tasks, StoreLedger(t) PROVE TypeInv'
  <2>1. task' \in [Tasks -> TaskRow']
    BY <1>0, <1>5, OnwardTypes, TurnTypes DEF StoreLedger
  <2>2. task[t].adds \subseteq etsy
    BY <1>0 DEF TaskRow
  <2>. QED  BY <1>5, <2>1, <2>2 DEF StoreLedger, TypeInv
<1>6. ASSUME NEW t \in Tasks, Error(t) PROVE TypeInv'
  <2>1. PICK e \in Errors, kept \in SUBSET task[t].adds :
          /\ Turns(t, [Over(task[t].kind, e) EXCEPT !.adds = kept])
          /\ torn' = (torn \/ Tears(t) \/ (~oldest /\ kept # {}))
    <3>1. PICK e \in IF task[t].kind = "ledger" THEN {"auth", "other"} ELSE {"other"},
               edge \in Moments :
            LET kept == {a \in task[t].adds : IF oldest THEN a < edge ELSE a >= edge}
            IN /\ Turns(t, [Over(task[t].kind, e) EXCEPT !.adds = kept])
               /\ torn' = (torn \/ Tears(t) \/ (~oldest /\ kept # {}))
      BY <1>6 DEF Error
    <3>2. e \in Errors
      BY DEF Errors
    <3>. QED  BY <3>1, <3>2
  <2>2. torn' \in BOOLEAN
    BY <2>1, Zenon DEF TypeInv
  <2>3. Over(task[t].kind, e) \in TaskRow /\ kept \subseteq etsy
    BY <1>0, IdleTypes DEF TaskRow
  <2>4. [Over(task[t].kind, e) EXCEPT !.adds = kept] \in TaskRow
    BY <2>3 DEF TaskRow
  <2>5. task' \in [Tasks -> TaskRow']
    BY <1>0, <1>6, <2>1, <2>4, TurnTypes DEF Error
  <2>. QED  BY <1>6, <2>2, <2>5 DEF Error, TypeInv
<1>7. ASSUME NEW t \in Tasks, Die(t) PROVE TypeInv'
  <2>1. torn' \in BOOLEAN
    BY <1>7, Zenon DEF Die, TypeInv
  <2>2. task' \in [Tasks -> TaskRow']
    BY <1>0, <1>7, IdleTypes, TurnTypes DEF Die
  <2>. QED  BY <1>7, <2>1, <2>2 DEF Die, TypeInv
<1>8. ASSUME NEW t \in Tasks, StartPayments(t) PROVE TypeInv'
  <2>1. [Idle EXCEPT !.at = "asking", !.kind = "payment"] \in TaskRow
    BY IdleTypes DEF TaskRow, Parts
  <2>2. task' \in [Tasks -> TaskRow']
    BY <1>0, <1>8, <2>1, TurnTypes DEF StartPayments
  <2>. QED  BY <1>8, <2>2 DEF StartPayments, TypeInv
<1>9. ASSUME NEW t \in Tasks, StorePayments(t) PROVE TypeInv'
  <2>1. Over("payment", "none") \in TaskRow
    BY IdleTypes DEF Parts, Errors
  <2>2. task' \in [Tasks -> TaskRow']
    BY <1>0, <1>9, <2>1, TurnTypes DEF StorePayments
  <2>. QED  BY <1>9, <2>2 DEF StorePayments, TypeInv
<1>10. ASSUME NEW t \in Tasks, ReadStatus(t) PROVE TypeInv'
  <2>1. [task[t] EXCEPT !.at = "telling", !.seen = status] \in TaskRow
    BY <1>0 DEF TaskRow, TypeInv
  <2>2. task' \in [Tasks -> TaskRow']
    BY <1>0, <1>10, <2>1, TurnTypes DEF ReadStatus
  <2>3. crossed' \in BOOLEAN
    BY <1>10, Zenon DEF ReadStatus, TypeInv
  <2>. QED  BY <1>10, <2>2, <2>3 DEF ReadStatus, TypeInv
<1>11. ASSUME NEW t \in Tasks, WriteStatus(t) PROVE TypeInv'
  <2>1. task' \in [Tasks -> TaskRow'] /\ task[t].adds \subseteq etsy
    BY <1>0, <1>11, IdleTypes, TurnTypes DEF WriteStatus, TaskRow
  <2>2. status' \in Status
    BY <1>11, ToldIs
  <2>. QED  BY <1>11, <2>1, <2>2 DEF WriteStatus, TypeInv
<1>12. CASE UNCHANGED vars
  BY <1>12 DEF vars, TypeInv, TaskRow
<1>. QED
  BY <1>1, <1>2, <1>3, <1>4, <1>5, <1>6, <1>7, <1>8, <1>9, <1>10, <1>11, <1>12 DEF Next

\* Every variable has its type: what is stored came from Etsy, and payments belong
\* to stored entries.
THEOREM TypeCorrect == Spec => []TypeOK
<1>. QED  BY TypeIs, TypeInit, TypeStep, PTL DEF Spec

-----------------------------------------------------------------------------
(* The flag.                                                               *)

\* Until two tasks are about to write the status at once, the one that is writes
\* over what it read.
StatusFit ==
  ~crossed =>
    /\ \A t, u \in Tasks : At(t, "telling") /\ At(u, "telling") => t = u
    /\ \A t \in Tasks : At(t, "telling") => task[t].seen = status

LEMMA FlagStep == TypeInv /\ StatusFit /\ FlagTells /\ [Next]_vars => StatusFit' /\ FlagTells'
<1> SUFFICES ASSUME TypeInv, StatusFit, FlagTells, [Next]_vars PROVE StatusFit' /\ FlagTells'
  OBVIOUS
<1>0. task \in [Tasks -> TaskRow]
  BY DEF TypeInv
<1>1. ASSUME UNCHANGED <<crossed, status>>,
             \A u \in Tasks : At(u, "telling")' => At(u, "telling") /\ task'[u] = task[u]
      PROVE  StatusFit' /\ FlagTells'
  BY <1>1 DEF StatusFit, FlagTells, At
<1>2. ASSUME NEW t \in Tasks, NEW r, r.at # "telling", Turns(t, r), UNCHANGED <<crossed, status>>
      PROVE  StatusFit' /\ FlagTells'
  BY <1>0, <1>1, <1>2 DEF Turns, At
<1>3. \A k, e, a : /\ Over(k, e).at = "ended"
                   /\ [Over(k, e) EXCEPT !.adds = a].at = "ended"
                   /\ [Idle EXCEPT !.at = "asking", !.kind = k].at = "asking"
                   /\ [Idle EXCEPT !.at = "asking", !.from = k, !.to = e].at = "asking"
                   /\ Idle.at = "idle"
  BY DEF Over, Idle
<1>4. ASSUME NEW t \in Tasks, NEW full, StartLedger(t, full) PROVE StatusFit' /\ FlagTells'
  BY <1>2, <1>3, <1>4 DEF StartLedger
<1>5. ASSUME NEW t \in Tasks, AskLedger(t) PROVE StatusFit' /\ FlagTells'
  <2>1. \A a, f : [task[t] EXCEPT !.at = "storing", !.adds = a, !.full = f].at = "storing"
    BY <1>0 DEF TaskRow
  <2>. QED  BY <1>2, <1>5, <2>1 DEF AskLedger
<1>6. ASSUME NEW t \in Tasks, StoreLedger(t) PROVE StatusFit' /\ FlagTells'
  <2>1. Onward(task[t]).at # "telling"
    BY <1>0, <1>3 DEF Onward, TaskRow
  <2>. QED  BY <1>2, <1>6, <2>1 DEF StoreLedger
<1>7. ASSUME NEW t \in Tasks, Error(t) PROVE StatusFit' /\ FlagTells'
  <2>1. \E r : r.at = "ended" /\ Turns(t, r)
    <3>1. PICK e, kept : Turns(t, [Over(task[t].kind, e) EXCEPT !.adds = kept])
      BY <1>7 DEF Error
    <3>2. [Over(task[t].kind, e) EXCEPT !.adds = kept].at = "ended"
      BY DEF Over, Idle
    <3>. QED  BY <3>1, <3>2, Zenon
  <2>. QED  BY <1>2, <1>7, <2>1 DEF Error
<1>8. ASSUME NEW t \in Tasks, Die(t) PROVE StatusFit' /\ FlagTells'
  BY <1>2, <1>3, <1>8 DEF Die
<1>9. ASSUME NEW t \in Tasks, StartPayments(t) PROVE StatusFit' /\ FlagTells'
  BY <1>2, <1>3, <1>9 DEF StartPayments
<1>10. ASSUME NEW t \in Tasks, StorePayments(t) PROVE StatusFit' /\ FlagTells'
  BY <1>2, <1>3, <1>10 DEF StorePayments
<1>11. ASSUME NEW t \in Tasks, ReadStatus(t) PROVE StatusFit' /\ FlagTells'
  <2>1. /\ task' = [task EXCEPT ![t] = [task[t] EXCEPT !.at = "telling", !.seen = status]]
        /\ crossed' = (crossed \/ \E u \in Tasks : At(u, "telling"))
        /\ UNCHANGED status
    BY <1>11 DEF ReadStatus, Turns
  <2>2. CASE crossed \/ \E u \in Tasks : At(u, "telling")
    BY <2>1, <2>2, Zenon DEF StatusFit, FlagTells
  <2>3. CASE ~crossed /\ \A u \in Tasks : ~At(u, "telling")
    <3>1. [task[t] EXCEPT !.at = "telling", !.seen = status].seen = status
      BY <1>0 DEF TaskRow
    <3>2. task'[t].seen = status' /\ \A u \in Tasks : At(u, "telling")' => u = t
      BY <1>0, <2>1, <2>3, <3>1 DEF At
    <3>3. FlagTells'
      BY <2>1, <2>3 DEF FlagTells
    <3>. QED  BY <3>2, <3>3 DEF StatusFit
  <2>. QED  BY <2>2, <2>3
<1>12. ASSUME NEW t \in Tasks, WriteStatus(t) PROVE StatusFit' /\ FlagTells'
  <2>1. At(t, "telling") /\ task' = [task EXCEPT ![t] = Idle] /\ UNCHANGED crossed
    BY <1>12 DEF WriteStatus, Turns
  <2>2. CASE crossed
    BY <2>1, <2>2 DEF StatusFit, FlagTells
  <2>3. CASE ~crossed
    <3>1. status' = Told(t) /\ task[t].seen = status
      BY <1>12, <2>1, <2>3, ToldIs DEF StatusFit
    <3>2. \A u \in Tasks : ~At(u, "telling")'
      BY <1>0, <1>3, <2>1, <2>3 DEF StatusFit, At
    <3>3. FlagTells'
      <4>1. /\ status'.ledger = IF task[t].kind = "ledger" THEN task[t].error ELSE status.ledger
            /\ status'.payment = IF task[t].kind = "payment" THEN task[t].error ELSE status.payment
            /\ status'.flag = Flag(task[t])
        BY <3>1, Zenon DEF Told
      <4>2. CASE task[t].kind = "ledger"
        <5>1. status'.payment = "none" =>
                (status'.flag <=> status'.ledger = "auth")
          BY <3>1, <4>1, <4>2 DEF Flag, Other
        <5>. QED  BY <5>1 DEF FlagTells
      <4>3. CASE task[t].kind = "payment"
        <5>1. status'.payment = "none" =>
                (status'.flag <=> status'.ledger = "auth")
          BY <3>1, <4>1, <4>3 DEF Flag, Other
        <5>. QED  BY <5>1 DEF FlagTells
      <4>. QED  BY <1>0, <4>2, <4>3 DEF TaskRow, Parts
    <3>. QED  BY <3>2, <3>3 DEF StatusFit
  <2>. QED  BY <2>2, <2>3
<1>13. CASE Tick \/ (\E e \in Moments : Show(e)) \/ UNCHANGED vars
  BY <1>1, <1>13 DEF Tick, Show, vars, At
<1>. QED
  BY <1>4, <1>5, <1>6, <1>7, <1>8, <1>9, <1>10, <1>11, <1>12, <1>13 DEF Next

\* While payments are well, the flag says what the ledger's last error was, for
\* any number of tasks, unless two tasks wrote the status at once.
THEOREM FlagTheorem == Spec => []FlagTells
<1>1. Init => StatusFit /\ FlagTells
  BY DEF Init, StatusFit, FlagTells, At, Idle
<1>. QED  BY <1>1, TypeInit, TypeStep, FlagStep, PTL DEF Spec

-----------------------------------------------------------------------------
(* Pages.                                                                  *)

\* The entries of a sync's window, those that Etsy serves before e, and how
\* many they are.
Due(r)      == {e \in etsy : r.from <= e /\ e <= WindowEnd(r)}
Prior(r, e) == {f \in Due(r) : IF oldest THEN f < e ELSE f > e}
Rank(r, e)  == Cardinality(Prior(r, e))

LEMMA IntervalSize ==
  ASSUME NEW a \in Nat, NEW n \in Nat
  PROVE  IsFiniteSet(a .. a + n - 1) /\ Cardinality(a .. a + n - 1) = n
<1> DEFINE b == a + n - 1
<1>1. b \in Int /\ a \in Int /\ (IF a > b THEN 0 ELSE b - a + 1) = n
  OBVIOUS
<1> HIDE DEF b
<1>2. IsFiniteSet(a .. b) /\ Cardinality(a .. b) = n
  BY <1>1, FS_Interval
<1>. QED  BY <1>2 DEF b

LEMMA RankTypes ==
  ASSUME TypeInv, NEW r \in TaskRow
  PROVE  /\ IsFiniteSet(Due(r)) /\ Due(r) \subseteq Nat
         /\ \A e : IsFiniteSet(Prior(r, e)) /\ Rank(r, e) \in Nat
<1>1. IsFiniteSet(0..now)
  BY FS_Interval DEF TypeInv, Moments
<1>2. Due(r) \in SUBSET (0..now)
  BY DEF Due, TypeInv
<1>3. IsFiniteSet(Due(r))
  BY <1>1, <1>2, FS_Subset
<1>4. ASSUME NEW e PROVE IsFiniteSet(Prior(r, e)) /\ Rank(r, e) \in Nat
  <2>1. Prior(r, e) \in SUBSET Due(r)
    BY DEF Prior
  <2>. QED  BY <1>3, <2>1, FS_Subset, FS_CardinalityType DEF Rank
<1>. QED  BY <1>2, <1>3, <1>4 DEF TypeInv, Moments

\* Ranks are in the order Etsy serves the window in.
LEMMA RankOrder ==
  ASSUME TypeInv, NEW r \in TaskRow, NEW e \in Due(r), NEW f \in Prior(r, e)
  PROVE  Rank(r, f) < Rank(r, e)
<1>1. e \in Nat /\ f \in Nat /\ f \in Due(r) /\ Due(r) \subseteq Nat
  BY RankTypes DEF Prior
<1>2. Prior(r, f) \in SUBSET Prior(r, e) /\ f \notin Prior(r, f)
  BY <1>1 DEF Prior
<1>3. /\ IsFiniteSet(Prior(r, e))
      /\ Cardinality(Prior(r, e)) \in Nat /\ Cardinality(Prior(r, f)) \in Nat
  BY RankTypes DEF Rank
<1>4. /\ Cardinality(Prior(r, f)) <= Cardinality(Prior(r, e))
      /\ Cardinality(Prior(r, e)) = Cardinality(Prior(r, f)) => Prior(r, e) = Prior(r, f)
  BY <1>2, <1>3, FS_Subset
<1>. QED  BY <1>2, <1>3, <1>4 DEF Rank

\* Each of the places 0, 1, ... of a window is the rank of one of its entries.
LEMMA Ranking ==
  ASSUME TypeInv, NEW r \in TaskRow
  PROVE  [e \in Due(r) |-> Rank(r, e)] \in
           Bijection(Due(r), 0 .. Cardinality(Due(r)) - 1)
<1> DEFINE N == Cardinality(Due(r))
           T == 0 .. N - 1
           rank == [e \in Due(r) |-> Rank(r, e)]
<1>1. IsFiniteSet(Due(r)) /\ N \in Nat /\ Due(r) \subseteq Nat
  BY RankTypes, FS_CardinalityType
<1>2. ASSUME NEW e \in Due(r) PROVE Rank(r, e) \in T
  <2>1. Prior(r, e) \in SUBSET Due(r) /\ e \notin Prior(r, e)
    BY <1>1 DEF Prior
  <2>2. Rank(r, e) <= N /\ (N = Rank(r, e) => Due(r) = Prior(r, e))
    BY <1>1, <2>1, FS_Subset DEF Rank
  <2>3. Rank(r, e) \in Nat
    BY RankTypes
  <2>. QED  BY <1>1, <2>1, <2>2, <2>3
<1>3. ASSUME NEW e \in Due(r), NEW f \in Due(r), Rank(r, e) = Rank(r, f) PROVE e = f
  <2>1. e = f \/ e \in Prior(r, f) \/ f \in Prior(r, e)
    BY <1>1 DEF Prior
  <2>2. Rank(r, e) \in Nat /\ Rank(r, f) \in Nat
    BY RankTypes
  <2>. QED  BY <1>3, <2>1, <2>2, RankOrder
<1>4. rank \in Injection(Due(r), T)
  BY <1>2, <1>3 DEF Injection, IsInjective
<1>5. IsFiniteSet(T) /\ Cardinality(T) = N
  <2>1. 0 + N - 1 = N - 1
    BY <1>1
  <2>. QED  BY <1>1, <2>1, IntervalSize
<1>6. rank \in Surjection(Due(r), T)
  BY <1>4, <1>5, FS_Injection
<1>. QED  BY <1>4, <1>6 DEF Bijection

\* As long as an entry of the window comes after the page, the page is full.
LEMMA FullPage ==
  ASSUME TypeInv, NEW r \in TaskRow, NEW e \in Due(r), Rank(r, e) >= r.offset + PageSize
  PROVE  Cardinality(Page(r)) = PageSize
<1> DEFINE P == r.offset .. r.offset + PageSize - 1
           N == Cardinality(Due(r))
           page == {f \in Due(r) : Rank(r, f) \in P}
           rank == [f \in page |-> Rank(r, f)]
<1>1. Page(r) = page
  BY DEF Page, Due, Prior, Rank
<1>2. r.offset \in Nat /\ IsFiniteSet(Due(r)) /\ N \in Nat
  BY RankTypes, FS_CardinalityType DEF TaskRow
<1>3. /\ \A f, g \in Due(r) : Rank(r, f) = Rank(r, g) => f = g
      /\ \A i \in 0 .. N - 1 : \E f \in Due(r) : Rank(r, f) = i
      /\ \A f \in Due(r) : Rank(r, f) \in 0 .. N - 1
  BY Ranking DEF Bijection, Injection, Surjection, IsInjective
<1>4. P \subseteq 0 .. N - 1
  BY <1>2, <1>3
<1>5. rank \in Bijection(page, P)
  BY <1>3, <1>4 DEF Bijection, Injection, Surjection, IsInjective
<1>6. IsFiniteSet(P) /\ Cardinality(P) = PageSize
  BY <1>2, IntervalSize
<1>7. rank \in Injection(page, P) /\ rank \in Surjection(page, P)
  BY <1>5 DEF Bijection
<1>. QED  BY <1>1, <1>6, <1>7, FS_Injection

-----------------------------------------------------------------------------
(* Nothing is left behind.                                                 *)

\* Etsy shows it, it is not stored, and the next sync starts after it.
Behind(e) == e \in etsy \ entries /\ \E n \in entries : e + Buffer < n

\* The sync with row r will still be served e, from the given place on.
Ahead(r, e, place) == r.from <= e /\ e <= WindowEnd(r) /\ Rank(r, e) >= place

\* What a sync that is under way may not have before it: late entries, and
\* those already left behind.
Excused(r, e) == e + Buffer >= r.to \/ Behind(e)

AskFit(r) ==
  \A e \in etsy \ entries :
    Excused(r, e) \/ e > WindowEnd(r) \/ Ahead(r, e, r.offset)

StoreFit(r) ==
  /\ \A a \in r.adds : a <= WindowEnd(r)
  /\ \A e \in (etsy \ entries) \ r.adds :
       \/ Excused(r, e)
       \/ e > WindowEnd(r)
       \/ /\ r.full /\ Ahead(r, e, r.offset + PageSize)
          /\ oldest => \A a \in r.adds : a <= e

\* What a failed sync still has to commit leaves nothing behind.
EndFit(r) ==
  /\ oldest => \A e \in (etsy \ entries) \ r.adds, a \in r.adds : e + Buffer >= a \/ Behind(e)
  /\ ~oldest /\ ~torn => r.adds = {}

Fit(r) ==
  /\ r.to <= now
  /\ r.at \in {"idle", "asking"} => r.adds = {}
  /\ r.at = "storing" => r.kind = "ledger" /\ StoreFit(r)
  /\ r.at = "asking" /\ r.kind = "ledger" => AskFit(r)
  /\ r.at \in {"ended", "telling"} => EndFit(r)

\* A sync in the middle of a window that is served newest first will have e.
Reaches(r, e) ==
  /\ r.kind = "ledger" /\ r.offset > 0
  /\ \/ r.at = "asking" /\ Ahead(r, e, r.offset)
     \/ r.at = "storing" /\ r.from <= e /\ e <= WindowEnd(r)
        /\ (e \in r.adds \/ (r.full /\ Ahead(r, e, r.offset + PageSize)))

Rows == {task[t] : t \in Tasks}

Missed == \A e \in etsy : Behind(e) => ~oldest /\ (torn \/ \E r \in Rows : Reaches(r, e))

LeftInv == (\A r \in Rows : Fit(r)) /\ Missed

\* Entries that Etsy shows later than the rest do not serve an entry sooner.
LEMMA RankGrows ==
  ASSUME TypeInv, TypeInv', NEW r \in TaskRow, NEW e, etsy \subseteq etsy', UNCHANGED oldest
  PROVE  Rank(r, e)' \in Nat /\ Rank(r, e)' >= Rank(r, e)
<1>1. Prior(r, e) \in SUBSET Prior(r, e)'
  BY DEF Prior, Due
<1>2. r \in TaskRow'
  BY DEF TaskRow
<1>3. IsFiniteSet(Prior(r, e)')
  <2>1. now' \in Int /\ 0 \in Int
    BY DEF TypeInv, Moments
  <2>2. IsFiniteSet(0..now')
    BY <2>1, FS_Interval
  <2>3. Prior(r, e)' \in SUBSET (0..now')
    BY DEF Prior, Due, TypeInv
  <2>. QED  BY <2>2, <2>3, FS_Subset
<1>4. /\ Cardinality(Prior(r, e)) <= Cardinality(Prior(r, e)')
  BY <1>1, <1>3, FS_Subset
<1>5. Cardinality(Prior(r, e)) = Rank(r, e) /\ Cardinality(Prior(r, e)') = Rank(r, e)'
  BY DEF Rank
<1>. QED  BY <1>3, <1>4, <1>5, FS_CardinalityType, RankTypes

\* A sync keeps fitting while others store entries and Etsy shows late ones.
LEMMA FitKept ==
  ASSUME TypeInv, TypeInv', NEW r \in TaskRow, Fit(r), now <= now', UNCHANGED oldest,
         entries \subseteq entries', torn => torn', etsy \subseteq etsy',
         \A e \in etsy' \ etsy : e + Buffer >= now
  PROVE  Fit(r)'
<1>a. /\ r.to \in Nat /\ r.from \in Nat /\ r.offset \in Nat /\ r.offset + PageSize \in Nat
      /\ r.adds \subseteq etsy
  BY DEF TaskRow, Moments
<1>b. now \in Nat /\ now' \in Nat /\ etsy \subseteq 0..now /\ etsy' \subseteq Nat
  BY DEF TypeInv, Moments
<1>c. /\ WindowEnd(r) \in Nat /\ WindowEnd(r)' = WindowEnd(r)
      /\ Buffer \in Nat /\ r.to <= now
  BY <1>a DEF Fit, WindowEnd, Earlier
<1>d. r.adds \subseteq 0..now
  BY <1>a, <1>b
<1>0. r.to <= now'
  BY <1>a, <1>b, <1>c
<1>1. ASSUME NEW e \in etsy' \ entries', Behind(e) PROVE Behind(e)'
  BY <1>1 DEF Behind
<1>2. ASSUME NEW e \in etsy' \ entries'
      PROVE  (e + Buffer >= r.to /\ (\A a \in r.adds : e + Buffer >= a)) \/ e \in etsy \ entries
  <2>1. CASE e \in etsy
    BY <1>2, <2>1
  <2>2. CASE e \notin etsy
    <3>1. e + Buffer >= now /\ e + Buffer \in Nat
      BY <1>b, <1>c, <2>2
    <3>. QED  BY <1>a, <1>b, <1>c, <1>d, <3>1
  <2>. QED  BY <2>1, <2>2
<1>3. ASSUME NEW e, NEW place \in Nat, Ahead(r, e, place) PROVE Ahead(r, e, place)'
  <2>1. Rank(r, e)' >= Rank(r, e) /\ Rank(r, e) \in Nat
    BY RankGrows, RankTypes
  <2>2. Rank(r, e)' \in Nat
    BY RankGrows
  <2>. QED  BY <1>3, <1>c, <2>1, <2>2 DEF Ahead
<1>4. ASSUME NEW e \in etsy' \ entries', Excused(r, e) PROVE Excused(r, e)'
  BY <1>1, <1>4 DEF Excused
<1>5. AskFit(r) => AskFit(r)'
  BY <1>a, <1>c, <1>2, <1>3, <1>4 DEF AskFit, Excused
<1>6. StoreFit(r) => StoreFit(r)'
  BY <1>a, <1>c, <1>2, <1>3, <1>4 DEF StoreFit, Excused
<1>7. EndFit(r) => EndFit(r)'
  BY <1>1, <1>2 DEF EndFit
<1>. QED  BY <1>0, <1>5, <1>6, <1>7 DEF Fit

\* A step of t from row q to row r, while Etsy shows nothing new.
LEMMA LeftBy ==
  ASSUME TypeInv, TypeInv', LeftInv,
         NEW t \in Tasks, NEW q \in TaskRow, NEW r \in TaskRow, q = task[t], Turns(t, r),
         UNCHANGED <<now, etsy, oldest>>, entries \subseteq entries', torn => torn', Fit(r)',
         \A e \in etsy \ entries' : Behind(e)' =>
           \/ Behind(e) /\ (Reaches(q, e) /\ ~oldest => torn' \/ Reaches(r, e)')
           \/ ~oldest /\ (torn' \/ Reaches(r, e)')
  PROVE  LeftInv'
<1>0. task \in [Tasks -> TaskRow] /\ r \in Rows' /\ q \in Rows
  BY DEF TypeInv, Rows, Turns
<1>1. \A x \in Rows' : x = r \/ x \in Rows
  BY <1>0 DEF Rows, Turns
<1>2. \A x \in Rows : x = q \/ x \in Rows'
  BY <1>0 DEF Rows, Turns
<1>3. ASSUME NEW x \in Rows' PROVE Fit(x)'
  <2>1. CASE x = r
    BY <2>1
  <2>2. CASE x \in Rows
    <3>1. x \in TaskRow /\ Fit(x)
      BY <1>0, <2>2 DEF Rows, LeftInv
    <3>2. now <= now' /\ etsy \subseteq etsy' /\ etsy' \ etsy = {}
      BY DEF TypeInv, Moments
    <3>. QED  BY <3>1, <3>2, FitKept
  <2>. QED  BY <1>1, <1>3, <2>1, <2>2
<1>4. ASSUME NEW x, NEW e, Reaches(x, e) PROVE Reaches(x, e)'
  BY <1>4 DEF Reaches, Ahead, Rank, Prior, Due, WindowEnd
<1>5. ASSUME NEW e \in etsy', Behind(e)' PROVE (~oldest /\ (torn \/ \E x \in Rows : Reaches(x, e)))'
  <2>1. e \in etsy \ entries'
    BY <1>5 DEF Behind
  <2>2. CASE ~oldest /\ (torn' \/ Reaches(r, e)')
    BY <1>0, <2>2
  <2>3. CASE Behind(e) /\ (Reaches(q, e) /\ ~oldest => torn' \/ Reaches(r, e)')
    <3>1. ~oldest /\ (torn \/ \E x \in Rows : Reaches(x, e))
      BY <2>1, <2>3 DEF LeftInv, Missed
    <3>2. CASE torn
      BY <3>1, <3>2
    <3>3. ASSUME NEW x \in Rows, Reaches(x, e) PROVE torn' \/ \E y \in Rows' : Reaches(y, e)'
      BY <1>0, <1>2, <1>4, <2>3, <3>1, <3>3
    <3>. QED  BY <3>1, <3>2, <3>3
  <2>. QED  BY <1>5, <2>1, <2>2, <2>3
<1>. QED  BY <1>3, <1>5 DEF LeftInv, Missed

\* A row at rest: nothing is asked, nothing is to be committed.
LEMMA RestFits ==
  ASSUME TypeInv, NEW r \in TaskRow, r.to = 0, r.adds = {},
         \/ r.at \in {"idle", "ended"}
         \/ r.at = "asking" /\ r.kind = "payment"
  PROVE  Fit(r)
<1>1. r.to <= now
  BY DEF TypeInv, Moments
<1>. QED  BY <1>1 DEF Fit, EndFit

\* A new sync starts early enough: what it does not reach back to is late, or was
\* already left behind.
LEMMA LeftStartLedger ==
  ASSUME TypeInv, TypeInv', LeftInv, NEW t \in Tasks, NEW full \in BOOLEAN, StartLedger(t, full)
  PROVE  LeftInv'
<1> DEFINE from == IF full THEN 0 ELSE Earlier(Since, now)
<1>1. PICK q \in TaskRow : q = task[t] /\ q.at = "idle"
  BY DEF TypeInv, StartLedger, At
<1>2. \A e : ~Reaches(q, e)
  BY <1>1 DEF Reaches
<1>3. TypeOK /\ from \in Moments
  BY TypeIs, SinceTypes DEF Moments
<1>4. CASE Turns(t, Over("ledger", "none"))
  <2>1. PICK r \in TaskRow : r = Over("ledger", "none")
    BY IdleTypes DEF Parts, Errors
  <2>2. r.to = 0 /\ r.adds = {} /\ r.at = "ended"
    BY <2>1 DEF Over, Idle
  <2>3. r \in TaskRow'
    BY DEF StartLedger, TaskRow
  <2>4. Fit(r)'
    BY <2>2, <2>3, RestFits DEF StartLedger, Fit, EndFit, TypeInv, Moments
  <2>. QED  BY <1>1, <1>2, <1>4, <2>1, <2>4, LeftBy DEF StartLedger, Behind
<1>5. CASE Turns(t, [Idle EXCEPT !.at = "asking", !.from = from, !.to = now])
  <2>1. PICK r \in TaskRow : r = [Idle EXCEPT !.at = "asking", !.from = from, !.to = now]
    <3>. HIDE DEF from
    <3>. QED  BY <1>3, IdleTypes DEF TaskRow, TypeInv
  <2>2. r.at = "asking" /\ r.kind = "ledger" /\ r.from = from /\ r.to = now /\ r.offset = 0
        /\ r.adds = {}
    <3>. HIDE DEF from
    <3>. QED  BY <2>1 DEF Idle
  <2>3. ASSUME NEW e \in etsy \ entries, ~Behind(e) PROVE from <= e
    <3>1. e \in Nat /\ now \in Nat /\ entries \subseteq Moments /\ Buffer \in Nat
      BY DEF TypeInv, Moments
    <3>2. CASE full \/ Since = 0
      BY <1>3, <3>1, <3>2 DEF Earlier
    <3>3. CASE ~full /\ Since # 0
      <4>1. entries # {} /\ Since = Max(entries) - Buffer
        BY <3>3 DEF Since
      <4>2. PICK n \in entries : n = Max(entries)
        BY <3>1, <4>1, Greatest
      <4>3. n \in Nat /\ Since = n - Buffer
        BY <3>1, <4>1, <4>2 DEF Moments
      <4>4. ~(e + Buffer < n)
        BY <2>3 DEF Behind
      <4>5. Since <= e /\ Since \in Int
        BY <3>1, <4>3, <4>4
      <4>. QED  BY <3>1, <3>3, <4>5 DEF Earlier
    <3>. QED  BY <3>2, <3>3
  <2>4. AskFit(r)
    <3>1. ASSUME NEW e \in etsy \ entries PROVE Rank(r, e) >= 0 /\ e \in Nat
      BY RankTypes DEF TypeInv, Moments
    <3>2. WindowEnd(r) \in Nat
      BY WindowTypes DEF Moments
    <3>. QED  BY <2>2, <2>3, <3>1, <3>2 DEF AskFit, Ahead, Excused
  <2>5. Fit(r)
    BY <2>2, <2>4 DEF Fit, TypeInv, Moments
  <2>6. Fit(r)'
    BY <2>5, FitKept DEF StartLedger, TypeInv, Moments
  <2>. QED  BY <1>1, <1>2, <1>5, <2>1, <2>6, LeftBy DEF StartLedger, Behind
<1>. QED  BY <1>4, <1>5 DEF StartLedger

\* A page holds what is not stored of its places; as long as the window holds
\* more, it is full.
LEMMA LeftAskLedger ==
  ASSUME TypeInv, TypeInv', LeftInv, NEW t \in Tasks, AskLedger(t)
  PROVE  LeftInv'
<1>1. PICK q \in TaskRow : q = task[t]
  BY DEF TypeInv
<1>2. q.at = "asking" /\ q.kind = "ledger" /\ Fit(q) /\ q.offset \in Nat
  BY <1>1 DEF AskLedger, At, LeftInv, Rows, TaskRow
<1>3. PICK page : page = Page(q) /\ page \subseteq Due(q)
  BY DEF Page, Due
<1>4. PICK more \in BOOLEAN : more = (Cardinality(page) = PageSize)
  OBVIOUS
<1>5. PICK r \in TaskRow : r = [q EXCEPT !.at = "storing", !.adds = page \ entries, !.full = more]
  BY <1>3 DEF TaskRow, Due
<1>6. /\ r.at = "storing" /\ r.kind = "ledger" /\ r.adds = page \ entries /\ r.full = more
      /\ r.from = q.from /\ r.to = q.to /\ r.offset = q.offset
  BY <1>2, <1>5 DEF TaskRow
<1>7. Turns(t, r)
  BY <1>1, <1>3, <1>4, <1>5, Zenon DEF AskLedger
<1>8. WindowEnd(r) = WindowEnd(q) /\ WindowEnd(q) \in Nat /\ \A e : Rank(r, e) = Rank(q, e)
  BY <1>6, WindowTypes DEF WindowEnd, Rank, Prior, Due, Moments
<1>9. page = {f \in Due(q) : Rank(q, f) \in q.offset .. q.offset + PageSize - 1}
  BY <1>3 DEF Page, Due, Prior, Rank
<1>10. ASSUME NEW e \in (etsy \ entries) \ page, Ahead(q, e, q.offset)
       PROVE  more /\ Ahead(q, e, q.offset + PageSize) /\ (oldest => \A a \in page : a <= e)
  <2>1. e \in Due(q) /\ Rank(q, e) >= q.offset /\ Rank(q, e) \in Nat
    BY <1>10, RankTypes DEF Ahead, Due
  <2>2. Rank(q, e) >= q.offset + PageSize
    BY <1>2, <1>9, <1>10, <2>1
  <2>3. more
    BY <1>3, <1>4, <2>1, <2>2, FullPage
  <2>4. ASSUME oldest, NEW a \in page, ~(a <= e) PROVE FALSE
    <3>1. a \in Nat /\ e \in Nat /\ a \in Due(q) /\ Rank(q, a) \in Nat
      BY <1>3, <2>1, RankTypes
    <3>2. Rank(q, a) < q.offset + PageSize
      BY <1>2, <1>9, <3>1
    <3>3. e \in Prior(q, a)
      BY <2>1, <2>4, <3>1 DEF Prior
    <3>4. Rank(q, e) < Rank(q, a)
      BY <3>1, <3>3, RankOrder
    <3>. QED  BY <1>2, <2>1, <2>2, <3>1, <3>2, <3>4
  <2>. QED  BY <1>10, <2>2, <2>3, <2>4 DEF Ahead
<1>11. StoreFit(r)
  <2>1. \A a \in r.adds : a <= WindowEnd(r)
    BY <1>3, <1>6, <1>8 DEF Due
  <2>2. ASSUME NEW e \in (etsy \ entries) \ r.adds
        PROVE  \/ Excused(r, e)
               \/ e > WindowEnd(r)
               \/ /\ r.full /\ Ahead(r, e, r.offset + PageSize)
                  /\ oldest => \A a \in r.adds : a <= e
    <3>1. Excused(q, e) \/ e > WindowEnd(q) \/ Ahead(q, e, q.offset)
      BY <1>2, <2>2 DEF Fit, AskFit
    <3>2. CASE Excused(q, e) \/ e > WindowEnd(q)
      BY <1>6, <1>8, <3>2 DEF Excused
    <3>3. CASE Ahead(q, e, q.offset)
      <4>1. e \in (etsy \ entries) \ page
        BY <1>6, <2>2
      <4>. QED  BY <1>6, <1>8, <1>10, <3>3, <4>1 DEF Ahead
    <3>. QED  BY <3>1, <3>2, <3>3
  <2>. QED  BY <2>1, <2>2 DEF StoreFit
<1>12. Fit(r)'
  <2>1. Fit(r)
    BY <1>2, <1>6, <1>11 DEF Fit
  <2>. QED  BY <2>1, FitKept DEF AskLedger, TypeInv, Moments
<1>13. ASSUME NEW e \in etsy \ entries, Reaches(q, e) PROVE Reaches(r, e)'
  <2>1. Ahead(q, e, q.offset) /\ q.offset > 0
    BY <1>2, <1>13 DEF Reaches
  <2>2. Reaches(r, e)
    BY <1>6, <1>8, <1>10, <2>1 DEF Reaches, Ahead
  <2>. QED  BY <2>2 DEF AskLedger, Reaches, Ahead, Rank, Prior, Due, WindowEnd
<1>. QED  BY <1>1, <1>7, <1>12, <1>13, LeftBy DEF AskLedger, Behind

\* A page that is stored leaves behind only what a sync that is served newest
\* first will still come to.
LEMMA LeftStoreLedger ==
  ASSUME TypeInv, TypeInv', LeftInv, NEW t \in Tasks, StoreLedger(t)
  PROVE  LeftInv'
<1>1. PICK q \in TaskRow : q = task[t]
  BY DEF TypeInv
<1>2. /\ q.at = "storing" /\ q.kind = "ledger" /\ Fit(q) /\ StoreFit(q)
      /\ q.offset \in Nat /\ q.to \in Nat /\ q.from \in Nat /\ q.adds \subseteq etsy
  BY <1>1 DEF StoreLedger, At, LeftInv, Rows, TaskRow, Fit, Moments
<1>3. /\ entries' = entries \cup q.adds /\ Turns(t, Onward(q))
      /\ UNCHANGED <<now, etsy, oldest, torn>>
  BY <1>1, Zenon DEF StoreLedger
<1>4. PICK r \in TaskRow : r = Onward(q)
  BY OnwardTypes
<1>5. /\ WindowEnd(q) \in Nat /\ WindowEnd(q) <= q.to
      /\ etsy \subseteq Nat /\ entries \subseteq Nat /\ now \in Nat /\ Buffer \in Nat
  BY <1>2, WindowTypes DEF WindowEnd, Earlier, Moments, TypeInv
<1>6. ASSUME NEW e \in etsy \ entries', Behind(e) PROVE Behind(e)'
  BY <1>3, <1>6 DEF Behind
<1>7. ASSUME q.full
      PROVE  /\ r.at = "asking" /\ r.kind = "ledger" /\ r.adds = {}
             /\ r.from = q.from /\ r.to = q.to /\ r.offset = q.offset + PageSize
             /\ WindowEnd(r) = WindowEnd(q) /\ \A e : Rank(r, e) = Rank(q, e)
  <2>1. r = [q EXCEPT !.at = "asking", !.adds = {}, !.offset = @ + PageSize]
    BY <1>4, <1>7 DEF Onward
  <2>2. /\ r.at = "asking" /\ r.kind = "ledger" /\ r.adds = {}
        /\ r.from = q.from /\ r.to = q.to /\ r.offset = q.offset + PageSize
    BY <1>2, <2>1 DEF TaskRow
  <2>. QED  BY <2>2 DEF WindowEnd, Rank, Prior, Due
<1>8. Fit(r)'
  <2>1. CASE q.full
    <3>1. ASSUME NEW e \in etsy \ entries'
          PROVE  Excused(r, e)' \/ e > WindowEnd(r) \/ Ahead(r, e, r.offset)
      <4>1. Excused(q, e) \/ e > WindowEnd(q) \/ Ahead(q, e, q.offset + PageSize)
        BY <1>2, <1>3, <3>1 DEF StoreFit
      <4>. QED  BY <1>6, <1>7, <2>1, <4>1 DEF Excused, Ahead
    <3>2. AskFit(r)'
      BY <1>3, <3>1 DEF AskFit, Ahead, Rank, Prior, Due, WindowEnd
    <3>. QED  BY <1>2, <1>3, <1>7, <2>1, <3>2 DEF Fit
  <2>2. CASE ~q.full /\ WindowEnd(q) = q.to
    <3>1. r.at = "ended" /\ r.adds = {} /\ r.to = 0
      BY <1>4, <2>2 DEF Onward, Over, Idle
    <3>. QED  BY <1>3, <1>5, <3>1 DEF Fit, EndFit
  <2>3. CASE ~q.full /\ WindowEnd(q) # q.to
    <3>1. r = [q EXCEPT !.at = "asking", !.adds = {}, !.from = WindowEnd(q), !.offset = 0]
      BY <1>4, <2>3 DEF Onward
    <3>2. /\ r.at = "asking" /\ r.kind = "ledger" /\ r.adds = {}
          /\ r.from = WindowEnd(q) /\ r.to = q.to /\ r.offset = 0
      BY <1>2, <3>1 DEF TaskRow
    <3>3. WindowEnd(r) \in Nat
      BY WindowTypes DEF Moments
    <3>4. ASSUME NEW e \in etsy \ entries'
          PROVE  Excused(r, e)' \/ e > WindowEnd(r) \/ Ahead(r, e, r.offset)
      <4>1. Excused(q, e) \/ e > WindowEnd(q)
        BY <1>2, <1>3, <2>3, <3>4 DEF StoreFit
      <4>2. CASE Excused(q, e)
        BY <1>6, <3>2, <4>2 DEF Excused
      <4>3. CASE e > WindowEnd(q)
        <5>1. Rank(r, e) \in Nat
          BY RankTypes
        <5>2. e \in Nat
          BY <1>5
        <5>3. Rank(r, e) >= 0
          BY <5>1
        <5>. QED  BY <1>5, <3>2, <3>3, <4>3, <5>2, <5>3 DEF Ahead
      <4>. QED  BY <4>1, <4>2, <4>3
    <3>5. AskFit(r)'
      BY <1>3, <3>4 DEF AskFit, Ahead, Rank, Prior, Due, WindowEnd
    <3>. QED  BY <1>2, <1>3, <3>2, <3>5 DEF Fit
  <2>. QED  BY <2>1, <2>2, <2>3
<1>9. ASSUME NEW e \in etsy \ entries', Behind(e)'
      PROVE  \/ Behind(e) /\ (Reaches(q, e) /\ ~oldest => torn' \/ Reaches(r, e)')
             \/ ~oldest /\ (torn' \/ Reaches(r, e)')
  <2>1. ASSUME q.full, Ahead(q, e, q.offset + PageSize) PROVE Reaches(r, e)'
    <3>1. r.offset > 0 /\ Ahead(r, e, r.offset) /\ r.at = "asking" /\ r.kind = "ledger"
      BY <1>2, <1>7, <2>1 DEF Ahead
    <3>. QED  BY <1>3, <3>1 DEF Reaches, Ahead, Rank, Prior, Due, WindowEnd
  <2>2. CASE Behind(e)
    <3>1. Reaches(q, e) => q.full /\ Ahead(q, e, q.offset + PageSize)
      BY <1>2, <1>3, <1>9 DEF Reaches
    <3>. QED  BY <2>1, <2>2, <3>1
  <2>3. CASE ~Behind(e)
    <3>1. e \in (etsy \ entries) \ q.adds /\ e \in Nat
      BY <1>3, <1>5, <1>9
    <3>2. PICK n \in q.adds : e + Buffer < n
      BY <1>3, <1>9, <2>3, <3>1 DEF Behind
    <3>3. n <= WindowEnd(q) /\ n \in Nat
      BY <1>2, <1>5, <3>2 DEF StoreFit
    <3>4. ~Excused(q, e)
      BY <1>2, <1>5, <2>3, <3>1, <3>2, <3>3 DEF Excused
    <3>5. ~(e > WindowEnd(q)) /\ ~(n <= e)
      BY <1>5, <3>1, <3>2, <3>3
    <3>6. q.full /\ Ahead(q, e, q.offset + PageSize) /\ ~oldest
      BY <1>2, <3>1, <3>2, <3>4, <3>5 DEF StoreFit
    <3>. QED  BY <2>1, <3>6
  <2>. QED  BY <2>2, <2>3
<1>. QED  BY <1>1, <1>3, <1>4, <1>8, <1>9, LeftBy

\* A sync that fails keeps the rows that it has added so far.
LEMMA LeftError ==
  ASSUME TypeInv, TypeInv', LeftInv, NEW t \in Tasks, Error(t)
  PROVE  LeftInv'
<1>1. PICK q \in TaskRow : q = task[t]
  BY DEF TypeInv
<1>2. /\ q.at \in {"asking", "storing"} /\ q.kind \in Parts /\ Fit(q) /\ q.adds \subseteq etsy
      /\ UNCHANGED <<now, etsy, oldest, entries>>
  BY <1>1 DEF Error, At, LeftInv, Rows, TaskRow
<1>0. PICK error \in Errors, edge \in Moments :
        LET kept == {a \in task[t].adds : IF oldest THEN a < edge ELSE a >= edge}
        IN /\ Turns(t, [Over(task[t].kind, error) EXCEPT !.adds = kept])
           /\ torn' = (torn \/ Tears(t) \/ (~oldest /\ kept # {}))
  <2>1. PICK error \in IF task[t].kind = "ledger" THEN {"auth", "other"} ELSE {"other"},
             edge \in Moments :
          LET kept == {a \in task[t].adds : IF oldest THEN a < edge ELSE a >= edge}
          IN /\ Turns(t, [Over(task[t].kind, error) EXCEPT !.adds = kept])
             /\ torn' = (torn \/ Tears(t) \/ (~oldest /\ kept # {}))
    BY DEF Error
  <2>2. error \in Errors
    BY DEF Errors
  <2>. QED  BY <2>1, <2>2
<1>3. PICK kept :
        /\ kept = {a \in q.adds : IF oldest THEN a < edge ELSE a >= edge}
        /\ Turns(t, [Over(q.kind, error) EXCEPT !.adds = kept])
        /\ torn' = (torn \/ Tears(t) \/ (~oldest /\ kept # {}))
  BY <1>0, <1>1
<1>4. torn \/ Tears(t) \/ (~oldest /\ kept # {}) => torn'
  BY <1>3, Zenon
<1>5. Over(q.kind, error) \in TaskRow /\ kept \subseteq etsy
  BY <1>2, <1>3, IdleTypes
<1>6. PICK r \in TaskRow : r = [Over(q.kind, error) EXCEPT !.adds = kept]
  BY <1>5 DEF TaskRow
<1>7. r.at = "ended" /\ r.to = 0 /\ r.adds = kept
  BY <1>6 DEF Over, Idle
<1>8. EndFit(r)'
  <2>1. ASSUME oldest, NEW e \in (etsy \ entries) \ kept, NEW a \in kept
        PROVE  e + Buffer >= a \/ Behind(e)
    <3>1. q.at = "storing" /\ StoreFit(q)
      BY <1>2, <1>3, <2>1 DEF Fit
    <3>2. /\ a \in q.adds /\ a \in Nat /\ e \in Nat /\ Buffer \in Nat /\ q.to \in Nat
          /\ WindowEnd(q) \in Nat /\ WindowEnd(q) <= q.to /\ a <= WindowEnd(q)
      BY <1>2, <1>3, <2>1, <3>1, WindowTypes
      DEF TypeInv, Moments, StoreFit, TaskRow, WindowEnd, Earlier
    <3>3. CASE e \in q.adds
      <4>1. a < edge /\ ~(e < edge)
        BY <1>3, <2>1, <3>3
      <4>2. edge \in Nat
        BY DEF Moments
      <4>. QED  BY <3>2, <4>1, <4>2
    <3>4. CASE e \notin q.adds
      <4>1. Excused(q, e) \/ e > WindowEnd(q) \/ a <= e
        BY <2>1, <3>1, <3>2, <3>4 DEF StoreFit
      <4>. QED  BY <3>2, <4>1 DEF Excused
    <3>. QED  BY <3>3, <3>4
  <2>. QED  BY <1>2, <1>4, <1>7, <2>1 DEF EndFit, Behind
<1>9. Fit(r)'
  BY <1>2, <1>7, <1>8 DEF Fit, TypeInv, Moments
<1>10. ASSUME NEW e \in etsy, Reaches(q, e), ~oldest PROVE torn'
  BY <1>1, <1>4, <1>10 DEF Reaches, Tears
<1>. QED  BY <1>1, <1>2, <1>3, <1>4, <1>6, <1>9, <1>10, LeftBy DEF Behind

\* The steps that neither ask nor store, and never leave an entry behind.
LEMMA LeftRest ==
  ASSUME TypeInv, TypeInv', LeftInv, NEW t \in Tasks,
         Die(t) \/ StartPayments(t) \/ StorePayments(t) \/ ReadStatus(t)
  PROVE  LeftInv'
<1>1. PICK q \in TaskRow : q = task[t]
  BY DEF TypeInv
<1>2. Fit(q) /\ UNCHANGED <<now, etsy, oldest, entries>>
  BY <1>1 DEF Die, StartPayments, StorePayments, ReadStatus, LeftInv, Rows
<1>3. CASE Die(t)
  <2>1. PICK r \in TaskRow : r = Idle
    BY IdleTypes
  <2>2. r.at = "idle" /\ r.to = 0 /\ r.adds = {}
    BY <2>1 DEF Idle
  <2>3. Fit(r)'
    BY <1>2, <2>2 DEF Fit, TypeInv, Moments
  <2>4. torn \/ Tears(t) => torn'
    BY <1>3, Zenon DEF Die
  <2>5. ASSUME NEW e, Reaches(q, e), ~oldest PROVE torn'
    BY <1>1, <2>4, <2>5 DEF Reaches, Tears
  <2>. QED  BY <1>1, <1>2, <1>3, <2>1, <2>3, <2>4, <2>5, LeftBy DEF Die, Behind
<1>4. CASE StartPayments(t)
  <2>1. PICK r \in TaskRow : r = [Idle EXCEPT !.at = "asking", !.kind = "payment"]
    BY IdleTypes DEF TaskRow, Parts
  <2>2. r.at = "asking" /\ r.kind = "payment" /\ r.to = 0 /\ r.adds = {}
    BY <2>1 DEF Idle
  <2>3. Fit(r)'
    BY <1>2, <2>2 DEF Fit, TypeInv, Moments
  <2>4. \A e : ~Reaches(q, e)
    BY <1>1, <1>4 DEF StartPayments, At, Reaches
  <2>. QED  BY <1>1, <1>2, <1>4, <2>1, <2>3, <2>4, LeftBy DEF StartPayments, Behind
<1>5. CASE StorePayments(t)
  <2>1. PICK r \in TaskRow : r = Over("payment", "none")
    BY IdleTypes DEF Parts, Errors
  <2>2. r.at = "ended" /\ r.to = 0 /\ r.adds = {}
    BY <2>1 DEF Over, Idle
  <2>3. Fit(r)'
    BY <1>2, <2>2 DEF Fit, EndFit, TypeInv, Moments
  <2>4. \A e : ~Reaches(q, e)
    BY <1>1, <1>5 DEF StorePayments, Reaches
  <2>. QED  BY <1>1, <1>2, <1>5, <2>1, <2>3, <2>4, LeftBy DEF StorePayments, Behind
<1>6. CASE ReadStatus(t)
  <2>1. PICK r \in TaskRow : r = [q EXCEPT !.at = "telling", !.seen = status]
    BY DEF TaskRow, TypeInv
  <2>2. r.at = "telling" /\ r.to = q.to /\ r.adds = q.adds /\ q.at = "ended"
    BY <1>1, <1>6, <2>1 DEF ReadStatus, At, TaskRow
  <2>3. Fit(r)
    BY <1>2, <2>2 DEF Fit, EndFit
  <2>4. Fit(r)'
    BY <1>6, <2>3, FitKept DEF ReadStatus, TypeInv, Moments
  <2>5. \A e : ~Reaches(q, e)
    BY <2>2 DEF Reaches
  <2>. QED  BY <1>1, <1>2, <1>6, <2>1, <2>4, <2>5, LeftBy DEF ReadStatus, Behind
<1>. QED  BY <1>3, <1>4, <1>5, <1>6

\* The rows that a failed sync commits with the status.
LEMMA LeftWriteStatus ==
  ASSUME TypeInv, TypeInv', LeftInv, NEW t \in Tasks, WriteStatus(t)
  PROVE  LeftInv'
<1>1. PICK q \in TaskRow : q = task[t]
  BY DEF TypeInv
<1>2. /\ q.at = "telling" /\ EndFit(q) /\ entries' = entries \cup q.adds /\ Turns(t, Idle)
      /\ UNCHANGED <<now, etsy, oldest, torn>>
  <2>1. Fit(q)
    BY <1>1 DEF LeftInv, Rows
  <2>2. At(t, "telling") /\ entries' = entries \cup q.adds /\ Turns(t, Idle)
        /\ UNCHANGED <<now, etsy, oldest, torn>>
    BY <1>1, Zenon DEF WriteStatus
  <2>. QED  BY <1>1, <2>1, <2>2 DEF At, Fit
<1>3. PICK r \in TaskRow : r = Idle
  BY IdleTypes
<1>4. r.at = "idle" /\ r.to = 0 /\ r.adds = {}
  BY <1>3 DEF Idle
<1>5. Fit(r)'
  BY <1>2, <1>4 DEF Fit, TypeInv, Moments
<1>6. \A e : ~Reaches(q, e)
  BY <1>2 DEF Reaches
<1>7. ASSUME NEW e \in etsy \ entries', Behind(e)', ~Behind(e) PROVE ~oldest /\ torn'
  <2>1. e \in (etsy \ entries) \ q.adds
    BY <1>2, <1>7
  <2>2. PICK n \in q.adds : e + Buffer < n
    BY <1>2, <1>7, <2>1 DEF Behind
  <2>3. n \in Nat /\ e + Buffer \in Nat
    <3>1. q.adds \subseteq etsy
      BY DEF TaskRow
    <3>2. etsy \subseteq Nat /\ Buffer \in Nat
      BY DEF TypeInv, Moments
    <3>3. e \in Nat /\ n \in Nat
      BY <2>1, <2>2, <3>1, <3>2
    <3>. QED  BY <3>2, <3>3
  <2>4. ~(e + Buffer >= n)
    BY <2>2, <2>3
  <2>5. ~oldest
    BY <1>2, <1>7, <2>1, <2>2, <2>4 DEF EndFit
  <2>. QED  BY <1>2, <2>2, <2>5 DEF EndFit
<1>. QED  BY <1>1, <1>2, <1>3, <1>5, <1>6, <1>7, LeftBy

\* Etsy shows late entries only within the time that a sync goes back.
LEMMA LeftShow ==
  ASSUME TypeInv, TypeInv', LeftInv, NEW x \in Moments, Show(x)
  PROVE  LeftInv'
<1>0. task \in [Tasks -> TaskRow]
  BY DEF TypeInv
<1>1. /\ x \in Nat /\ now \in Nat /\ x + Buffer >= now /\ entries \subseteq 0..now
      /\ x \notin etsy /\ etsy' = etsy \cup {x} /\ UNCHANGED <<now, oldest, entries, torn, task>>
  BY DEF Show, TypeInv, Moments
<1>2. Rows' = Rows
  BY <1>1 DEF Rows
<1>3. ASSUME NEW r \in Rows PROVE Fit(r)'
  <2>1. r \in TaskRow /\ Fit(r)
    BY <1>0 DEF Rows, LeftInv
  <2>. QED  BY <1>1, <2>1, FitKept
<1>4. ASSUME NEW r \in Rows, NEW e, Reaches(r, e) PROVE Reaches(r, e)'
  <2>1. r \in TaskRow
    BY <1>0 DEF Rows
  <2>2. /\ Rank(r, e) \in Nat /\ Rank(r, e)' \in Nat /\ Rank(r, e)' >= Rank(r, e)
        /\ r.offset \in Nat /\ r.offset + PageSize \in Nat
    BY <1>1, <2>1, RankGrows, RankTypes DEF TaskRow
  <2>3. \A place \in Nat : Ahead(r, e, place) => Ahead(r, e, place)'
    BY <2>2 DEF Ahead, WindowEnd
  <2>. QED  BY <1>4, <2>2, <2>3 DEF Reaches, WindowEnd
<1>5. ASSUME NEW e \in etsy', Behind(e)' PROVE e \in etsy /\ Behind(e)
  <2>1. PICK n \in entries : e \in etsy' \ entries /\ e + Buffer < n
    BY <1>1, <1>5 DEF Behind
  <2>2. n \in Nat /\ n <= now
    BY <1>1
  <2>3. e # x
    BY <1>1, <2>1, <2>2
  <2>. QED  BY <1>1, <2>1, <2>3 DEF Behind
<1>6. Missed'
  BY <1>1, <1>2, <1>4, <1>5 DEF Missed, LeftInv
<1>. QED  BY <1>2, <1>3, <1>6 DEF LeftInv

LEMMA LeftStep == TypeInv /\ TypeInv' /\ LeftInv /\ [Next]_vars => LeftInv'
<1> SUFFICES ASSUME TypeInv, TypeInv', LeftInv, [Next]_vars PROVE LeftInv'
  OBVIOUS
<1>1. CASE Tick \/ UNCHANGED vars
  <2>1. /\ now <= now' /\ UNCHANGED <<etsy, oldest, entries, torn, task>>
        /\ task \in [Tasks -> TaskRow]
    BY <1>1 DEF Tick, vars, TypeInv, Moments
  <2>2. Rows' = Rows
    BY <2>1 DEF Rows
  <2>3. ASSUME NEW r \in Rows PROVE Fit(r)'
    <3>1. r \in TaskRow /\ Fit(r)
      BY <2>1 DEF Rows, LeftInv
    <3>. QED  BY <2>1, <3>1, FitKept
  <2>4. Missed'
    BY <2>1, <2>2 DEF LeftInv, Missed, Behind, Reaches, Ahead, Rank, Prior, Due, WindowEnd
  <2>. QED  BY <2>2, <2>3, <2>4 DEF LeftInv
<1>. QED
  BY <1>1, LeftShow, LeftStartLedger, LeftAskLedger, LeftStoreLedger, LeftError, LeftRest,
     LeftWriteStatus DEF Next

LEMMA LeftInit == TypeInv /\ Init => LeftInv
<1> SUFFICES ASSUME TypeInv, Init PROVE LeftInv
  OBVIOUS
<1>1. etsy = {} /\ task = [t \in Tasks |-> Idle]
  BY DEF Init
<1>2. Idle \in TaskRow /\ Idle.at = "idle" /\ Idle.to = 0 /\ Idle.adds = {}
  BY IdleTypes DEF Idle
<1>3. Fit(Idle)
  BY <1>2, RestFits
<1>. QED  BY <1>1, <1>3 DEF LeftInv, Rows, Missed

\* No entry of Etsy is left behind where the next incremental sync starts, for any
\* windows, pages, buffers, delays and tasks at once, through failures and
\* deaths; unless Etsy serves its pages newest first, and a sync is under way or
\* has ended inside a window.
THEOREM LeftTheorem == Spec => []NothingLeftBehind
<1>1. TypeInv /\ LeftInv => NothingLeftBehind
  <2> SUFFICES ASSUME TypeInv, LeftInv, ~torn, \A t \in Tasks : ~Reading(t),
                      NEW e \in etsy \ entries, NEW n \in entries
               PROVE  e + Buffer >= n
    BY DEF NothingLeftBehind
  <2>1. e \in Nat /\ n \in Nat /\ e + Buffer \in Nat
    BY DEF TypeInv, Moments
  <2>2. ~Behind(e)
    <3>1. ASSUME Behind(e) PROVE FALSE
      <4>1. PICK t \in Tasks : ~oldest /\ Reaches(task[t], e)
        BY <3>1 DEF LeftInv, Missed, Rows
      <4>. QED  BY <4>1 DEF Reaches, Reading
    <3>. QED  BY <3>1
  <2>. QED  BY <2>1, <2>2 DEF Behind
<1>. QED  BY <1>1, TypeInit, TypeStep, LeftInit, LeftStep, PTL DEF Spec

-----------------------------------------------------------------------------
(* Conversion.                                                             *)

\* What a division leaves.
LEMMA Division ==
  ASSUME NEW a \in Int, NEW b \in Nat \ {0}
  PROVE  /\ a \div b \in Int
         /\ b * (a \div b) <= a /\ a < b * (a \div b) + b
OBVIOUS

\* The nearest number, of two the one further from zero.
LEMMA RoundExact ==
  ASSUME NEW n \in Int, NEW d \in Nat \ {0}
  PROVE  /\ RoundHalfUp(n, d) \in Int
         /\ -d <= 2 * (RoundHalfUp(n, d) * d - n)
         /\ 2 * (RoundHalfUp(n, d) * d - n) <= d
         /\ RoundHalfUp(-n, d) = -RoundHalfUp(n, d)
<1>1. PICK e \in Nat \ {0} : e = 2 * d
  OBVIOUS
<1>2. ASSUME NEW m \in Nat
      PROVE  /\ RoundHalfUp(m, d) \in Int
             /\ -d <= 2 * (RoundHalfUp(m, d) * d - m)
             /\ 2 * (RoundHalfUp(m, d) * d - m) <= d
  <2>0. PICK a \in Int : a = 2 * m + d
    OBVIOUS
  <2>1. PICK q \in Int : q = a \div e /\ e * q <= a /\ a < e * q + e
    BY Division
  <2>2. RoundHalfUp(m, d) = q
    BY <1>1, <2>0, <2>1 DEF RoundHalfUp
  <2>3. PICK w \in Int : w = q * d /\ e * q = 2 * w
    BY <1>1, <2>1
  <2>. QED  BY <1>1, <2>0, <2>1, <2>2, <2>3
<1>3. ASSUME NEW m \in Nat
      PROVE  RoundHalfUp(-m, d) = -RoundHalfUp(m, d)
  <2>1. CASE m = 0
    <3>1. d \div e = 0
      BY <1>1, Division
    <3>. QED  BY <1>1, <2>1, <3>1 DEF RoundHalfUp
  <2>2. CASE m # 0
    <3>1. d - 2 * (-m) = 2 * m + d
      OBVIOUS
    <3>. QED  BY <2>2, <3>1 DEF RoundHalfUp
  <2>. QED  BY <2>1, <2>2
<1>4. CASE n \in Nat
  BY <1>2, <1>3, <1>4
<1>5. CASE n \notin Nat
  <2>1. PICK m \in Nat : n = -m /\ -n = m
    BY <1>5
  <2>2. PICK q \in Int : q = RoundHalfUp(m, d)
    BY <1>2
  <2>3. RoundHalfUp(n, d) = -q
    BY <1>3, <2>1, <2>2
  <2>4. PICK w \in Int : w = q * d /\ (-q) * d = -w
    BY <2>2
  <2>. QED  BY <1>2, <2>1, <2>2, <2>3, <2>4
<1>. QED  BY <1>4, <1>5

\* exchange_rate_service.py 232-251 and currency_conversion.py: whatever the
\* amounts and the rate, a converted amount is the exact one to half a cent, a
\* debit converts like the credit of its size, and a sum of converted amounts is
\* off the converted sum by a cent at most.
THEOREM ConversionTheorem == ConversionIsExact(Int, Int)
<1> SUFFICES ASSUME NEW x \in Int, NEW y \in Int, NEW r \in Int
             PROVE  /\ 2 * (Converted(x, r) * Unit - x * r) \in -Unit..Unit
                    /\ Converted(-x, r) = -Converted(x, r)
                    /\ Converted(x + y, r) - Converted(x, r) - Converted(y, r) \in -1..1
  BY DEF ConversionIsExact
<1>1. PICK a \in Int, b \in Int, c \in Int :
        /\ a = x * r /\ b = y * r /\ c = (x + y) * r
        /\ c = a + b /\ (-x) * r = -a
  OBVIOUS
<1>2. Unit \in Nat \ {0}
  BY RatesAssumption
<1>3. PICK p \in Int, q \in Int, s \in Int :
        p = Converted(x, r) /\ q = Converted(y, r) /\ s = Converted(x + y, r)
  BY <1>1, <1>2, RoundExact DEF Converted
<1>4. PICK u \in Int, v \in Int, w \in Int : u = p * Unit /\ v = q * Unit /\ w = s * Unit
  BY <1>2
<1>5. /\ -Unit <= 2 * (u - a) /\ 2 * (u - a) <= Unit
      /\ -Unit <= 2 * (v - b) /\ 2 * (v - b) <= Unit
      /\ -Unit <= 2 * (w - c) /\ 2 * (w - c) <= Unit
  BY <1>1, <1>2, <1>3, <1>4, RoundExact DEF Converted
<1>6. Converted(-x, r) = -p
  BY <1>1, <1>2, <1>3, RoundExact DEF Converted
<1>7. s - p - q \in -1..1
  <2>1. PICK k \in Int : k = s - p - q
    OBVIOUS
  <2>2. k * Unit = w - u - v
    BY <1>2, <1>4, <2>1
  <2>3. -3 * Unit <= 2 * (k * Unit) /\ 2 * (k * Unit) <= 3 * Unit
    BY <1>1, <1>2, <1>5, <2>2
  <2>4. k >= 2 => k * Unit >= 2 * Unit
    BY <1>2
  <2>5. k <= -2 => k * Unit <= -2 * Unit
    BY <1>2
  <2>6. k \in -1..1
    BY <1>2, <2>3, <2>4, <2>5
  <2>. QED  BY <2>1, <2>6
<1>. QED  BY <1>1, <1>2, <1>3, <1>4, <1>5, <1>6, <1>7

-----------------------------------------------------------------------------
(* Rates.                                                                  *)

\* A finite set of rows that is not empty has a newest one.
LEMMA NewestIn ==
  ASSUME NEW R, IsFiniteSet(R), R # {}, \A r \in R : r.at \in Int
  PROVE  NewestRow(R) \in R
<1> DEFINE Newest(S, r) == r \in S /\ \A q \in S : q.at <= r.at
           Bad == {S \in SUBSET R : S # {} /\ \A r \in S : ~Newest(S, r)}
           Sizes == {Cardinality(S) : S \in Bad}
<1>1. Bad = {}
  <2> SUFFICES ASSUME Bad # {} PROVE FALSE
    OBVIOUS
  <2>1. Sizes # {} /\ Sizes \subseteq Nat
    BY FS_Subset, FS_CardinalityType
  <2>2. PICK n \in Sizes : \A m \in Sizes : ~(<<m, n>> \in OpToRel(<, Nat))
    BY <2>1, WFMin, NatLessThanWellFounded
  <2>3. PICK S \in Bad : n = Cardinality(S)
    OBVIOUS
  <2>4. PICK x \in S : TRUE
    OBVIOUS
  <2>5. PICK T : T = S \ {x}
    OBVIOUS
  <2>6. IsFiniteSet(S) /\ Cardinality(T) = n - 1 /\ n \in Nat
    BY <2>1, <2>3, <2>4, <2>5, FS_Subset, FS_RemoveElement
  <2>7. IsFiniteSet(T) /\ Cardinality(T) \in Nat
    BY <2>5, <2>6, FS_Subset, FS_CardinalityType
  <2>8. T \notin Bad
    <3>1. Cardinality(T) < n
      BY <2>6
    <3>. QED  BY <2>2, <2>6, <2>7, <3>1 DEF OpToRel
  <2>9. CASE T = {}
    <3>1. Newest(S, x)
      BY <2>4, <2>5, <2>9
    <3>. QED  BY <2>3, <2>4, <3>1
  <2>10. CASE T # {}
    <3>1. PICK y \in T : Newest(T, y)
      BY <2>5, <2>8, <2>10
    <3>2. x.at \in Int /\ y.at \in Int /\ \A q \in S : q.at \in Int
      BY <2>4, <2>5
    <3>3. Newest(S, x) \/ Newest(S, y)
      BY <2>4, <2>5, <3>1, <3>2
    <3>. QED  BY <2>3, <2>4, <2>5, <3>1, <3>3
  <2>. QED  BY <2>9, <2>10
<1>2. \E r \in R : \A q \in R : q.at <= r.at
  BY <1>1
<1>. QED  BY <1>2 DEF NewestRow

\* A store as the lookups keep it: no row is without a rate, and what is cached
\* for a day is of that day or earlier.
ToldFor(key, told) ==
  /\ told.rate # Null
  /\ \A pair, day : key = CacheKey(pair, day) /\ day # Null => told.at <= EndOf(day)

Timely(store) ==
  /\ store = [cache |-> store.cache, rows |-> store.rows]
  /\ IsFiniteSet(store.rows)
  /\ \A r \in store.rows : r.at \in Int /\ r.rate # Null
  /\ \A k \in DOMAIN store.cache : ToldFor(k, store.cache[k])

\* What a lookup may answer.
Fine(store, pair, day, a) ==
  /\ Timely(a.store) /\ (Grounded(store) => Grounded(a.store))
  /\ a.rate # Null /\ ~a.stale /\ day # Null => a.at <= EndOf(day)

LEMMA RememberKeeps ==
  ASSUME NEW store, Timely(store), NEW pair, NEW day, NEW t \in Int, NEW found,
         ToldFor(CacheKey(pair, day), found)
  PROVE  /\ Timely(Remember(store, pair, day, t, found))
         /\ /\ Grounded(store)
            /\ \E r \in store.rows : r.pair = pair /\ r.rate = found.rate /\ r.at = found.at
            => Grounded(Remember(store, pair, day, t, found))
<1> DEFINE key == CacheKey(pair, day)
           told == [rate |-> found.rate, at |-> found.at, until |-> t + TTL(day)]
           cache == [k \in DOMAIN store.cache \cup {key} |->
                       IF k = key THEN told ELSE store.cache[k]]
<1>1. PICK new : new = Remember(store, pair, day, t, found)
  OBVIOUS
<1>2. /\ new = [cache |-> cache, rows |-> store.rows]
      /\ new.cache = cache /\ new.rows = store.rows
  BY <1>1 DEF Remember, Timely
<1>3. ToldFor(key, told)
  BY DEF ToldFor
<1>4. key[1] = pair
  BY DEF CacheKey
<1> HIDE DEF key, told
<1>5. /\ DOMAIN cache = DOMAIN store.cache \cup {key}
      /\ cache[key] = told
      /\ \A k \in DOMAIN store.cache : k # key => cache[k] = store.cache[k]
  OBVIOUS
<1> HIDE DEF cache
<1>6. Timely(new)
  BY <1>2, <1>3, <1>5 DEF Timely
<1>7. ASSUME Grounded(store),
             \E r \in store.rows : r.pair = pair /\ r.rate = found.rate /\ r.at = found.at
      PROVE  Grounded(new)
  <2>1. told.rate = found.rate /\ told.at = found.at
    BY DEF told
  <2> SUFFICES ASSUME NEW k \in DOMAIN cache
               PROVE  \E r \in store.rows :
                        r.pair = k[1] /\ r.rate = cache[k].rate /\ r.at = cache[k].at
    BY <1>2 DEF Grounded
  <2>2. CASE k = key
    BY <1>4, <1>5, <1>7, <2>1, <2>2
  <2>3. CASE k # key
    BY <1>5, <1>7, <2>3 DEF Grounded
  <2>. QED  BY <2>2, <2>3
<1>. QED  BY <1>1, <1>6, <1>7

\* A row is added to the table.
LEMMA AddKeeps ==
  ASSUME NEW store, Timely(store), NEW rows, IsFiniteSet(rows),
         \A r \in rows : r.at \in Int /\ r.rate # Null
  PROVE  LET grown == [store EXCEPT !.rows = @ \cup rows]
         IN  /\ Timely(grown) /\ (Grounded(store) => Grounded(grown))
             /\ grown.rows = store.rows \cup rows
<1>1. PICK grown : grown = [store EXCEPT !.rows = @ \cup rows]
  OBVIOUS
<1>2. /\ grown = [cache |-> store.cache, rows |-> store.rows \cup rows]
      /\ grown.cache = store.cache /\ grown.rows = store.rows \cup rows
  BY <1>1 DEF Timely
<1>3. IsFiniteSet(store.rows \cup rows)
  BY FS_Union DEF Timely
<1>4. Timely(grown)
  BY <1>2, <1>3 DEF Timely
<1>5. Grounded(store) => Grounded(grown)
  BY <1>2 DEF Grounded
<1>. QED  BY <1>1, <1>2, <1>4, <1>5

\* A day begins before it ends.
LEMMA DayEnds ==
  ASSUME NEW d \in Int
  PROVE  Midnight(d) \in Int /\ EndOf(d) \in Int /\ Midnight(d) <= EndOf(d)
<1>1. DayLength \in Nat \ {0}
  BY RatesAssumption
<1>2. PICK w \in Int : w = d * DayLength /\ (d + 1) * DayLength = w + DayLength
  BY <1>1
<1>. QED  BY <1>1, <1>2 DEF Midnight, EndOf

LEMMA ServiceFine ==
  ASSUME Null \notin Int, NEW store, Timely(store), NEW pair, NEW day \in Int \cup {Null},
         NEW t \in Int, NEW service
  PROVE  Fine(store, pair, day, FromService(store, pair, day, t, service))
<1>1. PICK a : a = FromService(store, pair, day, t, service)
  OBVIOUS
<1>2. CASE \/ day # Null /\ service.daily = Null
           \/ day = Null /\ service.latest = Null
  <2>1. a.store = store /\ (a.rate # Null => a.stale)
    BY <1>1, <1>2 DEF FromService, NoRate, Answered
  <2>. QED  BY <1>1, <2>1 DEF Fine
<1>3. CASE /\ day # Null => service.daily # Null
           /\ day = Null => service.latest # Null
  <2> DEFINE found == IF day = Null THEN [rate |-> service.latest, at |-> t]
                                    ELSE [rate |-> service.daily, at |-> Midnight(day)]
             row == [pair |-> pair, rate |-> found.rate, at |-> found.at]
             grown == [store EXCEPT !.rows = @ \cup {row}]
  <2>1. a = Answered(found, FALSE, Remember(grown, pair, day, t, found))
    BY <1>1, <1>3 DEF FromService
  <2>2. found.rate # Null /\ found.at \in Int /\ (day # Null => found.at <= EndOf(day))
    BY <1>3, DayEnds
  <2>3. ToldFor(CacheKey(pair, day), found)
    BY <2>2 DEF ToldFor, CacheKey
  <2> HIDE DEF found
  <2>4. row.pair = pair /\ row.rate = found.rate /\ row.at = found.at
    OBVIOUS
  <2>5. \A r \in {row} : r.at \in Int /\ r.rate # Null
    BY <2>2
  <2>6. IsFiniteSet({row})
    BY FS_Singleton
  <2> HIDE DEF row
  <2>7. Timely(grown) /\ (Grounded(store) => Grounded(grown)) /\ row \in grown.rows
    BY <2>5, <2>6, AddKeeps
  <2> HIDE DEF grown
  <2>8. PICK new : new = Remember(grown, pair, day, t, found)
    OBVIOUS
  <2>9. Timely(new) /\ (Grounded(grown) => Grounded(new))
    BY <2>3, <2>4, <2>7, <2>8, RememberKeeps
  <2>10. a.store = new /\ a.at = found.at
    BY <2>1, <2>8 DEF Answered
  <2>. QED  BY <1>1, <2>2, <2>7, <2>9, <2>10 DEF Fine
<1>. QED  BY <1>2, <1>3

\* The last resort is marked stale, and answers for every pair the table knows.
LEMMA LastFine ==
  ASSUME NEW store, Timely(store), NEW pair, NEW day
  PROVE  /\ Fine(store, pair, day, LastKnown(store, pair))
         /\ RowsOf(store, pair, Null) # {} => LastKnown(store, pair).rate # Null
<1>1. PICK rows : rows = RowsOf(store, pair, Null)
  OBVIOUS
<1>2. rows \subseteq store.rows /\ IsFiniteSet(rows) /\ \A r \in rows : r.at \in Int
  BY <1>1, FS_Subset DEF RowsOf, Timely
<1>3. CASE rows = {}
  BY <1>1, <1>3 DEF LastKnown, NoRate, Fine
<1>4. CASE rows # {}
  <2>1. NewestRow(rows).rate # Null
    BY <1>2, <1>4, NewestIn DEF Timely
  <2>. QED  BY <1>1, <1>4, <2>1 DEF LastKnown, Answered, Fine
<1>. QED  BY <1>3, <1>4

\* A row that the table has for the day asked for.
LEMMA TableFine ==
  ASSUME Null \notin Int, NEW store, Timely(store), NEW pair, NEW day \in Int \cup {Null},
         NEW t \in Int, NEW r,
         RowsOf(store, pair, day) # {}, r = NewestRow(RowsOf(store, pair, day))
  PROVE  /\ Fine(store, pair, day, Answered(r, FALSE, Remember(store, pair, day, t, r)))
         /\ r.rate # Null
<1>1. PICK rows : rows = RowsOf(store, pair, day)
  OBVIOUS
<1>2. rows \subseteq store.rows /\ IsFiniteSet(rows) /\ \A q \in rows : q.at \in Int
  BY <1>1, FS_Subset DEF RowsOf, Timely
<1>3. r \in rows
  BY <1>1, <1>2, NewestIn
<1>4. /\ r \in store.rows /\ r.pair = pair /\ r.rate # Null
      /\ day # Null => r.at <= EndOf(day)
  BY <1>1, <1>3 DEF RowsOf, Timely
<1>5. ToldFor(CacheKey(pair, day), r)
  BY <1>4 DEF ToldFor, CacheKey
<1>6. PICK new : new = Remember(store, pair, day, t, r)
  OBVIOUS
<1>7. Timely(new) /\ (Grounded(store) => Grounded(new))
  BY <1>4, <1>5, <1>6, RememberKeeps
<1>. QED  BY <1>4, <1>6, <1>7 DEF Fine, Answered

\* One lookup of supported currencies.
LEMMA LookedFine ==
  ASSUME Null \notin Int, NEW store, Timely(store), NEW pair, NEW day \in Int \cup {Null},
         NEW t \in Int, NEW service
  PROVE  LET a == Looked(store, pair, day, t, service) IN
         /\ Fine(store, pair, day, a)
         /\ RowsOf(store, pair, Null) # {} => a.rate # Null
<1>1. PICK a, key, rows, asked :
        /\ a = Looked(store, pair, day, t, service) /\ key = CacheKey(pair, day)
        /\ rows = RowsOf(store, pair, day) /\ asked = FromService(store, pair, day, t, service)
  OBVIOUS
<1>2. CASE Alive(store, key, t)
  <2>1. a = Answered(store.cache[key], FALSE, store)
    BY <1>1, <1>2, Zenon DEF Looked
  <2>2. ToldFor(key, store.cache[key])
    BY <1>2 DEF Alive, Timely
  <2>3. a.store = store /\ a.rate # Null /\ (day # Null => a.at <= EndOf(day))
    BY <1>1, <2>1, <2>2 DEF Answered, ToldFor
  <2>. QED  BY <1>1, <2>3 DEF Fine
<1>3. CASE ~Alive(store, key, t) /\ rows # {}
  <2>1. PICK r : r = NewestRow(rows)
    OBVIOUS
  <2>2. a = Answered(r, FALSE, Remember(store, pair, day, t, r))
    BY <1>1, <1>3, <2>1, Zenon DEF Looked
  <2>3. Fine(store, pair, day, a) /\ r.rate # Null
    BY <1>1, <1>3, <2>1, <2>2, TableFine
  <2>. QED  BY <1>1, <2>2, <2>3 DEF Answered
<1>4. CASE ~Alive(store, key, t) /\ rows = {}
  <2>1. a = IF asked.rate # Null THEN asked ELSE LastKnown(store, pair)
    BY <1>1, <1>4, Zenon DEF Looked
  <2>2. Fine(store, pair, day, asked)
    BY <1>1, ServiceFine
  <2>. QED  BY <1>1, <2>1, <2>2, LastFine
<1>. QED  BY <1>1, <1>2, <1>3, <1>4

\* One lookup.
LEMMA LookupFine ==
  ASSUME Null \notin Int, NEW store, Timely(store), NEW pair, NEW day \in Int \cup {Null},
         NEW t \in Int, NEW service, NEW supported
  PROVE  LET a == GetRate(store, pair, day, t, service, supported) IN
         /\ Timely(a.store) /\ (Grounded(store) => Grounded(a.store))
         /\ a.rate # Null /\ ~a.stale /\ day # Null /\ pair[1] # pair[2] => a.at <= EndOf(day)
         /\ RowsOf(store, pair, Null) # {} /\ {pair[1], pair[2]} \subseteq supported
              => a.rate # Null
<1>1. PICK a : a = GetRate(store, pair, day, t, service, supported)
  OBVIOUS
<1>2. CASE pair[1] = pair[2]
  <2>1. a = Answered([rate |-> Unit, at |-> t], FALSE, store)
    BY <1>1, <1>2 DEF GetRate
  <2>2. Unit # Null
    BY RatesAssumption
  <2>. QED  BY <1>1, <1>2, <2>1, <2>2 DEF Answered
<1>3. CASE pair[1] # pair[2] /\ {pair[1], pair[2]} \subseteq supported
  <2>1. a = Looked(store, pair, day, t, service)
    BY <1>1, <1>3 DEF GetRate
  <2>. QED  BY <1>1, <2>1, LookedFine DEF Fine
<1>4. CASE pair[1] # pair[2] /\ ~({pair[1], pair[2]} \subseteq supported)
  <2>1. a = NoRate(store)
    BY <1>1, <1>4 DEF GetRate
  <2>. QED  BY <1>1, <1>4, <2>1 DEF NoRate
<1>. QED  BY <1>2, <1>3, <1>4

\* The empty store is kept, and the nightly fetch keeps a store.
LEMMA EmptyTimely == Timely([cache |-> [k \in {} |-> 0], rows |-> {}])
BY FS_EmptySet DEF Timely

LEMMA FetchKeeps ==
  ASSUME NEW store, Timely(store), NEW base, NEW t \in Int,
         NEW rates, IsFiniteSet(DOMAIN rates), \A c \in DOMAIN rates : rates[c] # Null,
         NEW supported
  PROVE  /\ Timely(DailyFetch(store, base, rates, t, supported))
         /\ Grounded(store) => Grounded(DailyFetch(store, base, rates, t, supported))
<1> DEFINE Row(c) == [pair |-> <<base, c>>, rate |-> rates[c], at |-> t]
           rows == {Row(c) : c \in DOMAIN rates \cap supported}
<1>1. IsFiniteSet(rows)
  <2>1. PICK f : f = [c \in DOMAIN rates \cap supported |-> Row(c)]
    OBVIOUS
  <2>2. f \in Surjection(DOMAIN rates \cap supported, rows)
    BY <2>1 DEF Surjection
  <2>3. DOMAIN rates \cap supported \in SUBSET DOMAIN rates
    OBVIOUS
  <2>. QED  BY <2>2, <2>3, FS_Surjection, FS_Subset
<1>2. \A r \in rows : r.at \in Int /\ r.rate # Null
  OBVIOUS
<1>3. DailyFetch(store, base, rates, t, supported) = [store EXCEPT !.rows = @ \cup rows]
  BY DEF DailyFetch
<1> HIDE DEF rows
<1>. QED  BY <1>1, <1>2, <1>3, AddKeeps

\* exchange_rate_service.py 93-229: whatever lookups and nightly fetches went
\* before, and whatever the rate service answers, a rate that is not marked stale
\* is of the day asked for or earlier, a supported pair the table knows has an answer, and
\* a lookup caches nothing that the table lacks.  The stores are those that grow
\* from the empty one: EmptyTimely, FetchKeeps, and the second part of this.
THEOREM RatesTheorem ==
  ASSUME Null \notin Int,
         NEW stores, \A s \in stores : Timely(s),
         NEW pairs, NEW days \in SUBSET (Int \cup {Null}), NEW moments \in SUBSET Int, NEW services,
         NEW supported
  PROVE  /\ RatesOfTheirDay(stores, pairs, days, moments, services, supported)
         /\ \A s \in Lookups(stores, pairs, days, moments, services, supported) : Timely(s)
<1>1. RatesOfTheirDay(stores, pairs, days, moments, services, supported)
  <2>. SUFFICES ASSUME NEW s \in stores, NEW p \in pairs, NEW d \in days,
                       NEW t \in moments, NEW v \in services
                PROVE  LET a == GetRate(s, p, d, t, v, supported) IN
                       /\ a.rate # Null /\ ~a.stale /\ d # Null /\ p[1] # p[2] => a.at <= EndOf(d)
                       /\ RowsOf(s, p, Null) # {} /\ {p[1], p[2]} \subseteq supported => a.rate # Null
                       /\ Grounded(s) => Grounded(a.store)
    BY Zenon DEF RatesOfTheirDay
  <2>1. Timely(s) /\ d \in Int \cup {Null} /\ t \in Int
    OBVIOUS
  <2>2. LET a == GetRate(s, p, d, t, v, supported) IN
        /\ Timely(a.store) /\ (Grounded(s) => Grounded(a.store))
        /\ a.rate # Null /\ ~a.stale /\ d # Null /\ p[1] # p[2] => a.at <= EndOf(d)
        /\ RowsOf(s, p, Null) # {} /\ {p[1], p[2]} \subseteq supported => a.rate # Null
    BY <2>1, LookupFine, Zenon
  <2>. QED  BY <2>2, Zenon
<1>2. \A s \in Lookups(stores, pairs, days, moments, services, supported) : Timely(s)
  <2>. SUFFICES ASSUME NEW s \in stores, NEW p \in pairs, NEW d \in days,
                       NEW t \in moments, NEW v \in services
                PROVE  Timely(GetRate(s, p, d, t, v, supported).store)
    BY DEF Lookups
  <2>1. Timely(s) /\ d \in Int \cup {Null} /\ t \in Int
    OBVIOUS
  <2>. QED  BY <2>1, LookupFine, Zenon
<1>. QED  BY <1>1, <1>2

-----------------------------------------------------------------------------
(* The reports and the pages.                                              *)

\* The words of the status columns.
Words == Lifecycles \cup Cancels \cup Refunds \cup Pays
           \cup {"unpaid", "unshipped", "shipped", "delivered"}

\* order_utils.py 6-36, order_tasks.py 369-421, orders.py 84-125 and 195-263,
\* analytics_service.py 147-156: whatever Etsy's status is and whatever the row
\* held, a row as a sync stores it is on one card and in that card's list alone,
\* earns unless it is cancelled or refunded, and is shown as it would be without
\* the stored lifecycle.
THEOREM SyncedTheorem ==
  ASSUME Null \notin Words,
         NEW row, {"etsy", "life", "pay", "fulf", "status"} \subseteq DOMAIN row,
         row = [f \in DOMAIN row |-> row[f]],
         NEW etsys, NEW fulfs
  PROVE  SyncedCountsOnce(row, etsys, fulfs)
<1> SUFFICES ASSUME NEW e \in etsys, NEW paid \in BOOLEAN, NEW f \in fulfs
             PROVE  LET o == Synced(row, e, paid, f) IN
    /\ Cards(o) = {ShownLifecycle(o)}
    /\ \A c \in Lifecycles : Matches(o, c, Null) <=> c \in Cards(o)
    /\ Earning(o) <=> Cards(o) \cap {"cancelled", "refunded"} = {}
    /\ ShownLifecycle([o EXCEPT !.life = Null]) = o.life
    /\ o.life \in {"cancelled", "refunded"} =>
         ShownLifecycle([o EXCEPT !.life = Null, !.etsy = Null]) = o.life
    /\ IsPaid(o) # IsUnpaid(o)
  BY DEF SyncedCountsOnce
<1>0. /\ Null \notin Lifecycles /\ Null \notin Cancels /\ Null \notin Refunds
      /\ Null # "paid" /\ Null # "unpaid" /\ Null # "shipped" /\ Null # "delivered"
  BY DEF Words, Lifecycles, Pays
<1>1. PICK life : life = LifecycleFor(e, f)
  OBVIOUS
<1>2. life \in Lifecycles /\ life # Null
  BY <1>0, <1>1 DEF LifecycleFor, Lifecycles
<1>3. PICK o : o = Synced(row, e, paid, f)
  OBVIOUS
<1>4. /\ o.etsy = e /\ o.life = life /\ o.fulf = f /\ o.pay \in {"paid", "unpaid"}
      /\ o.status = LegacyFor(life, f)
  BY <1>1, <1>3 DEF Synced
<1>5. PICK x : x = [o EXCEPT !.life = Null]
  OBVIOUS
<1>6. x.life = Null /\ x.etsy = e /\ x.fulf = f /\ x.status = LegacyFor(life, f)
  BY <1>3, <1>4, <1>5 DEF Synced
<1>7. PICK y : y = [o EXCEPT !.life = Null, !.etsy = Null]
  OBVIOUS
<1>8. y.life = Null /\ y.etsy = Null /\ y.fulf = f /\ y.status = LegacyFor(life, f)
  BY <1>3, <1>4, <1>7 DEF Synced
<1>9. Cards(o) = {life} /\ ShownLifecycle(o) = life
  BY <1>2, <1>4 DEF Cards, ShownLifecycle
<1>10. \A c \in Lifecycles : Matches(o, c, Null) <=> c = life
  <2> SUFFICES ASSUME NEW c \in Lifecycles PROVE Matches(o, c, Null) <=> c = life
    OBVIOUS
  <2>1. Null # "paid" /\ Null # "unpaid" /\ c # Null
    BY <1>0
  <2>2. Matches(o, c, Null) <=> \/ c = life \/ (c = "cancelled" /\ e \in Cancels)
                                \/ (c = "refunded" /\ e \in Refunds)
    BY <1>4, <1>9, <2>1 DEF Matches
  <2>3. /\ e \in Cancels => life = "cancelled"
        /\ e \in Refunds => life = "refunded"
    BY <1>1 DEF LifecycleFor, Cancels, Refunds
  <2>. QED  BY <2>2, <2>3
<1>11. Earning(o) <=> life \notin {"cancelled", "refunded"}
  <2>1. LegacyFor(life, f) # Null
    BY <1>0, <1>2 DEF LegacyFor
  <2>2. LegacyFor(life, f) \in {"cancelled", "refunded"} <=> life \in {"cancelled", "refunded"}
    BY <1>2 DEF LegacyFor
  <2>. QED  BY <1>4, <2>1, <2>2 DEF Earning
<1>12. ShownLifecycle(x) = life
  BY <1>1, <1>6 DEF ShownLifecycle, LifecycleFor, LegacyFor, Cancels, Refunds
<1>13. life \in {"cancelled", "refunded"} => ShownLifecycle(y) = life
  <2>1. Null \notin Refunds /\ Null \notin Cancels
    BY <1>0
  <2>. QED  BY <1>8, <2>1 DEF ShownLifecycle, LegacyFor
<1>14. IsPaid(o) # IsUnpaid(o)
  <2>1. CASE o.pay = "paid"
    BY <1>0, <2>1 DEF IsPaid, IsUnpaid
  <2>2. CASE o.pay = "unpaid"
    BY <1>0, <2>2 DEF IsPaid, IsUnpaid
  <2>. QED  BY <1>4, <2>1, <2>2
<1>15. life \in {"cancelled", "refunded"} <=> Cards(o) \cap {"cancelled", "refunded"} # {}
  BY <1>9
<1>. QED  BY <1>3, <1>4, <1>5, <1>7, <1>9, <1>10, <1>11, <1>12, <1>13, <1>14, <1>15

\* orders.py 84-125 and order_utils.py 18-36: every row, also one that lacks the
\* derived columns, is on some card, is either paid or unpaid, and is shown as one
\* of its cards unless only the legacy column says so.
THEOREM ShownTheorem ==
  ASSUME Null \notin Words,
         NEW rows,
         \A o \in rows : /\ o.life \in Lifecycles \cup {Null}
                         /\ o.pay \in {Null, "paid", "unpaid"}
                         /\ o.fulf \in {Null, "unshipped", "shipped", "delivered"}
  PROVE  ShownIsCounted(rows)
<1> SUFFICES ASSUME NEW o \in rows
             PROVE  /\ Cards(o) # {} /\ IsPaid(o) # IsUnpaid(o)
                    /\ "processing" \in Cards(o) => Cards(o) = {"processing"}
                    /\ \/ ShownLifecycle(o) \in Cards(o)
                       \/ o.life = Null /\ o.status \in {"cancelled", "refunded", "shipped"}
                    /\ ShownPayment(o) = "paid" <=> IsPaid(o)
  BY DEF ShownIsCounted
<1>0. /\ Null \notin Lifecycles /\ Null \notin Cancels /\ Null \notin Refunds
      /\ Null # "paid" /\ Null # "unpaid" /\ Null # "shipped" /\ Null # "delivered"
  BY DEF Words, Lifecycles, Pays
<1>1. IsPaid(o) # IsUnpaid(o) /\ (ShownPayment(o) = "paid" <=> IsPaid(o))
  <2>1. CASE o.pay = Null
    <3>1. CASE o.etsy \in Pays
      BY <1>0, <2>1, <3>1 DEF IsPaid, IsUnpaid, ShownPayment
    <3>2. CASE o.etsy \notin Pays
      BY <1>0, <2>1, <3>2 DEF IsPaid, IsUnpaid, ShownPayment
    <3>. QED  BY <3>1, <3>2
  <2>2. CASE o.pay = "paid"
    BY <1>0, <2>2 DEF IsPaid, IsUnpaid, ShownPayment
  <2>3. CASE o.pay = "unpaid"
    BY <1>0, <2>3 DEF IsPaid, IsUnpaid, ShownPayment
  <2>. QED  BY <2>1, <2>2, <2>3
<1>2. CASE o.life # Null
  BY <1>1, <1>2 DEF Cards, ShownLifecycle
<1>3. CASE o.life = Null
  <2>1. PICK cards : cards = Cards(o)
    OBVIOUS
  <2>2. cards = Legacy(o)
    BY <1>3, <2>1 DEF Cards
  <2>3. /\ "processing" \in cards <=> /\ o.etsy \notin {"completed"} \cup Cancels \cup Refunds
                                      /\ o.fulf \in {Null, "unshipped"}
        /\ "in_transit" \in cards <=> o.fulf = "shipped"
        /\ "completed" \in cards <=> o.fulf = "delivered" \/ o.etsy = "completed"
        /\ "cancelled" \in cards <=> o.etsy \in Cancels
        /\ "refunded" \in cards <=> o.etsy \in Refunds
        /\ cards \subseteq Lifecycles
    BY <2>2 DEF Legacy, Lifecycles
  <2>4. "processing" \in cards => cards = {"processing"}
    BY <1>0, <2>3 DEF Lifecycles
  <2>5. cards # {}
    BY <2>3
  <2>6. \/ ShownLifecycle(o) \in cards
        \/ o.status \in {"cancelled", "refunded", "shipped"}
    BY <1>3, <2>3 DEF ShownLifecycle
  <2>. QED  BY <1>1, <1>3, <2>1, <2>4, <2>5, <2>6
<1>. QED  BY <1>2, <1>3

\* A row of some rank is on one page.
LEMMA OnePage ==
  ASSUME NEW r \in Nat, NEW n \in Nat, r <= n, NEW limit \in Nat \ {0}
  PROVE  \E k \in 0..n :
           /\ r \in limit * k .. limit * k + limit - 1
           /\ \A j \in 0..n : r \in limit * j .. limit * j + limit - 1 => j = k
<1> DEFINE Below(k) == limit * k <= r /\ r < limit * k + limit
<1>1. PICK k \in Int : Below(k)
  <2>1. PICK k : k = r \div limit
    OBVIOUS
  <2>2. k \in Int /\ limit * k <= r /\ r < limit * k + limit
    BY <2>1, Division
  <2>. QED  BY <2>2
<1>2. ASSUME NEW i \in Int, NEW j \in Int, i < j, Below(i), Below(j)
      PROVE  FALSE
  <2>1. PICK x \in Int, y \in Int : x = limit * i /\ y = limit * j
    OBVIOUS
  <2>2. PICK m \in Nat : j = i + 1 + m
    BY <1>2
  <2>3. y = x + limit + limit * m /\ limit * m >= 0
    BY <2>1, <2>2
  <2>4. PICK z \in Nat : z = limit * m
    BY <2>2
  <2>. QED  BY <1>2, <2>1, <2>3, <2>4
<1>3. k \in 0..n
  <2>1. k >= 0
    <3> SUFFICES ASSUME k < 0 PROVE FALSE
      OBVIOUS
    <3>1. PICK m \in Nat : k = -(m + 1)
      OBVIOUS
    <3>2. PICK z \in Nat : z = limit * m
      OBVIOUS
    <3>3. limit * k = -z - limit
      BY <3>1, <3>2
    <3>. QED  BY <1>1, <3>2, <3>3
  <2>2. limit * k >= k
    <3>1. PICK l \in Nat : limit = l + 1
      OBVIOUS
    <3>2. PICK z \in Nat : z = l * k
      BY <2>1, <3>1
    <3>3. limit * k = z + k
      BY <3>1, <3>2
    <3>. QED  BY <3>2, <3>3
  <2>3. PICK w \in Int : w = limit * k
    OBVIOUS
  <2>. QED  BY <1>1, <2>1, <2>2, <2>3
<1>4. \A j \in Int : Below(j) <=> r \in limit * j .. limit * j + limit - 1
  <2> SUFFICES ASSUME NEW j \in Int
               PROVE  Below(j) <=> r \in limit * j .. limit * j + limit - 1
    OBVIOUS
  <2>1. PICK w \in Int : w = limit * j
    OBVIOUS
  <2>. QED  BY <2>1
<1> HIDE DEF Below
<1>5. \A j \in 0..n : Below(j) => j = k
  <2> SUFFICES ASSUME NEW j \in 0..n, Below(j) PROVE j = k
    OBVIOUS
  <2>. QED  BY <1>1, <1>2
<1>6. r \in limit * k .. limit * k + limit - 1
  BY <1>1, <1>4
<1>7. \A j \in 0..n : r \in limit * j .. limit * j + limit - 1 => j = k
  BY <1>4, <1>5
<1>. QED  BY <1>3, <1>6, <1>7, Zenon

\* The rows before one are no more than all.
LEMMA RankIn ==
  ASSUME NEW S, IsFiniteSet(S), NEW P, P \subseteq S, NEW R, R \subseteq P
  PROVE  /\ Cardinality(R) \in Nat /\ Cardinality(S) \in Nat
         /\ Cardinality(R) <= Cardinality(S)
<1>1. R \in SUBSET S
  OBVIOUS
<1>2. IsFiniteSet(R) /\ Cardinality(R) <= Cardinality(S)
  BY <1>1, FS_Subset
<1>. QED  BY <1>2, FS_CardinalityType

\* A row of the same rank whenever a page is asked for is on one page.
LEMMA OnlyPage ==
  ASSUME NEW n \in Nat, NEW limit \in Nat \ {0}, NEW r \in Nat, r <= n,
         NEW H \in SUBSET (0..n),
         \A k \in 0..n : k \in H <=> r \in limit * k .. limit * k + limit - 1
  PROVE  Cardinality(H) = 1
<1>1. PICK k \in 0..n :
        /\ r \in limit * k .. limit * k + limit - 1
        /\ \A j \in 0..n : r \in limit * j .. limit * j + limit - 1 => j = k
  BY OnePage
<1>2. H = {k}
  BY <1>1
<1>. QED  BY <1>2, FS_Singleton

\* orders.py 265-277: pages of any size show every order that matches once, if no
\* other has its moments or the database keeps to one order of them.
THEOREM OrderPagesTheorem ==
  ASSUME Null \notin Words,
         NEW rows, IsFiniteSet(rows), \A o, p \in rows : o.id = p.id => o = p,
         NEW viewer, NEW q, NEW limit \in Nat \ {0},
         NEW ties, \A k \in Nat : \A o \in rows : ties[k][o.id] \in Int
  PROVE  OrderPagesPartition(rows, viewer, q, limit, ties)
<1> DEFINE pages == 0 .. Cardinality(rows)
           steady == \A j, k \in pages : ties[j] = ties[k]
           Turned(k) == OrderPage(rows, viewer, q, Null, Null, limit * k, limit, Null, Null, ties[k])
           In(k) == {o.id : o \in Turned(k).orders}
<1>1. PICK S : S = Visible(rows, viewer, q)
  OBVIOUS
<1> DEFINE Single(o) == \A p \in S : p.created = o.created /\ p.stored = o.stored => p = o
<1>2. S \subseteq rows
  BY <1>1 DEF Visible
<1>3. {o \in S : Matches(o, Null, Null)} = S
  <2>1. Null # "paid" /\ Null # "unpaid"
    BY DEF Words, Pays
  <2>. QED  BY <2>1 DEF Matches
<1>4. ASSUME NEW k, NEW o \in S
      PROVE  o.id \in In(k) <=> o \in Slice(S, limit * k, limit, ties[k])
  <2>1. PICK skip, tie : skip = limit * k /\ tie = ties[k]
    OBVIOUS
  <2>2. Turned(k).orders = {ShownRow(x, viewer, Null, Null) : x \in Slice(S, skip, limit, tie)}
    BY <1>1, <1>3, <2>1 DEF OrderPage
  <2>3. \A x : ShownRow(x, viewer, Null, Null).id = x.id
    BY DEF ShownRow
  <2>4. In(k) = {x.id : x \in Slice(S, skip, limit, tie)}
    BY <2>2, <2>3
  <2>5. Slice(S, skip, limit, tie) \subseteq S
    BY DEF Slice
  <2>. QED  BY <1>2, <2>1, <2>4, <2>5
<1> HIDE DEF In
<1>5. ASSUME NEW o \in S, steady \/ Single(o)
      PROVE  Cardinality({k \in pages : o.id \in In(k)}) = 1
  <2> DEFINE Before(k) == {p \in S : OrderBefore(p, o, ties[k])}
  <2>1. ASSUME NEW k \in pages PROVE Before(k) = Before(0)
    <3>1. /\ Cardinality(rows) \in Nat /\ 0 \in pages /\ k \in Nat
          /\ ties[k][o.id] \in Int /\ ties[0][o.id] \in Int
      BY <1>2, FS_CardinalityType
    <3>2. CASE steady
      <4>1. ties[k] = ties[0]
        BY <3>1, <3>2
      <4>. QED  BY <4>1
    <3>3. CASE Single(o)
      <4>1. ASSUME NEW p \in S PROVE OrderBefore(p, o, ties[k]) <=> OrderBefore(p, o, ties[0])
        <5>1. CASE p = o
          BY <3>1, <5>1 DEF OrderBefore
        <5>2. CASE p # o
          <6>1. p.created # o.created \/ p.stored # o.stored
            BY <3>3, <5>2
          <6>. QED  BY <6>1 DEF OrderBefore
        <5>. QED  BY <5>1, <5>2
      <4>. QED  BY <4>1
    <3>. QED  BY <1>5, <3>2, <3>3
  <2>2. PICK n \in Nat, r \in Nat : n = Cardinality(rows) /\ r = Cardinality(Before(0)) /\ r <= n
    <3>1. Before(0) \subseteq S
      OBVIOUS
    <3> HIDE DEF Before
    <3>. QED  BY <1>2, <3>1, RankIn
  <2>3. ASSUME NEW k \in 0..n
        PROVE  o.id \in In(k) <=> r \in limit * k .. limit * k + limit - 1
    <3>1. Cardinality(Before(k)) = r
      BY <2>1, <2>2
    <3>2. o \in Slice(S, limit * k, limit, ties[k])
            <=> Cardinality(Before(k)) \in limit * k .. limit * k + limit - 1
      BY <1>5 DEF Slice
    <3>. QED  BY <1>4, <1>5, <3>1, <3>2
  <2>4. PICK H \in SUBSET (0..n) : H = {k \in pages : o.id \in In(k)}
    BY <2>2
  <2>5. \A k \in 0..n : k \in H <=> r \in limit * k .. limit * k + limit - 1
    BY <2>2, <2>3, <2>4
  <2>. QED  BY <2>2, <2>4, <2>5, OnlyPage
<1>6. \A o \in S : steady \/ Single(o) => Cardinality({k \in pages : o.id \in In(k)}) = 1
  BY <1>5
<1>. QED  BY <1>1, <1>6, Zenon DEF OrderPagesPartition, In

\* financial_service.py 427-493 and 596-650: turning the pages of the ledger and
\* of the payments shows every row once, if no other is of its moment or the database
\* keeps to one order of them.  A page of the ledger is cut at a hundred rows, so
\* that the pages of a larger limit leave rows out.
THEOREM PagesTheorem ==
  ASSUME NEW b, IsFiniteSet(b.entries), IsFiniteSet(b.payments),
         \A p, r \in b.payments : p.id = r.id => p = r,
         NEW q, NEW limit \in 1..100,
         NEW ties, \A k \in Nat : \A x \in b.entries \cup b.payments : ties[k][x.id] \in Int
  PROVE  PagesPartition(b, q, limit, ties)
<1> DEFINE n == Cardinality(b.entries) + Cardinality(b.payments)
           pages == 0..n
           steady == \A j, k \in pages : ties[j] = ties[k]
           S == EntriesOf(b, q)
           P == {p \in b.payments : Covers(q, p.shop)}
           Leaf(k) == LedgerPage(b, q, Null, limit, limit * k, ties[k]).entries
           Profit(k) ==
             {r.id : r \in OrderProfitability(b, q, limit, limit * k, ties[k]).orders}
<1>1. /\ n \in Nat /\ Cardinality(b.entries) <= n /\ Cardinality(b.payments) <= n
      /\ limit \in Nat \ {0}
  BY FS_CardinalityType
<1> HIDE DEF n
<1>2. ASSUME NEW e \in S, steady \/ Alone(e, S)
      PROVE  Cardinality({k \in pages : e \in Leaf(k)}) = 1
  <2> DEFINE Before(k) == {f \in S : Newer(f, e, ties[k])}
  <2>1. ASSUME NEW k \in pages PROVE Before(k) = Before(0)
    <3>1. 0 \in pages /\ k \in Nat /\ ties[k][e.id] \in Int /\ ties[0][e.id] \in Int
      BY <1>1 DEF EntriesOf
    <3>2. CASE steady
      <4>1. ties[k] = ties[0]
        BY <3>1, <3>2
      <4>. QED  BY <4>1
    <3>3. CASE Alone(e, S)
      <4> HIDE DEF S
      <4>1. ASSUME NEW f \in S PROVE Newer(f, e, ties[k]) <=> Newer(f, e, ties[0])
        BY <3>1, <3>3 DEF Newer, Alone
      <4>. QED  BY <4>1
    <3>. QED  BY <1>2, <3>2, <3>3
  <2>2. PICK r \in Nat : r = Cardinality(Before(0)) /\ r <= n
    <3>1. S \subseteq b.entries /\ Before(0) \subseteq S
      BY DEF EntriesOf
    <3> HIDE DEF Before, S
    <3>2. /\ Cardinality(Before(0)) \in Nat /\ Cardinality(b.entries) \in Nat
          /\ Cardinality(Before(0)) <= Cardinality(b.entries)
      BY <3>1, RankIn
    <3>. QED  BY <1>1, <3>2
  <2>3. ASSUME NEW k \in pages
        PROVE  e \in Leaf(k) <=> r \in limit * k .. limit * k + limit - 1
    <3>1. (IF limit < 100 THEN limit ELSE 100) = limit
      OBVIOUS
    <3>2. {x \in S : Null = Null \/ x.type = Null} = S
      OBVIOUS
    <3>3. e \in Leaf(k) <=> Cardinality(Before(k)) \in limit * k .. limit * k + limit - 1
      BY <1>2, <3>1, <3>2 DEF LedgerPage
    <3>. QED  BY <2>1, <2>2, <3>3
  <2> HIDE DEF Leaf
  <2>4. PICK H \in SUBSET pages : H = {k \in pages : e \in Leaf(k)}
    OBVIOUS
  <2>5. \A k \in pages : k \in H <=> r \in limit * k .. limit * k + limit - 1
    BY <2>3, <2>4
  <2>. QED  BY <1>1, <2>2, <2>4, <2>5, OnlyPage
<1>3. ASSUME NEW p \in P, steady \/ Alone(p, P)
      PROVE  Cardinality({k \in pages : p.id \in Profit(k)}) = 1
  <2> DEFINE Before(k) == {f \in P : PaymentBefore(f, p, ties[k])}
  <2>1. ASSUME NEW k \in pages PROVE Before(k) = Before(0)
    <3>1. 0 \in pages /\ k \in Nat /\ ties[k][p.id] \in Int /\ ties[0][p.id] \in Int
      BY <1>1
    <3>2. CASE steady
      <4>1. ties[k] = ties[0]
        BY <3>1, <3>2
      <4>. QED  BY <4>1
    <3>3. CASE Alone(p, P)
      <4> HIDE DEF P
      <4>1. ASSUME NEW f \in P PROVE PaymentBefore(f, p, ties[k]) <=> PaymentBefore(f, p, ties[0])
        BY <3>1, <3>3 DEF PaymentBefore, Alone
      <4>. QED  BY <4>1
    <3>. QED  BY <1>3, <3>2, <3>3
  <2>2. PICK r \in Nat : r = Cardinality(Before(0)) /\ r <= n
    <3>1. P \subseteq b.payments /\ Before(0) \subseteq P
      OBVIOUS
    <3> HIDE DEF Before, P
    <3>2. /\ Cardinality(Before(0)) \in Nat /\ Cardinality(b.payments) \in Nat
          /\ Cardinality(Before(0)) <= Cardinality(b.payments)
      BY <3>1, RankIn
    <3>. QED  BY <1>1, <3>2
  <2>3. ASSUME NEW k \in pages
        PROVE  p.id \in Profit(k) <=> r \in limit * k .. limit * k + limit - 1
    <3> DEFINE Turned(x) == Cardinality({f \in P : PaymentBefore(f, x, ties[k])})
                              \in limit * k .. limit * k + limit - 1
    <3>1. PICK X : X = {x \in P : Turned(x)}
      OBVIOUS
    <3>2. OrderProfitability(b, q, limit, limit * k, ties[k]).orders
            = {[id |-> x.id, final_net |-> Coalesce(x.adjusted, x.net)] : x \in X}
      BY <3>1 DEF OrderProfitability
    <3>3. Profit(k) = {x.id : x \in X}
      <4>1. PICK Y : Y = OrderProfitability(b, q, limit, limit * k, ties[k]).orders
        OBVIOUS
      <4>2. \A y \in Y : \E x \in X : y.id = x.id
        BY <3>2, <4>1
      <4>3. \A x \in X : \E y \in Y : y.id = x.id
        <5> SUFFICES ASSUME NEW x \in X PROVE \E y \in Y : y.id = x.id
          OBVIOUS
        <5>1. PICK y : y = [id |-> x.id, final_net |-> Coalesce(x.adjusted, x.net)]
          OBVIOUS
        <5>. QED  BY <3>2, <4>1, <5>1
      <4>. QED  BY <4>1, <4>2, <4>3
    <3>4. Turned(p) <=> r \in limit * k .. limit * k + limit - 1
      BY <2>1, <2>2
    <3> HIDE DEF Turned, Profit
    <3>. QED  BY <3>1, <3>3, <3>4
  <2> HIDE DEF Profit, P
  <2>4. PICK H \in SUBSET pages : H = {k \in pages : p.id \in Profit(k)}
    OBVIOUS
  <2>5. \A k \in pages : k \in H <=> r \in limit * k .. limit * k + limit - 1
    BY <2>3, <2>4
  <2>. QED  BY <1>1, <2>2, <2>4, <2>5, OnlyPage
<1>4. \A e \in S : steady \/ Alone(e, S) => Cardinality({k \in pages : e \in Leaf(k)}) = 1
  BY <1>2
<1>5. \A p \in P : steady \/ Alone(p, P) => Cardinality({k \in pages : p.id \in Profit(k)}) = 1
  BY <1>3
<1>. QED  BY <1>4, <1>5, Zenon DEF PagesPartition, n

\* financial_tasks.py 32-50: money of any amount and divisor is stored to the
\* nearest cent.
THEOREM CentTheorem == NearestCent(Int, Int)
<1> SUFFICES ASSUME NEW a \in Int, NEW d \in Int, d > 0
             PROVE  2 * (Normalized([kind |-> "money", amount |-> a, divisor |-> d]) * d - a * 100)
                      \in -d..d
  BY DEF NearestCent
<1>1. PICK n \in Int : n = a * 100
  OBVIOUS
<1>2. PICK p \in Int, r \in Int : p = n \div d /\ r = n % d
  BY <1>1
<1>3. PICK w \in Int : w = p * d /\ n = w + r /\ 0 <= r /\ r < d /\ (p + 1) * d = w + d
  <2>1. n = d * p + r /\ 0 <= r /\ r < d
    BY <1>1, <1>2
  <2>. QED  BY <2>1
<1>4. Normalized([kind |-> "money", amount |-> a, divisor |-> d]) = RoundHalfEven(n, d)
  <2>1. PICK money : money = [kind |-> "money", amount |-> a, divisor |-> d]
    OBVIOUS
  <2>2. money.kind = "money" /\ money.amount = a /\ money.divisor = d
    BY <2>1
  <2>3. "money" # "null" /\ "money" # "number"
    OBVIOUS
  <2>4. Normalized(money) = RoundHalfEven(a * 100, IF d > 0 THEN d ELSE 100)
    BY <2>2, <2>3, Zenon DEF Normalized
  <2>. QED  BY <1>1, <2>1, <2>4
<1>5. \/ RoundHalfEven(n, d) = p /\ 2 * r <= d
      \/ RoundHalfEven(n, d) = p + 1 /\ 2 * r >= d
  BY <1>1, <1>2, <1>3 DEF RoundHalfEven
<1>6. 2 * (RoundHalfEven(n, d) * d - n) \in -d..d
  <2>1. CASE RoundHalfEven(n, d) = p /\ 2 * r <= d
    BY <1>3, <2>1
  <2>2. CASE RoundHalfEven(n, d) = p + 1 /\ 2 * r >= d
    BY <1>3, <2>2
  <2>. QED  BY <1>5, <2>1, <2>2
<1>. QED  BY <1>1, <1>4, <1>6

\* financial_tasks.py 147-209 and financials.py 342-372: the seed and the syncs
\* leave every type that is mapped as it is, register the type of an entry, and
\* keep a type's category and its mark of being mapped together.
THEOREM RegistryTheorem ==
  ASSUME Null \notin Categories,
         NEW registries,
         \A r \in registries : \E D, C : r \in [D -> [category : C, mapped : BOOLEAN]],
         NEW seeds, \A s \in seeds : \A t \in DOMAIN s : s[t] # Null,
         NEW types
  PROVE  RegistryKept(registries, seeds, types)
<1> SUFFICES ASSUME NEW r \in registries, NEW s \in seeds, NEW t \in types, Consistent(r)
             PROVE  /\ t \in DOMAIN Met(r, s, t)
                    /\ \A after \in {Seeded(r, s), Met(r, s, t)} :
                         /\ Consistent(after)
                         /\ \A u \in DOMAIN r : r[u].mapped => after[u] = r[u]
                         /\ \A u \in DOMAIN after :
                              after[u] # Unknown /\ (u \notin DOMAIN r \/ ~r[u].mapped)
                                => after[u] = Known(s[u])
                    /\ \A c \in Categories : Consistent(MappedTo(r, t, c))
  BY DEF RegistryKept
<1>1. \A u \in DOMAIN r : /\ r[u].mapped <=> r[u].category # Null
                          /\ ~r[u].mapped => r[u] = Unknown
  <2>1. PICK D, C : r \in [D -> [category : C, mapped : BOOLEAN]]
    OBVIOUS
  <2> SUFFICES ASSUME NEW u \in D
               PROVE  /\ r[u].mapped <=> r[u].category # Null
                      /\ ~r[u].mapped => r[u] = Unknown
    BY <2>1
  <2>2. r[u] \in [category : C, mapped : BOOLEAN] /\ (r[u].mapped <=> r[u].category # Null)
    BY <2>1 DEF Consistent
  <2>3. ASSUME ~r[u].mapped PROVE r[u] = Unknown
    <3>1. r[u] = [category |-> r[u].category, mapped |-> r[u].mapped]
      BY <2>2
    <3>2. r[u].category = Null /\ r[u].mapped = FALSE
      BY <2>2, <2>3
    <3>. QED  BY <3>1, <3>2 DEF Unknown
  <2>. QED  BY <2>2, <2>3
<1>2. \A c : /\ Known(c).mapped /\ Known(c).category = c
             /\ ~Unknown.mapped /\ Unknown.category = Null
  BY DEF Known, Unknown
<1>3. ASSUME NEW after,
             \A u \in DOMAIN after :
               \/ u \in DOMAIN r /\ after[u] = r[u]
               \/ u \in DOMAIN s /\ after[u] = Known(s[u]) /\ (u \in DOMAIN r => ~r[u].mapped)
               \/ after[u] = Unknown /\ u \notin DOMAIN r,
             DOMAIN r \subseteq DOMAIN after
      PROVE  /\ Consistent(after)
             /\ \A u \in DOMAIN r : r[u].mapped => after[u] = r[u]
             /\ \A u \in DOMAIN after :
                  after[u] # Unknown /\ (u \notin DOMAIN r \/ ~r[u].mapped)
                    => after[u] = Known(s[u])
  <2>1. Consistent(after)
    BY <1>1, <1>2, <1>3 DEF Consistent
  <2>. QED  BY <1>1, <1>3, <2>1
<1>4. PICK x : x = Seeded(r, s)
  OBVIOUS
<1>5. /\ DOMAIN r \subseteq DOMAIN x
      /\ \A u \in DOMAIN x :
           \/ u \in DOMAIN r /\ x[u] = r[u]
           \/ u \in DOMAIN s /\ x[u] = Known(s[u]) /\ (u \in DOMAIN r => ~r[u].mapped)
           \/ x[u] = Unknown /\ u \notin DOMAIN r
  BY <1>1, <1>4 DEF Seeded
<1>6. PICK y : y = Met(r, s, t)
  OBVIOUS
<1>7. /\ DOMAIN r \subseteq DOMAIN y /\ t \in DOMAIN y
      /\ \A u \in DOMAIN y :
           \/ u \in DOMAIN r /\ y[u] = r[u]
           \/ u \in DOMAIN s /\ y[u] = Known(s[u]) /\ (u \in DOMAIN r => ~r[u].mapped)
           \/ y[u] = Unknown /\ u \notin DOMAIN r
  BY <1>1, <1>6 DEF Met
<1>8. ASSUME NEW c \in Categories PROVE Consistent(MappedTo(r, t, c))
  BY <1>1, <1>2 DEF MappedTo, Consistent
<1>. QED  BY <1>3, <1>4, <1>5, <1>6, <1>7, <1>8

\* Moments that begin a day are told apart by their days.
LEMMA DaysTell ==
  ASSUME NEW x \in Int, NEW y \in Int, x % DayLength = 0, y % DayLength = 0, DayOf(x) = DayOf(y)
  PROVE  x = y
<1>1. PICK d \in Int : d = DayLength /\ d > 0
  BY RatesAssumption
<1>2. PICK p \in Int : p = x \div d /\ p = y \div d
  BY <1>1 DEF DayOf
<1>3. x % d = 0 /\ y % d = 0
  BY <1>1
<1>4. x = d * p
  BY <1>1, <1>2, <1>3
<1>5. y = d * p
  BY <1>1, <1>2, <1>3
<1>. QED  BY <1>4, <1>5

\* financials.py 73-90: whatever shops a request names, in a list that is not empty
\* or without one, and whatever shops are open to its caller, it is refused or shows
\* rows of open shops alone.
THEOREM ReportsOpenTheorem ==
  ASSUME NEW b, NEW shops, NEW tie
  PROVE  OpenShopsOnly(b, shops, tie)
<1> SUFFICES ASSUME NEW open \in SUBSET shops, NEW listed \in {Null} \cup ((SUBSET shops) \ {{}}),
                    NEW one \in shops \cup {Null}
             PROVE  LET a == Asked(one, listed, open)
                        q == [shop |-> a.shop, shops |-> a.shops, from |-> 0, to |-> 2 * Month]
                    IN  ~a.refused /\ (listed # Null \/ one # Null) =>
                          \A e \in ServedAsIs(a, LedgerPage(b, q, Null, 100, 0, tie)).entries :
                            e.shop \in open
  BY DEF OpenShopsOnly
<1>1. PICK a, q : /\ a = Asked(one, listed, open)
                  /\ q = [shop |-> a.shop, shops |-> a.shops, from |-> 0, to |-> 2 * Month]
  OBVIOUS
<1>2. SUFFICES ASSUME ~a.refused, listed # Null \/ one # Null,
                      NEW e \in LedgerPage(b, q, Null, 100, 0, tie).entries
               PROVE  e.shop \in open
  BY <1>1 DEF ServedAsIs
<1>3. Covers(q, e.shop)
  BY DEF LedgerPage, EntriesOf
<1>4. CASE listed = Null
  BY <1>1, <1>2, <1>3, <1>4 DEF Asked, Covers
<1>5. CASE listed # Null
  <2>1. listed \subseteq open /\ q.shops = listed
    BY <1>1, <1>2, <1>5 DEF Asked
  <2>2. q.shops # {}
    BY <1>5, <2>1
  <2>3. e.shop \in q.shops
    BY <1>3, <2>2 DEF Covers
  <2>. QED  BY <2>1, <2>3
<1>. QED  BY <1>4, <1>5

\* A moment that is not of the day of another lies on the same side of all of that day.
LEMMA DaysOrder ==
  ASSUME NEW t \in Int, NEW x \in Int, NEW y \in Int, DayOf(x) = DayOf(y), DayOf(t) # DayOf(x)
  PROVE  (x <= t <=> y <= t) /\ (t <= x <=> t <= y)
<1>1. PICK d \in Nat \ {0} : d = DayLength
  BY RatesAssumption
<1>2. PICK m \in Int, p \in Int :
        /\ m = t \div d /\ d * m <= t /\ t < d * m + d
        /\ p = x \div d /\ d * p <= x /\ x < d * p + d
        /\ p = y \div d /\ d * p <= y /\ y < d * p + d
        /\ m # p
  BY <1>1, Division DEF DayOf
<1>3. PICK u \in Int, w \in Int : u = d * m /\ w = d * p
  OBVIOUS
<1>4. CASE m < p
  <2>1. PICK k \in Nat : p = m + 1 + k
    BY <1>4
  <2>2. PICK z \in Nat : z = d * k
    OBVIOUS
  <2>3. w = u + d + z
    BY <1>3, <2>1, <2>2
  <2>. QED  BY <1>2, <1>3, <2>2, <2>3
<1>5. CASE p < m
  <2>1. PICK k \in Nat : m = p + 1 + k
    BY <1>5
  <2>2. PICK z \in Nat : z = d * k
    OBVIOUS
  <2>3. u = w + d + z
    BY <1>3, <2>1, <2>2
  <2>. QED  BY <1>2, <1>3, <2>2, <2>3
<1>. QED  BY <1>2, <1>4, <1>5

\* Two periods of the same days cover the same moments but those of their edges.
LEMMA DaysCover ==
  ASSUME NEW q, NEW r, q.from \in Int, q.to \in Int, r.from \in Int, r.to \in Int,
         DayOf(q.from) = DayOf(r.from), DayOf(q.to) = DayOf(r.to),
         NEW t \in Int, DayOf(t) \notin EdgeDays(q)
  PROVE  During(q, t) <=> During(r, t)
<1>1. DayOf(t) # DayOf(q.from) /\ DayOf(t) # DayOf(q.to)
  BY DEF EdgeDays
<1>2. q.from <= t <=> r.from <= t
  BY <1>1, DaysOrder
<1>3. t <= q.to <=> t <= r.to
  BY <1>1, DaysOrder
<1>. QED  BY <1>2, <1>3 DEF During

\* financial_service.py 73-78 and 143-145: for any book, two requests that share a
\* cache key differ only in rows of the days on which the period begins or ends, and
\* are given the same reports where there are none.
THEOREM ReportKeysTheorem ==
  ASSUME Null \notin Int,
         NEW b, \A e \in b.entries \cup b.orders : e.at \in Int,
         \A i \in b.invoices : i.at \in Int \cup {Null},
         NEW queries, \A q \in queries : q.from \in Int /\ q.to \in Int
  PROVE  KeysTellApart(b, queries)
<1> SUFFICES ASSUME NEW q \in queries, NEW r \in queries, ReportKey(q, "pnl") = ReportKey(r, "pnl")
             PROVE
    LET Edge(t) == t # Null /\ DayOf(t) \in EdgeDays(q)
        E == EntriesOf(b, q)
        F == EntriesOf(b, r)
    IN  /\ \A e \in (E \cup F) \ (E \cap F) : Edge(e.at)
        /\ (\A x \in b.entries \cup b.orders \cup b.invoices : ~Edge(x.at)) =>
             ProfitAndLoss(b, q) = ProfitAndLoss(b, r) /\ Summary(b, q) = Summary(b, r)
  BY DEF KeysTellApart
<1> DEFINE Edge(t) == t # Null /\ DayOf(t) \in EdgeDays(q)
<1>1. /\ q.shops = r.shops /\ (q.shops = {} => q.shop = r.shop)
      /\ DayOf(q.from) = DayOf(r.from) /\ DayOf(q.to) = DayOf(r.to)
  BY DEF ReportKey
<1>2. \A t \in Int : ~Edge(t) => (During(q, t) <=> During(r, t))
  BY <1>1, DaysCover
<1> HIDE DEF Edge
<1>3. \A s : Covers(q, s) <=> Covers(r, s)
  BY <1>1 DEF Covers
<1>4. \A e \in (EntriesOf(b, q) \cup EntriesOf(b, r)) \ (EntriesOf(b, q) \cap EntriesOf(b, r)) :
        Edge(e.at)
  BY <1>2, <1>3 DEF EntriesOf
<1>5. ASSUME \A x \in b.entries \cup b.orders \cup b.invoices : ~Edge(x.at)
      PROVE  ProfitAndLoss(b, q) = ProfitAndLoss(b, r) /\ Summary(b, q) = Summary(b, r)
  <2>1. EntriesOf(b, q) = EntriesOf(b, r) /\ OrdersOf(b, q) = OrdersOf(b, r)
    BY <1>2, <1>3, <1>5 DEF EntriesOf, OrdersOf
  <2>2. ProfitAndLoss(b, q) = ProfitAndLoss(b, r)
    BY <2>1 DEF ProfitAndLoss
  <2> DEFINE Costs(O) ==
               LET items == UNION {o.items : o \in {o \in O : o.items # Null}}
                   Sold(l) == Total({i \in items : i.listing = l}, LAMBDA i : i.quantity)
               IN  IF \E i \in items : i.quantity = Null THEN 0
                   ELSE Total({p \in b.products : p.cost > 0}, LAMBDA p : p.cost * Sold(p.listing))
             Discounts(O) == Total({o \in O : o.discount > 0}, LAMBDA o : o.discount)
             Approved(x) == {i \in b.invoices : /\ i.status = "approved" /\ Covers(x, i.shop)
                                                /\ i.at # Null /\ During(x, i.at)}
             Expenses(I) == Total(I, LAMBDA i : Coalesce(i.amount, 0))
  <2>3. ProductCosts(b, q) = Costs(OrdersOf(b, q)) /\ ProductCosts(b, r) = Costs(OrdersOf(b, r))
    BY DEF ProductCosts
  <2>4. /\ TotalDiscounts(b, q) = Discounts(OrdersOf(b, q))
        /\ TotalDiscounts(b, r) = Discounts(OrdersOf(b, r))
    BY DEF TotalDiscounts, Discounted
  <2>5. InvoiceExpenses(b, q) = Expenses(Approved(q)) /\ InvoiceExpenses(b, r) = Expenses(Approved(r))
    BY DEF InvoiceExpenses
  <2> HIDE DEF Costs, Discounts, Expenses
  <2>6. Approved(q) = Approved(r)
    BY <1>2, <1>3, <1>5
  <2>7. /\ ProductCosts(b, q) = ProductCosts(b, r)
        /\ TotalDiscounts(b, q) = TotalDiscounts(b, r)
        /\ InvoiceExpenses(b, q) = InvoiceExpenses(b, r)
    BY <2>1, <2>3, <2>4, <2>5, <2>6
  <2>8. Summary(b, q) = Summary(b, r)
    BY <2>1, <2>7 DEF Summary
  <2>. QED  BY <2>2, <2>8
<1>. QED  BY <1>4, <1>5 DEF Edge

\* analytics_service.py 29-44 and 224-340: requests that share a key of the cache, over
\* any moments, have the same answer where no order is of a day on which the range
\* begins or ends.
THEOREM AnalyticsKeysTheorem ==
  ASSUME Null \notin Int \X Int, Null \notin Int,
         NEW rows, \A o \in rows : o.created \in Int \cup {Null},
         NEW queries, NEW ranges, \A r \in ranges \ {Null} : r.from \in Int /\ r.to \in Int
  PROVE  AnalyticsKeysSuffice(rows, queries, ranges)
<1>1. ASSUME NEW q \in queries, NEW p \in queries, NEW r \in ranges, NEW t \in ranges,
             AnalyticsKey(q, "orders", r) = AnalyticsKey(p, "orders", t),
             r # Null => \A o \in rows : o.created # Null => DayOf(o.created) \notin EdgeDays(r)
      PROVE  OrderAnalytics(rows, q, r) = OrderAnalytics(rows, p, t)
  <2> DEFINE Span(x) == IF x = Null THEN Null ELSE <<DayOf(x.from), DayOf(x.to)>>
  <2>1. q.shops = p.shops /\ (q.shops = {} => q.shop = p.shop) /\ Span(r) = Span(t)
    BY <1>1 DEF AnalyticsKey
  <2>2. \A x \in ranges \ {Null} : Span(x) # Null
    <3> SUFFICES ASSUME NEW x \in ranges \ {Null} PROVE <<DayOf(x.from), DayOf(x.to)>> # Null
      OBVIOUS
    <3>1. DayOf(x.from) \in Int /\ DayOf(x.to) \in Int
      BY RatesAssumption DEF DayOf
    <3>. QED  BY <3>1
  <2>3. r = Null <=> t = Null
    BY <2>1, <2>2
  <2>4. \A x : Covers(q, x) <=> Covers(p, x)
    BY <2>1 DEF Covers
  <2>5. \A o \in rows : Dated(r, o.created) <=> Dated(t, o.created)
    <3>1. CASE r = Null
      BY <2>3, <3>1 DEF Dated
    <3>2. CASE r # Null
      <4>1. DayOf(r.from) = DayOf(t.from) /\ DayOf(r.to) = DayOf(t.to)
        BY <2>1, <2>3, <3>2
      <4>2. /\ r.from \in Int /\ r.to \in Int /\ t.from \in Int /\ t.to \in Int
        BY <2>3, <3>2
      <4>3. \A o \in rows : o.created # Null => (During(r, o.created) <=> During(t, o.created))
        BY <1>1, <3>2, <4>1, <4>2, DaysCover
      <4>. QED  BY <2>3, <3>2, <4>3 DEF Dated
    <3>. QED  BY <3>1, <3>2
  <2>6. {o \in rows : Covers(q, o.shop) /\ Dated(r, o.created)}
          = {o \in rows : Covers(p, o.shop) /\ Dated(t, o.created)}
    BY <2>4, <2>5
  <2>. QED  BY <2>6 DEF OrderAnalytics
<1>. QED  BY <1>1 DEF AnalyticsKeysSuffice

\* orders.py 52-451: also after an order is given to someone else, a supplier is
\* listed its own orders, without prices, opens what it is listed and nothing of
\* another supplier's.
THEOREM SuppliersTheorem ==
  ASSUME Null \notin Words,
         NEW rows, \A o, p \in rows : o.id = p.id => o = p,
         \A o \in rows : o = [f \in DOMAIN o |-> o[f]] /\ {"id", "supplier"} \subseteq DOMAIN o,
         NEW users, NEW open, NEW queries, NEW rates, NEW tie
  PROVE  SuppliersKeepApart(rows, users, open, queries, rates, tie)
<1> SUFFICES ASSUME NEW u \in users, NEW v \in users, NEW q \in queries,
                    NEW id \in {o.id : o \in rows}, NEW w \in users, NEW rate \in rates
             PROVE
    LET Supplier(x) == [user |-> x, role |-> "supplier", shops |-> {}]
        owner == [user |-> Null, role |-> "owner", shops |-> {}]
        after == Assigned(rows, owner, open, id, w, users)
        List(x) ==
          OrderPage(after, Supplier(x), q, Null, Null, 0, Cardinality(rows), "EUR", rate, tie)
        ids(x) == {o.id : o \in List(x).orders}
    IN  /\ \A o \in List(u).orders : {o.money.price, o.money.converted} = {Null}
        /\ \A i \in ids(u) : Opened(after, Supplier(u), i) = "shown"
        /\ u # v => /\ ids(u) \cap ids(v) = {}
                    /\ \A i \in ids(v) : Opened(after, Supplier(u), i) = "forbidden"
  BY DEF SuppliersKeepApart
<1> DEFINE Supplier(x) == [user |-> x, role |-> "supplier", shops |-> {}]
           owner == [user |-> Null, role |-> "owner", shops |-> {}]
           after == Assigned(rows, owner, open, id, w, users)
           List(x) ==
             OrderPage(after, Supplier(x), q, Null, Null, 0, Cardinality(rows), "EUR", rate, tie)
           ids(x) == {o.id : o \in List(x).orders}
<1>1. \A o, p \in after : o.id = p.id => o = p
  <2> DEFINE Given(o) ==
               IF o.id = id /\ o.shop \in open /\ owner.role \in {"owner", "admin"} /\ w \in users
               THEN [o EXCEPT !.supplier = w] ELSE o
  <2>1. after = {Given(o) : o \in rows}
    BY DEF Assigned
  <2>2. \A o \in rows : Given(o).id = o.id
    <3> SUFFICES ASSUME NEW o \in rows PROVE [o EXCEPT !.supplier = w].id = o.id
      OBVIOUS
    <3>1. o = [f \in DOMAIN o |-> o[f]] /\ "id" \in DOMAIN o
      OBVIOUS
    <3>. QED  BY <3>1
  <2> HIDE DEF after, Given
  <2>. QED  BY <2>1, <2>2
<1>2. ASSUME NEW x
      PROVE  \A y \in List(x).orders :
               \E o \in after : /\ o.supplier = x /\ y.id = o.id
                                /\ {y.money.price, y.money.converted} = {Null}
  <2>1. PICK S : S = {o \in Visible(after, Supplier(x), q) : Matches(o, Null, Null)}
    OBVIOUS
  <2>2. List(x).orders
          = {ShownRow(o, Supplier(x), "EUR", rate) : o \in Slice(S, 0, Cardinality(rows), tie)}
    BY <2>1 DEF OrderPage
  <2>3. \A o \in Slice(S, 0, Cardinality(rows), tie) : o \in after /\ o.supplier = x
    BY <2>1 DEF Slice, Visible, Theirs
  <2>4. \A o : /\ ShownRow(o, Supplier(x), "EUR", rate).id = o.id
               /\ ShownRow(o, Supplier(x), "EUR", rate).money = [price |-> Null, converted |-> Null]
    BY DEF ShownRow, PriceFor
  <2> HIDE DEF List, after
  <2> SUFFICES ASSUME NEW y \in List(x).orders
               PROVE  \E o \in after : /\ o.supplier = x /\ y.id = o.id
                                      /\ {y.money.price, y.money.converted} = {Null}
    OBVIOUS
  <2>5. PICK o \in Slice(S, 0, Cardinality(rows), tie) : y = ShownRow(o, Supplier(x), "EUR", rate)
    BY <2>2
  <2>6. y.id = o.id /\ y.money = [price |-> Null, converted |-> Null]
    BY <2>4, <2>5
  <2>7. {y.money.price, y.money.converted} = {Null}
    BY <2>6
  <2>8. o \in after /\ o.supplier = x
    BY <2>3, <2>5
  <2>. QED  BY <2>6, <2>7, <2>8
<1>3. ASSUME NEW x, NEW o \in after
      PROVE  Opened(after, Supplier(x), o.id) = IF o.supplier = x THEN "shown" ELSE "forbidden"
  <2> HIDE DEF after
  <2>1. {p \in after : p.id = o.id} = {o}
    BY <1>1, <1>3
  <2>. QED  BY <2>1 DEF Opened, Theirs
<1> HIDE DEF List, after, Supplier
<1>4. \A x : \A i \in ids(x) : \E o \in after : o.supplier = x /\ o.id = i
  BY <1>2
<1> HIDE DEF ids
<1>5. \A i \in ids(u) : Opened(after, Supplier(u), i) = "shown"
  BY <1>3, <1>4
<1>6. ASSUME u # v
      PROVE  /\ ids(u) \cap ids(v) = {}
             /\ \A i \in ids(v) : Opened(after, Supplier(u), i) = "forbidden"
  BY <1>1, <1>3, <1>4, <1>6
<1>7. \A o \in List(u).orders : {o.money.price, o.money.converted} = {Null}
  BY <1>2
<1>. QED  BY <1>5, <1>6, <1>7 DEF List, after, Supplier, ids

\* dashboard.py 25-129 and 142-252: the dashboard counts the orders the cards count
\* where both ask for the same shops, the unread and the customers are no more than
\* the orders, and nothing is unread after the orders were viewed.
THEOREM DashboardTheorem ==
  ASSUME Null \notin Int,
         NEW rows, IsFiniteSet(rows),
         \A o \in rows : o.stored \in Int /\ o.created \in Int \cup {Null},
         NEW viewer, NEW q, q = [shop |-> q.shop, shops |-> q.shops],
         NEW viewed, NEW t \in Int, NEW tie
  PROVE  DashboardAgrees(rows, viewer, q, viewed, t, tie)
<1> DEFINE x == DashboardQuery(viewer, q)
           S == Visible(rows, viewer, x)
           Unread(v) == {o \in S : v = Null \/ Coalesce(o.created, o.stored) > v}
           Buyers == {o.buyer : o \in S} \ {Null}
           D(v) == Dashboard(rows, {}, viewer, q, v)
<1>1. /\ D(viewed).total_orders = Cardinality(S)
      /\ D(viewed).total_customers = Cardinality(Buyers)
      /\ \A v : D(v).unread = Cardinality(Unread(v))
  BY DEF Dashboard
<1> HIDE DEF D
<1>2. IsFiniteSet(S) /\ S \subseteq rows
  <2>1. S \in SUBSET rows
    BY DEF Visible
  <2>. QED  BY <2>1, FS_Subset
<1>3. ASSUME q.shops # {} \/ q.shop # Null \/ viewer.shops = {}
      PROVE  Cardinality(S) = OrderStats(rows, viewer, q).total
  <2>1. x.shops = q.shops /\ x.shop = q.shop
    <3>1. CASE q.shops = {} /\ q.shop = Null /\ viewer.role = "supplier"
      <4>1. x = [q EXCEPT !.shops = {}]
        BY <1>3, <3>1 DEF DashboardQuery
      <4>. QED  BY <3>1, <4>1
    <3>2. CASE ~(q.shops = {} /\ q.shop = Null /\ viewer.role = "supplier")
      BY <3>2 DEF DashboardQuery
    <3>. QED  BY <3>1, <3>2
  <2>2. S = Visible(rows, viewer, q)
    BY <2>1 DEF Visible, Covers
  <2>. QED  BY <2>2 DEF OrderStats
<1> HIDE DEF x
<1>4. \A v : Unread(v) \subseteq S /\ Cardinality(Unread(v)) <= Cardinality(S)
  <2> SUFFICES ASSUME NEW v PROVE Unread(v) \subseteq S /\ Cardinality(Unread(v)) <= Cardinality(S)
    OBVIOUS
  <2>1. Unread(v) \in SUBSET S
    OBVIOUS
  <2> HIDE DEF S, Unread
  <2>. QED  BY <1>2, <2>1, FS_Subset
<1>5. Cardinality(Buyers) <= Cardinality(S)
  <2> HIDE DEF S
  <2>1. PICK B : B = {o.buyer : o \in S}
    OBVIOUS
  <2>2. PICK f : f = [o \in S |-> o.buyer]
    OBVIOUS
  <2>3. f \in Surjection(S, B)
    BY <2>1, <2>2 DEF Surjection
  <2>4. IsFiniteSet(B) /\ Cardinality(B) <= Cardinality(S)
    BY <1>2, <2>3, FS_Surjection
  <2>5. Buyers \in SUBSET B
    BY <2>1
  <2> HIDE DEF Buyers
  <2>6. IsFiniteSet(Buyers) /\ Cardinality(Buyers) <= Cardinality(B)
    BY <2>4, <2>5, FS_Subset
  <2>. QED  BY <1>2, <2>4, <2>6, FS_CardinalityType
<1>6. viewed = Null => Unread(viewed) = S
  OBVIOUS
<1>7. ASSUME \A o \in rows : Coalesce(o.created, o.stored) <= t
      PROVE  D(Viewed(viewed, TRUE, t)).unread = 0
  <2>1. Viewed(viewed, TRUE, t) = t /\ t # Null
    BY DEF Viewed
  <2>2. \A o \in S : ~(Coalesce(o.created, o.stored) > t)
    <3> SUFFICES ASSUME NEW o \in S PROVE ~(Coalesce(o.created, o.stored) > t)
      OBVIOUS
    <3>1. Coalesce(o.created, o.stored) \in Int /\ Coalesce(o.created, o.stored) <= t
      BY <1>2, <1>7 DEF Coalesce
    <3>. QED  BY <3>1
  <2>3. Unread(t) = {}
    BY <2>1, <2>2
  <2>. QED  BY <1>1, <2>1, <2>3, FS_EmptySet
<1>8. \A o \in RecentOrders(rows, viewer, q, 2, Null, Null, tie) :
        \E r \in Visible(rows, viewer, q) : r.id = o.id
  <2>1. Slice(Visible(rows, viewer, q), 0, 2, tie) \subseteq Visible(rows, viewer, q)
    BY DEF Slice
  <2>. QED  BY <2>1 DEF RecentOrders
<1> HIDE DEF S, Unread, Buyers
<1>. QED  BY <1>1, <1>3, <1>4, <1>5, <1>6, <1>7, <1>8 DEF DashboardAgrees, D
=============================================================================
