---------------------------- MODULE OrderSyncProofs ----------------------------
(***************************************************************************)
(* Proofs about OrderSync, for any sessions, receipts, tracking codes,     *)
(* kinds of call and bounds.                                               *)
(***************************************************************************)
EXTENDS OrderSync, WellFoundedInduction, TLAPS

USE OrderAssumption

-----------------------------------------------------------------------------
(* Operators.                                                              *)

\* A set of receipts that is not empty has a newest: the least distance to the
\* last receipt.
LEMMA Newest ==
  ASSUME NEW S, S \subseteq Receipts, S # {}
  PROVE  Max(S) \in S
<1> DEFINE T == {NumReceipts - r : r \in S}
<1>1. T \subseteq Nat /\ T # {}
  <2>1. ASSUME NEW r \in S PROVE NumReceipts - r \in Nat
    BY DEF Receipts
  <2>. QED  BY <2>1
<1>2. PICK x \in T : \A y \in T : ~(<<y, x>> \in OpToRel(<, Nat))
  BY <1>1, WFMin, NatLessThanWellFounded
<1>3. \A y \in T : ~(y < x)
  BY <1>1, <1>2 DEF OpToRel
<1>4. PICK r \in S : x = NumReceipts - r
  OBVIOUS
<1>5. \A q \in S : r >= q
  <2> TAKE q \in S
  <2>1. ~(NumReceipts - q < NumReceipts - r)
    BY <1>3, <1>4
  <2>. QED  BY <2>1 DEF Receipts
<1>. QED  BY <1>5 DEF Max

LEMMA NoneTypes ==
  /\ NoReceipt \in Receipt /\ NoOrder \in Order
  /\ NoReceipts \in [Receipts -> Receipt] /\ NoOrders \in [Receipts -> Order]
  /\ (CHOOSE c \in Codes : TRUE) \in Codes
<1>1. NoReceipt \in Receipt
  BY DEF NoReceipt, Receipt
<1>2. NoOrder \in Order
  BY DEF NoOrder, Order
<1>. QED  BY <1>1, <1>2 DEF NoReceipts, NoOrders

\* What an update writes, column by column.
LEMMA UpdatedIs ==
  ASSUME NEW r \in Receipts, NEW from \in Order, NEW to \in Order, row[r] \in Order
  PROVE  /\ Updated(r, from, to) \in Order
         /\ Updated(r, from, to).on = IF to.on = from.on THEN row[r].on ELSE to.on
         /\ Updated(r, from, to).stamp = IF to.stamp = from.stamp THEN row[r].stamp ELSE to.stamp
         /\ Updated(r, from, to).ships = IF to.ships = from.ships THEN row[r].ships ELSE to.ships
         /\ Updated(r, from, to).fulfil = IF to.fulfil = from.fulfil THEN row[r].fulfil ELSE to.fulfil
         /\ Updated(r, from, to).life = IF to.life = from.life THEN row[r].life ELSE to.life
         /\ Updated(r, from, to).status = IF to.status = from.status THEN row[r].status ELSE to.status
<1> DEFINE Columns == {"on", "stamp", "ships", "fulfil", "life", "status", "synced"}
           x == row[r]
<1>1. PICK new : new = [f \in Columns |-> IF to[f] = from[f] THEN x[f] ELSE to[f]]
  OBVIOUS
<1>2. Updated(r, from, to) = new
  <2>1. DOMAIN to = Columns
    BY DEF Order
  <2>. QED  BY <1>1, <2>1 DEF Updated
<1>3. x \in Order
  OBVIOUS
<1>4. new \in Order
  <2>. HIDE DEF x
  <2>. QED  BY <1>1, <1>3 DEF Order
<1>5. /\ new.on = IF to.on = from.on THEN x.on ELSE to.on
      /\ new.stamp = IF to.stamp = from.stamp THEN x.stamp ELSE to.stamp
      /\ new.ships = IF to.ships = from.ships THEN x.ships ELSE to.ships
      /\ new.fulfil = IF to.fulfil = from.fulfil THEN x.fulfil ELSE to.fulfil
      /\ new.life = IF to.life = from.life THEN x.life ELSE to.life
      /\ new.status = IF to.status = from.status THEN x.status ELSE to.status
  <2>. HIDE DEF x
  <2>. QED  BY <1>1
<1>. QED  BY <1>2, <1>4, <1>5

\* What a receipt says of an order is an order, whose status agrees.
LEMMA OrderDataIs ==
  ASSUME NEW e \in Receipt, now \in Nat
  PROVE  /\ OrderData(e) \in Order
         /\ OrderData(e).on /\ OrderData(e).stamp = e.stamp /\ OrderData(e).ships = e.ships
         /\ OrderData(e).fulfil = FulfillmentOf(e)
         /\ OrderData(e).status = Legacy(OrderData(e).life, OrderData(e).fulfil)
<1> DEFINE fulfil == FulfillmentOf(e)
           life == LifecycleOf(e.state, fulfil)
           status == Legacy(life, fulfil)
<1>1. fulfil \in {"unshipped", "shipped", "delivered"}
  BY DEF FulfillmentOf
<1>2. life \in {"processing", "in_transit", "completed", "cancelled", "refunded"}
  <2>. HIDE DEF fulfil
  <2>. QED  BY <1>1 DEF LifecycleOf
<1>3. status \in {"processing", "shipped", "delivered", "cancelled", "refunded"}
  <2>. HIDE DEF fulfil, life
  <2>. QED  BY <1>1, <1>2 DEF Legacy
<1>4. OrderData(e) = [on |-> TRUE, stamp |-> e.stamp, ships |-> e.ships, fulfil |-> fulfil,
                      life |-> life, status |-> status, synced |-> now]
  BY DEF OrderData
<1>5. status = Legacy(life, fulfil) /\ fulfil = FulfillmentOf(e)
  OBVIOUS
<1>. HIDE DEF fulfil, life, status
<1>6. OrderData(e) \in Order
  BY <1>1, <1>2, <1>3, <1>4 DEF Order, Receipt
<1>. QED  BY <1>4, <1>5, <1>6

-----------------------------------------------------------------------------
(* Types.                                                                  *)

EtsyTypes == etsy \in [Receipts -> Receipt] /\ now \in Nat /\ edits \in Nat /\ fails \in Nat

RowTypes ==
  /\ row \in [Receipts -> Order] /\ delivered \subseteq Receipts
  /\ shipped \in [Receipts -> [Codes -> Nat]] /\ noted \in [Receipts -> SUBSET Codes]

RunTypes ==
  /\ pc \in [Procs -> Stages] /\ kind \in [Procs -> TaskKinds \cup EditKinds]
  /\ began \in [Procs -> Nat] /\ since \in [Procs -> Nat]
  /\ todo \in [Procs -> SUBSET Receipts] /\ snap \in [Procs -> [Receipts -> Receipt]]
  /\ found \in [Procs -> BOOLEAN] /\ code \in [Procs -> Codes]

ObjectTypes ==
  /\ base \in [Procs -> [Receipts -> Order]] /\ obj \in [Procs -> [Receipts -> Order]]
  /\ fresh \in [Procs -> SUBSET Receipts]

\* Where a session is at an order, it has one to do.
AtOrder == {"get", "extract", "apply", "submit", "record"}
StagesInv ==
  \A p \in Procs :
    /\ pc[p] = "idle" => base[p] = NoOrders /\ obj[p] = NoOrders
    /\ pc[p] \in AtOrder => todo[p] # {}
    /\ pc[p] = "submit" => kind[p] = "fulfil"

TypeInv == EtsyTypes /\ RowTypes /\ RunTypes /\ ObjectTypes /\ StagesInv

LEMMA TypeIs == TypeInv => TypeOK
<1> SUFFICES ASSUME TypeInv PROVE TypeOK
  OBVIOUS
<1>1. EtsyTypes /\ RowTypes /\ ObjectTypes /\ RunTypes
  BY DEF TypeInv
<1>2. {began[p] : p \in Procs} \cup {since[p] : p \in Procs} \subseteq Nat
  BY <1>1 DEF RunTypes
<1>3. pc \in [Procs -> Stages] /\ kind \in [Procs -> TaskKinds \cup EditKinds]
      /\ todo \in [Procs -> SUBSET Receipts] /\ snap \in [Procs -> [Receipts -> Receipt]]
      /\ found \in [Procs -> BOOLEAN] /\ code \in [Procs -> Codes]
  BY <1>1, Zenon DEF RunTypes
<1>4. {now, edits, fails} \subseteq Nat
  BY <1>1 DEF EtsyTypes
<1>. QED  BY <1>1, <1>2, <1>3, <1>4, Zenon DEF TypeOK, EtsyTypes, RowTypes, ObjectTypes

LEMMA CurrentIn ==
  ASSUME TypeInv, NEW p \in Procs, todo[p] # {}
  PROVE  Current(p) \in todo[p] /\ Current(p) \in Receipts
<1>1. todo[p] \subseteq Receipts
  BY DEF TypeInv, RunTypes
<1>. QED  BY <1>1, Newest DEF Current

LEMMA TypeInit == Init => TypeInv
<1> SUFFICES ASSUME Init PROVE TypeInv
  OBVIOUS
<1>1. EtsyTypes
  <2>1. NoReceipts[1] \in Receipt /\ NoReceipts \in [Receipts -> Receipt] /\ 1 \in Receipts
    BY NoneTypes DEF Receipts
  <2>2. etsy = [NoReceipts EXCEPT ![1] = [NoReceipts[1] EXCEPT !.on = TRUE, !.stamp = 1]]
    BY DEF Init, NoReceipts, NoReceipt, Receipts
  <2>3. [NoReceipts[1] EXCEPT !.on = TRUE, !.stamp = 1] \in Receipt
    BY <2>1 DEF Receipt
  <2>4. etsy \in [Receipts -> Receipt]
    BY <2>1, <2>2, <2>3
  <2>. QED  BY <2>4 DEF Init, EtsyTypes
<1>2. RowTypes
  BY NoneTypes DEF Init, RowTypes
<1>3. RunTypes
  BY NoneTypes DEF Init, RunTypes, Stages, TaskKinds
<1>4. ObjectTypes
  BY NoneTypes DEF Init, ObjectTypes
<1>5. StagesInv
  BY DEF Init, StagesInv, AtOrder
<1>. QED  BY <1>1, <1>2, <1>3, <1>4, <1>5 DEF TypeInv

\* What the sessions do in common keeps the types.
LEMMA EndTypes ==
  ASSUME TypeInv, NEW p \in Procs, End(p)
  PROVE  RunTypes' /\ ObjectTypes' /\ StagesInv'
<1>1. RunTypes'
  <2>1. pc' \in [Procs -> Stages] /\ kind' \in [Procs -> TaskKinds \cup EditKinds]
    BY DEF TypeInv, RunTypes, End, Goto, Stages, TaskKinds
  <2>2. /\ began' \in [Procs -> Nat] /\ since' \in [Procs -> Nat]
        /\ todo' \in [Procs -> SUBSET Receipts] /\ found' \in [Procs -> BOOLEAN]
    BY DEF TypeInv, RunTypes, End
  <2>3. snap' \in [Procs -> [Receipts -> Receipt]] /\ code' \in [Procs -> Codes]
    BY NoneTypes DEF TypeInv, RunTypes, End
  <2>. QED  BY <2>1, <2>2, <2>3 DEF RunTypes
<1>2. ObjectTypes'
  BY NoneTypes DEF TypeInv, ObjectTypes, End
<1>3. StagesInv'
  BY DEF TypeInv, RunTypes, ObjectTypes, StagesInv, End, Goto, AtOrder
<1>. QED  BY <1>1, <1>2, <1>3

LEMMA SavedTypes ==
  ASSUME TypeInv, NEW p \in Procs
  PROVE  Saved(p) \in [Receipts -> Order]
<1> SUFFICES ASSUME NEW r \in Receipts
             PROVE  (IF ~obj[p][r].on THEN row[r]
                     ELSE IF Inserts(p, r) THEN obj[p][r]
                     ELSE Updated(r, base[p][r], obj[p][r])) \in Order
  BY DEF Saved
<1>1. row[r] \in Order /\ obj[p][r] \in Order /\ base[p][r] \in Order
  BY DEF TypeInv, RowTypes, ObjectTypes
<1>. QED  BY <1>1, UpdatedIs

LEMMA CallsTypes ==
  ASSUME TypeInv, NEW p \in Procs, CallsEtsy(p)
  PROVE  /\ RowTypes' /\ ObjectTypes' /\ edits' \in Nat /\ fails' \in Nat
         /\ \A q \in Procs \ {p} : base'[q] = base[q] /\ obj'[q] = obj[q] /\ fresh'[q] = fresh[q]
<1>1. CASE Quiet(p)
  BY <1>1 DEF Quiet, TypeInv, RowTypes, ObjectTypes, EtsyTypes, dbVars, bounds
<1>2. ASSUME Expire(p)
      PROVE  /\ ObjectTypes'
             /\ \A q \in Procs \ {p} : base'[q] = base[q] /\ obj'[q] = obj[q] /\ fresh'[q] = fresh[q]
  BY <1>2, NoneTypes DEF Expire, TypeInv, ObjectTypes
<1>3. CASE CommitsEarly(p)
  <2>1. row' \in [Receipts -> Order] /\ delivered' \subseteq Receipts
    BY <1>3, SavedTypes DEF CommitsEarly, TypeInv, RowTypes, ObjectTypes
  <2>. QED  BY <1>2, <1>3, <2>1 DEF CommitsEarly, TypeInv, RowTypes, EtsyTypes, bounds
<1>4. CASE RollsBack(p)
  BY <1>2, <1>4 DEF RollsBack, Fail, TypeInv, RowTypes, EtsyTypes, dbVars
<1>. QED  BY <1>1, <1>3, <1>4 DEF CallsEtsy

\* No session is idle, and the sessions other than p stay where they are.
LEMMA StagesBy ==
  ASSUME TypeInv, NEW p \in Procs,
         \A q \in Procs \ {p} : /\ pc'[q] = pc[q] /\ kind'[q] = kind[q] /\ todo'[q] = todo[q]
                                /\ base'[q] = base[q] /\ obj'[q] = obj[q],
         pc'[p] # "idle", pc'[p] \in AtOrder => todo'[p] # {}, pc'[p] = "submit" => kind'[p] = "fulfil"
  PROVE  StagesInv'
BY DEF TypeInv, StagesInv

LEMMA LoadTypes ==
  ASSUME TypeInv, NEW p \in Procs, NEW orders, Load(p, orders)
  PROVE  /\ base' \in [Procs -> [Receipts -> Order]] /\ obj' \in [Procs -> [Receipts -> Order]]
         /\ \A q \in Procs \ {p} : base'[q] = base[q] /\ obj'[q] = obj[q]
<1> DEFINE objects == [r \in Receipts |-> IF r \in orders THEN row[r] ELSE NoOrder]
<1>1. objects \in [Receipts -> Order]
  BY NoneTypes DEF TypeInv, RowTypes
<1>2. base' = [base EXCEPT ![p] = objects] /\ obj' = [obj EXCEPT ![p] = objects]
  BY DEF Load
<1>. HIDE DEF objects
<1>. QED  BY <1>1, <1>2 DEF TypeInv, ObjectTypes

LEMMA BeginTypes ==
  ASSUME TypeInv, NEW p \in Procs, NEW k \in TaskKinds \cup EditKinds, NEW stage \in Stages \ {"idle"},
         NEW work \in SUBSET Receipts, Begin(p, k, stage, work),
         stage \in AtOrder => work # {}, stage = "submit" => k = "fulfil",
         since' \in [Procs -> Nat], code' \in [Procs -> Codes], edits' \in Nat,
         base' \in [Procs -> [Receipts -> Order]], obj' \in [Procs -> [Receipts -> Order]],
         \A q \in Procs \ {p} : base'[q] = base[q] /\ obj'[q] = obj[q]
  PROVE  TypeInv'
<1>1. EtsyTypes' /\ RowTypes'
  BY DEF Begin, TypeInv, EtsyTypes, RowTypes, dbVars
<1>2. ObjectTypes'
  BY DEF Begin, TypeInv, ObjectTypes
<1>3. /\ pc' = [pc EXCEPT ![p] = stage] /\ kind' = [kind EXCEPT ![p] = k]
      /\ todo' = [todo EXCEPT ![p] = work] /\ UNCHANGED <<snap, found>>
      /\ began' = [began EXCEPT ![p] = IF k \in TaskKinds THEN now ELSE 0]
  BY DEF Begin, Goto
<1>4. began' \in [Procs -> Nat]
  BY <1>3 DEF TypeInv, RunTypes, EtsyTypes
<1>5. RunTypes'
  BY <1>3, <1>4 DEF TypeInv, RunTypes
<1>6. StagesInv'
  BY <1>3, StagesBy DEF TypeInv, RunTypes
<1>. QED  BY <1>1, <1>2, <1>5, <1>6 DEF TypeInv

LEMMA TypeBegin ==
  ASSUME TypeInv, NEW p \in Procs,
         \/ BeginSync(p) \/ BeginById(p) \/ BeginReconcile(p) \/ BeginFulfil(p) \/ BeginManual(p)
  PROVE  TypeInv'
<1>1. Orders \subseteq Receipts
  BY DEF Orders
<1>2. CASE BeginSync(p)
  <2>1. since' \in [Procs -> Nat]
    <3>1. CASE since' = since
      BY <3>1 DEF TypeInv, RunTypes
    <3>2. ASSUME NEW last \in LastSynced,
                 since' = [since EXCEPT ![p] = WindowFrom(last)]
          PROVE  since' \in [Procs -> Nat]
      <4>1. row[last].synced \in Nat /\ Margin \in Nat
        BY <1>1, <3>2 DEF LastSynced, TypeInv, RowTypes, Order
      <4>2. WindowFrom(last) \in Nat
        BY <4>1 DEF WindowFrom
      <4>. QED  BY <3>2, <4>2 DEF TypeInv, RunTypes
    <3>. QED  BY <1>2, <3>1, <3>2 DEF BeginSync
  <2>2. /\ base' \in [Procs -> [Receipts -> Order]] /\ obj' \in [Procs -> [Receipts -> Order]]
        /\ \A q \in Procs \ {p} : base'[q] = base[q] /\ obj'[q] = obj[q]
    <3>1. UNCHANGED <<base, obj>> \/ \E orders : Load(p, orders)
      BY <1>2 DEF BeginSync
    <3>. QED  BY <3>1, LoadTypes DEF TypeInv, ObjectTypes
  <2>3. /\ Begin(p, "sync", "fetch", {}) /\ UNCHANGED <<edits, code>>
        /\ code' \in [Procs -> Codes] /\ edits' \in Nat
    BY <1>2 DEF BeginSync, TypeInv, RunTypes, EtsyTypes
  <2>4. "sync" \in TaskKinds \cup EditKinds /\ "fetch" \in Stages \ {"idle"} /\ "fetch" \notin AtOrder
    BY DEF TaskKinds, Stages, AtOrder
  <2>5. {} \in SUBSET Receipts
    OBVIOUS
  <2>. QED  BY <2>1, <2>2, <2>3, <2>4, <2>5, BeginTypes
<1>3. CASE BeginById(p)
  <2>1. PICK r \in Receipts : Begin(p, "byid", "get", {r})
    BY <1>3 DEF BeginById
  <2>2. UNCHANGED <<edits, since, base, obj, code>>
    BY <1>3 DEF BeginById
  <2>3. "byid" \in TaskKinds \cup EditKinds /\ "get" \in Stages \ {"idle"}
    BY DEF TaskKinds, Stages
  <2>4. since' \in [Procs -> Nat] /\ code' \in [Procs -> Codes] /\ edits' \in Nat
    BY <2>2 DEF TypeInv, RunTypes, EtsyTypes
  <2>5. /\ base' \in [Procs -> [Receipts -> Order]] /\ obj' \in [Procs -> [Receipts -> Order]]
        /\ \A q \in Procs \ {p} : base'[q] = base[q] /\ obj'[q] = obj[q]
    BY <2>2 DEF TypeInv, ObjectTypes
  <2>6. {r} \in SUBSET Receipts /\ {r} # {}
    OBVIOUS
  <2>. QED  BY <2>1, <2>3, <2>4, <2>5, <2>6, BeginTypes
<1>4. CASE BeginReconcile(p)
  <2>1. PICK work \in SUBSET Receipts : Begin(p, "reconcile", "look", work)
    BY <1>1, <1>4 DEF BeginReconcile
  <2>2. UNCHANGED <<edits, since, code>> /\ Load(p, Orders)
    BY <1>4 DEF BeginReconcile
  <2>3. "reconcile" \in TaskKinds \cup EditKinds /\ "look" \in Stages \ {"idle"} /\ "look" \notin AtOrder
    BY DEF TaskKinds, Stages, AtOrder
  <2>4. \E orders : Load(p, orders)
    BY <2>2
  <2>5. /\ base' \in [Procs -> [Receipts -> Order]] /\ obj' \in [Procs -> [Receipts -> Order]]
        /\ \A q \in Procs \ {p} : base'[q] = base[q] /\ obj'[q] = obj[q]
    BY <2>4, LoadTypes
  <2>6. since' \in [Procs -> Nat] /\ code' \in [Procs -> Codes] /\ edits' \in Nat
    BY <2>2 DEF TypeInv, RunTypes, EtsyTypes
  <2>. QED  BY <2>1, <2>3, <2>5, <2>6, BeginTypes
<1>5. ASSUME NEW k \in EditKinds, NEW stage \in {"submit", "record"}, BeginEdit(p, k, stage),
             stage = "submit" => k = "fulfil"
      PROVE  TypeInv'
  <2>1. PICK r \in Orders, c \in Codes :
          Begin(p, k, stage, {r}) /\ Load(p, {r}) /\ code' = [code EXCEPT ![p] = c]
    BY <1>5 DEF BeginEdit
  <2>2. edits' = edits + 1 /\ UNCHANGED since
    BY <1>5 DEF BeginEdit
  <2>3. k \in TaskKinds \cup EditKinds /\ stage \in Stages \ {"idle"} /\ {r} \in SUBSET Receipts
    BY <1>1, <1>5 DEF EditKinds, Stages
  <2>4. /\ base' \in [Procs -> [Receipts -> Order]] /\ obj' \in [Procs -> [Receipts -> Order]]
        /\ \A q \in Procs \ {p} : base'[q] = base[q] /\ obj'[q] = obj[q]
    BY <2>1, LoadTypes
  <2>5. code' \in [Procs -> Codes] /\ edits' \in Nat /\ since' \in [Procs -> Nat]
    BY <2>1, <2>2 DEF TypeInv, RunTypes, EtsyTypes
  <2>. QED  BY <1>5, <2>1, <2>3, <2>4, <2>5, BeginTypes
<1>6. CASE BeginFulfil(p)
  <2>1. BeginEdit(p, "fulfil", "submit")
    BY <1>6 DEF BeginFulfil
  <2>2. "fulfil" \in EditKinds
    BY DEF EditKinds
  <2>. QED  BY <1>5, <2>1, <2>2
<1>7. CASE BeginManual(p)
  <2>1. BeginEdit(p, "manual", "record")
    BY <1>7 DEF BeginManual
  <2>2. "manual" \in EditKinds
    BY DEF EditKinds
  <2>. QED  BY <1>5, <2>1, <2>2
<1>. QED  BY <1>2, <1>3, <1>4, <1>6, <1>7

\* A step of p to another stage of its call.
LEMMA StageTypes ==
  ASSUME TypeInv, NEW p \in Procs, NEW stage \in Stages \ {"idle", "submit"}, Goto(p, stage),
         UNCHANGED <<kind, began, code>>, since' \in [Procs -> Nat],
         todo' \in [Procs -> SUBSET Receipts], snap' \in [Procs -> [Receipts -> Receipt]],
         found' \in [Procs -> BOOLEAN], stage \in AtOrder => todo'[p] # {},
         \A q \in Procs \ {p} : todo'[q] = todo[q] /\ base'[q] = base[q] /\ obj'[q] = obj[q]
  PROVE  RunTypes' /\ StagesInv'
<1>1. pc' = [pc EXCEPT ![p] = stage]
  BY DEF Goto
<1>2. RunTypes'
  BY <1>1 DEF TypeInv, RunTypes
<1>3. StagesInv'
  BY <1>1, StagesBy DEF TypeInv, RunTypes
<1>. QED  BY <1>2, <1>3

LEMMA DoneTypes ==
  ASSUME TypeInv, NEW p \in Procs, pc[p] = "apply", Done(p), ObjectTypes',
         \A q \in Procs \ {p} : base'[q] = base[q] /\ obj'[q] = obj[q]
  PROVE  RunTypes' /\ StagesInv'
<1>1. "look" \in Stages \ {"idle", "submit"} /\ "look" \notin AtOrder
  BY DEF Stages, AtOrder
<1>2. Current(p) \in Receipts
  BY CurrentIn DEF TypeInv, StagesInv, AtOrder
<1>3. /\ since' \in [Procs -> Nat] /\ todo' \in [Procs -> SUBSET Receipts]
      /\ found' \in [Procs -> BOOLEAN] /\ \A q \in Procs \ {p} : todo'[q] = todo[q]
  BY DEF Done, TypeInv, RunTypes
<1>4. snap' \in [Procs -> [Receipts -> Receipt]]
  BY <1>2, NoneTypes DEF Done, TypeInv, RunTypes
<1>5. Goto(p, "look") /\ UNCHANGED <<kind, began, code>>
  BY DEF Done
<1>. QED  BY <1>1, <1>3, <1>4, <1>5, StageTypes

LEMMA ForgetTypes ==
  ASSUME TypeInv, NEW p \in Procs, todo[p] # {}, Forget(p)
  PROVE  ObjectTypes' /\ \A q \in Procs \ {p} : base'[q] = base[q] /\ obj'[q] = obj[q]
BY CurrentIn, NoneTypes DEF Forget, TypeInv, ObjectTypes

LEMMA EtsyUpdatesTypes ==
  ASSUME TypeInv, NEW r \in Receipts, NEW e \in Receipt, EtsyUpdates(r, e)
  PROVE  etsy' \in [Receipts -> Receipt] /\ now' \in Nat
<1>1. now + 1 \in Nat
  BY DEF TypeInv, EtsyTypes
<1>2. [e EXCEPT !.stamp = now + 1] \in Receipt
  BY <1>1 DEF Receipt
<1>. QED  BY <1>1, <1>2 DEF EtsyUpdates, ClockRuns, TypeInv, EtsyTypes

LEMMA TrackingTypes ==
  ASSUME TypeInv, NEW r \in Receipts, NEW c \in Codes
  PROVE  WithTracking(r, c) \in Receipt
<1>1. etsy[r] \in Receipt
  BY DEF TypeInv, EtsyTypes
<1>2. [code |-> c, etsy |-> TRUE, delivered |-> FALSE] \in Shipment
  BY DEF Shipment
<1>. QED  BY <1>1, <1>2 DEF WithTracking, Receipt

\* The order as the session has it, and as Etsy's answer has it.
LEMMA ApplyTypes ==
  ASSUME TypeInv, NEW p \in Procs, todo[p] # {}
  PROVE  /\ Existing(p) \in Order /\ Incoming(p) \in Order /\ snap[p][Current(p)] \in Receipt
         /\ [Incoming(p) EXCEPT !.ships = MergeShipments(Existing(p).ships, Incoming(p).ships)] \in Order
<1>1. Current(p) \in Receipts
  BY CurrentIn
<1>2. Existing(p) \in Order
  BY <1>1 DEF Existing, TypeInv, RowTypes, ObjectTypes
<1>3. snap[p][Current(p)] \in Receipt /\ now \in Nat
  BY <1>1 DEF TypeInv, RunTypes, EtsyTypes
<1>4. Incoming(p) \in Order
  BY <1>3, OrderDataIs DEF Incoming
<1>5. Existing(p).ships \subseteq Shipment /\ Incoming(p).ships \subseteq Shipment
  BY <1>2, <1>4 DEF Order
<1>6. MergeShipments(Existing(p).ships, Incoming(p).ships) \subseteq Shipment
  BY <1>5 DEF MergeShipments
<1>7. [Incoming(p) EXCEPT !.ships = MergeShipments(Existing(p).ships, Incoming(p).ships)] \in Order
  BY <1>4, <1>6 DEF Order
<1>. QED  BY <1>2, <1>3, <1>4, <1>7

\* A tracking that is recorded writes an order.
LEMMA RecordedIs ==
  ASSUME TypeInv, NEW p \in Procs, NEW r \in Receipts
  PROVE  \E from, to \in Order :
           /\ from = IF base[p][r].on THEN base[p][r] ELSE row[r]
           /\ to.on = from.on /\ to.stamp = from.stamp /\ to.fulfil = "shipped"
           /\ to.ships = from.ships \/ \E entry : ~entry.etsy /\ to.ships = obj[p][r].ships \cup {entry}
           /\ to.life = IF from.life \in {"completed", "cancelled", "refunded"}
                          THEN from.life ELSE "in_transit"
           /\ to.status = IF from.status \in {"cancelled", "refunded"} THEN from.status ELSE "shipped"
           /\ Recorded(p, r) = Updated(r, from, to)
<1> DEFINE from == IF base[p][r].on THEN base[p][r] ELSE row[r]
           same == base[p][r].on /\ obj[p][r].ships # {}
           entry == [code |-> code[p], etsy |-> FALSE, delivered |-> FALSE]
           ships == IF same THEN from.ships ELSE obj[p][r].ships \cup {entry}
           life == IF from.life \in {"completed", "cancelled", "refunded"} THEN from.life ELSE "in_transit"
           status == IF from.status \in {"cancelled", "refunded"} THEN from.status ELSE "shipped"
           to == [from EXCEPT !.ships = ships, !.fulfil = "shipped", !.life = life,
                              !.status = status, !.synced = now]
<1>1. from \in Order /\ obj[p][r] \in Order /\ now \in Nat
  BY DEF TypeInv, RowTypes, ObjectTypes, EtsyTypes
<1>2. entry \in Shipment
  BY DEF TypeInv, RunTypes, Shipment
<1>3. ships \subseteq Shipment
  <2>. HIDE DEF from, entry
  <2>. QED  BY <1>1, <1>2 DEF Order
<1>4. life \in {"processing", "in_transit", "completed", "cancelled", "refunded"}
  OBVIOUS
<1>5. status \in {"processing", "shipped", "delivered", "cancelled", "refunded"}
  OBVIOUS
<1>6. to \in Order
  <2>. HIDE DEF from, ships, life, status
  <2>. QED  BY <1>1, <1>3, <1>4, <1>5 DEF Order
<1>7. Recorded(p, r) = Updated(r, from, to)
  BY DEF Recorded, Recording
<1>8. /\ to.on = from.on /\ to.stamp = from.stamp /\ to.fulfil = "shipped"
      /\ to.ships = ships /\ to.life = life /\ to.status = status
  <2>. HIDE DEF from, ships, life, status
  <2>. QED  BY <1>1 DEF Order
<1>9. ships = from.ships \/ \E new : ~new.etsy /\ ships = obj[p][r].ships \cup {new}
  <2>1. ~entry.etsy
    OBVIOUS
  <2>. HIDE DEF from, entry
  <2>. QED  BY <2>1
<1>10. from = (IF base[p][r].on THEN base[p][r] ELSE row[r])
  OBVIOUS
<1>11. /\ life = IF from.life \in {"completed", "cancelled", "refunded"} THEN from.life ELSE "in_transit"
       /\ status = IF from.status \in {"cancelled", "refunded"} THEN from.status ELSE "shipped"
  OBVIOUS
<1>. HIDE DEF from, to, ships, life, status
<1>. QED  BY <1>1, <1>6, <1>7, <1>8, <1>9, <1>10, <1>11

LEMMA TypeEtsy ==
  ASSUME TypeInv, EtsyChanges \/ Tick
  PROVE  TypeInv'
<1>1. \A r \in Receipts : etsy[r] \in Receipt
  BY DEF TypeInv, EtsyTypes
<1>2. etsy' \in [Receipts -> Receipt] /\ now' \in Nat
  <2>1. CASE Placed
    <3>1. PICK r \in Receipts : EtsyUpdates(r, [etsy[r] EXCEPT !.on = TRUE])
      BY <2>1 DEF Placed
    <3>2. [etsy[r] EXCEPT !.on = TRUE] \in Receipt
      BY <1>1 DEF Receipt
    <3>. QED  BY <3>1, <3>2, EtsyUpdatesTypes
  <2>2. CASE Moved
    <3>1. PICK r \in Receipts :
            \/ \E s \in EtsyStates \ {etsy[r].state} : EtsyUpdates(r, [etsy[r] EXCEPT !.state = s])
            \/ \E c \in Codes \ CodesOf(etsy[r].ships) : EtsyUpdates(r, WithTracking(r, c))
            \/ \E s \in etsy[r].ships :
                 EtsyUpdates(r, [etsy[r] EXCEPT !.ships = (@ \ {s}) \cup {[s EXCEPT !.delivered = TRUE]}])
      BY <2>2 DEF Moved
    <3>2. ASSUME NEW s \in EtsyStates PROVE [etsy[r] EXCEPT !.state = s] \in Receipt
      BY <1>1, <3>2 DEF Receipt
    <3>3. ASSUME NEW s \in etsy[r].ships
          PROVE  [etsy[r] EXCEPT !.ships = (@ \ {s}) \cup {[s EXCEPT !.delivered = TRUE]}] \in Receipt
      <4>1. etsy[r].ships \subseteq Shipment
        BY <1>1 DEF Receipt
      <4>2. [s EXCEPT !.delivered = TRUE] \in Shipment
        BY <4>1, <3>3 DEF Shipment
      <4>. QED  BY <1>1, <4>1, <4>2 DEF Receipt
    <3>. QED  BY <3>1, <3>2, <3>3, TrackingTypes, EtsyUpdatesTypes
  <2>3. CASE Tick
    BY <2>3 DEF Tick, ClockRuns, TypeInv, EtsyTypes
  <2>. QED  BY <2>1, <2>2, <2>3 DEF EtsyChanges
<1>3. UNCHANGED <<dbVars, bounds, procVars>>
  BY DEF EtsyChanges, Tick
<1>4. EtsyTypes'
  BY <1>2, <1>3 DEF TypeInv, EtsyTypes, bounds
<1>5. RowTypes' /\ ObjectTypes'
  BY <1>3 DEF TypeInv, RowTypes, ObjectTypes, dbVars, procVars
<1>6. RunTypes' /\ StagesInv'
  BY <1>3 DEF TypeInv, RunTypes, StagesInv, procVars
<1>. QED  BY <1>4, <1>5, <1>6 DEF TypeInv

LEMMA TypeTask ==
  ASSUME TypeInv, NEW p \in Procs, TaskStep(p) \/ SkipFailed(p)
  PROVE  TypeInv'
<1>a. /\ since \in [Procs -> Nat] /\ todo \in [Procs -> SUBSET Receipts]
      /\ snap \in [Procs -> [Receipts -> Receipt]] /\ found \in [Procs -> BOOLEAN]
      /\ etsy \in [Receipts -> Receipt] /\ fails \in Nat /\ edits \in Nat /\ now \in Nat
  BY DEF TypeInv, RunTypes, EtsyTypes
<1>b. pc[p] \in AtOrder => todo[p] # {} /\ Current(p) \in Receipts
  BY CurrentIn DEF TypeInv, StagesInv
<1>1. CASE Fetch(p)
  <2>1. /\ RowTypes' /\ ObjectTypes' /\ edits' \in Nat /\ fails' \in Nat
        /\ \A q \in Procs \ {p} : base'[q] = base[q] /\ obj'[q] = obj[q]
    BY <1>1, CallsTypes DEF Fetch
  <2>2. Listing(p) \subseteq Receipts
    BY DEF Listing, Listed
  <2>3. [r \in Receipts |-> IF r \in Listing(p) THEN etsy[r] ELSE NoReceipt] \in [Receipts -> Receipt]
    BY <1>a, NoneTypes
  <2>4. /\ since' \in [Procs -> Nat] /\ todo' \in [Procs -> SUBSET Receipts]
        /\ snap' \in [Procs -> [Receipts -> Receipt]] /\ found' \in [Procs -> BOOLEAN]
        /\ \A q \in Procs \ {p} : todo'[q] = todo[q]
    BY <1>1, <1>a, <2>2, <2>3 DEF Fetch
  <2>5. "look" \in Stages \ {"idle", "submit"} /\ "look" \notin AtOrder
    BY DEF Stages, AtOrder
  <2>6. RunTypes' /\ StagesInv'
    BY <1>1, <2>1, <2>4, <2>5, StageTypes DEF Fetch
  <2>. QED  BY <1>1, <1>a, <2>1, <2>6 DEF Fetch, TypeInv, EtsyTypes
<1>2. CASE Get(p)
  <2>1. /\ RowTypes' /\ ObjectTypes' /\ edits' \in Nat /\ fails' \in Nat
        /\ \A q \in Procs \ {p} : base'[q] = base[q] /\ obj'[q] = obj[q]
    BY <1>2, CallsTypes DEF Get
  <2>2. todo[p] # {} /\ Current(p) \in Receipts
    BY <1>2, <1>b DEF Get, AtOrder
  <2>3. /\ since' \in [Procs -> Nat] /\ todo' = todo /\ found' \in [Procs -> BOOLEAN]
        /\ snap' \in [Procs -> [Receipts -> Receipt]] /\ UNCHANGED <<kind, began, code>>
    BY <1>2, <1>a, <2>2 DEF Get
  <2>4. PICK stage \in Stages \ {"idle", "submit"} : Goto(p, stage)
    BY <1>2 DEF Get, Stages
  <2>5. RunTypes' /\ StagesInv'
    BY <1>a, <2>1, <2>2, <2>3, <2>4, StageTypes
  <2>. QED  BY <1>2, <1>a, <2>1, <2>5 DEF Get, TypeInv, EtsyTypes
<1>3. CASE Look(p)
  <2>1. todo[p] # {} /\ Current(p) \in Receipts
    BY <1>3, CurrentIn DEF Look
  <2>2. /\ ObjectTypes'
        /\ \A q \in Procs \ {p} : base'[q] = base[q] /\ obj'[q] = obj[q]
    <3>1. row[Current(p)] \in Order
      BY <2>1 DEF TypeInv, RowTypes
    <3>2. /\ \/ UNCHANGED <<base, obj>>
             \/ /\ base' = [base EXCEPT ![p][Current(p)] = row[Current(p)]]
                /\ obj' = [obj EXCEPT ![p][Current(p)] = row[Current(p)]]
          /\ UNCHANGED fresh
      BY <1>3 DEF Look
    <3>3. CASE UNCHANGED <<base, obj>>
      BY <3>2, <3>3 DEF TypeInv, ObjectTypes
    <3>4. CASE /\ base' = [base EXCEPT ![p][Current(p)] = row[Current(p)]]
               /\ obj' = [obj EXCEPT ![p][Current(p)] = row[Current(p)]]
      BY <2>1, <3>1, <3>2, <3>4 DEF TypeInv, ObjectTypes
    <3>. QED  BY <3>2, <3>3, <3>4
  <2>3. found' \in [Procs -> BOOLEAN]
    <3>1. row[Current(p)].on \in BOOLEAN
      BY <2>1 DEF TypeInv, RowTypes, Order
    <3>. QED  BY <1>3, <1>a, <3>1 DEF Look
  <2>4. UNCHANGED <<etsy, dbVars, now, bounds, kind, began, since, todo, snap, fresh, code>>
    BY <1>3 DEF Look
  <2>5. PICK stage \in Stages \ {"idle", "submit"} : Goto(p, stage)
    BY <1>3 DEF Look, Stages
  <2>6. RunTypes' /\ StagesInv'
    BY <1>a, <2>1, <2>2, <2>3, <2>4, <2>5, StageTypes
  <2>. QED  BY <2>2, <2>4, <2>6 DEF TypeInv, EtsyTypes, RowTypes, dbVars, bounds
<1>4. CASE Extract(p)
  <2>1. /\ RowTypes' /\ ObjectTypes' /\ edits' \in Nat /\ fails' \in Nat
        /\ \A q \in Procs \ {p} : base'[q] = base[q] /\ obj'[q] = obj[q]
    BY <1>4, CallsTypes DEF Extract
  <2>2. todo[p] # {} /\ "apply" \in Stages \ {"idle", "submit"}
    BY <1>4, <1>b DEF Extract, AtOrder, Stages
  <2>3. UNCHANGED <<etsy, now, kind, began, since, todo, snap, found, code>> /\ Goto(p, "apply")
    BY <1>4 DEF Extract
  <2>4. RunTypes' /\ StagesInv'
    BY <1>a, <2>1, <2>2, <2>3, StageTypes
  <2>. QED  BY <1>a, <2>1, <2>3, <2>4 DEF TypeInv, EtsyTypes
<1>5. CASE SkipStale(p) \/ SkipFailed(p)
  <2>1. pc[p] = "apply" /\ todo[p] # {} /\ Forget(p) /\ Done(p) /\ edits' = edits /\ fails' \in Nat
    BY <1>5, <1>a, <1>b DEF SkipStale, SkipFailed, Fail, AtOrder, bounds
  <2>2. ObjectTypes' /\ \A q \in Procs \ {p} : base'[q] = base[q] /\ obj'[q] = obj[q]
    BY <2>1, ForgetTypes
  <2>3. RunTypes' /\ StagesInv'
    BY <2>1, <2>2, DoneTypes
  <2>. QED  BY <1>a, <2>1, <2>2, <2>3 DEF Done, TypeInv, EtsyTypes, RowTypes, dbVars
<1>6. CASE Update(p)
  <2>1. pc[p] = "apply" /\ todo[p] # {} /\ Current(p) \in Receipts
    BY <1>6, <1>b DEF Update, AtOrder
  <2>2. PICK merged \in Order :
          /\ base' = [base EXCEPT ![p][Current(p)] = Existing(p)]
          /\ obj' = [obj EXCEPT ![p][Current(p)] = merged]
    BY <1>6, <2>1, ApplyTypes DEF Update
  <2>3. fresh' = fresh \/ fresh' = [fresh EXCEPT ![p] = @ \cup {Current(p)}]
    BY <1>6 DEF Update, TypeInv, ObjectTypes
  <2>4. Existing(p) \in Order
    BY <2>1, ApplyTypes
  <2>5. ObjectTypes' /\ \A q \in Procs \ {p} : base'[q] = base[q] /\ obj'[q] = obj[q]
    BY <2>1, <2>2, <2>3, <2>4 DEF TypeInv, ObjectTypes
  <2>6. Done(p) /\ UNCHANGED bounds
    BY <1>6 DEF Update
  <2>7. RunTypes' /\ StagesInv'
    BY <2>1, <2>5, <2>6, DoneTypes
  <2>. QED  BY <1>a, <2>5, <2>6, <2>7 DEF Done, TypeInv, EtsyTypes, RowTypes, dbVars, bounds
<1>7. CASE Create(p)
  <2>1. pc[p] = "apply" /\ todo[p] # {} /\ Current(p) \in Receipts
    BY <1>7, <1>b DEF Create, AtOrder
  <2>2. PICK new \in Order : obj' = [obj EXCEPT ![p][Current(p)] = new]
    BY <1>7, <2>1, ApplyTypes DEF Create
  <2>3. Done(p) /\ UNCHANGED <<base, fresh, bounds>>
    BY <1>7 DEF Create
  <2>4. ObjectTypes' /\ \A q \in Procs \ {p} : base'[q] = base[q] /\ obj'[q] = obj[q]
    BY <2>1, <2>2, <2>3 DEF TypeInv, ObjectTypes
  <2>5. RunTypes' /\ StagesInv'
    BY <2>1, <2>3, <2>4, DoneTypes
  <2>. QED  BY <1>a, <2>3, <2>4, <2>5 DEF Done, TypeInv, EtsyTypes, RowTypes, dbVars, bounds
<1>8. CASE Conflict(p)
  BY <1>8, EndTypes DEF Conflict, TypeInv, EtsyTypes, RowTypes, dbVars, bounds
<1>9. CASE Commit(p)
  <2>1. RowTypes'
    BY <1>9, SavedTypes DEF Commit, TypeInv, RowTypes, ObjectTypes
  <2>. QED  BY <1>9, <2>1, EndTypes DEF Commit, TypeInv, EtsyTypes, bounds
<1>. QED
  BY <1>1, <1>2, <1>3, <1>4, <1>5, <1>6, <1>7, <1>8, <1>9 DEF TaskStep

LEMMA TypeEdit ==
  ASSUME TypeInv, NEW p \in Procs, EditStep(p) \/ ReplyLost(p) \/ Crash(p)
  PROVE  TypeInv'
<1>b. pc[p] \in AtOrder => todo[p] # {} /\ Current(p) \in Receipts
  BY CurrentIn DEF TypeInv, StagesInv
<1>c. code[p] \in Codes
  BY DEF TypeInv, RunTypes
<1>1. CASE Submit(p)
  <2>1. todo[p] # {} /\ Current(p) \in Receipts /\ "record" \in Stages \ {"idle", "submit"}
    BY <1>1, <1>b DEF Submit, AtOrder, Stages
  <2>2. etsy' \in [Receipts -> Receipt] /\ now' \in Nat
    BY <1>1, <1>c, <2>1, TrackingTypes, EtsyUpdatesTypes DEF Submit
  <2>3. UNCHANGED <<dbVars, obj, fresh, bounds>> /\ base' \in {base, [base EXCEPT ![p] = NoOrders]}
    BY <1>1 DEF Submit, MayExpire
  <2>4. ObjectTypes' /\ \A q \in Procs \ {p} : base'[q] = base[q] /\ obj'[q] = obj[q]
    BY <2>3, NoneTypes DEF TypeInv, ObjectTypes
  <2>5. UNCHANGED <<kind, began, since, todo, snap, found, code>> /\ Goto(p, "record")
    BY <1>1 DEF Submit
  <2>6. RunTypes' /\ StagesInv'
    BY <2>1, <2>4, <2>5, StageTypes DEF TypeInv, RunTypes
  <2>. QED  BY <2>2, <2>3, <2>4, <2>6 DEF TypeInv, EtsyTypes, RowTypes, dbVars, bounds
<1>2. CASE Refused(p) \/ Crash(p)
  <2>1. End(p) /\ UNCHANGED <<etsy, dbVars, now, edits>> /\ fails' \in Nat
    BY <1>2 DEF Refused, Crash, Fail, bounds, TypeInv, EtsyTypes
  <2>. QED  BY <2>1, EndTypes DEF TypeInv, EtsyTypes, RowTypes, dbVars
<1>3. CASE Record(p)
  <2>1. Current(p) \in Receipts
    BY <1>3, <1>b DEF Record, AtOrder
  <2>2. Recorded(p, Current(p)) \in Order
    <3>1. row[Current(p)] \in Order
      BY <2>1 DEF TypeInv, RowTypes
    <3>2. PICK from \in Order, to \in Order :
            Recorded(p, Current(p)) = Updated(Current(p), from, to)
      BY <2>1, RecordedIs
    <3>. QED  BY <2>1, <3>1, <3>2, UpdatedIs
  <2>3. row' \in [Receipts -> Order]
    BY <1>3, <2>1, <2>2 DEF Record, TypeInv, RowTypes
  <2>4. shipped' \in [Receipts -> [Codes -> Nat]] /\ noted' \in [Receipts -> SUBSET Codes]
    <3>1. CASE kind[p] = "fulfil"
      <4>1. shipped' = [shipped EXCEPT ![Current(p)][code[p]] = @ + 1] /\ UNCHANGED noted
        BY <1>3, <3>1 DEF Record
      <4>2. shipped[Current(p)][code[p]] + 1 \in Nat
        BY <1>c, <2>1 DEF TypeInv, RowTypes
      <4>. QED  BY <1>c, <2>1, <4>1, <4>2 DEF TypeInv, RowTypes
    <3>2. CASE kind[p] # "fulfil"
      <4>1. noted' = [noted EXCEPT ![Current(p)] = @ \cup {code[p]}] /\ UNCHANGED shipped
        BY <1>3, <3>2 DEF Record
      <4>. QED  BY <1>c, <2>1, <4>1 DEF TypeInv, RowTypes
    <3>. QED  BY <3>1, <3>2
  <2>5. End(p) /\ UNCHANGED <<etsy, delivered, now, bounds>>
    BY <1>3 DEF Record
  <2>. QED  BY <2>3, <2>4, <2>5, EndTypes DEF TypeInv, EtsyTypes, RowTypes, bounds
<1>4. CASE ReplyLost(p)
  <2>1. Current(p) \in Receipts
    BY <1>4, <1>b DEF ReplyLost, AtOrder
  <2>2. etsy' \in [Receipts -> Receipt] /\ now' \in Nat
    BY <1>4, <1>c, <2>1, TrackingTypes, EtsyUpdatesTypes DEF ReplyLost
  <2>3. End(p) /\ UNCHANGED <<dbVars, edits>> /\ fails' \in Nat
    BY <1>4 DEF ReplyLost, Fail, TypeInv, EtsyTypes
  <2>. QED  BY <2>2, <2>3, EndTypes DEF TypeInv, EtsyTypes, RowTypes, dbVars
<1>. QED  BY <1>1, <1>2, <1>3, <1>4 DEF EditStep

LEMMA TypeStep == TypeInv /\ [Next]_vars => TypeInv'
<1>1. ASSUME TypeInv, UNCHANGED vars PROVE TypeInv'
  <2>1. UNCHANGED <<etsy, dbVars, now, bounds, procVars>>
    BY <1>1 DEF vars
  <2>2. EtsyTypes' /\ RowTypes'
    BY <1>1, <2>1 DEF TypeInv, EtsyTypes, RowTypes, dbVars, bounds
  <2>3. RunTypes' /\ ObjectTypes' /\ StagesInv'
    BY <1>1, <2>1 DEF TypeInv, RunTypes, ObjectTypes, StagesInv, procVars
  <2>. QED  BY <2>2, <2>3 DEF TypeInv
<1>. QED  BY <1>1, TypeEtsy, TypeBegin, TypeTask, TypeEdit DEF Next

\* Every variable has its type, for any sessions, receipts and codes; a session that
\* looks at, writes or submits an order has one.
THEOREM TypeCorrect == Spec => []TypeOK
<1>. QED  BY TypeIs, TypeInit, TypeStep, PTL DEF Spec

-----------------------------------------------------------------------------
(* Where what the database says comes from.                                *)

\* A delivered shipment.
HasDelivered(e) == \E t \in e.ships : t.delivered

\* An earlier state of the same receipt.
Older(d, e) ==
  /\ d.stamp <= e.stamp
  /\ \A s \in d.ships : \E t \in e.ships : t.code = s.code /\ (s.delivered => t.delivered)

\* What order o says comes from receipt e.
FromEtsy(o, e) ==
  /\ o.stamp <= e.stamp
  /\ \A s \in o.ships :
       s.etsy => \E t \in e.ships : t.code = s.code /\ (s.delivered => t.delivered)
  /\ o.fulfil = "delivered" => HasDelivered(e)

SameStatus(o, b) == o.fulfil = b.fulfil /\ o.life = b.life /\ o.status = b.status

\* What a session that runs k made of the object it loaded as b.
Forward(k, b, o) ==
  b.on /\ o.on =>
    /\ o.stamp >= b.stamp
    /\ k = "sync" => \A s \in b.ships : s.etsy \/ s \in o.ships
    /\ StatusAgrees(o) \/ SameStatus(o, b)

\* A session that runs k holds order b, changed to o, and Etsy's answer d; x is the
\* order's row and e its receipt.
Held(k, x, e, b, o, d) ==
  /\ b.on => x.on
  /\ FromEtsy(b, e) /\ FromEtsy(o, e) /\ Older(d, e)
  /\ Forward(k, b, o)

RowsInv ==
  \A r \in Receipts :
    /\ FromEtsy(row[r], etsy[r])
    /\ r \in delivered => HasDelivered(etsy[r])
    /\ etsy[r].stamp <= now

SessionsInv ==
  \A p \in Procs, r \in Receipts :
    /\ Held(kind[p], row[r], etsy[r], base[p][r], obj[p][r], snap[p][r])
    /\ r \in fresh[p] => HasDelivered(etsy[r])

LEMMA OlderIs ==
  /\ \A e \in Receipt : Older(e, e) /\ Older(NoReceipt, e) /\ FromEtsy(NoOrder, e)
  /\ \A d, e, f \in Receipt : Older(d, e) /\ Older(e, f) => Older(d, f)
  /\ \A e, f \in Receipt : Older(e, f) /\ HasDelivered(e) => HasDelivered(f)
  /\ \A o \in Order, e, f \in Receipt : FromEtsy(o, e) /\ Older(e, f) => FromEtsy(o, f)
<1>1. ASSUME NEW e \in Receipt PROVE Older(e, e) /\ Older(NoReceipt, e) /\ FromEtsy(NoOrder, e)
  <2>1. e.stamp \in Nat
    BY DEF Receipt
  <2>. QED  BY <2>1 DEF Older, FromEtsy, NoReceipt, NoOrder
<1>2. ASSUME NEW d \in Receipt, NEW e \in Receipt, NEW f \in Receipt, Older(d, e), Older(e, f)
      PROVE  Older(d, f)
  <2>1. d.stamp \in Nat /\ e.stamp \in Nat /\ f.stamp \in Nat
    BY DEF Receipt
  <2>2. d.stamp <= f.stamp
    BY <1>2, <2>1 DEF Older
  <2>3. ASSUME NEW s \in d.ships
        PROVE  \E t \in f.ships : t.code = s.code /\ (s.delivered => t.delivered)
    <3>1. PICK u \in e.ships : u.code = s.code /\ (s.delivered => u.delivered)
      BY <1>2 DEF Older
    <3>2. PICK t \in f.ships : t.code = u.code /\ (u.delivered => t.delivered)
      BY <1>2 DEF Older
    <3>. QED  BY <3>1, <3>2, Zenon
  <2>. QED  BY <2>2, <2>3, Zenon DEF Older
<1>3. ASSUME NEW e \in Receipt, NEW f \in Receipt, Older(e, f), HasDelivered(e)
      PROVE  HasDelivered(f)
  BY <1>3, Zenon DEF Older, HasDelivered
<1>4. ASSUME NEW o \in Order, NEW e \in Receipt, NEW f \in Receipt, FromEtsy(o, e), Older(e, f)
      PROVE  FromEtsy(o, f)
  <2>1. o.stamp \in Nat /\ e.stamp \in Nat /\ f.stamp \in Nat
    BY DEF Receipt, Order
  <2>2. o.stamp <= f.stamp
    BY <1>4, <2>1 DEF Older, FromEtsy
  <2>3. ASSUME NEW s \in o.ships, s.etsy
        PROVE  \E t \in f.ships : t.code = s.code /\ (s.delivered => t.delivered)
    <3>1. PICK u \in e.ships : u.code = s.code /\ (s.delivered => u.delivered)
      BY <1>4, <2>3, Zenon DEF FromEtsy
    <3>2. PICK t \in f.ships : t.code = u.code /\ (u.delivered => t.delivered)
      BY <1>4, Zenon DEF Older
    <3>. QED  BY <3>1, <3>2, Zenon
  <2>4. o.fulfil = "delivered" => HasDelivered(f)
    BY <1>3, <1>4 DEF FromEtsy
  <2>. QED  BY <2>2, <2>3, <2>4, Zenon DEF FromEtsy
<1>. QED  BY <1>1, <1>2, <1>3, <1>4, Zenon

LEMMA HeldKept ==
  ASSUME NEW k, NEW x, NEW y, NEW e \in Receipt, NEW f \in Receipt, NEW b \in Order, NEW o \in Order,
         NEW d \in Receipt, Held(k, x, e, b, o, d), Older(e, f), x.on => y.on
  PROVE  Held(k, y, f, b, o, d)
<1>1. FromEtsy(b, f) /\ FromEtsy(o, f) /\ Older(d, f)
  BY OlderIs DEF Held
<1>. QED  BY <1>1, Zenon DEF Held

LEMMA NoneHeld ==
  ASSUME NEW k, NEW x, NEW e \in Receipt, NEW o \in Order, NEW d \in Receipt, Older(d, e), FromEtsy(o, e)
  PROVE  Held(k, x, e, NoOrder, o, d)
<1>1. ~NoOrder.on /\ FromEtsy(NoOrder, e)
  BY OlderIs DEF NoOrder
<1>. QED  BY <1>1, Zenon DEF Held, Forward

\* An order as it was loaded.
LEMMA LoadHeld ==
  ASSUME NEW k, NEW e \in Receipt, NEW x \in Order, NEW d \in Receipt, Older(d, e), FromEtsy(x, e)
  PROVE  Held(k, x, e, x, x, d)
<1>1. x.stamp >= x.stamp
  BY DEF Order
<1>2. Forward(k, x, x)
  BY <1>1 DEF Forward, SameStatus
<1>. QED  BY <1>2, Zenon DEF Held

\* Receipts only move on, with stamps that the clock has reached.
Grown == \A r \in Receipts : Older(etsy[r], etsy'[r]) /\ etsy'[r].stamp <= now'

LEMMA RowsBy ==
  ASSUME TypeInv, TypeInv', Grown,
         \A r \in Receipts : FromEtsy(row'[r], etsy[r]),
         \A r \in delivered' : HasDelivered(etsy[r])
  PROVE  RowsInv'
<1> SUFFICES ASSUME NEW r \in Receipts
             PROVE  FromEtsy(row'[r], etsy'[r]) /\ (r \in delivered' => HasDelivered(etsy'[r]))
  BY DEF RowsInv, Grown
<1>1. /\ etsy[r] \in Receipt /\ etsy'[r] \in Receipt /\ row'[r] \in Order
      /\ Older(etsy[r], etsy'[r]) /\ FromEtsy(row'[r], etsy[r])
  BY DEF TypeInv, EtsyTypes, RowTypes, Grown
<1>. QED  BY <1>1, OlderIs

\* Orders are never deleted.
RowsStay == \A r \in Receipts : row[r].on => row'[r].on

\* A step of p leaves the other sessions alone.
OthersStay(p) ==
  \A q \in Procs \ {p} : /\ kind'[q] = kind[q] /\ base'[q] = base[q] /\ obj'[q] = obj[q]
                         /\ snap'[q] = snap[q] /\ fresh'[q] = fresh[q]

LEMMA SessionsBy ==
  ASSUME TypeInv, TypeInv', SessionsInv, Grown, RowsStay, NEW p \in Procs, OthersStay(p),
         \A r \in Receipts : Held(kind'[p], row'[r], etsy[r], base'[p][r], obj'[p][r], snap'[p][r]),
         \A r \in fresh'[p] : HasDelivered(etsy[r])
  PROVE  SessionsInv'
<1> SUFFICES ASSUME NEW q \in Procs, NEW r \in Receipts
             PROVE  /\ Held(kind'[q], row'[r], etsy'[r], base'[q][r], obj'[q][r], snap'[q][r])
                    /\ r \in fresh'[q] => HasDelivered(etsy'[r])
  BY DEF SessionsInv
<1>1. /\ etsy[r] \in Receipt /\ etsy'[r] \in Receipt /\ base'[q][r] \in Order
      /\ obj'[q][r] \in Order /\ snap'[q][r] \in Receipt /\ Older(etsy[r], etsy'[r])
  BY DEF TypeInv, EtsyTypes, ObjectTypes, RunTypes, Grown
<1>2. CASE q = p
  <2>1. Held(kind'[q], row'[r], etsy[r], base'[q][r], obj'[q][r], snap'[q][r])
    BY <1>2
  <2>. QED  BY <1>1, <1>2, <2>1, OlderIs, HeldKept
<1>3. CASE q # p
  <2>1. Held(kind'[q], row[r], etsy[r], base'[q][r], obj'[q][r], snap'[q][r])
    BY <1>3 DEF SessionsInv, OthersStay
  <2>2. r \in fresh'[q] => HasDelivered(etsy[r])
    BY <1>3 DEF SessionsInv, OthersStay
  <2>3. row[r].on => row'[r].on
    BY DEF RowsStay
  <2>. QED  BY <1>1, <2>1, <2>2, <2>3, OlderIs, HeldKept
<1>. QED  BY <1>2, <1>3

FlowInv == RowsInv /\ SessionsInv

\* What a commit writes comes from Etsy, too.
LEMMA SavedFlow ==
  ASSUME TypeInv, FlowInv, NEW p \in Procs
  PROVE  /\ \A r \in Receipts : FromEtsy(Saved(p)[r], etsy[r]) /\ (row[r].on => Saved(p)[r].on)
         /\ \A r \in delivered \cup fresh[p] : HasDelivered(etsy[r])
<1>1. ASSUME NEW r \in Receipts
      PROVE  FromEtsy(Saved(p)[r], etsy[r]) /\ (row[r].on => Saved(p)[r].on)
  <2>1. row[r] \in Order /\ obj[p][r] \in Order /\ base[p][r] \in Order
    BY DEF TypeInv, RowTypes, ObjectTypes
  <2>2. FromEtsy(row[r], etsy[r]) /\ FromEtsy(obj[p][r], etsy[r])
    BY DEF FlowInv, RowsInv, SessionsInv, Held
  <2>3. Saved(p)[r] = IF ~obj[p][r].on THEN row[r]
                      ELSE IF Inserts(p, r) THEN obj[p][r]
                      ELSE Updated(r, base[p][r], obj[p][r])
    BY DEF Saved
  <2>4. CASE ~obj[p][r].on
    BY <2>2, <2>3, <2>4, Zenon
  <2>5. CASE obj[p][r].on /\ Inserts(p, r)
    BY <2>2, <2>3, <2>5, Zenon
  <2>6. CASE obj[p][r].on /\ ~Inserts(p, r)
    <3> DEFINE new == Updated(r, base[p][r], obj[p][r])
    <3>1. Saved(p)[r] = new
      BY <2>3, <2>6, Zenon
    <3>2. /\ new.stamp = row[r].stamp \/ new.stamp = obj[p][r].stamp
          /\ new.ships = row[r].ships \/ new.ships = obj[p][r].ships
          /\ new.fulfil = row[r].fulfil \/ new.fulfil = obj[p][r].fulfil
          /\ new.on = IF obj[p][r].on = base[p][r].on THEN row[r].on ELSE obj[p][r].on
      BY <2>1, UpdatedIs
    <3>. HIDE DEF new
    <3>3. FromEtsy(new, etsy[r])
      BY <2>2, <3>2 DEF FromEtsy
    <3>4. row[r].on => new.on
      BY <2>6, <3>2
    <3>. QED  BY <3>1, <3>3, <3>4
  <2>. QED  BY <2>4, <2>5, <2>6
<1>2. \A r \in delivered \cup fresh[p] : HasDelivered(etsy[r])
  BY DEF FlowInv, RowsInv, SessionsInv, TypeInv, RowTypes, ObjectTypes
<1>. QED  BY <1>1, <1>2

LEMMA StillGrown ==
  ASSUME TypeInv, RowsInv, UNCHANGED <<etsy, now>>
  PROVE  Grown
BY OlderIs DEF Grown, RowsInv, TypeInv, EtsyTypes

\* A change at Etsy gets the newest stamp.
LEMMA UpdateGrown ==
  ASSUME TypeInv, RowsInv, NEW r \in Receipts, NEW e \in Receipt, EtsyUpdates(r, e),
         \A s \in etsy[r].ships : \E t \in e.ships : t.code = s.code /\ (s.delivered => t.delivered)
  PROVE  Grown
<1>1. etsy \in [Receipts -> Receipt] /\ now \in Nat /\ now' = now + 1
  BY DEF TypeInv, EtsyTypes, EtsyUpdates, ClockRuns
<1>2. PICK f : f = [e EXCEPT !.stamp = now + 1] /\ etsy' = [etsy EXCEPT ![r] = f]
  BY DEF EtsyUpdates
<1>3. f.stamp = now + 1 /\ f.ships = e.ships
  BY <1>2 DEF Receipt
<1> SUFFICES ASSUME NEW q \in Receipts PROVE Older(etsy[q], etsy'[q]) /\ etsy'[q].stamp <= now'
  BY DEF Grown
<1>4. etsy[q].stamp \in Nat /\ etsy[q].stamp <= now /\ etsy[q] \in Receipt
  BY <1>1 DEF RowsInv, Receipt
<1>5. CASE q = r
  <2>1. etsy'[q] = f
    BY <1>1, <1>2, <1>5
  <2>2. etsy[q].stamp <= f.stamp /\ f.stamp <= now'
    BY <1>1, <1>3, <1>4
  <2>. QED  BY <1>3, <1>5, <2>1, <2>2, Zenon DEF Older
<1>6. CASE q # r
  <2>1. etsy'[q] = etsy[q]
    BY <1>1, <1>2, <1>6
  <2>. QED  BY <1>1, <1>4, <2>1, OlderIs
<1>. QED  BY <1>5, <1>6

LEMMA TrackingGrown ==
  ASSUME TypeInv, RowsInv, NEW r \in Receipts, NEW c \in Codes, EtsyUpdates(r, WithTracking(r, c))
  PROVE  Grown
<1>1. WithTracking(r, c).ships =
        etsy[r].ships \cup {[code |-> c, etsy |-> TRUE, delivered |-> FALSE]}
  BY DEF WithTracking, TypeInv, EtsyTypes, Receipt
<1>2. \A s \in etsy[r].ships :
        \E t \in WithTracking(r, c).ships : t.code = s.code /\ (s.delivered => t.delivered)
  BY <1>1, Zenon
<1>. QED  BY <1>2, TrackingTypes, UpdateGrown

\* A session that ends holds nothing.
LEMMA EndHeld ==
  ASSUME TypeInv, NEW p \in Procs, End(p)
  PROVE  /\ OthersStay(p) /\ fresh'[p] = {}
         /\ \A r \in Receipts : Held(kind'[p], row'[r], etsy[r], base'[p][r], obj'[p][r], snap'[p][r])
<1>1. OthersStay(p)
  BY DEF End, OthersStay, TypeInv, RunTypes, ObjectTypes
<1>2. base'[p] = NoOrders /\ obj'[p] = NoOrders /\ snap'[p] = NoReceipts /\ fresh'[p] = {}
  BY DEF End, TypeInv, RunTypes, ObjectTypes
<1>3. ASSUME NEW r \in Receipts
      PROVE  Held(kind'[p], row'[r], etsy[r], base'[p][r], obj'[p][r], snap'[p][r])
  <2>1. base'[p][r] = NoOrder /\ obj'[p][r] = NoOrder /\ snap'[p][r] = NoReceipt
    BY <1>2 DEF NoOrders, NoReceipts
  <2>2. etsy[r] \in Receipt
    BY DEF TypeInv, EtsyTypes
  <2>3. Held(kind'[p], row'[r], etsy[r], NoOrder, NoOrder, NoReceipt)
    BY <2>2, NoneTypes, NoneHeld, OlderIs
  <2>. QED  BY <2>1, <2>3
<1>. QED  BY <1>1, <1>2, <1>3

\* A call to Etsy, whatever the token manager does to the session on the way.
LEMMA CallsFlow ==
  ASSUME TypeInv, TypeInv', FlowInv, NEW p \in Procs, CallsEtsy(p),
         UNCHANGED <<etsy, now, kind>>, \A q \in Procs \ {p} : snap'[q] = snap[q],
         \A r \in Receipts : Older(snap'[p][r], etsy[r])
  PROVE  FlowInv'
<1>1. Grown
  BY StillGrown DEF FlowInv
<1>2. \A q \in Procs \ {p} : base'[q] = base[q] /\ obj'[q] = obj[q] /\ fresh'[q] = fresh[q]
  BY CallsTypes
<1>3. OthersStay(p)
  BY <1>2 DEF OthersStay
<1>4. RowsStay /\ RowsInv'
  <2>1. CASE UNCHANGED <<row, delivered>>
    BY <1>1, <2>1, RowsBy DEF RowsStay, FlowInv, RowsInv, TypeInv, RowTypes
  <2>2. CASE row' = Saved(p) /\ delivered' = delivered \cup fresh[p]
    BY <1>1, <2>2, SavedFlow, RowsBy DEF RowsStay
  <2>. QED  BY <2>1, <2>2 DEF CallsEtsy, Quiet, CommitsEarly, RollsBack, dbVars
<1>5. \/ base'[p] = base[p] /\ obj'[p] = obj[p] /\ fresh'[p] = fresh[p]
      \/ base'[p] = NoOrders /\ obj'[p] = NoOrders /\ fresh'[p] = {}
  BY DEF CallsEtsy, Quiet, CommitsEarly, RollsBack, Expire, TypeInv, ObjectTypes
<1>6. \A r \in fresh'[p] : HasDelivered(etsy[r])
  BY <1>5 DEF FlowInv, SessionsInv, TypeInv, ObjectTypes
<1>7. ASSUME NEW r \in Receipts
      PROVE  Held(kind'[p], row'[r], etsy[r], base'[p][r], obj'[p][r], snap'[p][r])
  <2>1. etsy[r] \in Receipt /\ snap'[p][r] \in Receipt /\ Older(snap'[p][r], etsy[r])
    BY DEF TypeInv, EtsyTypes, RunTypes
  <2>2. CASE base'[p] = base[p] /\ obj'[p] = obj[p]
    <3>1. Held(kind[p], row[r], etsy[r], base[p][r], obj[p][r], snap[p][r])
      BY DEF FlowInv, SessionsInv
    <3>2. row[r].on => row'[r].on
      BY <1>4 DEF RowsStay
    <3>. QED  BY <2>1, <2>2, <3>1, <3>2 DEF Held
  <2>3. CASE base'[p] = NoOrders /\ obj'[p] = NoOrders
    <3>1. base'[p][r] = NoOrder /\ obj'[p][r] = NoOrder
      BY <2>3 DEF NoOrders
    <3>2. Held(kind'[p], row'[r], etsy[r], NoOrder, NoOrder, snap'[p][r])
      BY <2>1, NoneTypes, NoneHeld, OlderIs
    <3>. QED  BY <3>1, <3>2
  <2>. QED  BY <1>5, <2>2, <2>3
<1>. QED  BY <1>1, <1>3, <1>4, <1>6, <1>7, SessionsBy DEF FlowInv

\* A step of p within its session: nothing of the database changes.
LEMMA LocalFlow ==
  ASSUME TypeInv, TypeInv', FlowInv, NEW p \in Procs, OthersStay(p),
         UNCHANGED <<etsy, row, delivered, now>>,
         \A r \in Receipts : Held(kind'[p], row[r], etsy[r], base'[p][r], obj'[p][r], snap'[p][r]),
         \A r \in fresh'[p] : HasDelivered(etsy[r])
  PROVE  FlowInv'
<1>1. Grown /\ RowsStay
  BY StillGrown DEF FlowInv, RowsStay
<1>2. RowsInv'
  BY <1>1, RowsBy DEF FlowInv, RowsInv, TypeInv, RowTypes
<1>3. SessionsInv'
  BY <1>1, SessionsBy DEF FlowInv
<1>. QED  BY <1>2, <1>3 DEF FlowInv

\* The orders a session loads, or none.
LEMMA LoadFlow ==
  ASSUME TypeInv, FlowInv, NEW p \in Procs, NEW orders, Load(p, orders), NEW k, NEW r \in Receipts
  PROVE  Held(k, row[r], etsy[r], base'[p][r], obj'[p][r], snap[p][r])
<1>1. /\ etsy[r] \in Receipt /\ row[r] \in Order /\ snap[p][r] \in Receipt
      /\ Older(snap[p][r], etsy[r]) /\ FromEtsy(row[r], etsy[r])
  BY DEF TypeInv, EtsyTypes, RowTypes, RunTypes, FlowInv, RowsInv, SessionsInv, Held
<1>2. \/ base'[p][r] = row[r] /\ obj'[p][r] = row[r]
      \/ base'[p][r] = NoOrder /\ obj'[p][r] = NoOrder
  BY DEF Load, TypeInv, ObjectTypes
<1>3. Held(k, row[r], etsy[r], row[r], row[r], snap[p][r])
  BY <1>1, LoadHeld
<1>4. Held(k, row[r], etsy[r], NoOrder, NoOrder, snap[p][r])
  BY <1>1, NoneTypes, NoneHeld, OlderIs
<1>. QED  BY <1>2, <1>3, <1>4

LEMMA FlowBegin ==
  ASSUME TypeInv, TypeInv', FlowInv, NEW p \in Procs,
         \/ BeginSync(p) \/ BeginById(p) \/ BeginReconcile(p) \/ BeginFulfil(p) \/ BeginManual(p)
  PROVE  FlowInv'
<1>1. PICK k, stage, work : Begin(p, k, stage, work)
  BY DEF BeginSync, BeginById, BeginReconcile, BeginFulfil, BeginManual, BeginEdit
<1>2. /\ pc[p] = "idle" /\ UNCHANGED <<etsy, row, delivered, now, snap, fresh>>
      /\ \A q \in Procs \ {p} : kind'[q] = kind[q]
  BY <1>1 DEF Begin, dbVars, TypeInv, RunTypes
<1>3. UNCHANGED <<base, obj>> \/ \E orders : Load(p, orders)
  <2>1. CASE BeginSync(p)
    BY <2>1, Zenon DEF BeginSync
  <2>2. CASE BeginById(p) \/ BeginReconcile(p) \/ BeginFulfil(p) \/ BeginManual(p)
    BY <2>2 DEF BeginById, BeginReconcile, BeginFulfil, BeginManual, BeginEdit
  <2>. QED  BY <2>1, <2>2
<1>4. OthersStay(p)
  <2>1. \A q \in Procs \ {p} : base'[q] = base[q] /\ obj'[q] = obj[q]
    BY <1>3, LoadTypes
  <2>. QED  BY <1>2, <2>1 DEF OthersStay
<1>5. ASSUME NEW r \in Receipts
      PROVE  Held(kind'[p], row[r], etsy[r], base'[p][r], obj'[p][r], snap'[p][r])
  <2>1. CASE \E orders : Load(p, orders)
    <3>1. PICK orders : Load(p, orders)
      BY <2>1
    <3>2. \A j : Held(j, row[r], etsy[r], base'[p][r], obj'[p][r], snap[p][r])
      BY <3>1, LoadFlow
    <3>. QED  BY <1>2, <3>2
  <2>2. CASE UNCHANGED <<base, obj>>
    <3>1. base'[p][r] = NoOrder /\ obj'[p][r] = NoOrder /\ snap'[p][r] = snap[p][r]
      BY <1>2, <2>2 DEF TypeInv, StagesInv, NoOrders
    <3>2. etsy[r] \in Receipt /\ snap[p][r] \in Receipt /\ Older(snap[p][r], etsy[r])
      BY DEF TypeInv, EtsyTypes, RunTypes, FlowInv, SessionsInv, Held
    <3>3. Held(kind'[p], row[r], etsy[r], NoOrder, NoOrder, snap[p][r])
      BY <3>2, NoneTypes, NoneHeld, OlderIs
    <3>. QED  BY <3>1, <3>3
  <2>. QED  BY <1>3, <2>1, <2>2
<1>6. \A r \in fresh'[p] : HasDelivered(etsy[r])
  BY <1>2 DEF FlowInv, SessionsInv, TypeInv, ObjectTypes
<1>. QED  BY <1>2, <1>4, <1>5, <1>6, LocalFlow

\* Etsy's answer is what Etsy has.
LEMMA FlowCalls ==
  ASSUME TypeInv, TypeInv', FlowInv, NEW p \in Procs, Fetch(p) \/ Get(p) \/ Extract(p)
  PROVE  FlowInv'
<1>1. CallsEtsy(p) /\ UNCHANGED <<etsy, now, kind>>
  BY DEF Fetch, Get, Extract
<1>2. /\ \A q \in Procs \ {p} : snap'[q] = snap[q]
      /\ \A r \in Receipts : snap'[p][r] \in {etsy[r], NoReceipt, snap[p][r]}
  <2>1. snap \in [Procs -> [Receipts -> Receipt]]
    BY DEF TypeInv, RunTypes
  <2>2. CASE Fetch(p)
    BY <2>1, <2>2 DEF Fetch
  <2>3. CASE Get(p)
    <3>1. Current(p) \in Receipts
      BY <2>3, CurrentIn DEF Get, TypeInv, StagesInv, AtOrder
    <3>2. snap' = [snap EXCEPT ![p][Current(p)] = etsy[Current(p)]]
      BY <2>3 DEF Get
    <3>. QED  BY <2>1, <3>1, <3>2
  <2>4. CASE Extract(p)
    BY <2>1, <2>4 DEF Extract
  <2>. QED  BY <2>2, <2>3, <2>4
<1>3. ASSUME NEW r \in Receipts PROVE Older(snap'[p][r], etsy[r])
  <2>1. etsy[r] \in Receipt /\ Older(snap[p][r], etsy[r])
    BY DEF TypeInv, EtsyTypes, FlowInv, SessionsInv, Held
  <2>2. Older(etsy[r], etsy[r]) /\ Older(NoReceipt, etsy[r])
    BY <2>1, OlderIs
  <2>. QED  BY <1>2, <2>1, <2>2
<1>. QED  BY <1>1, <1>2, <1>3, CallsFlow

\* What the loop does to the order it is at.
LEMMA FlowAt ==
  ASSUME TypeInv, TypeInv', FlowInv, NEW p \in Procs, todo[p] # {}, NEW c, c = Current(p),
         NEW b \in Order, NEW o \in Order, NEW d \in Receipt,
         base' = [base EXCEPT ![p][c] = b], obj' = [obj EXCEPT ![p][c] = o],
         snap' = [snap EXCEPT ![p][c] = d],
         UNCHANGED <<etsy, row, delivered, now, kind>>,
         fresh' = fresh \/ (fresh' = [fresh EXCEPT ![p] = @ \cup {c}] /\ HasDelivered(etsy[c])),
         Held(kind[p], row[c], etsy[c], b, o, d)
  PROVE  FlowInv'
<1>1. c \in Receipts
  BY CurrentIn
<1>2. /\ base \in [Procs -> [Receipts -> Order]] /\ obj \in [Procs -> [Receipts -> Order]]
      /\ snap \in [Procs -> [Receipts -> Receipt]] /\ fresh \in [Procs -> SUBSET Receipts]
  BY DEF TypeInv, ObjectTypes, RunTypes
<1>3. OthersStay(p)
  BY <1>1, <1>2 DEF OthersStay
<1>4. ASSUME NEW r \in Receipts
      PROVE  Held(kind'[p], row[r], etsy[r], base'[p][r], obj'[p][r], snap'[p][r])
  <2>1. CASE r = c
    <3>1. base'[p][r] = b /\ obj'[p][r] = o /\ snap'[p][r] = d
      BY <1>1, <1>2, <2>1
    <3>. QED  BY <2>1, <3>1
  <2>2. CASE r # c
    <3>1. base'[p][r] = base[p][r] /\ obj'[p][r] = obj[p][r] /\ snap'[p][r] = snap[p][r]
      BY <1>1, <1>2, <2>2
    <3>2. Held(kind[p], row[r], etsy[r], base[p][r], obj[p][r], snap[p][r])
      BY DEF FlowInv, SessionsInv
    <3>. QED  BY <3>1, <3>2
  <2>. QED  BY <2>1, <2>2
<1>5. \A r \in fresh'[p] : HasDelivered(etsy[r])
  BY <1>2 DEF FlowInv, SessionsInv
<1>. QED  BY <1>3, <1>4, <1>5, LocalFlow

LEMMA FlowLook ==
  ASSUME TypeInv, TypeInv', FlowInv, NEW p \in Procs, Look(p)
  PROVE  FlowInv'
<1>1. PICK c \in Receipts : c = Current(p)
  BY CurrentIn DEF Look
<1>2. todo[p] # {} /\ UNCHANGED <<etsy, row, delivered, now, kind, snap, fresh>>
  BY DEF Look, dbVars
<1>3. CASE UNCHANGED <<base, obj>>
  <2>1. OthersStay(p) /\ kind'[p] = kind[p]
    BY <1>2, <1>3 DEF OthersStay
  <2>2. /\ \A r \in Receipts : Held(kind'[p], row[r], etsy[r], base'[p][r], obj'[p][r], snap'[p][r])
        /\ \A r \in fresh'[p] : HasDelivered(etsy[r])
    BY <1>2, <1>3 DEF FlowInv, SessionsInv, TypeInv, ObjectTypes
  <2>. QED  BY <1>2, <2>1, <2>2, LocalFlow
<1>4. CASE ~UNCHANGED <<base, obj>>
  <2>1. PICK x \in Order : x = row[c]
    BY DEF TypeInv, RowTypes
  <2>2. base' = [base EXCEPT ![p][c] = x] /\ obj' = [obj EXCEPT ![p][c] = x]
    BY <1>1, <1>4, <2>1 DEF Look
  <2>3. PICK d \in Receipt : d = snap[p][c]
    BY DEF TypeInv, RunTypes
  <2>4. snap' = [snap EXCEPT ![p][c] = d]
    BY <1>2, <2>3 DEF TypeInv, RunTypes
  <2>5. etsy[c] \in Receipt /\ Older(d, etsy[c]) /\ FromEtsy(x, etsy[c])
    BY <2>1, <2>3 DEF TypeInv, EtsyTypes, FlowInv, RowsInv, SessionsInv, Held
  <2>6. Held(kind[p], row[c], etsy[c], x, x, d)
    BY <2>1, <2>5, LoadHeld
  <2>7. todo[p] # {} /\ UNCHANGED <<etsy, row, delivered, now, kind>> /\ fresh' = fresh
    BY <1>2
  <2>. QED  BY <1>1, <2>2, <2>4, <2>6, <2>7, FlowAt
<1>. QED  BY <1>3, <1>4

LEMMA FlowSkip ==
  ASSUME TypeInv, TypeInv', FlowInv, NEW p \in Procs, SkipStale(p) \/ SkipFailed(p)
  PROVE  FlowInv'
<1>1. pc[p] = "apply" /\ Forget(p) /\ Done(p)
  BY DEF SkipStale, SkipFailed
<1>2. todo[p] # {}
  BY <1>1 DEF TypeInv, StagesInv, AtOrder
<1>3. PICK c \in Receipts : c = Current(p)
  BY <1>2, CurrentIn
<1>4. /\ base' = [base EXCEPT ![p][c] = NoOrder] /\ obj' = [obj EXCEPT ![p][c] = NoOrder]
      /\ snap' = [snap EXCEPT ![p][c] = NoReceipt] /\ fresh' = fresh
      /\ UNCHANGED <<etsy, row, delivered, now, kind>>
  BY <1>1, <1>3 DEF Forget, Done, dbVars
<1>5. Held(kind[p], row[c], etsy[c], NoOrder, NoOrder, NoReceipt)
  BY NoneTypes, NoneHeld, OlderIs DEF TypeInv, EtsyTypes
<1>6. NoOrder \in Order /\ NoReceipt \in Receipt
  BY NoneTypes
<1>. QED  BY <1>2, <1>3, <1>4, <1>5, <1>6, FlowAt

\* The order that Etsy's answer makes.
LEMMA IncomingFlow ==
  ASSUME TypeInv, FlowInv, NEW p \in Procs, todo[p] # {}
  PROVE  /\ FromEtsy(Incoming(p), etsy[Current(p)])
         /\ Incoming(p).fulfil = "delivered" => HasDelivered(etsy[Current(p)])
         /\ StatusAgrees(Incoming(p))
<1> DEFINE d == snap[p][Current(p)]
           e == etsy[Current(p)]
<1>1. d \in Receipt /\ e \in Receipt /\ now \in Nat /\ Older(d, e)
  BY CurrentIn DEF TypeInv, EtsyTypes, RunTypes, FlowInv, SessionsInv, Held
<1>2. Incoming(p) = OrderData(d)
  BY DEF Incoming
<1>. HIDE DEF d, e
<1>3. /\ OrderData(d).stamp = d.stamp /\ OrderData(d).ships = d.ships
      /\ OrderData(d).fulfil = FulfillmentOf(d)
      /\ OrderData(d).status = Legacy(OrderData(d).life, OrderData(d).fulfil)
  BY <1>1, OrderDataIs
<1>4. FulfillmentOf(d) = "delivered" => HasDelivered(d)
  BY Zenon DEF FulfillmentOf, HasDelivered
<1>5. HasDelivered(d) => HasDelivered(e)
  BY <1>1, OlderIs
<1>6. FromEtsy(OrderData(d), e)
  BY <1>1, <1>3, <1>4, <1>5 DEF FromEtsy, Older
<1>. QED  BY <1>2, <1>3, <1>4, <1>5, <1>6 DEF StatusAgrees, e

\* The guard against stale answers, and the merge of sync_orders.
LEMMA FlowUpdate ==
  ASSUME TypeInv, TypeInv', FlowInv, NEW p \in Procs, Update(p)
  PROVE  FlowInv'
<1>1. pc[p] = "apply" /\ ~Stale(p) /\ Done(p)
  BY DEF Update
<1>2. todo[p] # {}
  BY <1>1 DEF TypeInv, StagesInv, AtOrder
<1>3. PICK c \in Receipts : c = Current(p)
  BY <1>2, CurrentIn
<1>4. PICK b \in Order, d \in Order : b = Existing(p) /\ d = Incoming(p)
  BY <1>2, ApplyTypes
<1>5. PICK o \in Order :
        /\ obj' = [obj EXCEPT ![p][c] = o]
        /\ o = d \/ o = [d EXCEPT !.ships = MergeShipments(b.ships, d.ships)]
        /\ kind[p] = "sync" => o = [d EXCEPT !.ships = MergeShipments(b.ships, d.ships)]
  BY <1>2, <1>3, <1>4, ApplyTypes DEF Update
<1>6. /\ base' = [base EXCEPT ![p][c] = b]
      /\ snap' = [snap EXCEPT ![p][c] = NoReceipt]
      /\ UNCHANGED <<etsy, row, delivered, now, kind>>
      /\ fresh' = fresh \/ (fresh' = [fresh EXCEPT ![p] = @ \cup {c}] /\ d.fulfil = "delivered")
  BY <1>1, <1>3, <1>4 DEF Update, Done, dbVars, TypeInv, ObjectTypes
<1>7. /\ FromEtsy(d, etsy[c]) /\ StatusAgrees(d)
      /\ d.fulfil = "delivered" => HasDelivered(etsy[c])
  BY <1>2, <1>3, <1>4, IncomingFlow
<1>8. FromEtsy(b, etsy[c]) /\ (b.on => row[c].on)
  <2>1. /\ FromEtsy(row[c], etsy[c]) /\ FromEtsy(base[p][c], etsy[c])
        /\ base[p][c].on => row[c].on
    BY DEF FlowInv, RowsInv, SessionsInv, Held
  <2>2. b = IF obj[p][c].on THEN base[p][c] ELSE row[c]
    BY <1>3, <1>4 DEF Existing
  <2>. QED  BY <2>1, <2>2
<1>9. /\ o.stamp = d.stamp /\ o.fulfil = d.fulfil /\ o.life = d.life /\ o.status = d.status
      /\ o.ships = d.ships \/ o.ships = MergeShipments(b.ships, d.ships)
      /\ kind[p] = "sync" => o.ships = MergeShipments(b.ships, d.ships)
  BY <1>5 DEF Order
<1>10. o.stamp >= b.stamp
  <2>1. ~(d.stamp < b.stamp)
    BY <1>1, <1>4 DEF Stale
  <2>2. d.stamp \in Nat /\ b.stamp \in Nat
    BY DEF Order
  <2>. QED  BY <1>9, <2>1, <2>2
<1>11. ASSUME NEW s \in o.ships PROVE s \in d.ships \/ s \in b.ships
  BY <1>9, <1>11 DEF MergeShipments
<1>12. kind[p] = "sync" => \A s \in b.ships : s.etsy \/ s \in o.ships
  BY <1>9 DEF MergeShipments
<1>13. FromEtsy(o, etsy[c])
  <2>1. o.stamp <= etsy[c].stamp /\ (o.fulfil = "delivered" => HasDelivered(etsy[c]))
    BY <1>7, <1>9 DEF FromEtsy
  <2>2. ASSUME NEW s \in o.ships, s.etsy
        PROVE  \E t \in etsy[c].ships : t.code = s.code /\ (s.delivered => t.delivered)
    BY <1>7, <1>8, <1>11, <2>2, Zenon DEF FromEtsy
  <2>. QED  BY <2>1, <2>2, Zenon DEF FromEtsy
<1>14. StatusAgrees(o)
  BY <1>7, <1>9 DEF StatusAgrees
<1>15. Held(kind[p], row[c], etsy[c], b, o, NoReceipt)
  <2>1. Older(NoReceipt, etsy[c])
    BY OlderIs DEF TypeInv, EtsyTypes
  <2>2. Forward(kind[p], b, o)
    BY <1>10, <1>12, <1>14, Zenon DEF Forward
  <2>. QED  BY <1>8, <1>13, <2>1, <2>2, Zenon DEF Held
<1>. QED  BY <1>2, <1>3, <1>5, <1>6, <1>7, <1>15, NoneTypes, FlowAt

LEMMA FlowCreate ==
  ASSUME TypeInv, TypeInv', FlowInv, NEW p \in Procs, Create(p)
  PROVE  FlowInv'
<1>1. pc[p] = "apply" /\ Done(p) /\ UNCHANGED <<base, fresh>>
  BY DEF Create
<1>2. todo[p] # {}
  BY <1>1 DEF TypeInv, StagesInv, AtOrder
<1>3. PICK c \in Receipts : c = Current(p)
  BY <1>2, CurrentIn
<1>4. PICK b \in Order, o \in Order : b = base[p][c] /\ o = Incoming(p)
  <2>1. base[p][c] \in Order
    BY DEF TypeInv, ObjectTypes
  <2>2. Incoming(p) \in Order
    BY <1>2, ApplyTypes
  <2>. QED  BY <2>1, <2>2
<1>5. /\ base' = [base EXCEPT ![p][c] = b] /\ obj' = [obj EXCEPT ![p][c] = o]
      /\ snap' = [snap EXCEPT ![p][c] = NoReceipt] /\ fresh' = fresh
      /\ UNCHANGED <<etsy, row, delivered, now, kind>> /\ ~row[c].on
  <2>1. base' = [base EXCEPT ![p][c] = b]
    BY <1>1, <1>4 DEF TypeInv, ObjectTypes
  <2>2. obj' = [obj EXCEPT ![p][c] = o] /\ ~row[c].on
    BY <1>3, <1>4 DEF Create
  <2>3. snap' = [snap EXCEPT ![p][c] = NoReceipt] /\ UNCHANGED <<etsy, row, delivered, now, kind>>
    BY <1>1, <1>3 DEF Done, dbVars
  <2>. QED  BY <1>1, <2>1, <2>2, <2>3
<1>6. FromEtsy(b, etsy[c]) /\ ~b.on
  BY <1>4, <1>5 DEF FlowInv, SessionsInv, Held
<1>7. FromEtsy(o, etsy[c]) /\ Older(NoReceipt, etsy[c])
  BY <1>2, <1>3, <1>4, IncomingFlow, OlderIs DEF TypeInv, EtsyTypes
<1>8. Held(kind[p], row[c], etsy[c], b, o, NoReceipt)
  BY <1>6, <1>7, Zenon DEF Held, Forward
<1>. QED  BY <1>2, <1>3, <1>5, <1>8, NoneTypes, FlowAt

\* A tracking that is recorded adds a shipment of the platform's own.
LEMMA RecordedFlow ==
  ASSUME TypeInv, FlowInv, NEW p \in Procs, NEW r \in Receipts
  PROVE  FromEtsy(Recorded(p, r), etsy[r]) /\ (row[r].on => Recorded(p, r).on)
<1>1. row[r] \in Order /\ base[p][r] \in Order /\ obj[p][r] \in Order
  BY DEF TypeInv, RowTypes, ObjectTypes
<1>2. FromEtsy(row[r], etsy[r]) /\ FromEtsy(base[p][r], etsy[r]) /\ FromEtsy(obj[p][r], etsy[r])
  BY DEF FlowInv, RowsInv, SessionsInv, Held
<1>3. PICK from, to \in Order :
        /\ from = IF base[p][r].on THEN base[p][r] ELSE row[r]
        /\ to.on = from.on /\ to.stamp = from.stamp /\ to.fulfil = "shipped"
        /\ to.ships = from.ships \/ \E entry : ~entry.etsy /\ to.ships = obj[p][r].ships \cup {entry}
        /\ to.life = IF from.life \in {"completed", "cancelled", "refunded"}
                       THEN from.life ELSE "in_transit"
        /\ to.status = IF from.status \in {"cancelled", "refunded"} THEN from.status ELSE "shipped"
        /\ Recorded(p, r) = Updated(r, from, to)
  BY RecordedIs
<1>4. FromEtsy(from, etsy[r])
  BY <1>2, <1>3
<1>5. FromEtsy(to, etsy[r])
  <2>1. to.stamp <= etsy[r].stamp /\ to.fulfil # "delivered"
    BY <1>3, <1>4 DEF FromEtsy
  <2>2. ASSUME NEW s \in to.ships, s.etsy PROVE s \in from.ships \/ s \in obj[p][r].ships
    BY <1>3, <2>2
  <2>3. ASSUME NEW s \in to.ships, s.etsy
        PROVE  \E t \in etsy[r].ships : t.code = s.code /\ (s.delivered => t.delivered)
    BY <1>2, <1>4, <2>2, <2>3, Zenon DEF FromEtsy
  <2>. QED  BY <2>1, <2>3, Zenon DEF FromEtsy
<1>6. /\ Recorded(p, r).stamp = row[r].stamp \/ Recorded(p, r).stamp = to.stamp
      /\ Recorded(p, r).ships = row[r].ships \/ Recorded(p, r).ships = to.ships
      /\ Recorded(p, r).fulfil = row[r].fulfil \/ Recorded(p, r).fulfil = to.fulfil
      /\ Recorded(p, r).on = row[r].on
  BY <1>1, <1>3, UpdatedIs
<1>. QED  BY <1>2, <1>5, <1>6 DEF FromEtsy

\* The steps that end a session, at the end of its work or before.
LEMMA FlowEnd ==
  ASSUME TypeInv, TypeInv', FlowInv, NEW p \in Procs,
         \/ Conflict(p) \/ Commit(p) \/ Refused(p) \/ Record(p) \/ ReplyLost(p) \/ Crash(p)
  PROVE  FlowInv'
<1>1. End(p)
  BY DEF Conflict, Commit, Refused, Record, ReplyLost, Crash
<1>2. /\ OthersStay(p) /\ fresh'[p] = {}
      /\ \A r \in Receipts : Held(kind'[p], row'[r], etsy[r], base'[p][r], obj'[p][r], snap'[p][r])
  BY <1>1, EndHeld
<1>3. ASSUME Grown, \A r \in Receipts : FromEtsy(row'[r], etsy[r]) /\ (row[r].on => row'[r].on),
             \A r \in delivered' : HasDelivered(etsy[r])
      PROVE  FlowInv'
  BY <1>2, <1>3, RowsBy, SessionsBy DEF FlowInv, RowsStay
<1>4. /\ \A r \in Receipts : FromEtsy(row[r], etsy[r])
      /\ \A r \in delivered : HasDelivered(etsy[r])
  BY DEF FlowInv, RowsInv, TypeInv, RowTypes
<1>5. CASE Conflict(p) \/ Refused(p) \/ Crash(p)
  <2>1. UNCHANGED <<etsy, now, row, delivered>>
    BY <1>5 DEF Conflict, Refused, Crash, dbVars
  <2>. QED  BY <1>3, <1>4, <2>1, StillGrown DEF FlowInv
<1>6. CASE Commit(p)
  <2>1. row' = Saved(p) /\ delivered' = delivered \cup fresh[p] /\ UNCHANGED <<etsy, now>>
    BY <1>6 DEF Commit
  <2>. QED  BY <1>3, <2>1, SavedFlow, StillGrown DEF FlowInv
<1>7. CASE Record(p)
  <2>1. PICK c \in Receipts : c = Current(p)
    BY <1>7, CurrentIn DEF Record, TypeInv, StagesInv, AtOrder
  <2>2. PICK x : x = Recorded(p, c) /\ row' = [row EXCEPT ![c] = x]
    BY <1>7, <2>1 DEF Record
  <2>3. UNCHANGED <<etsy, now, delivered>>
    BY <1>7 DEF Record
  <2>4. FromEtsy(x, etsy[c]) /\ (row[c].on => x.on)
    BY <2>2, RecordedFlow
  <2>5. \A r \in Receipts : FromEtsy(row'[r], etsy[r]) /\ (row[r].on => row'[r].on)
    BY <1>4, <2>2, <2>4 DEF TypeInv, RowTypes
  <2>. QED  BY <1>3, <1>4, <2>3, <2>5, StillGrown DEF FlowInv
<1>8. CASE ReplyLost(p)
  <2>1. PICK c \in Receipts, t \in Codes : EtsyUpdates(c, WithTracking(c, t))
    BY <1>8, CurrentIn DEF ReplyLost, TypeInv, StagesInv, AtOrder, RunTypes
  <2>2. UNCHANGED <<row, delivered>>
    BY <1>8 DEF ReplyLost, dbVars
  <2>. QED  BY <1>3, <1>4, <2>1, <2>2, TrackingGrown DEF FlowInv
<1>. QED  BY <1>5, <1>6, <1>7, <1>8

LEMMA FlowSubmit ==
  ASSUME TypeInv, TypeInv', FlowInv, NEW p \in Procs, Submit(p)
  PROVE  FlowInv'
<1>1. PICK c \in Receipts, t \in Codes : EtsyUpdates(c, WithTracking(c, t))
  BY CurrentIn DEF Submit, TypeInv, StagesInv, AtOrder, RunTypes
<1>2. UNCHANGED <<row, delivered, obj, fresh, kind, snap>> /\ MayExpire(p)
  BY DEF Submit, MayExpire, dbVars
<1>3. Grown /\ RowsStay
  BY <1>1, <1>2, TrackingGrown DEF FlowInv, RowsStay
<1>4. RowsInv'
  BY <1>2, <1>3, RowsBy DEF FlowInv, RowsInv, TypeInv, RowTypes
<1>5. /\ base'[p] = base[p] \/ base'[p] = NoOrders
      /\ \A q \in Procs \ {p} : base'[q] = base[q]
  BY <1>2 DEF MayExpire, TypeInv, ObjectTypes
<1>6. OthersStay(p)
  BY <1>2, <1>5 DEF OthersStay
<1>7. ASSUME NEW r \in Receipts
      PROVE  Held(kind'[p], row'[r], etsy[r], base'[p][r], obj'[p][r], snap'[p][r])
  <2>1. Held(kind[p], row[r], etsy[r], base[p][r], obj[p][r], snap[p][r])
    BY DEF FlowInv, SessionsInv
  <2>2. CASE base'[p] = base[p]
    BY <1>2, <2>1, <2>2
  <2>3. CASE base'[p] = NoOrders
    <3>1. base'[p][r] = NoOrder
      BY <2>3 DEF NoOrders
    <3>2. etsy[r] \in Receipt /\ obj[p][r] \in Order /\ snap[p][r] \in Receipt
      BY DEF TypeInv, EtsyTypes, ObjectTypes, RunTypes
    <3>3. Held(kind[p], row[r], etsy[r], NoOrder, obj[p][r], snap[p][r])
      BY <2>1, <3>2, NoneHeld DEF Held
    <3>. QED  BY <1>2, <3>1, <3>3
  <2>. QED  BY <1>5, <2>2, <2>3
<1>8. \A r \in fresh'[p] : HasDelivered(etsy[r])
  BY <1>2 DEF FlowInv, SessionsInv, TypeInv, ObjectTypes
<1>9. SessionsInv'
  BY <1>3, <1>6, <1>7, <1>8, SessionsBy DEF FlowInv
<1>. QED  BY <1>4, <1>9 DEF FlowInv

\* Receipts only gain: a shipment, a delivery, a newer stamp.
LEMMA EtsyGrown ==
  ASSUME TypeInv, FlowInv, EtsyChanges \/ Tick \/ UNCHANGED vars
  PROVE  Grown
<1>1. CASE Placed
  <2>1. PICK r \in Receipts : EtsyUpdates(r, [etsy[r] EXCEPT !.on = TRUE])
    BY <1>1 DEF Placed
  <2>2. PICK e \in Receipt : e = [etsy[r] EXCEPT !.on = TRUE]
    BY DEF TypeInv, EtsyTypes, Receipt
  <2>3. e.ships = etsy[r].ships
    BY <2>2 DEF TypeInv, EtsyTypes, Receipt
  <2>. QED  BY <2>1, <2>2, <2>3, UpdateGrown DEF FlowInv
<1>2. CASE Moved
  <2>1. PICK r \in Receipts :
          \/ \E s \in EtsyStates \ {etsy[r].state} : EtsyUpdates(r, [etsy[r] EXCEPT !.state = s])
          \/ \E c \in Codes \ CodesOf(etsy[r].ships) : EtsyUpdates(r, WithTracking(r, c))
          \/ \E s \in etsy[r].ships :
               EtsyUpdates(r, [etsy[r] EXCEPT !.ships = (@ \ {s}) \cup {[s EXCEPT !.delivered = TRUE]}])
    BY <1>2 DEF Moved
  <2>2. ASSUME NEW s \in EtsyStates, EtsyUpdates(r, [etsy[r] EXCEPT !.state = s]) PROVE Grown
    <3>1. PICK e \in Receipt : e = [etsy[r] EXCEPT !.state = s]
      BY DEF TypeInv, EtsyTypes, Receipt
    <3>2. e.ships = etsy[r].ships
      BY <3>1 DEF TypeInv, EtsyTypes, Receipt
    <3>. QED  BY <2>2, <3>1, <3>2, UpdateGrown DEF FlowInv
  <2>3. ASSUME NEW s \in etsy[r].ships,
               EtsyUpdates(r, [etsy[r] EXCEPT !.ships = (@ \ {s}) \cup {[s EXCEPT !.delivered = TRUE]}])
        PROVE  Grown
    <3>1. etsy[r] \in Receipt /\ etsy[r].ships \subseteq Shipment
      BY DEF TypeInv, EtsyTypes, Receipt
    <3>2. PICK u : u = [s EXCEPT !.delivered = TRUE]
      OBVIOUS
    <3>a. s \in Shipment
      BY <3>1
    <3>b. u \in Shipment /\ u.code = s.code /\ u.delivered
      BY <3>2, <3>a DEF Shipment
    <3>3. PICK e : e = [etsy[r] EXCEPT !.ships = (@ \ {s}) \cup {u}]
      OBVIOUS
    <3>4. e \in Receipt /\ e.ships = (etsy[r].ships \ {s}) \cup {u}
      BY <3>1, <3>3, <3>b DEF Receipt
    <3>5. \A x \in etsy[r].ships : \E t \in e.ships : t.code = x.code /\ (x.delivered => t.delivered)
      BY <3>b, <3>4, Zenon
    <3>. QED  BY <2>3, <3>2, <3>3, <3>4, <3>5, UpdateGrown DEF FlowInv
  <2>4. ASSUME NEW c \in Codes, EtsyUpdates(r, WithTracking(r, c)) PROVE Grown
    BY <2>4, TrackingGrown DEF FlowInv
  <2>. QED  BY <2>1, <2>2, <2>3, <2>4
<1>3. CASE Tick
  <2>1. UNCHANGED etsy /\ now' = now + 1
    BY <1>3 DEF Tick, ClockRuns
  <2>2. ASSUME NEW r \in Receipts PROVE Older(etsy[r], etsy'[r]) /\ etsy'[r].stamp <= now'
    <3>1. etsy[r] \in Receipt /\ etsy[r].stamp \in Nat /\ etsy[r].stamp <= now /\ now \in Nat
      BY DEF TypeInv, EtsyTypes, Receipt, FlowInv, RowsInv
    <3>. QED  BY <2>1, <3>1, OlderIs
  <2>. QED  BY <2>2 DEF Grown
<1>4. CASE UNCHANGED vars
  BY <1>4, StillGrown DEF vars, FlowInv
<1>. QED  BY <1>1, <1>2, <1>3, <1>4 DEF EtsyChanges

LEMMA FlowEtsy ==
  ASSUME TypeInv, TypeInv', FlowInv, EtsyChanges \/ Tick \/ UNCHANGED vars
  PROVE  FlowInv'
<1>1. UNCHANGED <<row, delivered, kind, base, obj, snap, fresh>>
  BY DEF EtsyChanges, Tick, vars, dbVars, procVars
<1>2. Grown
  BY EtsyGrown
<1>3. RowsInv'
  BY <1>1, <1>2, RowsBy DEF FlowInv, RowsInv, TypeInv, RowTypes
<1>4. SessionsInv'
  <2> SUFFICES ASSUME NEW p \in Procs PROVE SessionsInv'
    BY DEF SessionsInv
  <2>1. RowsStay /\ OthersStay(p)
    BY <1>1 DEF RowsStay, OthersStay
  <2>2. /\ \A r \in Receipts : Held(kind'[p], row'[r], etsy[r], base'[p][r], obj'[p][r], snap'[p][r])
        /\ \A r \in fresh'[p] : HasDelivered(etsy[r])
    BY <1>1 DEF FlowInv, SessionsInv, TypeInv, ObjectTypes
  <2>. QED  BY <1>2, <2>1, <2>2, SessionsBy DEF FlowInv
<1>. QED  BY <1>3, <1>4 DEF FlowInv

LEMMA FlowStep == TypeInv /\ TypeInv' /\ FlowInv /\ [Next]_vars => FlowInv'
BY FlowEtsy, FlowBegin, FlowCalls, FlowLook, FlowSkip, FlowUpdate, FlowCreate, FlowEnd, FlowSubmit
DEF Next, TaskStep, EditStep

LEMMA FlowInit == TypeInv /\ Init => FlowInv
<1> SUFFICES ASSUME TypeInv, Init PROVE FlowInv
  OBVIOUS
<1>1. ASSUME NEW r \in Receipts
      PROVE  etsy[r] \in Receipt /\ etsy[r].stamp <= now /\ row[r] = NoOrder
  <2>1. etsy[r].stamp = IF r = 1 THEN 1 ELSE 0
    BY DEF Init, NoReceipts, NoReceipt, Receipts
  <2>. QED  BY <2>1 DEF Init, NoOrders, TypeInv, EtsyTypes
<1>2. RowsInv
  BY <1>1, OlderIs DEF Init, RowsInv
<1>3. SessionsInv
  <2> SUFFICES ASSUME NEW p \in Procs, NEW r \in Receipts
               PROVE  Held(kind[p], row[r], etsy[r], base[p][r], obj[p][r], snap[p][r])
    BY DEF SessionsInv, Init
  <2>1. base[p][r] = NoOrder /\ obj[p][r] = NoOrder /\ snap[p][r] = NoReceipt
    BY DEF Init, NoOrders, NoReceipts
  <2>2. Held(kind[p], row[r], etsy[r], NoOrder, NoOrder, NoReceipt)
    BY <1>1, NoneTypes, NoneHeld, OlderIs
  <2>. QED  BY <2>1, <2>2
<1>. QED  BY <1>2, <1>3 DEF FlowInv

LEMMA FlowCorrect == Spec => [](TypeInv /\ FlowInv)
<1>1. TypeInv /\ FlowInv /\ [Next]_vars => TypeInv' /\ FlowInv'
  BY TypeStep, FlowStep
<1>2. Init => TypeInv /\ FlowInv
  BY TypeInit, FlowInit
<1>. QED  BY <1>1, <1>2, PTL DEF Spec

\* No order is newer than its receipt, and what it says of Etsy's shipments and of
\* deliveries, as its "delivered" events do, is true of the receipt, for any number of
\* sessions that hold objects of the past, commit or roll back half way through a call
\* to Etsy, or die.
THEOREM RowTheorem == Spec => []RowFromEtsy
<1>1. TypeInv /\ FlowInv => RowFromEtsy
  <2> SUFFICES ASSUME FlowInv, NEW r \in Receipts
               PROVE  /\ row[r].stamp <= etsy[r].stamp
                      /\ \A s \in row[r].ships : s.etsy =>
                           \E t \in etsy[r].ships : t.code = s.code /\ (s.delivered => t.delivered)
                      /\ row[r].fulfil = "delivered" \/ r \in delivered =>
                           \E t \in etsy[r].ships : t.delivered
    BY DEF RowFromEtsy
  <2>1. FromEtsy(row[r], etsy[r]) /\ (r \in delivered => HasDelivered(etsy[r]))
    BY DEF FlowInv, RowsInv
  <2>. QED  BY <2>1, Zenon DEF FromEtsy, HasDelivered
<1>. QED  BY <1>1, FlowCorrect, PTL

-----------------------------------------------------------------------------
(* What a session writes next.                                             *)

\* The order that is to be written: x in the database, b as the session loaded
\* it, o as the session leaves it.
LEMMA UndisturbedIs ==
  ASSUME TypeInv, FlowInv, NEW p \in Procs, NEW r \in Receipts, NEW columns,
         Undisturbed(p, r, columns)
  PROVE  /\ row[r] \in Order /\ base[p][r] \in Order /\ obj[p][r] \in Order
         /\ Saved(p)[r] = Updated(r, base[p][r], obj[p][r])
         /\ obj[p][r].stamp >= base[p][r].stamp
         /\ kind[p] = "sync" => \A s \in base[p][r].ships : s.etsy \/ s \in obj[p][r].ships
         /\ StatusAgrees(obj[p][r]) \/ SameStatus(obj[p][r], base[p][r])
<1>1. row[r] \in Order /\ base[p][r] \in Order /\ obj[p][r] \in Order
  BY DEF TypeInv, RowTypes, ObjectTypes
<1>2. obj[p][r].on /\ base[p][r].on
  BY DEF Undisturbed
<1>3. Saved(p)[r] = Updated(r, base[p][r], obj[p][r])
  BY <1>2, Zenon DEF Saved, Inserts
<1>4. Forward(kind[p], base[p][r], obj[p][r])
  BY DEF FlowInv, SessionsInv, Held
<1>. QED  BY <1>1, <1>2, <1>3, <1>4, Zenon DEF Forward

\* What the stale guard of sync_orders checks when it updates an order still holds when
\* the session commits: no commit sets an order back to an older update of Etsy's,
\* unless another session has moved it meanwhile.
THEOREM BackTheorem == Spec => []NeverBackInTime
<1>1. TypeInv /\ FlowInv => NeverBackInTime
  <2> SUFFICES ASSUME TypeInv, FlowInv, NEW p \in Procs, NEW r \in Receipts,
                      Undisturbed(p, r, {"stamp"})
               PROVE  Saved(p)[r].stamp >= row[r].stamp
    BY DEF NeverBackInTime
  <2>1. base[p][r].stamp = row[r].stamp
    BY DEF Undisturbed
  <2>2. Saved(p)[r].stamp = IF obj[p][r].stamp = base[p][r].stamp
                              THEN row[r].stamp ELSE obj[p][r].stamp
    BY UndisturbedIs, UpdatedIs
  <2>3. obj[p][r].stamp >= base[p][r].stamp
    BY UndisturbedIs
  <2>4. row[r].stamp \in Nat /\ obj[p][r].stamp \in Nat
    BY UndisturbedIs DEF Order
  <2>. QED  BY <2>1, <2>2, <2>3, <2>4
<1>. QED  BY <1>1, FlowCorrect, PTL

\* What sync_orders merges when it updates an order is not lost before it commits:
\* tracking that only the platform has stays, unless another session has written the
\* shipments meanwhile.
THEOREM KeepsTheorem == Spec => []SyncKeepsTracking
<1>1. TypeInv /\ FlowInv => SyncKeepsTracking
  <2> SUFFICES ASSUME TypeInv, FlowInv, NEW p \in Procs, NEW r \in Receipts, kind[p] = "sync",
                      Undisturbed(p, r, {"ships"}), NEW s \in row[r].ships, ~s.etsy
               PROVE  s \in Saved(p)[r].ships
    BY DEF SyncKeepsTracking
  <2>1. base[p][r].ships = row[r].ships
    BY DEF Undisturbed
  <2>2. Saved(p)[r].ships = IF obj[p][r].ships = base[p][r].ships
                              THEN row[r].ships ELSE obj[p][r].ships
    BY UndisturbedIs, UpdatedIs
  <2>3. s \in obj[p][r].ships
    BY <2>1, UndisturbedIs
  <2>. QED  BY <2>2, <2>3
<1>. QED  BY <1>1, FlowCorrect, PTL

\* The legacy status of a lifecycle and fulfilment.
LEMMA LegacyIs ==
  /\ \A f : Legacy("cancelled", f) = "cancelled" /\ Legacy("refunded", f) = "refunded"
  /\ Legacy("completed", "shipped") = "shipped" /\ Legacy("in_transit", "shipped") = "shipped"
  /\ \A f : Legacy("completed", f) \notin {"cancelled", "refunded"}
  /\ \A f : Legacy("in_transit", f) \notin {"cancelled", "refunded"}
  /\ \A f : Legacy("processing", f) \notin {"cancelled", "refunded"}
<1>1. ASSUME NEW f PROVE Legacy("cancelled", f) = "cancelled"
  BY DEF Legacy
<1>2. ASSUME NEW f PROVE Legacy("refunded", f) = "refunded"
  BY DEF Legacy
<1>3. Legacy("completed", "shipped") = "shipped"
  BY DEF Legacy
<1>4. Legacy("in_transit", "shipped") = "shipped"
  BY DEF Legacy
<1>5. ASSUME NEW f PROVE Legacy("completed", f) \notin {"cancelled", "refunded"}
  BY DEF Legacy
<1>6. ASSUME NEW f PROVE Legacy("in_transit", f) \notin {"cancelled", "refunded"}
  BY DEF Legacy
<1>7. ASSUME NEW f PROVE Legacy("processing", f) \notin {"cancelled", "refunded"}
  BY DEF Legacy
<1>. QED  BY <1>1, <1>2, <1>3, <1>4, <1>5, <1>6, <1>7

\* Recording a tracking moves the three status columns together.
LEMMA RecordedAgrees ==
  ASSUME TypeInv, NEW p \in Procs, NEW r \in Receipts,
         Undisturbed(p, r, {"fulfil", "life", "status"}), StatusAgrees(row[r])
  PROVE  StatusAgrees(Recorded(p, r))
<1>1. row[r] \in Order
  BY DEF TypeInv, RowTypes
<1>2. PICK from, to \in Order :
        /\ from = IF base[p][r].on THEN base[p][r] ELSE row[r]
        /\ to.on = from.on /\ to.stamp = from.stamp /\ to.fulfil = "shipped"
        /\ to.ships = from.ships \/ \E entry : ~entry.etsy /\ to.ships = obj[p][r].ships \cup {entry}
        /\ to.life = IF from.life \in {"completed", "cancelled", "refunded"}
                       THEN from.life ELSE "in_transit"
        /\ to.status = IF from.status \in {"cancelled", "refunded"} THEN from.status ELSE "shipped"
        /\ Recorded(p, r) = Updated(r, from, to)
  BY RecordedIs
<1>3. from.fulfil = row[r].fulfil /\ from.life = row[r].life /\ from.status = row[r].status
  <2>1. from = base[p][r]
    BY <1>2 DEF Undisturbed
  <2>. QED  BY <2>1 DEF Undisturbed
<1>4. /\ Recorded(p, r).fulfil = "shipped" /\ Recorded(p, r).life = to.life
      /\ Recorded(p, r).status = to.status
  BY <1>1, <1>2, <1>3, UpdatedIs
<1>5. from.status = Legacy(from.life, from.fulfil)
  BY <1>3 DEF StatusAgrees
<1>6. from.life \in {"processing", "in_transit", "completed", "cancelled", "refunded"}
  BY DEF Order
<1>7. to.status = Legacy(to.life, "shipped")
  BY <1>2, <1>5, <1>6, LegacyIs
<1>. QED  BY <1>4, <1>7 DEF StatusAgrees

\* The three status columns agree after a commit of any sync, fulfilment or manual
\* tracking if they did before, unless another session has written one of them since
\* this one has read them.
THEOREM StatusTheorem == Spec => []StatusKept
<1>1. TypeInv /\ FlowInv => StatusKept
  <2> SUFFICES ASSUME TypeInv, FlowInv, NEW p \in Procs, NEW r \in Receipts,
                      Undisturbed(p, r, {"fulfil", "life", "status"}), StatusAgrees(row[r])
               PROVE  StatusAgrees(Recorded(p, r)) /\ StatusAgrees(Saved(p)[r])
    BY Zenon DEF StatusKept
  <2>1. /\ base[p][r].fulfil = row[r].fulfil /\ base[p][r].life = row[r].life
        /\ base[p][r].status = row[r].status
    BY DEF Undisturbed
  <2>2. /\ Saved(p)[r].fulfil = obj[p][r].fulfil /\ Saved(p)[r].life = obj[p][r].life
        /\ Saved(p)[r].status = obj[p][r].status
    BY <2>1, UndisturbedIs, UpdatedIs
  <2>3. StatusAgrees(obj[p][r])
    <3>1. StatusAgrees(obj[p][r]) \/ SameStatus(obj[p][r], base[p][r])
      BY UndisturbedIs
    <3>. QED  BY <2>1, <3>1 DEF StatusAgrees, SameStatus
  <2>4. StatusAgrees(Saved(p)[r])
    BY <2>2, <2>3 DEF StatusAgrees
  <2>. QED  BY <2>4, RecordedAgrees
<1>. QED  BY <1>1, FlowCorrect, PTL

-----------------------------------------------------------------------------
(* The events of fulfill_order.                                            *)

\* A session that is about to add an event of tracking c to order r.
Sent(p, r, c) == pc[p] = "record" /\ kind[p] = "fulfil" /\ r = Current(p) /\ c = code[p]

\* It is the only one, the event is the first, and Etsy has the tracking.
SentInv ==
  \A p \in Procs, r \in Receipts, c \in Codes :
    Sent(p, r, c) =>
      /\ shipped[r][c] = 0 /\ c \in CodesOf(etsy[r].ships)
      /\ \A q \in Procs \ {p} : ~Sent(q, r, c)

EventsInv == EventsAtEtsy /\ SentInv

LEMMA CodesGrown ==
  ASSUME Grown, NEW r \in Receipts
  PROVE  CodesOf(etsy[r].ships) \subseteq CodesOf(etsy'[r].ships)
<1> SUFFICES ASSUME NEW s \in etsy[r].ships PROVE \E t \in etsy'[r].ships : t.code = s.code
  BY DEF CodesOf
<1>. QED  BY Zenon DEF Grown, Older

\* Receipts only gain, whoever takes the step.
LEMMA GrownStep == TypeInv /\ FlowInv /\ [Next]_vars => Grown
<1> SUFFICES ASSUME TypeInv, FlowInv, [Next]_vars PROVE Grown
  OBVIOUS
<1>1. CASE EtsyChanges \/ Tick \/ UNCHANGED vars
  BY <1>1, EtsyGrown
<1>2. ASSUME NEW p \in Procs, Submit(p) \/ ReplyLost(p) PROVE Grown
  <2>1. PICK c \in Receipts, t \in Codes : EtsyUpdates(c, WithTracking(c, t))
    BY <1>2, CurrentIn DEF Submit, ReplyLost, TypeInv, StagesInv, AtOrder, RunTypes
  <2>. QED  BY <2>1, TrackingGrown DEF FlowInv
<1>3. ASSUME NEW p \in Procs,
             \/ BeginSync(p) \/ BeginById(p) \/ BeginReconcile(p) \/ BeginFulfil(p) \/ BeginManual(p)
      PROVE  Grown
  <2>1. \E k, stage, work : Begin(p, k, stage, work)
    BY <1>3 DEF BeginSync, BeginById, BeginReconcile, BeginFulfil, BeginManual, BeginEdit
  <2>2. UNCHANGED <<etsy, now>>
    BY <2>1 DEF Begin
  <2>. QED  BY <2>2, StillGrown DEF FlowInv
<1>4. ASSUME NEW p \in Procs, TaskStep(p) \/ SkipFailed(p) \/ Refused(p) \/ Record(p) \/ Crash(p)
      PROVE  Grown
  <2>1. CASE Fetch(p) \/ Get(p) \/ Look(p) \/ Extract(p)
    BY <2>1, StillGrown DEF Fetch, Get, Look, Extract, FlowInv
  <2>2. CASE SkipStale(p) \/ SkipFailed(p) \/ Update(p) \/ Create(p)
    BY <2>2, StillGrown DEF SkipStale, SkipFailed, Update, Create, Done, FlowInv
  <2>3. CASE Conflict(p) \/ Commit(p) \/ Refused(p) \/ Record(p) \/ Crash(p)
    BY <2>3, StillGrown DEF Conflict, Commit, Refused, Record, Crash, FlowInv
  <2>. QED  BY <1>4, <2>1, <2>2, <2>3 DEF TaskStep
<1>. QED  BY <1>1, <1>2, <1>3, <1>4 DEF Next, EditStep

\* The other sessions stay where they are.
OthersWait(p) ==
  \A q \in Procs \ {p} : /\ pc'[q] = pc[q] /\ kind'[q] = kind[q]
                         /\ todo'[q] = todo[q] /\ code'[q] = code[q]

LEMMA OthersSent ==
  ASSUME NEW p \in Procs, OthersWait(p)
  PROVE  \A q \in Procs \ {p} : \A r, c : Sent(q, r, c)' = Sent(q, r, c)
BY DEF OthersWait, Sent, Current

\* Steps after which no session is about to add an event that was not before.
LEMMA EventsBy ==
  ASSUME TypeInv, Grown, EventsInv, UNCHANGED shipped,
         \A p \in Procs, r \in Receipts, c \in Codes : Sent(p, r, c)' => Sent(p, r, c)
  PROVE  EventsInv'
<1>1. \A r \in Receipts : CodesOf(etsy[r].ships) \subseteq CodesOf(etsy'[r].ships)
  BY CodesGrown
<1>2. EventsAtEtsy'
  BY <1>1 DEF EventsInv, EventsAtEtsy
<1>3. SentInv'
  BY <1>1 DEF EventsInv, SentInv
<1>. QED  BY <1>2, <1>3 DEF EventsInv

LEMMA EventsElse ==
  ASSUME TypeInv, Grown, EventsInv, UNCHANGED shipped, NEW p \in Procs, OthersWait(p),
         pc'[p] # "record" \/ kind'[p] # "fulfil"
  PROVE  EventsInv'
<1>1. ASSUME NEW q \in Procs, NEW r, NEW c, Sent(q, r, c)' PROVE Sent(q, r, c)
  <2>1. q # p
    BY <1>1 DEF Sent
  <2>. QED  BY <1>1, <2>1, OthersSent
<1>. QED  BY <1>1, EventsBy

LEMMA EndWaits ==
  ASSUME TypeInv, NEW p \in Procs, End(p)
  PROVE  OthersWait(p) /\ pc'[p] = "idle"
BY DEF End, Goto, OthersWait, TypeInv, RunTypes

LEMMA EventsBegin ==
  ASSUME TypeInv, Grown, EventsInv, NEW p \in Procs,
         \/ BeginSync(p) \/ BeginById(p) \/ BeginReconcile(p) \/ BeginFulfil(p) \/ BeginManual(p)
  PROVE  EventsInv'
<1>1. PICK k, stage, work : /\ Begin(p, k, stage, work)
                            /\ stage # "record" \/ k # "fulfil"
  <2>1. CASE BeginSync(p) \/ BeginById(p) \/ BeginReconcile(p)
    <3>1. \/ Begin(p, "sync", "fetch", {})
          \/ \E r : Begin(p, "byid", "get", {r})
          \/ Begin(p, "reconcile", "look", Orders)
      BY <2>1, Zenon DEF BeginSync, BeginById, BeginReconcile
    <3>2. "sync" # "fulfil" /\ "byid" # "fulfil" /\ "reconcile" # "fulfil"
      OBVIOUS
    <3>. QED  BY <3>1, <3>2, Zenon
  <2>2. CASE BeginFulfil(p)
    <3>1. \E work : Begin(p, "fulfil", "submit", work)
      BY <2>2 DEF BeginFulfil, BeginEdit
    <3>. QED  BY <3>1
  <2>3. CASE BeginManual(p)
    <3>1. \E work : Begin(p, "manual", "record", work)
      BY <2>3 DEF BeginManual, BeginEdit
    <3>. QED  BY <3>1
  <2>. QED  BY <2>1, <2>2, <2>3
<1>2. \A q \in Procs \ {p} : code'[q] = code[q]
  BY DEF BeginSync, BeginById, BeginReconcile, BeginFulfil, BeginManual, BeginEdit, TypeInv, RunTypes
<1>3. OthersWait(p) /\ pc'[p] = stage /\ kind'[p] = k /\ UNCHANGED shipped
  BY <1>1, <1>2 DEF Begin, Goto, OthersWait, TypeInv, RunTypes, dbVars
<1>. QED  BY <1>1, <1>3, EventsElse

LEMMA EventsTask ==
  ASSUME TypeInv, Grown, EventsInv, NEW p \in Procs, TaskStep(p) \/ SkipFailed(p)
  PROVE  EventsInv'
<1>1. \A stage : Goto(p, stage) => pc'[p] = stage /\ \A q \in Procs \ {p} : pc'[q] = pc[q]
  BY DEF Goto, TypeInv, RunTypes
<1>2. CASE Fetch(p) \/ Get(p) \/ Extract(p)
  <2>1. PICK stage : Goto(p, stage) /\ stage # "record"
    BY <1>2 DEF Fetch, Get, Extract
  <2>2. UNCHANGED <<shipped, kind, code>> /\ \A q \in Procs \ {p} : todo'[q] = todo[q]
    BY <1>2 DEF Fetch, Get, Extract, CallsEtsy, Quiet, CommitsEarly, RollsBack, dbVars, TypeInv, RunTypes
  <2>3. OthersWait(p)
    BY <1>1, <2>1, <2>2 DEF OthersWait
  <2>. QED  BY <1>1, <2>1, <2>2, <2>3, EventsElse
<1>3. CASE Look(p)
  <2>1. PICK stage : Goto(p, stage) /\ stage # "record"
    BY <1>3 DEF Look
  <2>2. UNCHANGED <<shipped, kind, code, todo>>
    BY <1>3 DEF Look, dbVars
  <2>3. OthersWait(p)
    BY <1>1, <2>1, <2>2 DEF OthersWait
  <2>. QED  BY <1>1, <2>1, <2>2, <2>3, EventsElse
<1>4. CASE SkipStale(p) \/ SkipFailed(p) \/ Update(p) \/ Create(p)
  <2>1. Done(p)
    BY <1>4 DEF SkipStale, SkipFailed, Update, Create
  <2>2. /\ Goto(p, "look") /\ UNCHANGED <<shipped, kind, code>>
        /\ \A q \in Procs \ {p} : todo'[q] = todo[q]
    BY <2>1 DEF Done, dbVars, TypeInv, RunTypes
  <2>3. OthersWait(p)
    BY <1>1, <2>2 DEF OthersWait
  <2>. QED  BY <1>1, <2>2, <2>3, EventsElse
<1>5. CASE Conflict(p) \/ Commit(p)
  <2>1. End(p) /\ UNCHANGED shipped
    BY <1>5 DEF Conflict, Commit, dbVars
  <2>. QED  BY <2>1, EndWaits, EventsElse
<1>. QED  BY <1>2, <1>3, <1>4, <1>5 DEF TaskStep

\* Etsy takes a tracking once.
LEMMA EventsSubmit ==
  ASSUME TypeInv, Grown, EventsInv, NEW p \in Procs, Submit(p)
  PROVE  EventsInv'
<1>1. PICK n \in Receipts, d \in Codes : n = Current(p) /\ d = code[p]
  BY CurrentIn DEF Submit, TypeInv, StagesInv, AtOrder, RunTypes
<1>2. d \notin CodesOf(etsy[n].ships)
  BY <1>1 DEF Submit, KnownAtEtsy
<1>3. shipped[n][d] = 0
  <2>1. shipped[n][d] \in Nat
    BY DEF TypeInv, RowTypes
  <2>2. shipped[n][d] <= 1 /\ shipped[n][d] # 1
    BY <1>2 DEF EventsInv, EventsAtEtsy
  <2>. QED  BY <2>1, <2>2
<1>4. \A q \in Procs : ~Sent(q, n, d)
  BY <1>2 DEF EventsInv, SentInv
<1>5. UNCHANGED <<shipped, kind, todo, code>> /\ OthersWait(p)
  BY DEF Submit, MayExpire, dbVars, Goto, OthersWait, TypeInv, RunTypes
<1>6. d \in CodesOf(etsy'[n].ships)
  <2>1. PICK e : e = WithTracking(n, d)
    OBVIOUS
  <2>2. etsy' = [etsy EXCEPT ![n] = [e EXCEPT !.stamp = now + 1]]
    BY <1>1, <2>1 DEF Submit, EtsyUpdates
  <2>3. e \in Receipt /\ e.ships = etsy[n].ships \cup {[code |-> d, etsy |-> TRUE, delivered |-> FALSE]}
    <3>1. e \in Receipt
      BY <2>1, TrackingTypes
    <3>. QED  BY <2>1, <3>1 DEF WithTracking, TypeInv, EtsyTypes, Receipt
  <2>4. etsy'[n].ships = e.ships
    BY <2>2, <2>3 DEF TypeInv, EtsyTypes, Receipt
  <2>5. [code |-> d, etsy |-> TRUE, delivered |-> FALSE] \in etsy'[n].ships
    BY <2>3, <2>4
  <2>. QED  BY <2>5 DEF CodesOf
<1>7. \A r, c : Sent(p, r, c)' => r = n /\ c = d
  BY <1>1, <1>5 DEF Sent, Current
<1>8. \A q \in Procs \ {p} : \A r, c : Sent(q, r, c)' = Sent(q, r, c)
  BY <1>5, OthersSent
<1>9. \A r \in Receipts : CodesOf(etsy[r].ships) \subseteq CodesOf(etsy'[r].ships)
  BY CodesGrown
<1>10. EventsAtEtsy'
  BY <1>5, <1>9 DEF EventsInv, EventsAtEtsy
<1>11. SentInv'
  <2> SUFFICES ASSUME NEW q \in Procs, NEW r \in Receipts, NEW c \in Codes, Sent(q, r, c)'
               PROVE  /\ shipped'[r][c] = 0 /\ c \in CodesOf(etsy'[r].ships)
                      /\ \A o \in Procs \ {q} : ~Sent(o, r, c)'
    BY DEF SentInv
  <2>1. CASE q = p
    <3>1. r = n /\ c = d
      BY <1>7, <2>1
    <3>. QED  BY <1>3, <1>4, <1>5, <1>6, <1>8, <2>1, <3>1
  <2>2. CASE q # p
    <3>1. Sent(q, r, c)
      BY <1>8, <2>2
    <3>2. /\ shipped[r][c] = 0 /\ c \in CodesOf(etsy[r].ships)
          /\ \A o \in Procs \ {q} : ~Sent(o, r, c)
      BY <3>1 DEF EventsInv, SentInv
    <3>3. ~Sent(p, r, c)'
      BY <1>4, <1>7, <3>1
    <3>4. ASSUME NEW o \in Procs \ {q} PROVE ~Sent(o, r, c)'
      BY <1>8, <3>2, <3>3
    <3>. QED  BY <1>5, <1>9, <3>2, <3>4
  <2>. QED  BY <2>1, <2>2
<1>. QED  BY <1>10, <1>11 DEF EventsInv

\* The one session that is about to add the event adds it, and ends.
LEMMA EventsRecord ==
  ASSUME TypeInv, Grown, EventsInv, NEW p \in Procs, Record(p), kind[p] = "fulfil"
  PROVE  EventsInv'
<1>1. PICK n \in Receipts, d \in Codes : n = Current(p) /\ d = code[p]
  BY CurrentIn DEF Record, TypeInv, StagesInv, AtOrder, RunTypes
<1>2. Sent(p, n, d)
  BY <1>1 DEF Sent, Record
<1>3. /\ shipped[n][d] = 0 /\ d \in CodesOf(etsy[n].ships)
      /\ \A q \in Procs \ {p} : ~Sent(q, n, d)
  BY <1>2 DEF EventsInv, SentInv
<1>4. End(p) /\ shipped' = [shipped EXCEPT ![n][d] = @ + 1]
  BY <1>1 DEF Record
<1>5. /\ shipped'[n][d] = 1
      /\ \A r \in Receipts, c \in Codes : r # n \/ c # d => shipped'[r][c] = shipped[r][c]
  BY <1>3, <1>4 DEF TypeInv, RowTypes
<1>6. \A q \in Procs : \A r, c : Sent(q, r, c)' => q # p /\ Sent(q, r, c)
  <2>1. \A r, c : ~Sent(p, r, c)'
    BY <1>4, EndWaits DEF Sent
  <2>. QED  BY <1>4, <2>1, EndWaits, OthersSent
<1>7. \A r \in Receipts : CodesOf(etsy[r].ships) \subseteq CodesOf(etsy'[r].ships)
  BY CodesGrown
<1>8. EventsAtEtsy'
  <2> SUFFICES ASSUME NEW r \in Receipts, NEW c \in Codes
               PROVE  /\ shipped'[r][c] <= 1
                      /\ shipped'[r][c] = 1 => c \in CodesOf(etsy'[r].ships)
    BY DEF EventsAtEtsy
  <2>1. CASE r = n /\ c = d
    BY <1>3, <1>5, <1>7, <2>1
  <2>2. CASE r # n \/ c # d
    BY <1>5, <1>7, <2>2 DEF EventsInv, EventsAtEtsy
  <2>. QED  BY <2>1, <2>2
<1>9. SentInv'
  <2> SUFFICES ASSUME NEW q \in Procs, NEW r \in Receipts, NEW c \in Codes, Sent(q, r, c)'
               PROVE  /\ shipped'[r][c] = 0 /\ c \in CodesOf(etsy'[r].ships)
                      /\ \A o \in Procs \ {q} : ~Sent(o, r, c)'
    BY DEF SentInv
  <2>1. q # p /\ Sent(q, r, c)
    BY <1>6
  <2>2. r # n \/ c # d
    BY <1>3, <2>1
  <2>3. /\ shipped[r][c] = 0 /\ c \in CodesOf(etsy[r].ships)
        /\ \A o \in Procs \ {q} : ~Sent(o, r, c)
    BY <2>1 DEF EventsInv, SentInv
  <2>. QED  BY <1>5, <1>6, <1>7, <2>2, <2>3
<1>. QED  BY <1>8, <1>9 DEF EventsInv

LEMMA EventsEdit ==
  ASSUME TypeInv, Grown, EventsInv, NEW p \in Procs, EditStep(p) \/ ReplyLost(p) \/ Crash(p)
  PROVE  EventsInv'
<1>1. CASE Refused(p) \/ ReplyLost(p) \/ Crash(p)
  <2>1. End(p) /\ UNCHANGED shipped
    BY <1>1 DEF Refused, ReplyLost, Crash, dbVars
  <2>. QED  BY <2>1, EndWaits, EventsElse
<1>2. CASE Record(p) /\ kind[p] # "fulfil"
  <2>1. End(p) /\ UNCHANGED shipped
    BY <1>2 DEF Record
  <2>. QED  BY <2>1, EndWaits, EventsElse
<1>. QED  BY <1>1, <1>2, EventsSubmit, EventsRecord DEF EditStep

LEMMA EventsStep == TypeInv /\ FlowInv /\ EventsInv /\ [Next]_vars => EventsInv'
<1> SUFFICES ASSUME TypeInv, FlowInv, EventsInv, [Next]_vars PROVE EventsInv'
  OBVIOUS
<1>1. Grown
  BY GrownStep
<1>2. CASE EtsyChanges \/ Tick \/ UNCHANGED vars
  <2>1. UNCHANGED <<shipped, pc, kind, todo, code>>
    BY <1>2 DEF EtsyChanges, Tick, vars, dbVars, procVars
  <2>2. \A p \in Procs, r \in Receipts, c \in Codes : Sent(p, r, c)' => Sent(p, r, c)
    BY <2>1 DEF Sent, Current
  <2>. QED  BY <1>1, <2>1, <2>2, EventsBy
<1>. QED  BY <1>1, <1>2, EventsBegin, EventsTask, EventsEdit DEF Next

\* fulfill_order records an event of a tracking once, and after Etsy took the
\* tracking, however many users submit it at once, whichever answers are lost and
\* sessions die.
THEOREM EventsTheorem == Spec => []EventsAtEtsy
<1>1. Init => EventsInv
  BY DEF Init, EventsInv, EventsAtEtsy, SentInv, Sent
<1>2. EventsInv => EventsAtEtsy
  BY DEF EventsInv
<1>. QED  BY <1>1, <1>2, EventsStep, FlowCorrect, PTL DEF Spec

=============================================================================
