------------------------------ MODULE TeamProofs ------------------------------
(***************************************************************************)
(* Proofs about Team, for any users, shops, workers and requests.          *)
(***************************************************************************)
EXTENDS Team, TLAPS

USE TeamAssumption

-----------------------------------------------------------------------------
(* The inductive invariants.                                               *)

\* What a loaded request was admitted on, in terms of what it keeps: the claim of
\* its token and the membership it read.
Decided(p) ==
  LET q == req[p]
  IN pc[p] = "loaded" =>
       /\ q.kind \in {"role", "remove"} =>
            q.by # q.to /\ (snap[p][q.to].role = "owner" => q.claim = "owner")
       /\ q.kind = "list" => Manages(q.claim)

\* A request on the link, before its flow has started.
Starting(p) == pc[p] = "marked" \/ (pc[p] = "loaded" /\ req[p].kind = "start")

\* A link in use is marked; and as long as no two starts overlapped, one request
\* at most is on the link, and none once its flow has started.
LinkFit ==
  /\ link.flows > 0 \/ (\E p \in Workers : pc[p] = "marked") => link.used
  /\ ~overlap =>
       /\ \A p, w \in Workers : Starting(p) /\ Starting(w) => p = w
       /\ (\E p \in Workers : Starting(p)) => link.flows = 0
       /\ link.flows <= 1

IInv == TypeOK /\ \A p \in Workers : Decided(p)

-----------------------------------------------------------------------------
(* What steps do to rows and workers.                                      *)

\* A commit writes a column of one membership where the request changed it.
LEMMA WriteTypes ==
  ASSUME TypeOK, NEW p \in Workers, NEW u \in Users, NEW new \in Membership, Write(p, u, new)
  PROVE  /\ memb' \in [Users -> Membership]
         /\ \A v \in Users \ {u} : memb'[v] = memb[v]
         /\ memb'[u].status = IF new.status # snap[p][u].status THEN new.status ELSE memb[u].status
         /\ memb'[u].role = IF new.role # snap[p][u].role THEN new.role ELSE memb[u].role
         /\ memb'[u].shops = IF new.shops # snap[p][u].shops THEN new.shops ELSE memb[u].shops
<1> DEFINE row == [c \in {"status", "role", "shops"} |->
                     IF new[c] # snap[p][u][c] THEN new[c] ELSE memb[u][c]]
<1>1. memb \in [Users -> Membership] /\ memb[u] \in Membership
  BY DEF TypeOK
<1>2. DOMAIN memb[u] = {"status", "role", "shops"}
  BY <1>1 DEF Membership
<1>3. memb' = [memb EXCEPT ![u] = row]
  BY <1>1, <1>2 DEF Write
<1>4. row \in Membership
  BY <1>1 DEF Membership
<1>5. /\ row.status = IF new.status # snap[p][u].status THEN new.status ELSE memb[u].status
      /\ row.role = IF new.role # snap[p][u].role THEN new.role ELSE memb[u].role
      /\ row.shops = IF new.shops # snap[p][u].shops THEN new.shops ELSE memb[u].shops
  OBVIOUS
<1>. HIDE DEF row
<1>. QED  BY <1>1, <1>3, <1>4, <1>5

\* A worker that has answered forgets its request; the others go on.
LEMMA DoneTypes ==
  ASSUME TypeOK, NEW p \in Workers, Done(p)
  PROVE  /\ pc' \in [Workers -> {"idle", "loaded", "marked"}] /\ req' \in [Workers -> Request]
         /\ snap' \in [Workers -> [Users -> Membership]] /\ shops' \in [Workers -> SUBSET Shops]
         /\ pc'[p] = "idle"
         /\ \A w \in Workers \ {p} :
              pc'[w] = pc[w] /\ req'[w] = req[w] /\ snap'[w] = snap[w]
         /\ UNCHANGED <<token, served, overlap>>
<1>1. NoRequest \in Request
  BY DEF NoRequest, Request, AllKinds, Roles
<1>2. [u \in Users |-> Absent] \in [Users -> Membership]
  BY DEF Absent, Membership, Roles
<1>. QED  BY <1>1, <1>2 DEF Done, TypeOK

LEMMA LoadTypes ==
  ASSUME TypeOK, NEW p \in Workers, Load(p)
  PROVE  \E q \in [kind : Kinds, by : Users, to : Users, role : Roles, shops : SUBSET Shops] :
           LET claim == IF q.kind \in Roleless THEN "none" ELSE token[q.by]
           IN /\ Said(q) /\ Admitted(q)
              /\ Claiming(q, claim) \in Request
              /\ req' = [req EXCEPT ![p] = Claiming(q, claim)]
              /\ overlap' = (overlap \/ (q.kind = "start" /\ \E w \in Workers :
                                            pc[w] = "loaded" /\ req[w].kind = "start"))
              /\ link' = [link EXCEPT !.back = IF q.kind = "return" THEN @ + 1 ELSE @]
<1>1. PICK q \in [kind : Kinds, by : Users, to : Users, role : Roles, shops : SUBSET Shops] :
        LET claim == IF q.kind \in Roleless THEN "none" ELSE token[q.by]
        IN /\ Said(q) /\ Admitted(q)
           /\ req' = [req EXCEPT ![p] = Claiming(q, claim)]
           /\ overlap' = (overlap \/ (q.kind = "start" /\ \E w \in Workers :
                                         pc[w] = "loaded" /\ req[w].kind = "start"))
           /\ link' = [link EXCEPT !.back = IF q.kind = "return" THEN @ + 1 ELSE @]
  BY Zenon DEF Load
<1>2. \A claim \in Roles \cup {"none"} : Claiming(q, claim) \in Request
  BY DEF Claiming, Request
<1>3. token[q.by] \in Roles \cup {"none"}
  BY DEF TypeOK
<1>. QED  BY <1>1, <1>2, <1>3

\* The steps that commit something, and what they write.
Commit(p) ==
  \/ Invite(p) \/ Accept(p) \/ UpdateRole(p) \/ UpdateAccess(p) \/ Remove(p)
  \/ ListShops(p) \/ Connect(p) \/ Disconnect(p) \/ Delete(p)

LEMMA CommitIs ==
  ASSUME NEW p \in Workers, Commit(p)
  PROVE  /\ Done(p) /\ pc[p] = "loaded" /\ ~Fails(p) /\ UNCHANGED link
         /\ outdated' = (outdated \/ ~Grounds(p))
BY DEF Commit, Invite, Accept, UpdateRole, UpdateAccess, Remove, ListShops, Connect,
       Disconnect, Delete, Commits, Serving

\* The request of a commit, and the row it loaded.
LEMMA LoadedTypes ==
  ASSUME TypeOK, NEW p \in Workers
  PROVE  /\ req[p] \in Request /\ req[p].by \in Users /\ req[p].to \in Users
         /\ req[p].role \in Roles /\ req[p].shops \subseteq Shops
         /\ snap[p] \in [Users -> Membership] /\ shops[p] \subseteq Shops
BY DEF TypeOK, Request

LEMMA MembTypes ==
  ASSUME TypeOK, NEW p \in Workers, Commit(p)
  PROVE  memb' \in [Users -> Membership]
<1>0. /\ req[p].by \in Users /\ req[p].to \in Users /\ req[p].role \in Roles
      /\ req[p].shops \subseteq Shops /\ shops[p] \subseteq Shops
      /\ snap[p][req[p].to] \in Membership /\ snap[p][req[p].by] \in Membership
      /\ memb \in [Users -> Membership]
  BY LoadedTypes DEF TypeOK
<1>1. CASE Invite(p)
  BY <1>0, <1>1 DEF Invite, Membership
<1>2. CASE Accept(p)
  <2>1. Joined(snap[p][req[p].to], shops[p]) \in Membership
    BY <1>0 DEF Joined, Membership
  <2>. QED  BY <1>0, <1>2, <2>1, WriteTypes DEF Accept
<1>3. CASE UpdateRole(p)
  <2>1. [snap[p][req[p].to] EXCEPT !.role = req[p].role] \in Membership
    BY <1>0 DEF Membership
  <2>. QED  BY <1>0, <1>3, <2>1, WriteTypes DEF UpdateRole
<1>4. CASE UpdateAccess(p)
  <2>1. [snap[p][req[p].to] EXCEPT !.shops = req[p].shops] \in Membership
    BY <1>0 DEF Membership
  <2>. QED  BY <1>0, <1>4, <2>1, WriteTypes DEF UpdateAccess
<1>5. CASE Remove(p)
  BY <1>0, <1>5 DEF Remove, Absent, Membership, Roles
<1>6. CASE ListShops(p)
  <2>1. [snap[p][req[p].by] EXCEPT !.shops = shops[p]] \in Membership
    BY <1>0 DEF Membership
  <2>. QED  BY <1>0, <1>6, <2>1, WriteTypes DEF ListShops
<1>7. CASE Connect(p)
  <2>1. [snap[p][req[p].by] EXCEPT !.shops = req[p].shops] \in Membership
    BY <1>0 DEF Membership
  <2>. QED  BY <1>0, <1>7, <2>1, WriteTypes DEF Connect
<1>8. CASE Disconnect(p) \/ Delete(p)
  BY <1>0, <1>8 DEF Disconnect, Delete
<1>. QED  BY <1>1, <1>2, <1>3, <1>4, <1>5, <1>6, <1>7, <1>8 DEF Commit

-----------------------------------------------------------------------------
(* Types.                                                                  *)

Link(l) == l \in [used : BOOLEAN, flows : Nat, back : Nat]

\* A flow that comes back counts, and changes nothing else of the link.
LEMMA LinkBack ==
  ASSUME NEW l, Link(l), NEW yes \in BOOLEAN
  PROVE  LET new == [l EXCEPT !.back = IF yes THEN @ + 1 ELSE @]
         IN Link(new) /\ new.used = l.used /\ new.flows = l.flows
BY DEF Link

LEMMA TypeInit == Init => TypeOK
<1> SUFFICES ASSUME Init PROVE TypeOK
  OBVIOUS
<1>1. memb \in [Users -> Membership]
  BY DEF Init, Membership
<1>2. NoRequest \in Request
  BY DEF NoRequest, Request, AllKinds, Roles
<1>. QED  BY <1>1, <1>2 DEF Init, TypeOK

LEMMA TypeStep == TypeOK /\ [Next]_vars => TypeOK'
<1> SUFFICES ASSUME TypeOK, [Next]_vars PROVE TypeOK'
  OBVIOUS
<1> USE DEF conn, procs, ghost
<1>1. ASSUME NEW u \in Users, SignIn(u) \/ SignOut(u) PROVE TypeOK'
  <2>1. memb[u].role \in Roles
    BY DEF TypeOK, Membership
  <2>. QED  BY <1>1, <2>1 DEF SignIn, SignOut, TypeOK
<1>2. ASSUME NEW p \in Workers, Load(p) PROVE TypeOK'
  <2>1. req' \in [Workers -> Request] /\ overlap' \in BOOLEAN /\ Link(link')
    <3>1. PICK q \in [kind : Kinds, by : Users, to : Users, role : Roles, shops : SUBSET Shops] :
            LET claim == IF q.kind \in Roleless THEN "none" ELSE token[q.by]
            IN /\ Claiming(q, claim) \in Request
               /\ req' = [req EXCEPT ![p] = Claiming(q, claim)]
               /\ overlap' = (overlap \/ (q.kind = "start" /\ \E w \in Workers :
                                            pc[w] = "loaded" /\ req[w].kind = "start"))
               /\ link' = [link EXCEPT !.back = IF q.kind = "return" THEN @ + 1 ELSE @]
      BY <1>2, LoadTypes
    <3>2. req' \in [Workers -> Request]
      BY <3>1 DEF TypeOK
    <3>3. overlap' \in BOOLEAN
      BY <3>1, Zenon DEF TypeOK
    <3>4. Link(link')
      BY <3>1, LinkBack DEF TypeOK, Link
    <3>. QED  BY <3>2, <3>3, <3>4
  <2>2. /\ pc' \in [Workers -> {"idle", "loaded", "marked"}]
        /\ snap' \in [Workers -> [Users -> Membership]] /\ shops' \in [Workers -> SUBSET Shops]
        /\ served' \in Nat
    BY <1>2 DEF Load, TypeOK, Connected, Known
  <2>. QED  BY <1>2, <2>1, <2>2 DEF Load, TypeOK, Link
<1>3. ASSUME NEW p \in Workers, Commit(p) PROVE TypeOK'
  <2>1. Done(p) /\ UNCHANGED link /\ outdated' \in BOOLEAN
    BY <1>3, CommitIs
  <2>2. memb' \in [Users -> Membership]
    BY <1>3, MembTypes
  <2>3. /\ req[p].to \in Users /\ req[p].shops \subseteq Shops
    BY LoadedTypes
  <2>4. granted' \in [Users -> SUBSET Shops] /\ carried' \subseteq Users
    <3>1. /\ Joined(snap[p][req[p].to], shops[p]).shops \subseteq Shops
          /\ req[p].by \in Users
      BY <2>3, LoadedTypes DEF Joined, Membership
    <3>. QED
      BY <1>3, <2>3, <3>1 DEF Commit, Invite, Accept, UpdateRole, UpdateAccess, Remove, ListShops,
         Connect, Disconnect, Delete, Given, TypeOK
  <2>5. shop' \in [Shops -> {"absent", "connected", "revoked", "deleted"}]
    BY <1>3, <2>3 DEF Commit, Invite, Accept, UpdateRole, UpdateAccess, Remove, ListShops,
       Connect, Disconnect, Delete, TypeOK
  <2>. QED  BY <2>1, <2>2, <2>4, <2>5, DoneTypes DEF TypeOK
<1>4. ASSUME NEW p \in Workers, Failed(p) \/ Crash(p) PROVE TypeOK'
  <2>1. Done(p) /\ UNCHANGED <<memb, shop, link, ghost>>
    BY <1>4 DEF Failed, Crash
  <2>. QED  BY <2>1, DoneTypes DEF TypeOK
<1>5. ASSUME NEW p \in Workers, Start(p) PROVE TypeOK'
  BY <1>5 DEF Start, Marked, TypeOK
<1>6. ASSUME NEW p \in Workers, Flow(p) PROVE TypeOK'
  <2>1. link' \in [used : BOOLEAN, flows : Nat, back : Nat]
    BY <1>6 DEF Flow, TypeOK
  <2>2. Done(p) /\ UNCHANGED <<memb, shop, ghost>>
    BY <1>6 DEF Flow
  <2>. QED  BY <2>1, <2>2, DoneTypes DEF TypeOK
<1>7. ASSUME UNCHANGED vars PROVE TypeOK'
  BY <1>7 DEF vars, TypeOK
<1>. QED  BY <1>1, <1>2, <1>3, <1>4, <1>5, <1>6, <1>7 DEF Next, Step, Commit

-----------------------------------------------------------------------------
(* Requests are admitted on the claim of a token.                          *)

\* What a request is when it has been loaded.
LEMMA LoadedIs ==
  ASSUME TypeOK, NEW p \in Workers, Load(p)
  PROVE  /\ Decided(p)'
         /\ \A w \in Workers \ {p} : pc'[w] = pc[w] /\ req'[w] = req[w] /\ snap'[w] = snap[w]
<1>1. PICK q \in [kind : Kinds, by : Users, to : Users, role : Roles, shops : SUBSET Shops] :
        /\ Admitted(q)
        /\ req' = [req EXCEPT ![p] = Claiming(q, IF q.kind \in Roleless
                                                   THEN "none" ELSE token[q.by])]
  BY LoadTypes
<1>2. /\ snap' = [snap EXCEPT ![p] = memb] /\ pc' = [pc EXCEPT ![p] = "loaded"]
  BY DEF Load
<1>3. /\ req'[p].kind = q.kind /\ req'[p].by = q.by /\ req'[p].to = q.to
      /\ q.kind \notin Roleless => req'[p].claim = token[q.by]
      /\ snap'[p] = memb
  BY <1>1, <1>2 DEF Claiming, TypeOK
<1>4. q.kind \in {"role", "remove"} =>
        q.by # q.to /\ (memb[q.to].role = "owner" => token[q.by] = "owner")
  BY <1>1 DEF Admitted, OwnersOnlyForOwners, Removable, Calls
<1>5. q.kind = "list" => Manages(token[q.by])
  BY <1>1 DEF Admitted, Backfills, Calls
<1>6. Decided(p)'
  BY <1>3, <1>4, <1>5 DEF Decided, Manages, Roleless
<1>. QED  BY <1>1, <1>2, <1>6 DEF TypeOK

LEMMA DecidedStep ==
  TypeOK /\ (\A p \in Workers : Decided(p)) /\ [Next]_vars => (\A p \in Workers : Decided(p))'
<1> SUFFICES ASSUME TypeOK, \A p \in Workers : Decided(p), [Next]_vars,
                    NEW w \in Workers
             PROVE  Decided(w)'
  OBVIOUS
<1> USE DEF conn, procs, ghost
<1>1. CASE pc'[w] = pc[w] /\ req'[w] = req[w] /\ snap'[w] = snap[w]
  BY <1>1 DEF Decided
<1>2. ASSUME NEW p \in Workers, Done(p) PROVE Decided(w)'
  <2>1. CASE w = p
    BY <1>2, <2>1, DoneTypes DEF Decided
  <2>2. CASE w # p
    BY <1>1, <1>2, <2>2, DoneTypes
  <2>. QED  BY <2>1, <2>2
<1>3. ASSUME NEW p \in Workers, Load(p) PROVE Decided(w)'
  BY <1>1, <1>3, LoadedIs
<1>4. ASSUME NEW p \in Workers, Start(p) PROVE Decided(w)'
  <2>1. CASE w = p
    BY <1>4, <2>1 DEF Start, Decided, TypeOK
  <2>2. CASE w # p
    BY <1>1, <1>4, <2>2 DEF Start, TypeOK
  <2>. QED  BY <2>1, <2>2
<1>5. ASSUME NEW p \in Workers, Commit(p) PROVE Decided(w)'
  BY <1>2, <1>5, CommitIs
<1>6. ASSUME NEW p \in Workers, Failed(p) \/ Crash(p) \/ Flow(p) PROVE Decided(w)'
  BY <1>2, <1>6 DEF Failed, Crash, Flow
<1>7. ASSUME NEW u \in Users, SignIn(u) \/ SignOut(u) PROVE Decided(w)'
  BY <1>1, <1>7 DEF SignIn, SignOut
<1>8. CASE UNCHANGED vars
  BY <1>1, <1>8 DEF vars
<1>. QED  BY <1>3, <1>4, <1>5, <1>6, <1>7, <1>8 DEF Next, Step, Commit

LEMMA InvInit == Init => IInv
BY TypeInit DEF Init, Decided, IInv

LEMMA InvStep == IInv /\ [Next]_vars => IInv'
BY TypeStep, DecidedStep DEF IInv

LEMMA InvTheorem == Spec => []IInv
<1>. QED  BY InvInit, InvStep, PTL DEF Spec

\* Every variable has its type, whatever requests interleave.
THEOREM TypeCorrect == Spec => []TypeOK
<1>1. IInv => TypeOK
  BY DEF IInv
<1>. QED  BY InvTheorem, <1>1, PTL

-----------------------------------------------------------------------------
(* An owner remains.                                                       *)

AnOwner == \E u \in Users : Member(u) /\ memb[u].role = "owner"

\* A commit on valid grounds takes the place of an owner from somebody else than
\* the one owner the tenant may have: the caller is an owner, too.
LEMMA OwnerCommit ==
  ASSUME TypeOK, NEW p \in Workers, Commit(p), Decided(p), Grounds(p), AnOwner
  PROVE  AnOwner'
<1>0. /\ pc[p] = "loaded" /\ ~Fails(p)
  BY CommitIs
<1>1. /\ req[p].by \in Users /\ req[p].to \in Users
      /\ snap[p][req[p].to] \in Membership /\ snap[p][req[p].by] \in Membership
      /\ memb[req[p].to] = snap[p][req[p].to]
      /\ shops[p] \subseteq Shops /\ req[p].shops \subseteq Shops /\ req[p].role \in Roles
  BY LoadedTypes DEF Grounds
<1>2. PICK o \in Users : Member(o) /\ memb[o].role = "owner"
  BY DEF AnOwner
<1>3. ASSUME NEW u \in Users, UNCHANGED memb[u], u = o PROVE AnOwner'
  BY <1>2, <1>3 DEF AnOwner, Member
<1>4. ASSUME req[p].kind \in {"role", "remove"},
             \A v \in Users \ {req[p].to} : memb'[v] = memb[v]
      PROVE  AnOwner'
  <2>1. CASE o # req[p].to
    BY <1>2, <1>3, <1>4, <2>1
  <2>2. CASE o = req[p].to
    <3>1. req[p].claim = "owner" /\ req[p].by # req[p].to
      BY <1>0, <1>1, <1>2, <1>4, <2>2 DEF Decided
    <3>2. Member(req[p].by) /\ memb[req[p].by].role = "owner"
      BY <3>1 DEF Grounds
    <3>. QED  BY <1>1, <1>4, <3>1, <3>2 DEF AnOwner, Member
  <2>. QED  BY <2>1, <2>2
<1>5. ASSUME NEW u \in Users, NEW new \in Membership, Write(p, u, new),
             new.role = snap[p][u].role, new.status \in {"accepted", snap[p][u].status}
      PROVE  AnOwner'
  <2>1. memb'[o].role = "owner" /\ memb'[o].status = "accepted"
    BY <1>2, <1>5, WriteTypes DEF Member
  <2>. QED  BY <1>2, <2>1 DEF AnOwner, Member
<1>6. CASE Invite(p)
  <2>1. memb[req[p].to].status = "none"
    BY <1>0, <1>6 DEF Invite, Commits, Serving, Fails
  <2>2. o # req[p].to
    BY <1>2, <2>1 DEF Member
  <2>. QED  BY <1>2, <1>3, <1>6, <2>2 DEF Invite, TypeOK
<1>7. CASE Accept(p)
  <2>1. LET new == Joined(snap[p][req[p].to], shops[p])
        IN new \in Membership /\ new.role = snap[p][req[p].to].role /\ new.status = "accepted"
    BY <1>1 DEF Joined, Membership
  <2>. QED  BY <1>1, <1>5, <1>7, <2>1 DEF Accept
<1>8. CASE UpdateRole(p)
  <2>1. [snap[p][req[p].to] EXCEPT !.role = req[p].role] \in Membership
    BY <1>1 DEF Membership
  <2>. QED  BY <1>1, <1>4, <1>8, <2>1, WriteTypes DEF UpdateRole, Commits, Serving
<1>9. CASE UpdateAccess(p)
  <2>1. LET new == [snap[p][req[p].to] EXCEPT !.shops = req[p].shops]
        IN new \in Membership /\ new.role = snap[p][req[p].to].role
           /\ new.status = snap[p][req[p].to].status
    BY <1>1 DEF Membership
  <2>. QED  BY <1>1, <1>5, <1>9, <2>1 DEF UpdateAccess
<1>10. CASE Remove(p)
  BY <1>4, <1>10 DEF Remove, Commits, Serving, TypeOK
<1>11. CASE ListShops(p)
  <2>1. LET new == [snap[p][req[p].by] EXCEPT !.shops = shops[p]]
        IN new \in Membership /\ new.role = snap[p][req[p].by].role
           /\ new.status = snap[p][req[p].by].status
    BY <1>1 DEF Membership
  <2>. QED  BY <1>1, <1>5, <1>11, <2>1 DEF ListShops
<1>12. CASE Connect(p)
  <2>1. LET new == [snap[p][req[p].by] EXCEPT !.shops = req[p].shops]
        IN new \in Membership /\ new.role = snap[p][req[p].by].role
           /\ new.status = snap[p][req[p].by].status
    BY <1>1 DEF Membership
  <2>2. CASE UNCHANGED memb
    BY <1>2, <1>3, <2>2
  <2>. QED  BY <1>1, <1>5, <1>12, <2>1, <2>2 DEF Connect
<1>13. CASE Disconnect(p) \/ Delete(p)
  BY <1>2, <1>3, <1>13 DEF Disconnect, Delete
<1>. QED  BY <1>6, <1>7, <1>8, <1>9, <1>10, <1>11, <1>12, <1>13 DEF Commit

\* Steps that commit nothing leave memberships, grants and grounds alone.
LEMMA QuietStep ==
  ASSUME [Next]_vars, \A p \in Workers : ~Commit(p)
  PROVE  UNCHANGED <<memb, granted, carried, outdated>>
BY DEF Next, Step, Commit, Load, Failed, Crash, Start, Flow, SignIn, SignOut, vars, ghost, conn,
       procs

LEMMA OwnerStep == IInv /\ OwnerRemains /\ [Next]_vars => OwnerRemains'
<1> SUFFICES ASSUME IInv, OwnerRemains, [Next]_vars PROVE OwnerRemains'
  OBVIOUS
<1>1. ASSUME NEW p \in Workers, Commit(p) PROVE OwnerRemains'
  <2>1. outdated' = (outdated \/ ~Grounds(p))
    BY <1>1, CommitIs
  <2>2. CASE outdated \/ ~Grounds(p)
    BY <2>1, <2>2, Zenon DEF OwnerRemains
  <2>3. CASE ~outdated /\ Grounds(p)
    BY <1>1, <2>3, OwnerCommit DEF OwnerRemains, AnOwner, IInv
  <2>. QED  BY <2>2, <2>3, Zenon
<1>2. CASE \A p \in Workers : ~Commit(p)
  BY <1>2, QuietStep DEF OwnerRemains, Member
<1>. QED  BY <1>1, <1>2

\* As long as requests commit on what they were decided on, the tenant has an
\* owner who has joined, for any number of members and workers.
THEOREM OwnerTheorem == Spec => []OwnerRemains
<1>1. Init => OwnerRemains
  BY DEF Init, OwnerRemains, Member
<1>. QED  BY <1>1, InvTheorem, OwnerStep, PTL DEF Spec

-----------------------------------------------------------------------------
(* The shops of a viewer or supplier are those that were given.            *)

Given1(u) == u \in carried \/ Manages(memb[u].role) \/ memb[u].shops = granted[u]

\* A commit on valid grounds either gives the shops it writes, or writes them
\* into the list of a member whose role, still valid, reaches every shop anyway,
\* or leaves a mark.
LEMMA AccessCommit ==
  ASSUME TypeOK, NEW p \in Workers, Commit(p), Decided(p), Grounds(p),
         \A u \in Users : Given1(u), NEW u \in Users
  PROVE  Given1(u)'
<1>0. pc[p] = "loaded"
  BY CommitIs
<1>1. /\ req[p].by \in Users /\ req[p].to \in Users
      /\ snap[p][req[p].to] \in Membership /\ snap[p][req[p].by] \in Membership
      /\ memb[req[p].to] = snap[p][req[p].to]
      /\ shops[p] \subseteq Shops /\ req[p].shops \subseteq Shops /\ req[p].role \in Roles
      /\ memb \in [Users -> Membership] /\ granted \in [Users -> SUBSET Shops]
  BY LoadedTypes DEF Grounds, TypeOK
<1>2. CASE /\ memb'[u] = memb[u] /\ granted'[u] = granted[u]
           /\ u \in carried => u \in carried'
  BY <1>2 DEF Given1
<1>3. ASSUME NEW list, Given(req[p].to, list), memb'[req[p].to].shops = list,
             \A v \in Users \ {req[p].to} : memb'[v] = memb[v]
      PROVE  Given1(u)'
  <2>1. CASE u = req[p].to
    BY <1>1, <1>3, <2>1 DEF Given, Given1
  <2>2. CASE u # req[p].to
    BY <1>1, <1>2, <1>3, <2>2 DEF Given
  <2>. QED  BY <2>1, <2>2
<1>4. ASSUME NEW v \in Users, NEW new \in Membership, Write(p, v, new),
             u # v, UNCHANGED <<granted, carried>> \/ (UNCHANGED granted /\ carried' = carried \cup {v})
      PROVE  Given1(u)'
  BY <1>1, <1>2, <1>4, WriteTypes
<1>6. CASE Invite(p)
  BY <1>1, <1>3, <1>6 DEF Invite
<1>7. CASE Accept(p)
  <2> DEFINE new == Joined(snap[p][req[p].to], shops[p])
  <2>1. /\ new \in Membership /\ new.role = snap[p][req[p].to].role
        /\ Write(p, req[p].to, new)
        /\ IF new.shops = snap[p][req[p].to].shops THEN UNCHANGED <<granted, carried>>
                                                     ELSE Given(req[p].to, new.shops)
    BY <1>1, <1>7 DEF Joined, Membership, Accept
  <2> HIDE DEF new
  <2>2. /\ \A v \in Users \ {req[p].to} : memb'[v] = memb[v]
        /\ memb'[req[p].to].shops = new.shops
        /\ memb'[req[p].to].role = memb[req[p].to].role
    BY <1>1, <2>1, WriteTypes
  <2>3. CASE new.shops = snap[p][req[p].to].shops
    BY <1>1, <2>1, <2>2, <2>3 DEF Given1
  <2>4. CASE new.shops # snap[p][req[p].to].shops
    BY <1>3, <2>1, <2>2, <2>4
  <2>. QED  BY <2>3, <2>4
<1>8. CASE UpdateRole(p)
  <2> DEFINE new == [snap[p][req[p].to] EXCEPT !.role = req[p].role]
  <2>1. /\ new \in Membership /\ new.shops = snap[p][req[p].to].shops
        /\ Write(p, req[p].to, new) /\ UNCHANGED granted
        /\ carried' = IF Manages(memb[req[p].to].role) THEN carried \cup {req[p].to} ELSE carried
    BY <1>1, <1>8 DEF Membership, UpdateRole
  <2> HIDE DEF new
  <2>2. /\ \A v \in Users \ {req[p].to} : memb'[v] = memb[v]
        /\ memb'[req[p].to].shops = memb[req[p].to].shops
    BY <1>1, <2>1, WriteTypes
  <2>. QED  BY <1>1, <2>1, <2>2 DEF Given1
<1>9. CASE UpdateAccess(p)
  <2> DEFINE new == [snap[p][req[p].to] EXCEPT !.shops = req[p].shops]
  <2>1. /\ new \in Membership /\ new.shops = req[p].shops /\ Write(p, req[p].to, new)
        /\ Given(req[p].to, req[p].shops)
    BY <1>1, <1>9 DEF UpdateAccess, Membership
  <2> HIDE DEF new
  <2>2. /\ \A v \in Users \ {req[p].to} : memb'[v] = memb[v]
        /\ memb'[req[p].to].shops = req[p].shops
    BY <1>1, <2>1, WriteTypes
  <2>. QED  BY <1>3, <2>1, <2>2
<1>10. CASE Remove(p)
  <2>1. memb'[req[p].to].shops = {} /\ \A v \in Users \ {req[p].to} : memb'[v] = memb[v]
    BY <1>1, <1>10 DEF Remove, Absent
  <2>. QED  BY <1>3, <1>10, <2>1 DEF Remove
<1>11. CASE ListShops(p)
  <2> DEFINE new == [snap[p][req[p].by] EXCEPT !.shops = shops[p]]
  <2>1. /\ new \in Membership /\ new.role = snap[p][req[p].by].role
        /\ Write(p, req[p].by, new) /\ UNCHANGED <<granted, carried>>
        /\ req[p].kind = "list"
    BY <1>1, <1>11 DEF ListShops, Membership, Commits, Serving
  <2> HIDE DEF new
  <2>2. CASE u = req[p].by
    <3>1. Manages(memb[u].role)
      BY <1>0, <2>1, <2>2 DEF Decided, Grounds, Manages
    <3>2. memb'[u].role = memb[u].role
      BY <1>1, <2>1, <2>2, WriteTypes
    <3>. QED  BY <3>1, <3>2 DEF Given1
  <2>. QED  BY <1>1, <1>4, <2>1, <2>2
<1>12. CASE Connect(p)
  <2> DEFINE new == [snap[p][req[p].by] EXCEPT !.shops = req[p].shops]
  <2>1. new \in Membership
    BY <1>1 DEF Membership
  <2>2. CASE UNCHANGED <<memb, carried, granted>>
    BY <1>2, <2>2
  <2>3. CASE Write(p, req[p].by, new) /\ carried' = carried \cup {req[p].by} /\ UNCHANGED granted
    <3> HIDE DEF new
    <3>. QED  BY <1>1, <1>4, <2>1, <2>3 DEF Given1
  <2>. QED  BY <1>12, <2>2, <2>3 DEF Connect
<1>13. CASE Disconnect(p) \/ Delete(p)
  BY <1>2, <1>13 DEF Disconnect, Delete
<1>. QED  BY <1>6, <1>7, <1>8, <1>9, <1>10, <1>11, <1>12, <1>13 DEF Commit

LEMMA AccessStep == IInv /\ AccessAsGiven /\ [Next]_vars => AccessAsGiven'
<1> SUFFICES ASSUME IInv, AccessAsGiven, [Next]_vars PROVE AccessAsGiven'
  OBVIOUS
<1>1. ASSUME NEW p \in Workers, Commit(p) PROVE AccessAsGiven'
  <2>1. outdated' = (outdated \/ ~Grounds(p))
    BY <1>1, CommitIs
  <2>2. CASE outdated \/ ~Grounds(p)
    BY <2>1, <2>2, Zenon DEF AccessAsGiven
  <2>3. CASE ~outdated /\ Grounds(p)
    BY <1>1, <2>3, AccessCommit DEF AccessAsGiven, Given1, IInv
  <2>. QED  BY <2>2, <2>3, Zenon
<1>2. CASE \A p \in Workers : ~Commit(p)
  BY <1>2, QuietStep DEF AccessAsGiven, Member
<1>. QED  BY <1>1, <1>2

\* The list of a viewer or supplier who never was an owner or admin, and connected
\* no shop, is the one given to him last, unless a request committed on grounds
\* that had changed: no filling in and no late commit reaches it.
THEOREM AccessTheorem == Spec => []AccessAsGiven
<1>1. Init => AccessAsGiven
  BY DEF Init, AccessAsGiven
<1>. QED  BY <1>1, InvTheorem, AccessStep, PTL DEF Spec

-----------------------------------------------------------------------------
(* A connect link starts one flow.                                         *)

\* Which workers are on the link after a step that ends p's request.
LEMMA LinkDone ==
  ASSUME TypeOK, NEW p \in Workers, Done(p)
  PROVE  /\ ~Starting(p)' /\ pc'[p] # "marked"
         /\ \A w \in Workers \ {p} : (Starting(w)' <=> Starting(w)) /\ pc'[w] = pc[w]
BY DoneTypes DEF Starting

LEMMA LinkLoad ==
  ASSUME TypeOK, LinkFit, NEW p \in Workers, Load(p)
  PROVE  LinkFit'
<1>1. PICK q \in [kind : Kinds, by : Users, to : Users, role : Roles, shops : SUBSET Shops] :
        /\ Admitted(q)
        /\ req' = [req EXCEPT ![p] = Claiming(q, IF q.kind \in Roleless
                                                   THEN "none" ELSE token[q.by])]
        /\ overlap' = (overlap \/ (q.kind = "start" /\ \E w \in Workers :
                                      pc[w] = "loaded" /\ req[w].kind = "start"))
        /\ link' = [link EXCEPT !.back = IF q.kind = "return" THEN @ + 1 ELSE @]
  BY LoadTypes
<1>2. /\ pc[p] = "idle" /\ pc' = [pc EXCEPT ![p] = "loaded"]
      /\ link'.used = link.used /\ link'.flows = link.flows
  BY <1>1, LinkBack DEF Load, Link, TypeOK
<1>3. /\ req'[p].kind = q.kind
      /\ \A w \in Workers \ {p} : (Starting(w)' <=> Starting(w)) /\ pc'[w] = pc[w]
      /\ ~Starting(p) /\ pc'[p] = "loaded" /\ pc[p] = "idle"
      /\ Starting(p)' => q.kind = "start"
  BY <1>1, <1>2 DEF Starting, Claiming, TypeOK
<1>4. q.kind = "start" => ~link.used
  BY <1>1 DEF Admitted, Calls
<1>5. link'.flows > 0 \/ (\E w \in Workers : pc'[w] = "marked") => link'.used
  BY <1>2, <1>3 DEF LinkFit
<1>6. CASE overlap'
  BY <1>5, <1>6 DEF LinkFit
<1>7. CASE ~overlap'
  <2>1. ~overlap /\ (q.kind = "start" => \A w \in Workers : ~(pc[w] = "loaded" /\ req[w].kind = "start"))
    BY <1>1, <1>7, Zenon
  <2>2. q.kind = "start" => (\A w \in Workers : ~Starting(w)) /\ ~(link.flows > 0)
    BY <1>4, <2>1 DEF LinkFit, Starting
  <2>3. link.flows \in Nat
    BY DEF TypeOK
  <2>. QED  BY <1>2, <1>3, <1>5, <2>1, <2>2, <2>3 DEF LinkFit
<1>. QED  BY <1>6, <1>7

LEMMA LinkStep == TypeOK /\ LinkFit /\ [Next]_vars => LinkFit'
<1> SUFFICES ASSUME TypeOK, LinkFit, [Next]_vars PROVE LinkFit'
  OBVIOUS
<1> USE DEF conn, procs, ghost
<1>0. link \in [used : BOOLEAN, flows : Nat, back : Nat]
  BY DEF TypeOK
<1>1. ASSUME UNCHANGED <<link, overlap, pc, req>> PROVE LinkFit'
  BY <1>1 DEF LinkFit, Starting
<1>2. ASSUME NEW p \in Workers, Done(p), UNCHANGED link PROVE LinkFit'
  BY <1>2, LinkDone, DoneTypes DEF LinkFit
<1>3. ASSUME NEW p \in Workers, Start(p) PROVE LinkFit'
  <2>1. link' = [used |-> TRUE, flows |-> link.flows, back |-> link.back] /\ UNCHANGED <<overlap, req>>
    BY <1>0, <1>3 DEF Start, Marked
  <2>2. /\ Starting(p) /\ Starting(p)'
        /\ \A w \in Workers \ {p} : Starting(w)' <=> Starting(w)
    BY <1>3 DEF Start, Serving, Starting, TypeOK
  <2>. QED  BY <2>1, <2>2 DEF LinkFit
<1>4. ASSUME NEW p \in Workers, Flow(p) PROVE LinkFit'
  <2>1. Done(p) /\ pc[p] = "marked" /\ Starting(p)
    BY <1>4 DEF Flow, Starting
  <2>2. link' = [used |-> link.used, flows |-> link.flows + 1, back |-> link.back]
    BY <1>0, <1>4, Zenon DEF Flow
  <2>3. link.used /\ UNCHANGED overlap
    BY <2>1, DoneTypes DEF LinkFit
  <2>4. \A w \in Workers : Starting(w)' => Starting(w) /\ w # p
    BY <2>1, LinkDone
  <2>5. ~overlap => link.flows = 0 /\ \A w \in Workers : Starting(w) => w = p
    BY <2>1 DEF LinkFit
  <2>. QED  BY <2>2, <2>3, <2>4, <2>5 DEF LinkFit
<1>5. ASSUME NEW p \in Workers, Commit(p) \/ Failed(p) \/ Crash(p) PROVE LinkFit'
  BY <1>2, <1>5, CommitIs DEF Failed, Crash
<1>6. ASSUME NEW u \in Users, SignIn(u) \/ SignOut(u) PROVE LinkFit'
  BY <1>1, <1>6 DEF SignIn, SignOut
<1>7. CASE UNCHANGED vars
  BY <1>1, <1>7 DEF vars
<1>. QED  BY <1>3, <1>4, <1>5, <1>6, <1>7, LinkLoad DEF Next, Step, Commit

\* Of any number of visitors of a connect link, one at most gets a flow, as long
\* as no two of them started it at once.
THEOREM LinkOnceTheorem == Spec => []LinkOnce
<1>1. Init => LinkFit
  BY DEF Init, LinkFit, Starting
<1>2. TypeOK /\ LinkFit => LinkOnce
  BY DEF TypeOK, LinkFit, LinkOnce
<1>. QED  BY <1>1, <1>2, TypeCorrect, LinkStep, PTL DEF Spec
=============================================================================
