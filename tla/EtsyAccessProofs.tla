-------------------------- MODULE EtsyAccessProofs --------------------------
(***************************************************************************)
(* What TLAPS proves of the way to Etsy, for every value of the constants: *)
(* first of TokenRefresh, whose access tokens the requests carry (types,   *)
(* single-flight refresh, the grant that no interleaving loses), then of   *)
(* EtsyGateway, which lets the requests through (the wait, the breaker,    *)
(* the rate).                                                              *)
(***************************************************************************)
EXTENDS TokenRefresh, EtsyGateway, TLAPS

-----------------------------------------------------------------------------
(* Type correctness.                                                       *)

\* The object a query returns is a row or the row the session had loaded.
LEMMA SeenType ==
  ASSUME TypeOK, NEW p \in Procs
  PROVE  Seen(p) \in Row /\ Seen(p).acc \in Nat
<1>1. Seen(p) \in Row
  BY DEF TypeOK, Seen
<1>2. QED BY <1>1 DEF Row

\* Every step keeps every variable within its type.
LEMMA TypeStep == TypeOK /\ [Next]_vars => TypeOK'
<1> SUFFICES ASSUME TypeOK, [Next]_vars PROVE TypeOK'
  OBVIOUS
<1> USE TokenAssumption DEF TypeOK, Goto, Return, Leave, Expire, etsyVars, procVars, ghostVars
<1> DEFINE Literals ==
      {"idle", "cache", "db", "fill", "lock", "wait", "read", "call", "commit",
       "setcache", "release", "return", "exchange", "load", "save", "savecache",
       "find", "delete", "uncache", "close"}
<1>a. Stages = Literals
  BY DEF Stages, Refreshing
<1>b. /\ NoRow \in Row /\ NoPair \in Pair
      /\ \A m, n \in Nat : [acc |-> m, ref |-> n] \in Pair
      /\ \A q \in Procs : reply[q].acc \in Nat /\ reply[q].ref \in Nat
      /\ row.id \in Nat
      /\ \A q \in Procs : snap[q].acc \in Nat /\ snap[q].ref \in Nat
  BY DEF Row, Pair, NoRow, NoPair
<1>c. ASSUME NEW p \in Procs, Discard(p) PROVE lost' \subseteq Nat
  BY <1>c, <1>b DEF Discard
<1>d. \A q \in Procs : /\ StatusAfter(q, "connected") \in ShopStatus
                       /\ StatusAfter(q, "revoked") \in ShopStatus
  BY DEF StatusAfter, ShopStatus
<1> USE <1>a, <1>d
<1>1. ASSUME NEW p \in Procs, BeginCall(p) PROVE TypeOK'
  <2>1. ASSUME NEW k \in CallKinds, NEW s \in Stages, NEW r \in Row, Begin(p, k, s, r)
        PROVE  TypeOK'
    BY <2>1 DEF Begin, CallKinds
  <2>2. NoRow \in Row /\ row \in Row
    BY <1>b
  <2>3. CASE BeginClient(p)
    BY <2>3, <2>2, <2>1 DEF BeginClient, CallKinds
  <2>4. CASE BeginForced(p)
    BY <2>4, <2>2, <2>1 DEF BeginForced, CallKinds
  <2>5. CASE BeginHourly(p)
    BY <2>5, <2>2, <2>1 DEF BeginHourly, CallKinds
  <2>6. CASE BeginCallback(p)
    BY <2>6, <2>2, <2>1 DEF BeginCallback, CallKinds
  <2>7. CASE BeginDisconnect(p)
    BY <2>7, <2>2, <2>1 DEF BeginDisconnect, CallKinds
  <2>8. QED BY <1>1, <2>3, <2>4, <2>5, <2>6, <2>7 DEF BeginCall
<1>2. ASSUME NEW p \in Procs, GetTokenStep(p) PROVE TypeOK'
  <2>1. CASE ReadCache(p)
    BY <2>1 DEF ReadCache
  <2>2. CASE ReadRow(p)
    BY <2>2, SeenType DEF ReadRow
  <2>3. CASE FillCache(p)
    BY <2>3, <1>b DEF FillCache
  <2>4. QED BY <1>2, <2>1, <2>2, <2>3 DEF GetTokenStep
<1>3. ASSUME NEW p \in Procs, RefreshStep(p) PROVE TypeOK'
  <2>1. CASE TryLock(p)
    BY <2>1 DEF TryLock
  <2>2. CASE Wait(p)
    <3>1. pc' \in [Procs -> Stages] /\ out' \in [Procs -> Nat]
      BY <2>2 DEF Wait
    <3>2. auto' \in [Procs -> BOOLEAN]
      BY <2>2 DEF Wait
    <3>3. QED BY <2>2, <3>1, <3>2 DEF Wait
  <2>3. CASE ReadRefreshToken(p)
    <3>1. pc' \in [Procs -> Stages] /\ out' \in [Procs -> Nat]
      BY <2>3 DEF ReadRefreshToken
    <3>2. snap' \in [Procs -> Row]
      BY <2>3, SeenType DEF ReadRefreshToken
    <3>3. QED BY <2>3, <3>1, <3>2 DEF ReadRefreshToken
  <2>4. CASE EtsyGrants(p)
    <3>1. next' \in Nat /\ pc' \in [Procs -> Stages]
      BY <2>4 DEF EtsyGrants
    <3>4. valid' = valid \/ valid' = (valid \ {snap[p].ref}) \cup {next}
      BY <2>4 DEF EtsyGrants
    <3>5. valid' \subseteq Nat
      BY <3>4
    <3>2. PICK r \in Nat : reply' = [reply EXCEPT ![p] = [acc |-> next, ref |-> r]]
      BY <2>4, <1>b DEF EtsyGrants
    <3>6. reply' \in [Procs -> Pair]
      BY <3>2, <1>b
    <3>3. QED BY <2>4, <3>1, <3>6, <3>5 DEF EtsyGrants
  <2>5. CASE EtsyReplyLost(p)
    <3>1. next' \in Nat /\ snap[p].ref \in Nat
      BY <2>5, <1>b DEF EtsyReplyLost
    <3>4. /\ valid' = (valid \ {snap[p].ref}) \cup {next}
          /\ lost' = lost \cup {snap[p].ref}
      BY <2>5 DEF EtsyReplyLost
    <3>5. valid' \subseteq Nat /\ lost' \subseteq Nat
      BY <3>1, <3>4
    <3>2. pc' \in [Procs -> Stages] /\ out' \in [Procs -> Nat]
      BY <2>5 DEF EtsyReplyLost
    <3>3. QED BY <2>5, <3>1, <3>2, <3>5 DEF EtsyReplyLost
  <2>6. CASE EtsyRefuses(p)
    BY <2>6 DEF EtsyRefuses
  <2>7. CASE CommitRefresh(p)
    <3>1. PICK r \in Nat : row' = [row EXCEPT !.acc = reply[p].acc, !.ref = r,
                                               !.refreshed = TRUE]
      BY <2>7, <1>b DEF CommitRefresh, Row
    <3>2. row' \in Row
      BY <3>1, <1>b DEF Row
    <3>4. undone' \subseteq Nat
      BY <2>7, <1>b DEF CommitRefresh
    <3>3. QED BY <2>7, <3>2, <3>4 DEF CommitRefresh
  <2>8. CASE CommitFails(p)
    BY <2>8, <1>c DEF CommitFails
  <2>9. CASE ReloadFails(p)
    BY <2>9 DEF ReloadFails
  <2>10. CASE CacheRefreshed(p)
    BY <2>10, <1>b DEF CacheRefreshed
  <2>11. CASE ReleaseLock(p)
    BY <2>11 DEF ReleaseLock
  <2>12. QED
    BY <1>3, <2>1, <2>2, <2>3, <2>4, <2>5, <2>6, <2>7, <2>8, <2>9, <2>10, <2>11
    DEF RefreshStep
<1>4. ASSUME NEW p \in Procs, SaveStep(p) \/ ExchangeCode(p) PROVE TypeOK'
  <2>1. CASE LoadForSave(p)
    BY <2>1 DEF LoadForSave
  <2>2. CASE SaveToken(p)
    <3>1. row' \in Row
      <4>1. row.id \in Nat /\ reply[p].acc \in Nat /\ reply[p].ref \in Nat
        BY <1>b
      <4>2. \A i, a, r \in Nat :
              [id |-> i, acc |-> a, ref |-> r, refreshed |-> FALSE] \in Row
        BY DEF Row
      <4>3. (IF row.id # 0 THEN row.id ELSE reply[p].acc) \in Nat
        BY <4>1
      <4>4. QED BY <2>2, <4>1, <4>2, <4>3 DEF SaveToken
    <3>2. pc' \in [Procs -> Stages] /\ out' \in [Procs -> Nat]
      BY <2>2 DEF SaveToken
    <3>3. QED BY <2>2, <3>1, <3>2 DEF SaveToken
  <2>3. CASE CacheSaved(p)
    BY <2>3, <1>b DEF CacheSaved
  <2>4. CASE ExchangeCode(p)
    BY <2>4, <1>b DEF ExchangeCode
  <2>5. QED BY <1>4, <2>1, <2>2, <2>3, <2>4 DEF SaveStep
<1>5. ASSUME NEW p \in Procs, RevokeStep(p) PROVE TypeOK'
  <2>1. CASE FindForRevoke(p)
    BY <2>1 DEF FindForRevoke
  <2>2. CASE DeleteRow(p)
    BY <2>2, <1>b DEF DeleteRow
  <2>3. CASE DeleteCached(p)
    BY <2>3 DEF DeleteCached
  <2>4. CASE CloseShop(p)
    BY <2>4 DEF CloseShop
  <2>5. QED BY <1>5, <2>1, <2>2, <2>3, <2>4 DEF RevokeStep
<1>6. ASSUME NEW p \in Procs, Finish(p) \/ Crash(p) PROVE TypeOK'
  <2>1. ASSUME End(p)
        PROVE  /\ pc' \in [Procs -> Stages]
               /\ kind' \in [Procs -> CallKinds]
               /\ auto' \in [Procs -> BOOLEAN]
               /\ snap' \in [Procs -> Row]
               /\ reply' \in [Procs -> Pair]
               /\ out' \in [Procs -> Nat]
               /\ shop' \in [Procs -> ShopStatus \cup {"expired"}]
               /\ began' \in [Procs -> SUBSET Nat]
    <3>1. "client" \in CallKinds
      BY DEF CallKinds
    <3>2. QED BY <2>1, <3>1, <1>b DEF End
  <2>2. CASE Finish(p)
    BY <2>2, <2>1 DEF Finish
  <2>3. CASE Crash(p)
    BY <2>3, <2>1, <1>c DEF Crash
  <2>4. QED BY <1>6, <2>2, <2>3
<1>7. CASE Environment
  <2>1. CASE \E g \in 1..MaxGen : Age(g)
    BY <2>1 DEF Age
  <2>2. CASE CacheExpires
    BY <2>2 DEF CacheExpires
  <2>3. CASE LockExpires
    BY <2>3 DEF LockExpires
  <2>4. QED BY <1>7, <2>1, <2>2, <2>3 DEF Environment
<1>8. CASE UNCHANGED vars
  BY <1>8 DEF vars
<1>9. QED
  BY <1>1, <1>2, <1>3, <1>4, <1>5, <1>6, <1>7, <1>8 DEF Next, Step

\* Every variable keeps its type, whatever the processes do.
THEOREM TypeCorrect == Spec => []TypeOK
<1>1. Init => TypeOK
  <2> SUFFICES ASSUME Init PROVE TypeOK
    OBVIOUS
  <2>2. /\ row \in Row /\ NoRow \in Row /\ NoPair \in Pair
        /\ "client" \in CallKinds /\ "idle" \in Stages
    BY DEF Init, Row, NoRow, Pair, NoPair, CallKinds, Stages
  <2>3. pc \in [Procs -> Stages] /\ kind \in [Procs -> CallKinds]
    BY <2>2 DEF Init
  <2>4. /\ auto \in [Procs -> BOOLEAN] /\ overran \in BOOLEAN
        /\ status \in ShopStatus /\ shop \in [Procs -> ShopStatus \cup {"expired"}]
    BY DEF Init, ShopStatus
  <2>5. /\ snap \in [Procs -> Row] /\ reply \in [Procs -> Pair]
        /\ out \in [Procs -> Nat] /\ began \in [Procs -> SUBSET Nat]
    BY <2>2 DEF Init
  <2>6. aged \subseteq Nat /\ valid \subseteq Nat /\ lost \subseteq Nat /\ undone \subseteq Nat
    BY DEF Init
  <2>7. QED BY <2>2, <2>3, <2>4, <2>5, <2>6 DEF Init, TypeOK
<1>2. QED BY <1>1, TypeStep, PTL DEF Spec

-----------------------------------------------------------------------------
(* Single flight.                                                          *)

\* While no refresh has outlived its lock, whoever is inside refresh_token's
\* try block is the process that set the lock's key last.
FlightInv == ~overran => \A p \in Procs : pc[p] \in Refreshing => lock = p

\* A step that leaves the lock alone and takes nobody into the try block.
LEMMA QuietFlight ==
  ASSUME FlightInv, UNCHANGED <<lock, overran>>,
         \A p \in Procs : pc'[p] \in Refreshing => pc[p] \in Refreshing
  PROVE  FlightInv'
  BY DEF FlightInv

\* FlightInv is inductive.
LEMMA FlightStep == TypeOK /\ FlightInv /\ [Next]_vars => FlightInv'
<1> SUFFICES ASSUME TypeOK, FlightInv, [Next]_vars PROVE FlightInv'
  OBVIOUS
<1> USE DEF ghostVars
<1>t. pc \in [Procs -> Stages] /\ lock \in Procs \cup {Free} /\ Free \notin Procs
  BY TokenAssumption DEF TypeOK
<1> USE <1>t DEF Goto, Return, Leave
<1>1. ASSUME NEW p \in Procs, BeginCall(p) PROVE FlightInv'
  <2>1. ASSUME NEW k, NEW r, NEW s, s \notin Refreshing, Begin(p, k, s, r)
        PROVE  FlightInv'
    BY <2>1, QuietFlight DEF Begin
  <2>2. /\ "cache" \notin Refreshing /\ "lock" \notin Refreshing
        /\ "exchange" \notin Refreshing /\ "find" \notin Refreshing
    BY DEF Refreshing
  <2>3. QED
    BY <1>1, <2>1, <2>2 DEF BeginCall, BeginClient, BeginForced, BeginHourly,
                            BeginCallback, BeginDisconnect
<1>2. ASSUME NEW p \in Procs, GetTokenStep(p) PROVE FlightInv'
  <2>1. UNCHANGED <<lock, overran>>
    BY <1>2 DEF GetTokenStep, ReadCache, ReadRow, FillCache
  <2>2. \A q \in Procs : pc'[q] \in Refreshing => pc[q] \in Refreshing
    BY <1>2 DEF GetTokenStep, ReadCache, ReadRow, FillCache, Refreshing
  <2>3. QED BY <2>1, <2>2, QuietFlight
<1>3. ASSUME NEW p \in Procs, TryLock(p) PROVE FlightInv'
  BY <1>3 DEF TryLock, FlightInv, Refreshing
<1>4. ASSUME NEW p \in Procs, ReleaseLock(p) PROVE FlightInv'
  BY <1>4 DEF ReleaseLock, FlightInv, Refreshing
<1>5. ASSUME NEW p \in Procs, RefreshStep(p), ~TryLock(p), ~ReleaseLock(p)
      PROVE  FlightInv'
  <2>1. UNCHANGED <<lock, overran>>
    BY <1>5 DEF RefreshStep, Wait, ReadRefreshToken, EtsyGrants, EtsyReplyLost,
                EtsyRefuses, CommitRefresh, CommitFails, ReloadFails, CacheRefreshed
  <2>2. pc[p] \notin Refreshing => pc' = [pc EXCEPT ![p] = "cache"]
                                   \/ pc' = [pc EXCEPT ![p] = "return"]
    BY <1>5 DEF RefreshStep, Wait, ReadRefreshToken, EtsyGrants, EtsyReplyLost,
                EtsyRefuses, CommitRefresh, CommitFails, ReloadFails,
                CacheRefreshed, Refreshing
  <2>3. \A q \in Procs \ {p} : pc'[q] = pc[q]
    BY <1>5 DEF RefreshStep, Wait, ReadRefreshToken, EtsyGrants, EtsyReplyLost,
                EtsyRefuses, CommitRefresh, CommitFails, ReloadFails, CacheRefreshed
  <2>4. "cache" \notin Refreshing /\ "return" \notin Refreshing
    BY DEF Refreshing
  <2>5. QED BY <2>1, <2>2, <2>3, <2>4, QuietFlight
<1>6. ASSUME NEW p \in Procs, SaveStep(p) \/ ExchangeCode(p) \/ RevokeStep(p)
      PROVE  FlightInv'
  <2>1. UNCHANGED <<lock, overran>>
    BY <1>6 DEF SaveStep, LoadForSave, SaveToken, CacheSaved, ExchangeCode,
                RevokeStep, FindForRevoke, DeleteRow, DeleteCached, CloseShop
  <2>2. \A q \in Procs : pc'[q] \in Refreshing => pc[q] \in Refreshing
    BY <1>6 DEF SaveStep, LoadForSave, SaveToken, CacheSaved, ExchangeCode,
                RevokeStep, FindForRevoke, DeleteRow, DeleteCached, CloseShop,
                Refreshing
  <2>3. QED BY <2>1, <2>2, QuietFlight
<1>7. ASSUME NEW p \in Procs, Finish(p) \/ Crash(p) PROVE FlightInv'
  <2>1. UNCHANGED <<lock, overran>> /\ pc' = [pc EXCEPT ![p] = "idle"]
    BY <1>7 DEF Finish, Crash, End
  <2>2. QED BY <2>1, QuietFlight DEF Refreshing
<1>8. CASE LockExpires
  BY <1>8 DEF LockExpires, FlightInv, procVars
<1>9. CASE (\E g \in 1..MaxGen : Age(g)) \/ CacheExpires
  BY <1>9, QuietFlight DEF Age, CacheExpires, procVars
<1>10. CASE UNCHANGED vars
  BY <1>10, QuietFlight DEF vars, procVars
<1>11. QED
  BY <1>1, <1>2, <1>3, <1>4, <1>5, <1>6, <1>7, <1>8, <1>9, <1>10
  DEF Next, Step, RefreshStep, Environment

\* For any number of processes: at most one refresh of the shop's token runs
\* at a time, through every crash, until one outlives its lock.
THEOREM SingleFlightTheorem == Spec => []SingleFlight
<1>1. Init => FlightInv
  BY DEF Init, FlightInv, Refreshing
<1>2. FlightInv => SingleFlight
  BY DEF FlightInv, SingleFlight
<1>3. QED BY <1>1, <1>2, TypeCorrect, FlightStep, PTL DEF Spec

-----------------------------------------------------------------------------
(* The grant is preserved.                                                 *)

Pending(p) == pc[p] = "commit" /\ Rotated(p)

\* The calls that hold a refresh token nobody else has seen.
Holds(p) == Pending(p) \/ pc[p] \in {"load", "save"}

\* Every refresh token is numbered below next.
Issued ==
  /\ next > 0
  /\ \A v \in valid : 0 < v /\ v < next
  /\ row.ref < next
  /\ \A p \in Procs : snap[p].ref < next /\ reply[p].ref < next

\* What a call holds is accepted by Etsy, and in no row, object or other hand:
\* so nobody can have it replaced before it is committed.
Exclusive ==
  \A p \in Procs : Holds(p) =>
    /\ reply[p].ref \in valid
    /\ reply[p].ref # row.ref
    /\ \A q \in Procs : snap[q].ref # reply[p].ref
    /\ \A q \in Procs \ {p} : Holds(q) => reply[q].ref # reply[p].ref

\* The first half of GrantPreserved.
Kept ==
  row.id # 0 =>
    \/ row.ref \in valid \cup lost \cup undone
    \/ \E p \in Procs : Pending(p) /\ snap[p].ref = row.ref

GrantInv == Issued /\ Exclusive /\ Kept

\* What SMT needs of the types, without the records' definitions.
LEMMA RefTypes ==
  ASSUME TypeOK
  PROVE  /\ pc \in [Procs -> Stages] /\ DOMAIN snap = Procs /\ DOMAIN reply = Procs
         /\ next \in Nat /\ valid \subseteq Nat
         /\ row.ref \in Nat /\ row.id \in Nat
         /\ \A p \in Procs : /\ snap[p].ref \in Nat /\ snap[p].id \in Nat
                             /\ reply[p].ref \in Nat
  BY DEF TypeOK, Row, Pair

\* A step of p that brings in no token: it may load the row, finish, or give up
\* a reply, whose predecessor is then counted as lost.
LEMMA TamelyGrant ==
  ASSUME TypeOK, GrantInv, NEW p \in Procs,
         UNCHANGED <<valid, next, undone>>,
         row'.ref = row.ref \/ row'.ref = 0,
         row'.id # 0 => row'.ref = row.ref /\ row.id # 0,
         lost \subseteq lost',
         DOMAIN pc' = Procs, DOMAIN snap' = Procs, DOMAIN reply' = Procs,
         \A q \in Procs \ {p} :
           pc'[q] = pc[q] /\ snap'[q] = snap[q] /\ reply'[q] = reply[q],
         snap'[p].ref \in {snap[p].ref, row.ref, 0},
         reply'[p].ref \in {reply[p].ref, 0},
         Holds(p)' => Holds(p) /\ reply'[p].ref = reply[p].ref,
         Pending(p) => snap[p].ref \in lost' \/ (Pending(p)' /\ snap'[p] = snap[p])
  PROVE  GrantInv'
<1> USE RefTypes DEF GrantInv
<1>1. Issued'
  BY DEF Issued
<1>2. \A q \in Procs \ {p} : (Holds(q)' <=> Holds(q)) /\ (Pending(q)' <=> Pending(q))
  BY DEF Holds, Pending, Rotated
<1>3. Exclusive'
  BY <1>2 DEF Exclusive, Issued
<1>4. Kept'
  BY <1>2 DEF Kept, Pending
<1>5. QED BY <1>1, <1>3, <1>4

\* GrantInv is inductive.
LEMMA GrantStep == TypeOK /\ GrantInv /\ [Next]_vars => GrantInv'
<1> SUFFICES ASSUME TypeOK, GrantInv, [Next]_vars PROVE GrantInv'
  OBVIOUS
<1> USE RefTypes DEF Goto, Return, Leave, etsyVars, ghostVars
<1>1. ASSUME NEW p \in Procs, BeginCall(p) PROVE GrantInv'
  <2>1. ASSUME NEW k, NEW s, NEW r, s \notin {"commit", "load", "save"},
               r.ref \in {0, row.ref}, Begin(p, k, s, r)
        PROVE  GrantInv'
    BY <2>1, TamelyGrant DEF Begin, Holds, Pending
  <2>2. NoRow.ref = 0
    BY DEF NoRow
  <2>3. QED
    BY <1>1, <2>1, <2>2 DEF BeginCall, BeginClient, BeginForced, BeginHourly,
                            BeginCallback, BeginDisconnect
<1>2. ASSUME NEW p \in Procs, GetTokenStep(p) PROVE GrantInv'
  <2>1. Seen(p).ref \in {snap[p].ref, row.ref}
    BY DEF Seen
  <2>2. CASE ReadCache(p)
    BY <2>2, TamelyGrant DEF ReadCache, Holds, Pending
  <2>3. CASE ReadRow(p)
    BY <2>1, <2>3, TamelyGrant DEF ReadRow, Holds, Pending
  <2>4. CASE FillCache(p)
    BY <2>4, TamelyGrant DEF FillCache, Holds, Pending
  <2>5. QED BY <1>2, <2>2, <2>3, <2>4 DEF GetTokenStep
<1>3. ASSUME NEW p \in Procs,
             TryLock(p) \/ Wait(p) \/ ReadRefreshToken(p) \/ EtsyRefuses(p)
               \/ ReloadFails(p) \/ CacheRefreshed(p) \/ ReleaseLock(p)
      PROVE  GrantInv'
  <2>1. Seen(p).ref \in {snap[p].ref, row.ref}
    BY DEF Seen
  <2>2. CASE TryLock(p)
    BY <2>2, TamelyGrant DEF TryLock, Holds, Pending
  <2>3. CASE Wait(p)
    BY <2>3, TamelyGrant DEF Wait, Holds, Pending
  <2>4. CASE ReadRefreshToken(p)
    BY <2>1, <2>4, TamelyGrant DEF ReadRefreshToken, Holds, Pending
  <2>5. CASE EtsyRefuses(p)
    BY <2>5, TamelyGrant DEF EtsyRefuses, Holds, Pending
  <2>6. CASE ReloadFails(p)
    BY <2>6, TamelyGrant DEF ReloadFails, Holds, Pending
  <2>7. CASE CacheRefreshed(p)
    BY <2>7, TamelyGrant DEF CacheRefreshed, Holds, Pending
  <2>8. CASE ReleaseLock(p)
    BY <2>8, TamelyGrant DEF ReleaseLock, Holds, Pending
  <2>9. QED BY <1>3, <2>2, <2>3, <2>4, <2>5, <2>6, <2>7, <2>8
<1>4. ASSUME NEW p \in Procs, EtsyGrants(p) \/ EtsyReplyLost(p) PROVE GrantInv'
  \* The token sent is replaced: nobody held it, and p now holds its successor.
  <2>1. ~Holds(p) /\ snap[p].ref \in valid /\ next' = next + 1
    BY <1>4 DEF EtsyGrants, EtsyReplyLost, Holds, Pending
  <2>2. UNCHANGED <<row, snap, undone>> /\ lost \subseteq lost'
    BY <1>4 DEF EtsyGrants, EtsyReplyLost
  <2>3. \A q \in Procs \ {p} : pc'[q] = pc[q] /\ reply'[q] = reply[q]
    BY <1>4 DEF EtsyGrants, EtsyReplyLost
  <2>4. \A q \in Procs \ {p} : (Holds(q)' <=> Holds(q)) /\ (Pending(q)' <=> Pending(q))
    BY <2>2, <2>3 DEF Holds, Pending, Rotated
  <2>5. \/ valid' = valid /\ ~Holds(p)' /\ reply'[p].ref \in {snap[p].ref, 0}
        \/ /\ valid' = (valid \ {snap[p].ref}) \cup {next}
           /\ reply'[p].ref = next /\ Pending(p)'
        \/ /\ valid' = (valid \ {snap[p].ref}) \cup {next}
           /\ reply'[p] = reply[p] /\ ~Holds(p)' /\ snap[p].ref \in lost'
    BY <1>4 DEF EtsyGrants, EtsyReplyLost, Holds, Pending, Rotated, GrantInv, Issued
  <2>6. Issued'
    BY <2>1, <2>2, <2>3, <2>5 DEF GrantInv, Issued
  <2>7. Exclusive'
    BY <2>1, <2>2, <2>3, <2>4, <2>5 DEF GrantInv, Exclusive, Issued
  <2>8. Kept'
    BY <2>1, <2>2, <2>4, <2>5 DEF GrantInv, Kept, Pending, Holds
  <2>9. QED BY <2>6, <2>7, <2>8 DEF GrantInv
<1>5. ASSUME NEW p \in Procs, CommitRefresh(p) \/ SaveToken(p) PROVE GrantInv'
  \* The row takes the token p held, keeps its own, or takes back the one p sent.
  <2>1. UNCHANGED <<valid, next, lost, snap, reply>> /\ ~Holds(p)'
    BY <1>5 DEF CommitRefresh, SaveToken, Holds, Pending
  <2>2. \A q \in Procs \ {p} : pc'[q] = pc[q]
    BY <1>5 DEF CommitRefresh, SaveToken
  <2>3. \A q \in Procs \ {p} : (Holds(q)' <=> Holds(q)) /\ (Pending(q)' <=> Pending(q))
    BY <2>1, <2>2 DEF Holds, Pending, Rotated
  <2>4. \/ Holds(p) /\ row'.ref = reply[p].ref /\ undone \subseteq undone'
        \/ /\ ~Pending(p) /\ row'.ref = row.ref /\ (row'.id # 0 => row.id # 0)
           /\ undone \subseteq undone'
        \/ /\ ~Pending(p) /\ row'.ref = snap[p].ref /\ undone \subseteq undone'
           /\ row'.ref \in valid \cup undone'
    <3>1. CASE CommitRefresh(p)
      <4>1. /\ row'.ref = IF reply[p].ref # 0 THEN reply[p].ref ELSE row.ref
            /\ row'.id = row.id /\ pc[p] = "commit"
            /\ undone' = undone \cup ({reply[p].ref} \ (valid \cup {0}))
        BY <3>1 DEF CommitRefresh, TypeOK, Row
      <4>. QED  BY <4>1 DEF Holds, Pending, Rotated
    <3>2. CASE SaveToken(p)
      BY <3>2 DEF SaveToken, Holds, Pending
    <3>3. QED BY <1>5, <3>1, <3>2
  <2>5. Issued'
    BY <2>1, <2>4 DEF GrantInv, Issued
  <2>6. Exclusive'
    BY <2>1, <2>3, <2>4 DEF GrantInv, Exclusive
  <2>7. Kept'
    BY <2>1, <2>3, <2>4 DEF GrantInv, Exclusive, Kept, Pending
  <2>8. QED BY <2>5, <2>6, <2>7 DEF GrantInv
<1>6. ASSUME NEW p \in Procs, ExchangeCode(p) PROVE GrantInv'
  <2>1. /\ valid' = valid \cup {next} /\ next' = next + 1
        /\ UNCHANGED <<row, snap, lost, undone>> /\ reply'[p].ref = next
        /\ \A q \in Procs \ {p} : pc'[q] = pc[q] /\ reply'[q] = reply[q]
        /\ ~Holds(p) /\ ~Pending(p)'
    BY <1>6 DEF ExchangeCode, Holds, Pending
  <2>2. \A q \in Procs \ {p} : (Holds(q)' <=> Holds(q)) /\ (Pending(q)' <=> Pending(q))
    BY <2>1 DEF Holds, Pending, Rotated
  <2>3. Issued'
    BY <2>1 DEF GrantInv, Issued
  <2>4. Exclusive'
    BY <2>1, <2>2 DEF GrantInv, Exclusive, Issued
  <2>5. Kept'
    BY <2>1, <2>2 DEF GrantInv, Kept, Pending, Holds
  <2>6. QED BY <2>3, <2>4, <2>5 DEF GrantInv
<1>7. ASSUME NEW p \in Procs, CommitFails(p) \/ Crash(p) \/ Finish(p) PROVE GrantInv'
  <2>1. NoRow.ref = 0 /\ NoPair.ref = 0
    BY DEF NoRow, NoPair
  <2>2. CASE CommitFails(p)
    BY <2>2, TamelyGrant DEF CommitFails, Discard, Holds, Pending
  <2>3. CASE Crash(p)
    BY <2>1, <2>3, TamelyGrant DEF Crash, End, Discard, Holds, Pending
  <2>4. CASE Finish(p)
    BY <2>1, <2>4, TamelyGrant DEF Finish, End, Holds, Pending
  <2>5. QED BY <1>7, <2>2, <2>3, <2>4
<1>8. ASSUME NEW p \in Procs, LoadForSave(p) \/ CacheSaved(p) PROVE GrantInv'
  BY <1>8, TamelyGrant DEF LoadForSave, CacheSaved, Holds, Pending
<1>9. ASSUME NEW p \in Procs, RevokeStep(p) PROVE GrantInv'
  <2>1. NoRow.ref = 0 /\ NoRow.id = 0
    BY DEF NoRow
  <2>2. CASE FindForRevoke(p)
    BY <2>2, TamelyGrant DEF FindForRevoke, Holds, Pending
  <2>3. CASE DeleteRow(p)
    BY <2>1, <2>3, TamelyGrant DEF DeleteRow, Holds, Pending
  <2>4. CASE DeleteCached(p)
    BY <2>4, TamelyGrant DEF DeleteCached, Holds, Pending
  <2>5. CASE CloseShop(p)
    BY <2>5, TamelyGrant DEF CloseShop, Holds, Pending
  <2>6. QED BY <1>9, <2>2, <2>3, <2>4, <2>5 DEF RevokeStep
<1>10. CASE Environment \/ UNCHANGED vars
  <2>1. UNCHANGED <<valid, next, row, lost, undone, procVars>>
    BY <1>10 DEF Environment, Age, CacheExpires, LockExpires, vars
  <2>2. QED
    BY <2>1 DEF GrantInv, Issued, Exclusive, Kept, Holds, Pending,
                Rotated, procVars
<1>11. QED
  BY <1>1, <1>2, <1>3, <1>4, <1>5, <1>6, <1>7, <1>8, <1>9, <1>10
  DEF Next, Step, RefreshStep, SaveStep

\* While no refresh has outlived its lock, Etsy accepts the refresh token of
\* every reply that is about to be committed: nobody else is in the call.
EchoInv ==
  ~overran =>
    /\ undone = {}
    /\ \A p \in Procs : pc[p] = "commit" /\ reply[p].ref # 0 => reply[p].ref \in valid

\* A step that replaces no token and brings no call to its commit.
LEMMA QuietEcho ==
  ASSUME EchoInv, UNCHANGED undone, overran => overran', valid \subseteq valid',
         \A p \in Procs : pc'[p] = "commit" => pc[p] = "commit" /\ reply'[p] = reply[p]
  PROVE  EchoInv'
BY DEF EchoInv

\* EchoInv is inductive.
LEMMA EchoStep == TypeOK /\ FlightInv /\ EchoInv /\ [Next]_vars => EchoInv'
<1> SUFFICES ASSUME TypeOK, FlightInv, EchoInv, [Next]_vars PROVE EchoInv'
  OBVIOUS
<1> USE RefTypes DEF Goto, Return, Leave, etsyVars, ghostVars
<1>1. ASSUME NEW p \in Procs, BeginCall(p) PROVE EchoInv'
  BY <1>1, QuietEcho DEF BeginCall, BeginClient, BeginForced, BeginHourly,
                         BeginCallback, BeginDisconnect, Begin
<1>2. ASSUME NEW p \in Procs, GetTokenStep(p) PROVE EchoInv'
  BY <1>2, QuietEcho DEF GetTokenStep, ReadCache, ReadRow, FillCache
<1>3. ASSUME NEW p \in Procs,
             TryLock(p) \/ Wait(p) \/ ReadRefreshToken(p) \/ EtsyRefuses(p) \/ CommitFails(p)
               \/ ReloadFails(p) \/ CacheRefreshed(p) \/ ReleaseLock(p)
      PROVE  EchoInv'
  BY <1>3, QuietEcho DEF TryLock, Wait, ReadRefreshToken, EtsyRefuses, CommitFails,
                         ReloadFails, CacheRefreshed, ReleaseLock
<1>4. ASSUME NEW p \in Procs, EtsyGrants(p) \/ EtsyReplyLost(p) PROVE EchoInv'
  \* Whoever else is at its commit is in the try block with p.
  <2>1. pc[p] = "call" /\ UNCHANGED <<undone, overran>> /\ snap[p].ref \in valid
    BY <1>4 DEF EtsyGrants, EtsyReplyLost
  <2>2. ~overran => \A q \in Procs : pc[q] # "commit"
    BY <2>1 DEF FlightInv, Refreshing
  <2>3. \A q \in Procs \ {p} : pc'[q] = pc[q]
    BY <1>4 DEF EtsyGrants, EtsyReplyLost
  <2>4. pc'[p] = "commit" => reply'[p].ref \in valid' \cup {0}
    BY <1>4, <2>1 DEF EtsyGrants, EtsyReplyLost
  <2>. QED  BY <2>1, <2>2, <2>3, <2>4 DEF EchoInv
<1>5. ASSUME NEW p \in Procs, CommitRefresh(p) PROVE EchoInv'
  <2>1. /\ pc[p] = "commit" /\ UNCHANGED <<valid, reply, overran>>
        /\ undone' = undone \cup ({reply[p].ref} \ (valid \cup {0}))
        /\ \A q \in Procs : pc'[q] = "commit" => pc[q] = "commit"
    BY <1>5 DEF CommitRefresh
  <2>. QED  BY <2>1 DEF EchoInv
<1>6. ASSUME NEW p \in Procs, ExchangeCode(p) \/ SaveStep(p) PROVE EchoInv'
  BY <1>6, QuietEcho DEF ExchangeCode, SaveStep, LoadForSave, SaveToken, CacheSaved
<1>7. ASSUME NEW p \in Procs, RevokeStep(p) PROVE EchoInv'
  BY <1>7, QuietEcho DEF RevokeStep, FindForRevoke, DeleteRow, DeleteCached, CloseShop
<1>8. ASSUME NEW p \in Procs, Finish(p) \/ Crash(p) PROVE EchoInv'
  BY <1>8, QuietEcho DEF Finish, Crash, End
<1>9. CASE Environment \/ UNCHANGED vars
  <2>1. UNCHANGED <<valid, undone, procVars>>
    BY <1>9 DEF Environment, Age, CacheExpires, LockExpires, vars
  <2>2. overran => overran'
    <3>1. CASE LockExpires
      BY <3>1 DEF LockExpires
    <3>2. CASE UNCHANGED overran
      BY <3>2
    <3>. QED  BY <1>9, <3>1, <3>2 DEF Environment, Age, CacheExpires, vars
  <2>. QED  BY <2>1, <2>2, QuietEcho DEF procVars
<1>. QED
  BY <1>1, <1>2, <1>3, <1>4, <1>5, <1>6, <1>7, <1>8, <1>9 DEF Next, Step, RefreshStep

\* For any number of processes and tokens: the refresh token in the database
\* is one Etsy accepts, unless its successor is on its way to the database, was
\* dropped by a failed answer, commit or process, or was written over by a reply
\* that repeats the old one, which no refresh within its lock's time does.
THEOREM GrantTheorem == Spec => []GrantPreserved
<1>1. Init => GrantInv /\ FlightInv /\ EchoInv
  BY DEF Init, GrantInv, Issued, Exclusive, Kept, Holds, Pending, FlightInv, Refreshing,
         EchoInv, NoRow, NoPair
<1>2. GrantInv /\ EchoInv => GrantPreserved
  BY DEF GrantInv, Kept, Pending, EchoInv, GrantPreserved
<1>3. QED
  BY <1>1, <1>2, TypeCorrect, FlightStep, GrantStep, EchoStep, PTL DEF Spec

-----------------------------------------------------------------------------
(* What the cache holds and what the client is handed.                     *)

\* The calls whose reply is in no committed row yet, and those that still do
\* something with a reply.
Open(p)    == pc[p] \in {"commit", "load", "save"}
Carries(p) == Open(p) \/ pc[p] \in {"setcache", "savecache"}

\* Access tokens, too, are numbered below next, and only issued ones age.
Numbered ==
  /\ next > 0 /\ row.acc < next /\ cache < next
  /\ \A p \in Procs : snap[p].acc < next /\ reply[p].acc < next
  /\ \A g \in aged : 0 < g /\ g < next
  /\ \A p \in Procs : began[p] \subseteq aged

\* What only an open transaction knows is in nobody else's hands.
Private ==
  \A p \in Procs : Open(p) =>
    /\ reply[p].acc \notin {0, cache, row.acc}
    /\ \A q \in Procs : snap[q].acc # reply[p].acc
    /\ \A q \in Procs \ {p} : reply[q].acc # reply[p].acc

\* No call carries a token that was expiring when it began, unless it waited.
Handed ==
  \A p \in Procs :
    /\ Carries(p) => reply[p].acc \notin began[p]
    /\ pc[p] = "fill" /\ auto[p] => snap[p].acc \notin began[p]
    /\ pc[p] \in {"release", "return"} /\ auto[p] => out[p] \notin began[p]

HandInv == Numbered /\ Private /\ Handed

\* What SMT needs of the types, without the records' definitions.
LEMMA AccTypes ==
  ASSUME TypeOK
  PROVE  /\ pc \in [Procs -> Stages] /\ auto \in [Procs -> BOOLEAN]
         /\ DOMAIN snap = Procs /\ DOMAIN reply = Procs
         /\ DOMAIN out = Procs /\ DOMAIN began = Procs
         /\ next \in Nat /\ cache \in Nat /\ row.acc \in Nat /\ aged \subseteq Nat
         /\ \A p \in Procs : snap[p].acc \in Nat /\ reply[p].acc \in Nat
BY DEF TypeOK, Row, Pair

\* The object a query returns is the row or the one the session had loaded.
LEMMA SeenAcc ==
  ASSUME NEW p \in Procs
  PROVE  Seen(p).acc \in {snap[p].acc, row.acc}
BY DEF Seen

\* A step of p that issues no token, and stores or caches none that is open,
\* keeps tokens numbered and private.
LEMMA TamelyPrivate ==
  ASSUME TypeOK, Numbered, Private, NEW p \in Procs, UNCHANGED <<next, aged>>,
         \A q \in Procs \ {p} : /\ pc'[q] = pc[q] /\ snap'[q] = snap[q]
                                /\ reply'[q] = reply[q] /\ began'[q] = began[q],
         row'.acc \in {0, row.acc} \/ (row'.acc = reply[p].acc /\ ~Open(p)'),
         cache' \in {0, cache, snap[p].acc} \/ (cache' = reply[p].acc /\ ~Open(p)),
         snap'[p].acc \in {0, snap[p].acc, row.acc},
         reply'[p].acc \in {0, reply[p].acc},
         began'[p] \in {{}, aged, began[p]},
         Open(p)' => Open(p) /\ reply'[p] = reply[p]
  PROVE  Numbered' /\ Private'
<1> USE AccTypes
<1>1. Numbered'
  BY DEF Numbered
<1>2. \A q \in Procs \ {p} : Open(q)' <=> Open(q)
  BY DEF Open
<1>3. ASSUME NEW q \in Procs, Open(q)'
      PROVE  /\ reply'[q].acc \notin {0, cache', row'.acc}
             /\ \A r \in Procs : snap'[r].acc # reply'[q].acc
             /\ \A r \in Procs \ {q} : reply'[r].acc # reply'[q].acc
  <2>1. Open(q) /\ reply'[q] = reply[q]
    BY <1>2, <1>3
  <2>2. reply[q].acc \notin {0, cache, row.acc, snap[p].acc}
    BY <2>1 DEF Private
  <2>3. q # p => reply[q].acc # reply[p].acc
    BY <2>1 DEF Private
  <2>4. reply'[q].acc \notin {0, cache', row'.acc}
    BY <1>3, <2>1, <2>2, <2>3
  <2>5. \A r \in Procs : snap'[r].acc # reply'[q].acc
    BY <2>1, <2>2 DEF Private
  <2>6. \A r \in Procs \ {q} : reply'[r].acc # reply'[q].acc
    BY <2>1, <2>2, <2>3 DEF Private
  <2>. QED  BY <2>4, <2>5, <2>6
<1>. QED  BY <1>1, <1>3 DEF Private

\* A step that issues a token to p and does nothing else with tokens.
LEMMA IssuedPrivate ==
  ASSUME TypeOK, Numbered, Private, NEW p \in Procs, next' = next + 1,
         UNCHANGED <<row, cache, snap, aged, began>>,
         \A q \in Procs \ {p} : pc'[q] = pc[q] /\ reply'[q] = reply[q],
         reply'[p].acc = next \/ (reply'[p] = reply[p] /\ ~Open(p)')
  PROVE  Numbered' /\ Private'
<1> USE AccTypes
<1>1. Numbered'
  BY DEF Numbered
<1>2. \A q \in Procs \ {p} : Open(q)' <=> Open(q)
  BY DEF Open
<1>3. \A q \in Procs : snap[q].acc < next /\ reply[q].acc < next
  BY DEF Numbered
<1>4. 0 < next /\ cache < next /\ row.acc < next
  BY DEF Numbered
<1>. QED  BY <1>1, <1>2, <1>3, <1>4 DEF Private

\* HandInv is inductive.
LEMMA HandStep == TypeOK /\ HandInv /\ [Next]_vars => HandInv'
<1> SUFFICES ASSUME TypeOK, HandInv, [Next]_vars PROVE HandInv'
  OBVIOUS
<1> USE AccTypes DEF Goto, Return, Leave, etsyVars, ghostVars
<1>a. Numbered /\ Private /\ Handed
  BY DEF HandInv
<1>b. 0 \notin aged /\ \A q \in Procs : began[q] \subseteq aged /\ 0 \notin began[q]
  BY <1>a DEF Numbered
<1>c. NoRow.acc = 0 /\ NoPair.acc = 0
  BY DEF NoRow, NoPair
<1>1. ASSUME NEW p \in Procs, BeginCall(p) PROVE HandInv'
  <2>1. ASSUME NEW k, NEW s, NEW r, s \in {"cache", "lock", "exchange", "find"},
               r.acc \in {0, row.acc}, Begin(p, k, s, r)
        PROVE  HandInv'
    <3>1. Numbered' /\ Private'
      BY <1>a, <2>1, TamelyPrivate DEF Begin, Open
    <3>2. Handed'
      BY <1>a, <2>1 DEF Begin, Handed, Carries, Open
    <3>. QED  BY <3>1, <3>2 DEF HandInv
  <2>. QED
    BY <1>1, <1>c, <2>1 DEF BeginCall, BeginClient, BeginForced, BeginHourly,
                            BeginCallback, BeginDisconnect
<1>2. ASSUME NEW p \in Procs, GetTokenStep(p) PROVE HandInv'
  <2>1. Numbered' /\ Private'
    <3>1. CASE ReadCache(p)
      BY <1>a, <3>1, TamelyPrivate DEF ReadCache, Open
    <3>2. CASE ReadRow(p)
      BY <1>a, <3>2, SeenAcc, TamelyPrivate DEF ReadRow, Open
    <3>3. CASE FillCache(p)
      BY <1>a, <3>3, TamelyPrivate DEF FillCache, Open
    <3>. QED  BY <1>2, <3>1, <3>2, <3>3 DEF GetTokenStep
  <2>2. Handed'
    <3>1. CASE ReadCache(p)
      BY <1>a, <1>b, <3>1 DEF ReadCache, Handed, Carries, Open
    <3>2. CASE ReadRow(p)
      BY <1>a, <1>b, <3>2 DEF ReadRow, Handed, Carries, Open
    <3>3. CASE FillCache(p)
      BY <1>a, <3>3 DEF FillCache, Handed, Carries, Open
    <3>. QED  BY <1>2, <3>1, <3>2, <3>3 DEF GetTokenStep
  <2>. QED  BY <2>1, <2>2 DEF HandInv
<1>3. ASSUME NEW p \in Procs,
             TryLock(p) \/ Wait(p) \/ ReadRefreshToken(p) \/ EtsyRefuses(p)
               \/ CommitFails(p) \/ ReloadFails(p) \/ CacheRefreshed(p) \/ ReleaseLock(p)
      PROVE  HandInv'
  <2>1. Numbered' /\ Private'
    <3>1. CASE TryLock(p) \/ Wait(p) \/ EtsyRefuses(p) \/ CommitFails(p)
                 \/ ReloadFails(p) \/ ReleaseLock(p)
      BY <1>a, <3>1, TamelyPrivate
      DEF TryLock, Wait, EtsyRefuses, CommitFails, ReloadFails, ReleaseLock, Open
    <3>2. CASE ReadRefreshToken(p)
      BY <1>a, <3>2, SeenAcc, TamelyPrivate DEF ReadRefreshToken, Open
    <3>3. CASE CacheRefreshed(p)
      BY <1>a, <3>3, TamelyPrivate DEF CacheRefreshed, Open
    <3>. QED  BY <1>3, <3>1, <3>2, <3>3
  <2>2. Handed'
    <3>1. CASE TryLock(p) \/ Wait(p) \/ ReadRefreshToken(p)
      BY <1>a, <1>b, <3>1 DEF TryLock, Wait, ReadRefreshToken, Handed, Carries, Open
    <3>2. CASE EtsyRefuses(p) \/ CommitFails(p) \/ ReloadFails(p)
      BY <1>a, <1>b, <3>2 DEF EtsyRefuses, CommitFails, ReloadFails, Handed, Carries, Open
    <3>3. CASE CacheRefreshed(p) \/ ReleaseLock(p)
      BY <1>a, <3>3 DEF CacheRefreshed, ReleaseLock, Handed, Carries, Open
    <3>. QED  BY <1>3, <3>1, <3>2, <3>3
  <2>. QED  BY <2>1, <2>2 DEF HandInv
<1>4. ASSUME NEW p \in Procs, EtsyGrants(p) \/ EtsyReplyLost(p) \/ ExchangeCode(p)
      PROVE  HandInv'
  <2>1. Numbered' /\ Private'
    <3>1. CASE EtsyGrants(p)
      BY <1>a, <3>1, IssuedPrivate DEF EtsyGrants, Open
    <3>2. CASE EtsyReplyLost(p)
      BY <1>a, <3>2, IssuedPrivate DEF EtsyReplyLost, Open
    <3>3. CASE ExchangeCode(p)
      BY <1>a, <3>3, IssuedPrivate DEF ExchangeCode, Open
    <3>. QED  BY <1>4, <3>1, <3>2, <3>3
  <2>2. next \notin began[p]
    BY <1>a, <1>b DEF Numbered
  <2>3. Handed'
    BY <1>4, <1>a, <1>b, <2>2
    DEF EtsyGrants, EtsyReplyLost, ExchangeCode, Handed, Carries, Open
  <2>. QED  BY <2>1, <2>3 DEF HandInv
<1>5. ASSUME NEW p \in Procs, CommitRefresh(p) \/ SaveStep(p) PROVE HandInv'
  <2>1. Numbered' /\ Private'
    <3>1. CASE CommitRefresh(p)
      <4>1. row'.acc = reply[p].acc
        BY <3>1 DEF CommitRefresh, TypeOK, Row
      <4>. QED  BY <1>a, <3>1, <4>1, TamelyPrivate DEF CommitRefresh, Open
    <3>2. CASE LoadForSave(p)
      BY <1>a, <3>2, TamelyPrivate DEF LoadForSave, Open
    <3>3. CASE SaveToken(p)
      BY <1>a, <3>3, TamelyPrivate DEF SaveToken, Open
    <3>4. CASE CacheSaved(p)
      BY <1>a, <3>4, TamelyPrivate DEF CacheSaved, Open
    <3>. QED  BY <1>5, <3>1, <3>2, <3>3, <3>4 DEF SaveStep
  <2>2. Handed'
    BY <1>5, <1>a, <1>b
    DEF CommitRefresh, SaveStep, LoadForSave, SaveToken, CacheSaved, Handed, Carries, Open
  <2>. QED  BY <2>1, <2>2 DEF HandInv
<1>6. ASSUME NEW p \in Procs, RevokeStep(p) PROVE HandInv'
  <2>1. Numbered' /\ Private'
    BY <1>6, <1>a, <1>c, TamelyPrivate
    DEF RevokeStep, FindForRevoke, DeleteRow, DeleteCached, CloseShop, Open
  <2>2. Handed'
    BY <1>6, <1>a, <1>b
    DEF RevokeStep, FindForRevoke, DeleteRow, DeleteCached, CloseShop, Handed, Carries, Open
  <2>. QED  BY <2>1, <2>2 DEF HandInv
<1>7. ASSUME NEW p \in Procs, Finish(p) \/ Crash(p) PROVE HandInv'
  <2>1. Numbered' /\ Private'
    BY <1>7, <1>a, <1>c, TamelyPrivate DEF Finish, Crash, End, Open
  <2>2. Handed'
    BY <1>7, <1>a DEF Finish, Crash, End, Handed, Carries, Open
  <2>. QED  BY <2>1, <2>2 DEF HandInv
<1>8. ASSUME NEW g \in 1..MaxGen, Age(g) PROVE HandInv'
  <2>1. g < next
    BY <1>8, <1>a DEF Age, Numbered
  <2>2. Numbered' /\ Private'
    BY <1>8, <1>a, <2>1 DEF Age, Numbered, Private, Open, procVars
  <2>3. Handed'
    BY <1>8, <1>a DEF Age, Handed, Carries, Open, procVars
  <2>. QED  BY <2>2, <2>3 DEF HandInv
<1>9. CASE CacheExpires \/ LockExpires \/ UNCHANGED vars
  BY <1>9, <1>a DEF CacheExpires, LockExpires, vars, HandInv, Numbered, Private, Handed,
                    Carries, Open, procVars
<1>. QED
  BY <1>1, <1>2, <1>3, <1>4, <1>5, <1>6, <1>7, <1>8, <1>9
  DEF Next, Step, RefreshStep, Environment

LEMMA HandInit == Init => HandInv
BY DEF Init, HandInv, Numbered, Private, Handed, Carries, Open, NoRow, NoPair

\* For any number of processes and tokens: what Redis holds was committed, also
\* when a commit fails or its process dies right after Etsy has answered.
THEOREM CacheTheorem == Spec => []CachedWasCommitted
<1>1. HandInv => CachedWasCommitted
  BY DEF HandInv, Private, Open, CachedWasCommitted
<1>2. QED BY <1>1, HandInit, TypeCorrect, HandStep, PTL DEF Spec

\* For any number of processes and tokens: a client that did not wait for
\* another call's refresh is not handed a token that was expiring when it asked.
THEOREM ExpiringTheorem == Spec => []ExpiringOnlyAfterWait
<1>1. TypeOK /\ HandInv => ExpiringOnlyAfterWait
  BY DEF HandInv, Handed, ExpiringOnlyAfterWait
<1>2. QED BY <1>1, HandInit, TypeCorrect, HandStep, PTL DEF Spec

-----------------------------------------------------------------------------
(* EtsyGateway.  From here on, its assumption is used without being cited. *)

USE GatewayAssumption

-----------------------------------------------------------------------------
(* The bucket's script.                                                    *)

\* A refill never takes tokens away, fills no bucket beyond its capacity, and
\* adds at most what flows in up to the bucket's new time.
LEMMA RefilledBounds ==
  ASSUME tokens \in Nat, tokens <= Capacity, refilled \in Nat, NEW t \in Nat
  PROVE  /\ Refilled(t) \in Nat
         /\ Refilled(t) <= Capacity
         /\ RefillTime(t) \in Nat
         /\ refilled <= RefillTime(t)
         /\ Refilled(t) <= tokens + (RefillTime(t) - refilled) * Refill
<1>1. CASE t > refilled
  <2>1. (t - refilled) * Refill \in Nat
    BY <1>1
  <2>2. RefillTime(t) = t
    BY <1>1 DEF RefillTime, Most
  <2>. QED  BY <1>1, <2>1, <2>2 DEF Refilled, Least
<1>2. CASE ~(t > refilled)
  <2>1. Refilled(t) = tokens /\ RefillTime(t) = refilled
    BY <1>2 DEF Refilled, RefillTime, Most
  <2>. QED  BY <2>1
<1>. QED  BY <1>1, <1>2

\* The loop never sleeps longer than what was left when it read its clock.
LEMMA PauseBounds ==
  ASSUME NEW p \in Requests, GatewayTypeOK, clock[p] - since[p] < MaxWait
  PROVE  /\ Pause(p) \in Nat
         /\ Pause(p) <= MaxWait - (clock[p] - since[p])
<1>1. clock[p] \in Nat /\ since[p] \in Nat /\ told[p] \in Int
  BY DEF GatewayTypeOK
<1>2. Most(told[p], 1) \in Nat
  BY <1>1 DEF Most
<1>3. MaxWait - (clock[p] - since[p]) \in Nat
  BY <1>1
<1>. QED  BY <1>2, <1>3 DEF Pause, Least

-----------------------------------------------------------------------------
(* Types, and the wait for the bucket.                                     *)

\* No round of the loop begins after max_wait.
Paced == \A p \in Requests : at[p] \in Waiting => clock[p] - since[p] < MaxWait

\* A bucket is never above its capacity; the types need it, and the wait.
Safe == GatewayTypeOK /\ Paced /\ tokens <= Capacity

LEMMA SafeInit == GatewayInit => Safe
BY DEF GatewayInit, Safe, GatewayTypeOK, Paced, Circuit, Closed, RequestStages, Waiting

LEMMA SafeEnd ==
  ASSUME NEW p \in Requests, Safe, Ends(p), UNCHANGED <<bucket, now, counting>>,
         circuit' \in [Workers -> Circuit]
  PROVE  Safe'
<1>1. GatewayTypeOK'
  BY DEF Safe, GatewayTypeOK, Ends, Reaches, bucket, counting, RequestStages
<1>2. Paced'
  BY DEF Safe, GatewayTypeOK, Paced, Ends, Reaches, Waiting
<1>. QED  BY <1>1, <1>2 DEF Safe, bucket

LEMMA SafeAcquire ==
  ASSUME NEW p \in Requests, Safe, Acquire(p)
  PROVE  Safe'
<1>. DEFINE t == clock[p]
            has == Refilled(t)
<1>1. t \in Nat /\ tokens \in Nat /\ refilled \in Nat /\ tokens <= Capacity
  BY DEF Safe, GatewayTypeOK
<1>2. has \in Nat /\ has <= Capacity /\ RefillTime(t) \in Nat
  BY <1>1, RefilledBounds
<1>3. refilled' \in Nat /\ tokens' \in Nat /\ tokens' <= Capacity
  BY <1>2 DEF Acquire
<1>4. Missing(t) \in Int
  BY <1>2 DEF Missing
<1>5. told' \in [Requests -> Int]
  BY <1>4 DEF Acquire, Safe, GatewayTypeOK
<1>6. at' \in [Requests -> RequestStages] /\ granted' \in Nat
      /\ \A q \in Requests : at'[q] \in Waiting => at[q] \in Waiting
  BY DEF Acquire, Safe, GatewayTypeOK, Reaches, RequestStages, Waiting
<1>7. UNCHANGED <<circuit, now, since, clock, slept, probe, mark>>
  BY DEF Acquire
<1>8. GatewayTypeOK'
  BY <1>3, <1>5, <1>6, <1>7 DEF Safe, GatewayTypeOK
<1>9. Paced'
  BY <1>6, <1>7 DEF Safe, Paced
<1>. QED  BY <1>3, <1>8, <1>9 DEF Safe

\* What the breaker does to a circuit leaves a circuit.
LEMMA CircuitTypes ==
  ASSUME NEW c \in Circuit, now \in Nat
  PROVE  Admitted(c) \in Circuit /\ RecordSuccess(c) \in Circuit /\ RecordFailure(c) \in Circuit
<1>1. Admitted(c) \in Circuit
  BY DEF Circuit, Admitted
<1>2. RecordSuccess(c) \in Circuit
  BY DEF Circuit, RecordSuccess
<1>3. RecordFailure(c) \in Circuit
  <2>1. c.state \in {"closed", "open", "half_open"} /\ c.failures \in Nat
    BY DEF Circuit
  <2>2. c.failures + 1 \in Nat
    BY <2>1
  <2>. QED  BY <2>1, <2>2 DEF Circuit, RecordFailure
<1>. QED  BY <1>1, <1>2, <1>3

LEMMA SafeStep == Safe /\ [GatewayNext]_gatewayVars => Safe'
<1>. SUFFICES ASSUME Safe, [GatewayNext]_gatewayVars PROVE Safe'
  OBVIOUS
<1>. USE DEF Safe
<1>1. ASSUME NEW p \in Requests PROVE Breaker(p) \in Circuit /\ now \in Nat
  BY DEF GatewayTypeOK, Breaker
<1>2. ASSUME NEW p \in Requests, NEW c \in Circuit, SetBreaker(p, c)
      PROVE  circuit' \in [Workers -> Circuit]
  BY <1>2 DEF SetBreaker, GatewayTypeOK
<1>3. ASSUME NEW p \in Requests, Start(p) PROVE Safe'
  <2>1. circuit' \in [Workers -> Circuit]
    BY <1>1, <1>2, <1>3, CircuitTypes DEF Start
  <2>2. GatewayTypeOK'
    BY <1>3, <2>1 DEF Start, GatewayTypeOK, Reaches, RequestStages, Waiting, bucket, counting
  <2>3. Paced'
    BY <1>3 DEF Start, GatewayTypeOK, Paced, Reaches, Waiting
  <2>. QED  BY <1>3, <2>2, <2>3 DEF Start, bucket
<1>4. ASSUME NEW p \in Requests, Acquire(p) PROVE Safe'
  BY <1>4, SafeAcquire
<1>5. ASSUME NEW p \in Requests, AskAgain(p) PROVE Safe'
  <2>1. GatewayTypeOK'
    BY <1>5 DEF AskAgain, GatewayTypeOK, Reaches, RequestStages, Waiting, bucket, counting
  <2>2. Paced'
    BY <1>5 DEF AskAgain, GatewayTypeOK, Paced, Reaches, Waiting
  <2>. QED  BY <1>5, <2>1, <2>2 DEF AskAgain, bucket
<1>13. ASSUME NEW p \in Requests, Rest(p) PROVE Safe'
  <2>1. GatewayTypeOK'
    BY <1>13 DEF Rest, GatewayTypeOK, Reaches, RequestStages, Waiting, bucket, counting
  <2>2. Paced'
    BY <1>13 DEF Rest, GatewayTypeOK, Paced, Reaches, Waiting
  <2>. QED  BY <1>13, <2>1, <2>2 DEF Rest, bucket
<1>6. ASSUME NEW p \in Requests, GiveUp(p) \/ Raises(p) PROVE Safe'
  BY <1>6, SafeEnd DEF GiveUp, Raises, GatewayTypeOK
<1>7. ASSUME NEW p \in Requests, Succeeded(p) \/ Failed(p) PROVE Safe'
  <2>1. circuit' \in [Workers -> Circuit]
    BY <1>1, <1>2, <1>7, CircuitTypes DEF Succeeded, Failed, Answered
  <2>. QED  BY <1>7, <2>1, SafeEnd DEF Succeeded, Failed, Answered
<1>8. ASSUME NEW p \in Requests, Send(p) \/ Unauthorized(p) \/ Resend(p) PROVE Safe'
  <2>1. GatewayTypeOK'
    BY <1>8 DEF Send, Unauthorized, Resend, Await, GatewayTypeOK, Reaches, RequestStages, bucket, counting
  <2>2. Paced'
    BY <1>8 DEF Send, Unauthorized, Resend, Await, GatewayTypeOK, Paced, Reaches, Waiting
  <2>. QED  BY <1>8, <2>1, <2>2 DEF Send, Unauthorized, Resend, Await, bucket
<1>9. ASSUME NEW w \in Workers, Restart(w) PROVE Safe'
  <2>3. /\ circuit' \in [Workers -> Circuit] /\ probe' \in [Requests -> BOOLEAN]
        /\ at' \in [Requests -> RequestStages]
    BY <1>9 DEF Restart, GatewayTypeOK, RequestStages, Circuit, Closed
  <2>4. /\ since' \in [Requests -> Nat] /\ clock' \in [Requests -> Nat]
        /\ told' \in [Requests -> Int] /\ slept' \in [Requests -> Nat]
    BY <1>9 DEF Restart, GatewayTypeOK
  <2>1. GatewayTypeOK'
    BY <1>9, <2>3, <2>4 DEF Restart, GatewayTypeOK, bucket, counting
  <2>2. Paced'
    BY <1>9 DEF Restart, GatewayTypeOK, Paced, Waiting
  <2>. QED  BY <1>9, <2>1, <2>2 DEF Restart, bucket
<1>10. CASE Tick
  BY <1>10 DEF Tick, GatewayTypeOK, Paced, bucket, requestVars, counting
<1>11. CASE Mark
  BY <1>11 DEF Mark, GatewayTypeOK, Paced, bucket, requestVars
<1>12. CASE UNCHANGED gatewayVars
  BY <1>12 DEF gatewayVars, GatewayTypeOK, Paced, bucket, requestVars, counting
<1>. QED
  BY <1>3, <1>4, <1>5, <1>6, <1>7, <1>8, <1>9, <1>10, <1>11, <1>12, <1>13 DEF GatewayNext, RequestStep

LEMMA SafeAlways == GatewaySpec => []Safe
BY SafeInit, SafeStep, PTL DEF GatewaySpec

\* Every variable keeps its type: the bucket's tokens never go below zero.
THEOREM GatewayTypeCorrect == GatewaySpec => []GatewayTypeOK
BY SafeAlways, PTL DEF Safe

\* The pause is cut to what was left when the clock was read, so that only what
\* came after that reading can take the wait past max_wait.
LEMMA WaitFollows == Safe => WaitBounded
<1>. SUFFICES ASSUME Safe, NEW p \in Requests, at[p] \in Waiting
              PROVE  now - since[p] <= MaxWait + Overrun(p)
  BY DEF WaitBounded
<1>1. /\ now \in Nat /\ clock[p] \in Nat /\ since[p] \in Nat /\ slept[p] \in Nat
      /\ clock[p] - since[p] < MaxWait
  BY DEF Safe, GatewayTypeOK, Paced
<1>2. Pause(p) \in Nat /\ Pause(p) <= MaxWait - (clock[p] - since[p])
  BY <1>1, PauseBounds DEF Safe
<1>3. CASE at[p] # "sleep"
  BY <1>1, <1>3 DEF Overrun
<1>4. CASE at[p] = "sleep"
  <2>1. Overrun(p) = slept[p] - clock[p] + Most(0, now - (slept[p] + Pause(p)))
    BY <1>4 DEF Overrun
  <2>2. Most(0, now - (slept[p] + Pause(p))) >= now - (slept[p] + Pause(p))
        /\ Most(0, now - (slept[p] + Pause(p))) \in Int
    BY <1>1, <1>2 DEF Most
  <2>. QED  BY <1>1, <1>2, <2>1, <2>2
<1>. QED  BY <1>3, <1>4

\* For any number of calls and workers: a wait for the bucket goes past max_wait
\* by no more than its last round trip and oversleeping.
THEOREM WaitTheorem == GatewaySpec => []WaitBounded
BY SafeAlways, WaitFollows, PTL

-----------------------------------------------------------------------------
(* The breaker.                                                            *)

\* The property for one circuit: the breaker's code keeps it for any answer.
SoundAt(c) ==
  /\ c.state = "closed" <=> c.failures < Threshold
  /\ c.failures >= Threshold /\ ~Cooled(c) => c.state = "open"

\* A circuit is touched by the four operations alone.  The clock only helps it
\* cool down; that it never runs backwards is part of GatewayNext.
LEMMA SoundOperations ==
  ASSUME NEW c \in Circuit, now \in Nat, SoundAt(c)
  PROVE  /\ Admits(c) => SoundAt(Admitted(c))
         /\ SoundAt(RecordSuccess(c))
         /\ SoundAt(RecordFailure(c))
<1>. USE DEF SoundAt
<1>0. c.state \in {"closed", "open", "half_open"} /\ c.failures \in Nat /\ c.failedAt \in Nat
  BY DEF Circuit
<1>1. ASSUME Admits(c) PROVE SoundAt(Admitted(c))
  <2>1. CASE c.state = "open"
    <3>. DEFINE d == [c EXCEPT !.state = "half_open"]
    <3>1. d.state = "half_open" /\ d.failures = c.failures /\ d.failedAt = c.failedAt
      BY DEF Circuit
    <3>. QED  BY <1>0, <1>1, <2>1, <3>1 DEF Admits, Admitted, Cooled
  <2>2. CASE c.state # "open"
    BY <2>2 DEF Admitted
  <2>. QED  BY <2>1, <2>2
<1>2. SoundAt(RecordSuccess(c))
  <2>. DEFINE d == RecordSuccess(c)
  <2>1. d.state = "closed" /\ d.failures = 0
    BY DEF RecordSuccess, Circuit
  <2>. QED  BY <2>1
<1>3. SoundAt(RecordFailure(c))
  <2>. DEFINE d == RecordFailure(c)
  <2>1. /\ d.state = IF c.state = "half_open" \/ c.failures + 1 >= Threshold
                       THEN "open" ELSE c.state
        /\ d.failures = c.failures + 1
    BY DEF RecordFailure
  <2>. QED  BY <1>0, <2>1
<1>. QED  BY <1>1, <1>2, <1>3

LEMMA SoundStep == Safe /\ BreakerSound /\ [GatewayNext]_gatewayVars => BreakerSound'
<1>. SUFFICES ASSUME Safe, BreakerSound, [GatewayNext]_gatewayVars, NEW w \in Workers
              PROVE  SoundAt(circuit[w])'
  BY DEF BreakerSound, SoundAt
<1>1. circuit[w] \in Circuit /\ now \in Nat /\ circuit \in [Workers -> Circuit]
  BY DEF Safe, GatewayTypeOK
<1>2. SoundAt(circuit[w])
  BY DEF BreakerSound, SoundAt
<1>3. ASSUME NEW p \in Requests, NEW c, SetBreaker(p, c), UNCHANGED now,
             WorkerOf[p] = w => SoundAt(c)
      PROVE  SoundAt(circuit[w])'
  <2>1. CASE WorkerOf[p] = w
    <3>1. circuit'[w] = c
      BY <1>1, <1>3, <2>1 DEF SetBreaker
    <3>. QED  BY <1>3, <2>1, <3>1 DEF SoundAt, Cooled
  <2>2. CASE WorkerOf[p] # w
    <3>1. circuit'[w] = circuit[w]
      BY <1>1, <1>3, <2>2 DEF SetBreaker
    <3>. QED  BY <1>2, <1>3, <3>1 DEF SoundAt, Cooled
  <2>. QED  BY <2>1, <2>2
<1>4. ASSUME NEW p \in Requests, WorkerOf[p] = w
      PROVE  /\ Admits(Breaker(p)) => SoundAt(Admitted(Breaker(p)))
             /\ SoundAt(RecordSuccess(Breaker(p)))
             /\ SoundAt(RecordFailure(Breaker(p)))
  BY <1>1, <1>2, <1>4, SoundOperations DEF Breaker
<1>5. ASSUME NEW p \in Requests, Start(p) PROVE SoundAt(circuit[w])'
  BY <1>3, <1>4, <1>5 DEF Start
<1>6. ASSUME NEW p \in Requests, Succeeded(p) \/ Failed(p) PROVE SoundAt(circuit[w])'
  BY <1>3, <1>4, <1>6 DEF Succeeded, Failed, Answered
<1>7. ASSUME NEW v \in Workers, Restart(v) PROVE SoundAt(circuit[w])'
  <2>1. CASE v = w
    <3>1. circuit'[w] = Closed /\ UNCHANGED now
      BY <1>1, <1>7, <2>1 DEF Restart
    <3>. QED  BY <3>1 DEF SoundAt, Cooled, Closed
  <2>2. CASE v # w
    <3>1. circuit'[w] = circuit[w] /\ UNCHANGED now
      BY <1>1, <1>7, <2>2 DEF Restart
    <3>. QED  BY <1>2, <3>1 DEF SoundAt, Cooled
  <2>. QED  BY <2>1, <2>2
<1>8. CASE Tick
  <2>1. now' = now + 1 /\ circuit' = circuit
    BY <1>8 DEF Tick
  <2>2. Cooled(circuit[w]) => Cooled(circuit[w])'
    BY <1>1, <2>1 DEF Cooled, Circuit
  <2>. QED  BY <1>2, <2>1, <2>2 DEF SoundAt
<1>9. ASSUME UNCHANGED <<circuit, now>> PROVE SoundAt(circuit[w])'
  BY <1>2, <1>9 DEF SoundAt, Cooled
<1>10. ASSUME NEW p \in Requests,
              \/ Acquire(p) \/ Rest(p) \/ AskAgain(p) \/ GiveUp(p) \/ Send(p)
              \/ Unauthorized(p) \/ Resend(p) \/ Raises(p)
       PROVE  UNCHANGED <<circuit, now>>
  BY <1>10 DEF Acquire, Rest, AskAgain, GiveUp, Send, Unauthorized, Resend, Await, Raises
<1>11. CASE Mark \/ UNCHANGED gatewayVars
  BY <1>9, <1>11 DEF Mark, gatewayVars
<1>. QED
  BY <1>5, <1>6, <1>7, <1>8, <1>9, <1>10, <1>11 DEF GatewayNext, RequestStep

\* The circuit breaker is closed exactly below its threshold, and open while
\* it cools down, for any threshold, cooldown and number of concurrent calls.
THEOREM BreakerTheorem == GatewaySpec => []BreakerSound
<1>1. GatewayInit => BreakerSound
  BY DEF GatewayInit, BreakerSound, Closed, Cooled
<1>. QED  BY <1>1, SoundStep, SafeAlways, PTL DEF GatewaySpec

-----------------------------------------------------------------------------
(* The rate.                                                               *)

\* What was granted and what is left came from the full bucket and the refill.
\* The bucket's clock lies between the mark and the time.
Accounted ==
  /\ mark <= refilled /\ refilled <= now
  /\ \A p \in Requests : clock[p] <= now
  /\ granted * Cost + tokens <= Capacity + (refilled - mark) * Refill

LEMMA Distributes ==
  ASSUME NEW a \in Nat, NEW b \in Nat, NEW c \in Nat
  PROVE  /\ (b - a) * Refill + (c - b) * Refill = (c - a) * Refill
         /\ (a + 1) * Cost = a * Cost + Cost
         /\ a * Cost \in Nat
         /\ a <= b => a * Refill <= b * Refill
OBVIOUS

LEMMA AccountedAcquire ==
  ASSUME NEW p \in Requests, Safe, Accounted, Acquire(p)
  PROVE  Accounted'
<1>. DEFINE t == clock[p]
            has == Refilled(t)
            later == RefillTime(t)
<1>1. /\ t \in Nat /\ tokens \in Nat /\ refilled \in Nat /\ mark \in Nat
      /\ granted \in Nat /\ now \in Nat /\ tokens <= Capacity
  BY DEF Safe, GatewayTypeOK
<1>2. /\ has \in Nat /\ later \in Nat /\ refilled <= later
      /\ has <= tokens + (later - refilled) * Refill
  BY <1>1, RefilledBounds
<1>3. later <= now
  BY <1>1 DEF Accounted, RefillTime, Most
<1>4. refilled' = later /\ UNCHANGED <<now, clock, mark>>
  BY DEF Acquire
<1>5. granted' * Cost + tokens' <= granted * Cost + has
  <2>1. CASE has >= Cost /\ tokens' = has - Cost /\ granted' = granted + 1
    <3>1. granted' * Cost = granted * Cost + Cost /\ granted * Cost \in Nat
      BY <1>1, <2>1, Distributes
    <3>. QED  BY <1>2, <2>1, <3>1
  <2>2. CASE tokens' = has /\ granted' = granted
    <3>1. granted * Cost \in Nat
      BY <1>1, Distributes
    <3>. QED  BY <1>2, <2>2, <3>1
  <2>. QED  BY <2>1, <2>2 DEF Acquire
<1>6. (refilled - mark) * Refill + (later - refilled) * Refill = (later - mark) * Refill
  BY <1>1, <1>2, Distributes
<1>7. granted * Cost + has <= Capacity + (later - mark) * Refill
  <2>1. /\ granted * Cost \in Nat
        /\ (refilled - mark) * Refill \in Int /\ (later - refilled) * Refill \in Int
    BY <1>1, <1>2, Distributes
  <2>2. granted * Cost + tokens <= Capacity + (refilled - mark) * Refill
    BY DEF Accounted
  <2>. QED  BY <1>1, <1>2, <1>6, <2>1, <2>2
<1>8. granted' \in Nat /\ tokens' \in Nat
  BY SafeAcquire DEF Safe, GatewayTypeOK
<1>9. granted' * Cost \in Nat
  BY <1>8, Distributes
<1>10. granted' * Cost + tokens' <= Capacity + (later - mark) * Refill
  <2>1. granted * Cost \in Nat /\ (later - mark) * Refill \in Int
    BY <1>1, <1>2, Distributes
  <2>. QED  BY <1>2, <1>5, <1>7, <1>8, <1>9, <2>1
<1>. QED  BY <1>1, <1>2, <1>3, <1>4, <1>10 DEF Accounted

LEMMA AccountedStep == Safe /\ Accounted /\ [GatewayNext]_gatewayVars => Accounted'
<1>. SUFFICES ASSUME Safe, Accounted, [GatewayNext]_gatewayVars PROVE Accounted'
  OBVIOUS
<1>1. /\ tokens \in Nat /\ refilled \in Nat /\ mark \in Nat /\ now \in Nat
      /\ granted \in Nat /\ tokens <= Capacity /\ clock \in [Requests -> Nat]
  BY DEF Safe, GatewayTypeOK
<1>2. ASSUME NEW p \in Requests, Acquire(p) PROVE Accounted'
  BY <1>2, AccountedAcquire
<1>3. ASSUME UNCHANGED <<bucket, now, counting>>, \A q \in Requests : clock'[q] <= now
      PROVE  Accounted'
  BY <1>3 DEF Accounted, bucket, counting
<1>4. ASSUME NEW p \in Requests,
             Start(p) \/ Rest(p) \/ AskAgain(p) \/ GiveUp(p) \/ Send(p) \/ Unauthorized(p)
             \/ Resend(p) \/ Succeeded(p) \/ Failed(p) \/ Raises(p)
      PROVE  UNCHANGED <<bucket, now, counting>> /\ \A q \in Requests : clock'[q] <= now
  BY <1>1, <1>4 DEF Accounted, Start, Rest, AskAgain, GiveUp, Send, Unauthorized, Resend, Await,
     Succeeded, Failed, Answered, Raises, Ends
<1>5. ASSUME NEW w \in Workers, Restart(w)
      PROVE  UNCHANGED <<bucket, now, counting>> /\ \A q \in Requests : clock'[q] <= now
  BY <1>1, <1>5 DEF Accounted, Restart
<1>6. CASE Tick
  BY <1>1, <1>6 DEF Tick, Accounted, bucket, requestVars, counting
<1>7. CASE Mark
  <2>1. 0 * Cost = 0 /\ (refilled - refilled) * Refill = 0
    BY <1>1
  <2>. QED  BY <1>1, <1>7, <2>1 DEF Mark, Accounted, bucket, requestVars
<1>8. CASE UNCHANGED gatewayVars
  BY <1>3, <1>8 DEF gatewayVars, Accounted, bucket, requestVars, counting
<1>. QED
  BY <1>2, <1>3, <1>4, <1>5, <1>6, <1>7, <1>8 DEF GatewayNext, RequestStep

\* From any moment on, the workers together send Etsy no more than a full
\* bucket and its refill, for any clocks the callers bring.
THEOREM RateTheorem == GatewaySpec => []RateBound
<1>1. GatewayInit => Accounted
  BY DEF GatewayInit, Accounted
<1>2. Safe /\ Accounted => RateBound
  <2>. SUFFICES ASSUME Safe, Accounted PROVE RateBound
    OBVIOUS
  <2>1. /\ tokens \in Nat /\ refilled \in Nat /\ mark \in Nat /\ now \in Nat /\ granted \in Nat
    BY DEF Safe, GatewayTypeOK
  <2>2. (refilled - mark) * Refill + (now - refilled) * Refill = (now - mark) * Refill
    BY <2>1, Distributes
  <2>3. now - refilled \in Nat /\ (now - refilled) * Refill \in Nat
    BY <2>1 DEF Accounted
  <2>4. granted * Cost \in Nat /\ (refilled - mark) * Refill \in Int
    BY <2>1, Distributes
  <2>. QED  BY <2>1, <2>2, <2>3, <2>4 DEF Accounted, RateBound
<1>. QED  BY <1>1, <1>2, AccountedStep, SafeAlways, PTL DEF GatewaySpec
=============================================================================
