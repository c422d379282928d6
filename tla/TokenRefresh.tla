---------------------------- MODULE TokenRefresh ----------------------------
(***************************************************************************)
(* The OAuth token of one Etsy shop, as the processes of the deployment    *)
(* share it: the row of oauth_tokens in PostgreSQL, its copy in the Redis  *)
(* cache, the Redis refresh lock, and the refresh tokens Etsy will accept. *)
(* A process of Procs is one call at a time: a request of the Etsy client, *)
(* a forced refresh, one round of the hourly task, an OAuth callback or a  *)
(* disconnect.  Every await and every Redis or SQL round trip is a step.   *)
(*                                                                         *)
(* Tokens are numbered in the order Etsy issues them; 0 is "no token".     *)
(***************************************************************************)
EXTENDS Naturals, FiniteSets

CONSTANTS Procs,   \* the calls that run concurrently (API workers, Celery)
          Free,    \* the refresh lock's key does not exist
          MaxGen,  \* bound: tokens Etsy issues in a behaviour
          Calls    \* the kinds of call each of Procs makes

CallKinds == {"client", "forced", "hourly", "callback", "disconnect"}

ASSUME TokenAssumption ==
  /\ Free \notin Procs
  /\ MaxGen \in Nat \ {0}
  /\ Calls \in [Procs -> SUBSET CallKinds]

VARIABLES
  row,      \* the row of oauth_tokens; NoRow when there is none
  cache,    \* the access token cached in Redis, 0 when there is none
  lock,     \* Free, or who SET the key last (Redis itself stores "1")
  status,   \* Shop.status
  valid,    \* Etsy: the refresh tokens it would accept
  next,     \* Etsy: the next token to issue
  aged,     \* access tokens less than five minutes from their expiry
  pc,       \* where each call is
  kind,     \* which call it is
  auto,     \* the auto_refresh argument of the get_token it is in
  snap,     \* the OAuthToken object its session holds
  shop,     \* the status of its Shop object, or "expired"
  reply,    \* the tokens Etsy returned to it
  out,      \* what it returns: an access token, or 0 for None / an exception
  lost,     \* ghost: refresh tokens whose successor was issued and then dropped
  undone,   \* ghost: refresh tokens written back after they had been replaced
  overran,  \* ghost: a lock has expired under a live holder
  began     \* ghost: aged at the time a client's call began

etsyVars  == <<valid, next>>
procVars  == <<pc, kind, auto, snap, reply, out, shop, began>>
ghostVars == <<lost, undone, overran>>
vars == <<row, cache, lock, status, etsyVars, aged, procVars, ghostVars>>

Row     == [id : Nat, acc : Nat, ref : Nat, refreshed : BOOLEAN]
NoRow   == [id |-> 0, acc |-> 0, ref |-> 0, refreshed |-> FALSE]
Pair    == [acc : Nat, ref : Nat]
NoPair  == [acc |-> 0, ref |-> 0]

ShopStatus == {"connected", "revoked"}

\* Row.refreshed: its access token comes from a refresh, not from a callback.
\* Where a call is while it runs the try/finally of refresh_token.
Refreshing == {"read", "call", "commit", "setcache", "release"}
Stages == Refreshing \cup
  {"idle", "cache", "db", "fill", "lock", "wait", "return",
   "exchange", "load", "save", "savecache",
   "find", "delete", "uncache", "close"}

TypeOK ==
  /\ row \in Row
  /\ cache \in Nat
  /\ lock \in Procs \cup {Free}
  /\ status \in ShopStatus
  /\ valid \subseteq Nat
  /\ next \in Nat
  /\ aged \subseteq Nat
  /\ pc \in [Procs -> Stages]
  /\ kind \in [Procs -> CallKinds]
  /\ auto \in [Procs -> BOOLEAN]
  /\ snap \in [Procs -> Row]
  /\ reply \in [Procs -> Pair]
  /\ out \in [Procs -> Nat]
  /\ shop \in [Procs -> ShopStatus \cup {"expired"}]
  /\ lost \subseteq Nat
  /\ undone \subseteq Nat
  /\ overran \in BOOLEAN
  /\ began \in [Procs -> SUBSET Nat]

\* A shop that was connected some time ago: token 1, not cached.
Init ==
  /\ row = [id |-> 1, acc |-> 1, ref |-> 1, refreshed |-> FALSE]
  /\ cache = 0
  /\ lock = Free
  /\ status = "connected"
  /\ valid = {1}
  /\ next = 2
  /\ aged \in SUBSET {1}
  /\ pc = [p \in Procs |-> "idle"]
  /\ kind = [p \in Procs |-> "client"]
  /\ auto = [p \in Procs |-> TRUE]
  /\ snap = [p \in Procs |-> NoRow]
  /\ reply = [p \in Procs |-> NoPair]
  /\ out = [p \in Procs |-> 0]
  /\ shop = [p \in Procs |-> "expired"]
  /\ lost = {}
  /\ undone = {}
  /\ overran = FALSE
  /\ began = [p \in Procs |-> {}]

-----------------------------------------------------------------------------
(* What the steps share.                                                   *)

Goto(p, stage) == pc' = [pc EXCEPT ![p] = stage]

\* The call returns g; a refresh that holds the lock first runs its finally.
Return(p, g) == Goto(p, "return") /\ out' = [out EXCEPT ![p] = g]
Leave(p, g)  == Goto(p, "release") /\ out' = [out EXCEPT ![p] = g]

\* .first() on the row.  The session's identity map keeps an object it has
\* already loaded: the row's existence is read anew, its columns are not.
Seen(p) == IF row.id # 0 /\ snap[p].id = row.id THEN snap[p] ELSE row

\* A commit or a rollback expires the session's objects; the Shop is loaded again
\* when it is looked at next.  (The token is, too, by db.refresh.)
Expire(p) == shop' = [shop EXCEPT ![p] = "expired"]

\* Assigning a status the Shop object already has writes nothing.
StatusAfter(p, new) == IF shop[p] = new THEN status ELSE new

\* The reply of p replaced the refresh token p sent, and did not leave it out
\* (0) or repeat it.
Rotated(p) == reply[p].ref \notin {0, snap[p].ref}

\* What is lost when p stops before it has committed its reply.
Discard(p) ==
  lost' = IF pc[p] = "commit" /\ Rotated(p) THEN lost \cup {snap[p].ref} ELSE lost

\* The call is over, and its locals and its session with it.
End(p) ==
  /\ Goto(p, "idle")
  /\ kind' = [kind EXCEPT ![p] = "client"]
  /\ auto' = [auto EXCEPT ![p] = TRUE]
  /\ snap' = [snap EXCEPT ![p] = NoRow]
  /\ reply' = [reply EXCEPT ![p] = NoPair]
  /\ out' = [out EXCEPT ![p] = 0]
  /\ shop' = [shop EXCEPT ![p] = "expired"]
  /\ began' = [began EXCEPT ![p] = {}]

Begin(p, k, stage, object) ==
  /\ k \in Calls[p]
  /\ pc[p] = "idle"
  /\ Goto(p, stage)
  /\ kind' = [kind EXCEPT ![p] = k]
  /\ auto' = [auto EXCEPT ![p] = TRUE]
  /\ snap' = [snap EXCEPT ![p] = object]
  /\ shop' = [shop EXCEPT ![p] = IF k \in {"client", "disconnect"} THEN status ELSE @]
  /\ began' = [began EXCEPT ![p] = IF k = "client" THEN aged ELSE {}]
  /\ UNCHANGED <<row, cache, lock, status, etsyVars, aged, reply, out, ghostVars>>

\* EtsyClient._get_access_token: get_token(auto_refresh=True).
BeginClient(p) == Begin(p, "client", "cache", NoRow)

\* refresh_token called directly: the shop endpoint, refresh_single_token, and
\* _make_request after a 401.
BeginForced(p) == Begin(p, "forced", "lock", NoRow)

\* The hourly task loads the tokens that expire within 24 hours, which Etsy's
\* one-hour tokens always do, and skips one that was refreshed in the last hour:
\* then it is a token of a callback, or an expiring one, that is refreshed.
BeginHourly(p) ==
  /\ row.id # 0
  /\ row.refreshed => row.acc \in aged
  /\ Begin(p, "hourly", "lock", row)

-----------------------------------------------------------------------------
(* get_token                                                               *)

\* The cached token is returned, refreshed, or passed over for the database.
ReadCache(p) ==
  /\ pc[p] = "cache"
  /\ \/ /\ cache # 0 /\ cache \notin aged
        /\ Return(p, cache)
     \/ /\ cache # 0 /\ cache \in aged /\ auto[p]
        /\ Goto(p, "lock") /\ UNCHANGED out
     \/ /\ cache = 0 \/ (cache \in aged /\ ~auto[p])
        /\ Goto(p, "db") /\ UNCHANGED out
  /\ UNCHANGED <<row, cache, lock, status, etsyVars, aged, kind, auto, snap,
                 reply, shop, began, ghostVars>>

\* Mutant: the expiry of the row is not looked at.
ReadRowNoExpiry(p) ==
  /\ pc[p] = "db"
  /\ snap' = [snap EXCEPT ![p] = Seen(p)]
  /\ IF Seen(p).id = 0 THEN Return(p, 0) ELSE Return(p, Seen(p).acc)
  /\ UNCHANGED <<row, cache, lock, status, etsyVars, aged, kind, auto,
                 reply, shop, began, ghostVars>>

\* No row; a row that needs a refresh; a token to cache; or, for a caller that
\* may not refresh, a token already expiring, which is returned as it is.
ReadRow(p) ==
  /\ pc[p] = "db"
  /\ snap' = [snap EXCEPT ![p] = Seen(p)]
  /\ \/ /\ Seen(p).id = 0
        /\ Return(p, 0)
     \/ /\ Seen(p).id # 0 /\ Seen(p).acc \in aged /\ auto[p]
        /\ Goto(p, "lock") /\ UNCHANGED out
     \/ /\ Seen(p).id # 0 /\ Seen(p).acc \in aged /\ ~auto[p]
        /\ Return(p, Seen(p).acc)
     \/ /\ Seen(p).id # 0 /\ Seen(p).acc \notin aged
        /\ Goto(p, "fill") /\ UNCHANGED out
  /\ UNCHANGED <<row, cache, lock, status, etsyVars, aged, kind, auto,
                 reply, shop, began, ghostVars>>

FillCache(p) ==
  /\ pc[p] = "fill"
  /\ cache' = snap[p].acc
  /\ Return(p, snap[p].acc)
  /\ UNCHANGED <<row, lock, status, etsyVars, aged, kind, auto, snap, reply,
                 shop, began, ghostVars>>

-----------------------------------------------------------------------------
(* refresh_token                                                           *)

\* Mutant: SET without NX.
TryLockNoNX(p) ==
  /\ pc[p] = "lock"
  /\ lock' = p
  /\ Goto(p, "read")
  /\ UNCHANGED <<row, cache, status, etsyVars, aged, kind, auto, snap, reply,
                 out, shop, began, ghostVars>>

\* SET lock "1" NX EX 30.
TryLock(p) ==
  /\ pc[p] = "lock"
  /\ \/ lock = Free /\ lock' = p /\ Goto(p, "read")
     \/ lock # Free /\ UNCHANGED lock /\ Goto(p, "wait")
  /\ UNCHANGED <<row, cache, status, etsyVars, aged, kind, auto, snap, reply,
                 out, shop, began, ghostVars>>

\* Mutant: the waiter calls get_token with its default, auto_refresh=True.
WaitThenRefresh(p) ==
  /\ pc[p] = "wait"
  /\ \/ lock = Free /\ Goto(p, "cache") /\ UNCHANGED out
     \/ lock # Free /\ Return(p, 0)
  /\ UNCHANGED <<row, cache, lock, status, etsyVars, aged, kind, auto, snap,
                 reply, shop, began, ghostVars>>

\* A waiter polls for 25 seconds: the lock is gone and it reads the token
\* again, without refreshing, or it gives up.
Wait(p) ==
  /\ pc[p] = "wait"
  /\ \/ /\ lock = Free
        /\ auto' = [auto EXCEPT ![p] = FALSE]
        /\ Goto(p, "cache") /\ UNCHANGED out
     \/ /\ lock # Free
        /\ Return(p, 0) /\ UNCHANGED auto
  /\ UNCHANGED <<row, cache, lock, status, etsyVars, aged, kind, snap, reply,
                 shop, began, ghostVars>>

\* The holder reads the refresh token it will send.
ReadRefreshToken(p) ==
  /\ pc[p] = "read"
  /\ snap' = [snap EXCEPT ![p] = Seen(p)]
  /\ IF Seen(p).id = 0 THEN Leave(p, 0) ELSE Goto(p, "call") /\ UNCHANGED out
  /\ UNCHANGED <<row, cache, lock, status, etsyVars, aged, kind, auto, reply,
                 shop, began, ghostVars>>

\* Mutant: the answer is cached before it is committed.
EtsyGrantsThenCached(p) ==
  /\ pc[p] = "call"
  /\ snap[p].ref \in valid
  /\ next <= MaxGen
  /\ next' = next + 1
  /\ valid' = (valid \ {snap[p].ref}) \cup {next}
  /\ reply' = [reply EXCEPT ![p] = [acc |-> next, ref |-> next]]
  /\ cache' = next
  /\ Goto(p, "commit")
  /\ UNCHANGED <<row, lock, status, aged, kind, auto, snap, out, shop, began, ghostVars>>

\* Etsy takes the refresh token and issues an access token, usually with a new
\* refresh token that invalidates the one sent; the code is ready for a reply
\* without one ("may return a new one"), and one may repeat the token sent.
EtsyGrants(p) ==
  /\ pc[p] = "call"
  /\ snap[p].ref \in valid
  /\ next <= MaxGen
  /\ next' = next + 1
  /\ \/ /\ valid' = (valid \ {snap[p].ref}) \cup {next}
        /\ reply' = [reply EXCEPT ![p] = [acc |-> next, ref |-> next]]
     \/ /\ UNCHANGED valid
        /\ \E r \in {snap[p].ref, 0} :
             reply' = [reply EXCEPT ![p] = [acc |-> next, ref |-> r]]
  /\ Goto(p, "commit")
  /\ UNCHANGED <<row, cache, lock, status, aged, kind, auto, snap, out, shop, began,
                 ghostVars>>

\* The same, and the answer never arrives: the new pair is gone.
EtsyReplyLost(p) ==
  /\ pc[p] = "call"
  /\ snap[p].ref \in valid
  /\ next <= MaxGen
  /\ next' = next + 1
  /\ valid' = (valid \ {snap[p].ref}) \cup {next}
  /\ lost' = lost \cup {snap[p].ref}
  /\ Leave(p, 0)
  /\ Expire(p)
  /\ UNCHANGED <<row, cache, lock, status, aged, kind, auto, snap, reply,
                 began, undone, overran>>

\* Etsy rejects the token, or cannot be reached: TokenRefreshError.
EtsyRefuses(p) ==
  /\ pc[p] = "call"
  /\ Leave(p, 0)
  /\ Expire(p)
  /\ UNCHANGED <<row, cache, lock, status, etsyVars, aged, kind, auto, snap,
                 reply, began, ghostVars>>

\* Mutant: the new refresh token is not stored.
CommitAccessOnly(p) ==
  /\ pc[p] = "commit"
  /\ row.id = snap[p].id
  /\ row' = [row EXCEPT !.acc = reply[p].acc, !.refreshed = TRUE]
  /\ Goto(p, "setcache")
  /\ Expire(p)
  /\ UNCHANGED <<cache, lock, status, etsyVars, aged, kind, auto, snap, reply,
                 out, began, ghostVars>>

\* What the reply has is written to the row that was read: also a refresh token
\* that equals the one sent, for it is encrypted anew, over whatever another call
\* has stored meanwhile.
CommitRefresh(p) ==
  /\ pc[p] = "commit"
  /\ row.id = snap[p].id
  /\ row' = [row EXCEPT !.acc = reply[p].acc,
                        !.ref = IF reply[p].ref # 0 THEN reply[p].ref ELSE @,
                        !.refreshed = TRUE]
  /\ undone' = undone \cup ({reply[p].ref} \ (valid \cup {0}))
  /\ Goto(p, "setcache")
  /\ Expire(p)
  /\ UNCHANGED <<cache, lock, status, etsyVars, aged, kind, auto, snap, reply,
                 out, began, lost, overran>>

\* The commit fails, as it must once the row was deleted (StaleDataError): the
\* session rolls back, and what Etsy issued is dropped.
CommitFails(p) ==
  /\ pc[p] = "commit"
  /\ Discard(p)
  /\ Leave(p, 0)
  /\ Expire(p)
  /\ UNCHANGED <<row, cache, lock, status, etsyVars, aged, kind, auto, snap,
                 reply, began, undone, overran>>

\* db.refresh(oauth_token) reads the row back, which raises when the row has
\* been deleted since the commit, and the new access token is cached.  (The
\* expiry cached with it is the row's: that of another writer's token of the
\* same seconds when one committed in between, so not told apart here.)
ReloadFails(p) ==
  /\ pc[p] = "setcache"
  /\ row.id # snap[p].id
  /\ Leave(p, 0)
  /\ Expire(p)
  /\ UNCHANGED <<row, cache, lock, status, etsyVars, aged, kind, auto, snap,
                 reply, began, ghostVars>>

CacheRefreshed(p) ==
  /\ pc[p] = "setcache"
  /\ cache' = reply[p].acc
  /\ Leave(p, reply[p].acc)
  /\ UNCHANGED <<row, lock, status, etsyVars, aged, kind, auto, snap, reply,
                 shop, began, ghostVars>>

\* finally: DEL the key, whoever set it.
ReleaseLock(p) ==
  /\ pc[p] = "release"
  /\ lock' = Free
  /\ Goto(p, "return")
  /\ UNCHANGED <<row, cache, status, etsyVars, aged, kind, auto, snap, reply,
                 out, shop, began, ghostVars>>

\* The call is over.  Without a token the Etsy client marks the shop revoked,
\* whatever the reason: None, TokenRefreshError, or any other exception, for
\* all of their messages say "token".
Finish(p) ==
  /\ pc[p] = "return"
  /\ status' = IF kind[p] = "client" /\ out[p] = 0 THEN StatusAfter(p, "revoked") ELSE status
  /\ End(p)
  /\ UNCHANGED <<row, cache, lock, etsyVars, aged, ghostVars>>

-----------------------------------------------------------------------------
(* The OAuth callback (save_token) and the disconnect (revoke_token).      *)

BeginCallback(p)   == Begin(p, "callback", "exchange", NoRow)
BeginDisconnect(p) == Begin(p, "disconnect", "find", NoRow)

\* The authorization code is exchanged for the tokens of a new grant.
ExchangeCode(p) ==
  /\ pc[p] = "exchange"
  /\ next <= MaxGen
  /\ valid' = valid \cup {next}
  /\ reply' = [reply EXCEPT ![p] = [acc |-> next, ref |-> next]]
  /\ next' = next + 1
  /\ Goto(p, "load")
  /\ UNCHANGED <<row, cache, lock, status, aged, kind, auto, snap, out, shop, began,
                 ghostVars>>

\* save_token looks for the shop's row ...
LoadForSave(p) ==
  /\ pc[p] = "load"
  /\ snap' = [snap EXCEPT ![p] = row]
  /\ shop' = [shop EXCEPT ![p] = status]
  /\ Goto(p, "save")
  /\ UNCHANGED <<row, cache, lock, status, etsyVars, aged, kind, auto, reply,
                 out, began, ghostVars>>

\* ... and updates it or inserts one, in the transaction that also sets the
\* shop's status.  The other process's delete or insert makes it fail.
SaveToken(p) ==
  /\ pc[p] = "save"
  /\ \/ /\ row.id = snap[p].id
        /\ row' = [id     |-> IF row.id # 0 THEN row.id ELSE reply[p].acc,
                   acc    |-> reply[p].acc,
                   ref    |-> reply[p].ref,
                   refreshed |-> FALSE]
        /\ status' = StatusAfter(p, "connected")
        /\ Goto(p, "savecache")
     \/ /\ row.id # snap[p].id
        /\ Goto(p, "return")
        /\ UNCHANGED <<row, status>>
  /\ out' = [out EXCEPT ![p] = 0]
  /\ UNCHANGED <<cache, lock, etsyVars, aged, kind, auto, snap, reply, shop, began,
                 ghostVars>>

CacheSaved(p) ==
  /\ pc[p] = "savecache"
  /\ cache' = reply[p].acc
  /\ Return(p, reply[p].acc)
  /\ UNCHANGED <<row, lock, status, etsyVars, aged, kind, auto, snap, reply,
                 shop, began, ghostVars>>

\* revoke_token: without a row it does nothing, not even to the cache.
FindForRevoke(p) ==
  /\ pc[p] = "find"
  /\ snap' = [snap EXCEPT ![p] = row]
  /\ Goto(p, IF row.id = 0 THEN "close" ELSE "delete")
  /\ UNCHANGED <<row, cache, lock, status, etsyVars, aged, kind, auto, reply,
                 out, shop, began, ghostVars>>

\* DELETE by primary key: another process may have deleted the row before.
DeleteRow(p) ==
  /\ pc[p] = "delete"
  /\ row' = IF row.id = snap[p].id THEN NoRow ELSE row
  /\ Goto(p, "uncache")
  /\ Expire(p)
  /\ UNCHANGED <<cache, lock, status, etsyVars, aged, kind, auto, snap, reply,
                 out, began, ghostVars>>

DeleteCached(p) ==
  /\ pc[p] = "uncache"
  /\ cache' = 0
  /\ Goto(p, "close")
  /\ UNCHANGED <<row, lock, status, etsyVars, aged, kind, auto, snap, reply,
                 out, shop, began, ghostVars>>

\* Mutant: a status the column's CHECK constraint does not know.
CloseShopDisconnected(p) ==
  /\ pc[p] = "close"
  /\ status' = "disconnected"
  /\ Return(p, 0)
  /\ UNCHANGED <<row, cache, lock, etsyVars, aged, kind, auto, snap, reply,
                 shop, began, ghostVars>>

CloseShop(p) ==
  /\ pc[p] = "close"
  /\ status' = StatusAfter(p, "revoked")
  /\ Return(p, 0)
  /\ UNCHANGED <<row, cache, lock, etsyVars, aged, kind, auto, snap, reply,
                 shop, began, ghostVars>>

-----------------------------------------------------------------------------
(* Time, Redis and failures.                                               *)

\* A token in use comes within five minutes of its expiry.  It lives for an
\* hour: no call that obtained it is still running.
Age(g) ==
  /\ g \in {row.acc, cache} \ (aged \cup {0})
  /\ \A p \in Procs : reply[p].acc # g
  /\ aged' = aged \cup {g}
  /\ UNCHANGED <<row, cache, lock, status, etsyVars, procVars, ghostVars>>

\* The TTL of the cached token ends at the five-minute mark.
CacheExpires ==
  /\ cache \in aged
  /\ cache' = 0
  /\ UNCHANGED <<row, lock, status, etsyVars, aged, procVars, ghostVars>>

\* The lock's 30 seconds are over, its holder dead or merely slow.
LockExpires ==
  /\ lock # Free
  /\ lock' = Free
  /\ overran' = (overran \/ pc[lock] \in Refreshing)
  /\ UNCHANGED <<row, cache, status, etsyVars, aged, procVars, lost, undone>>

\* The process dies (deploy, OOM, the 300-second task limit): no finally.
Crash(p) ==
  /\ pc[p] # "idle"
  /\ Discard(p)
  /\ End(p)
  /\ UNCHANGED <<row, cache, lock, status, etsyVars, aged, undone, overran>>

-----------------------------------------------------------------------------
GetTokenStep(p) == ReadCache(p) \/ ReadRow(p) \/ FillCache(p)

RefreshStep(p) ==
  \/ TryLock(p) \/ Wait(p) \/ ReadRefreshToken(p)
  \/ EtsyGrants(p) \/ EtsyReplyLost(p) \/ EtsyRefuses(p)
  \/ CommitRefresh(p) \/ CommitFails(p) \/ ReloadFails(p) \/ CacheRefreshed(p)
  \/ ReleaseLock(p)

SaveStep(p) == LoadForSave(p) \/ SaveToken(p) \/ CacheSaved(p)

RevokeStep(p) == FindForRevoke(p) \/ DeleteRow(p) \/ DeleteCached(p) \/ CloseShop(p)

\* The steps a running call takes by itself.
Step(p) == GetTokenStep(p) \/ RefreshStep(p) \/ SaveStep(p) \/ RevokeStep(p) \/ Finish(p)

BeginCall(p) ==
  \/ BeginClient(p) \/ BeginForced(p) \/ BeginHourly(p)
  \/ BeginCallback(p) \/ BeginDisconnect(p)

Environment ==
  \/ \E g \in 1..MaxGen : Age(g)
  \/ CacheExpires \/ LockExpires

Next ==
  \/ \E p \in Procs : BeginCall(p) \/ Step(p) \/ ExchangeCode(p) \/ Crash(p)
  \/ Environment

Spec == Init /\ [][Next]_vars

\* A started call keeps running: the event loop and the Celery worker schedule
\* it; httpx and the poll have timeouts.  Nothing is assumed of who starts a
\* call, of Etsy's answers, of the shop's owner, or of a lock ever to expire.
FairSpec == Spec /\ \A p \in Procs : WF_vars(Step(p))

-----------------------------------------------------------------------------
(* Properties                                                              *)

\* "Only one refresh happens at a time even across multiple workers": at most
\* one call is between SET NX and the finally of refresh_token, through
\* crashes, as long as no refresh has outlived its 30-second lock.
SingleFlight ==
  ~overran =>
    \A p, q \in Procs : pc[p] \in Refreshing /\ pc[q] \in Refreshing => p = q

\* The refresh token in the database is never one that Etsy has replaced while
\* its successor is forgotten: either Etsy accepts it, or a call is about to
\* store the successor, or the answer, the commit or the process was lost, or a
\* reply that repeats it was committed over its successor, which takes a refresh
\* that has outlived its lock.  No other interleaving of refreshes, callbacks and
\* disconnects loses the shop.
GrantPreserved ==
  /\ row.id # 0 =>
       \/ row.ref \in valid \cup lost \cup undone
       \/ \E p \in Procs : pc[p] = "commit" /\ Rotated(p) /\ snap[p].ref = row.ref
  /\ undone # {} => overran

\* The cache never holds an access token whose transaction is still open: a
\* crash or a failed commit cannot leave a token that only Redis knows.
CachedWasCommitted ==
  \A p \in Procs : pc[p] \in {"commit", "load", "save"} => cache # reply[p].acc

\* The client is handed a token that was already expiring when it asked only
\* if it waited for another call's refresh (which then did not help).
ExpiringOnlyAfterWait ==
  \A p \in Procs :
    pc[p] = "return" /\ kind[p] = "client" /\ out[p] \in began[p] => ~auto[p]

\* Every call of the token manager returns: a waiter never waits for ever, nor
\* goes round between waiting and refreshing.
EveryCallReturns ==
  \A p \in Procs : pc[p] \notin {"idle", "exchange"} ~> pc[p] = "idle"

\* "Mark a shop as revoked when its OAuth token is permanently invalid": the
\* client marks a shop only if Etsy would refuse the refresh token it has.
RevokedOnlyIfInvalid ==
  [][\A p \in Procs :
       Finish(p) /\ status = "connected" /\ status' = "revoked"
         => row.id = 0 \/ row.ref \notin valid]_vars
=============================================================================
