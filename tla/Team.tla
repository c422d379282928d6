--------------------------------- MODULE Team ---------------------------------
(***************************************************************************)
(* One tenant: its memberships, their roles and shop lists, its shops, the *)
(* sessions of its members and a connect link (team.py, dependencies.py,   *)
(* rbac.py, shops.py).                                                     *)
(*                                                                         *)
(* A session carries the role its user had when the access token was made; *)
(* a request is judged by that role, and by whether the database still has *)
(* an accepted membership.  Workers of the API interleave between the      *)
(* queries of a request and its commit.  A commit writes the columns the   *)
(* request changed and no others, and fails on a row deleted since.        *)
(***************************************************************************)
EXTENDS Naturals, FiniteSets

CONSTANTS Users, Founder, Shops,
          Workers,     \* the API's worker processes
          Kinds,       \* the requests that arrive
          MaxRequests  \* bound: requests served

Roles == {"owner", "admin", "viewer", "supplier"}

AllKinds == {"invite", "accept", "role", "access", "remove", "list",
             "connect", "return", "disconnect", "delete", "start"}

ASSUME TeamAssumption ==
  Founder \in Users /\ Kinds \subseteq AllKinds /\ MaxRequests \in Nat

VARIABLES
  memb,      \* memberships: one per user and tenant
  shop,      \* shops by id
  token,     \* the role in each user's access token
  link,      \* the Founder's connect link: used_at set, the flows it started,
             \* and those that came back from Etsy
  pc, req,   \* where each worker is, and the request it serves
  snap,      \* the memberships as its request read them
  shops,     \* the shops as its request read them
  served,    \* requests served so far
  granted,   \* the shop list each member was last given, by name or on joining
  carried,   \* members with a list from elsewhere: as owners or admins they had
             \* been, or by connecting a shop themselves
  outdated,  \* a request committed although its grounds had changed
  overlap    \* two starts of the link were under way at once

conn  == <<link, overlap>>
procs == <<pc, req, snap, shops, served>>
ghost == <<granted, carried, outdated>>
vars  == <<memb, shop, token, conn, procs, ghost>>

Membership == [status : {"none", "pending", "accepted"}, role : Roles,
               shops : SUBSET Shops]
Request == [kind : AllKinds, by : Users, to : Users, role : Roles,
            shops : SUBSET Shops, claim : Roles \cup {"none"}]
Absent == [status |-> "none", role |-> "viewer", shops |-> {}]
NoRequest == [kind |-> "list", by |-> Founder, to |-> Founder, role |-> "viewer",
              shops |-> {}, claim |-> "none"]

\* Every variable has its type, and every row its columns.
TypeOK ==
  /\ memb \in [Users -> Membership]
  /\ shop \in [Shops -> {"absent", "connected", "revoked", "deleted"}]
  /\ token \in [Users -> Roles \cup {"none"}]
  /\ link \in [used : BOOLEAN, flows : Nat, back : Nat]
  /\ pc \in [Workers -> {"idle", "loaded", "marked"}]
  /\ req \in [Workers -> Request]
  /\ snap \in [Workers -> [Users -> Membership]]
  /\ shops \in [Workers -> SUBSET Shops]
  /\ served \in Nat
  /\ granted \in [Users -> SUBSET Shops] /\ carried \subseteq Users
  /\ {outdated, overlap} \subseteq BOOLEAN

\* The founder has registered; others may have joined, in any role.
Init ==
  /\ memb \in [Users -> [status : {"none", "accepted"}, role : Roles, shops : {{}}]]
  /\ \A u \in Users : memb[u].status = "none" => memb[u] = Absent
  /\ memb[Founder].status = "accepted" /\ memb[Founder].role = "owner"
  /\ shop = [s \in Shops |-> "absent"]
  /\ token = [u \in Users |-> "none"]
  /\ link = [used |-> FALSE, flows |-> 0, back |-> 0]
  /\ pc = [p \in Workers |-> "idle"]
  /\ req = [p \in Workers |-> NoRequest]
  /\ snap = [p \in Workers |-> memb]
  /\ shops = [p \in Workers |-> {}]
  /\ served = 0
  /\ granted = [u \in Users |-> {}] /\ carried = {}
  /\ outdated = FALSE /\ overlap = FALSE

(***************************************************************************)
(* Sessions.                                                               *)
(***************************************************************************)
Member(u) == memb[u].status = "accepted"

\* login, and refresh with the refresh cookie: the role the database has.
SignIn(u) ==
  /\ Member(u)
  /\ token' = [token EXCEPT ![u] = memb[u].role]
  /\ UNCHANGED <<memb, shop, conn, procs, ghost>>

\* logout, or the access token has expired.
SignOut(u) ==
  /\ token[u] # "none"
  /\ token' = [token EXCEPT ![u] = "none"]
  /\ UNCHANGED <<memb, shop, conn, procs, ghost>>

(***************************************************************************)
(* Loading: the dependencies, and what the handler asks before it writes.  *)
(***************************************************************************)
\* ROLE_PERMISSIONS: the kinds that ask for MANAGE_TEAM, CONNECT_SHOP or
\* DISCONNECT_SHOP are for owners and admins.
Manages(role) == role \in {"owner", "admin"}

\* get_user_context: the token's role, the membership of the database.
Context(u) == token[u] # "none" /\ Member(u)

Known     == {s \in Shops : shop[s] \in {"connected", "revoked"}}
Connected == {s \in Shops : shop[s] = "connected"}

\* ensure_shop_access: a list that is not empty binds every role.
Reaches(u, s) == s \in Known /\ IF memb[u].shops # {} THEN s \in memb[u].shops
                                                      ELSE Manages(token[u])

\* Mutant: an admin may change an owner.
OwnersOnlyForOwnersNot(q) == q.role = "owner" => token[q.by] = "owner"

\* Only an owner makes an owner, or changes one.
OwnersOnlyForOwners(q) ==
  (q.role = "owner" \/ memb[q.to].role = "owner") => token[q.by] = "owner"

\* Pending owners count, too.
Owners == {u \in Users : memb[u].status # "none" /\ memb[u].role = "owner"}

Removable(q) ==
  /\ memb[q.to].status # "none"
  /\ memb[q.to].role = "owner" => token[q.by] = "owner" /\ Cardinality(Owners) > 1

\* Mutant: list_shops fills in the list of every member.
BackfillsAll(q) == Known # {}

\* list_shops writes the list of an owner or admin, when it is not complete.
Backfills(q) == Manages(token[q.by]) /\ memb[q.by].shops # Known

ForTeam(q) == Context(q.by) /\ Manages(token[q.by])

\* etsy_oauth_callback finds the state of a flow in Redis and asks for no role: a
\* flow begun in the app ("connect") wants a session of any member, one begun at
\* the connect link ("return") wants nothing but a state not used yet.
Calls(q) ==
  /\ \/ q.kind = "connect" /\ Context(q.by)
     \/ q.kind = "return" /\ link.back < link.flows
  /\ \E s \in q.shops : shop[s] # "deleted"

Admitted(q) ==
  \/ q.kind = "invite" /\ ForTeam(q) /\ memb[q.to].status = "none"
  \/ q.kind = "accept" /\ memb[q.to].status = "pending"
  \/ /\ q.kind = "role" /\ ForTeam(q) /\ q.by # q.to
     /\ memb[q.to].status # "none" /\ OwnersOnlyForOwners(q)
  \/ /\ q.kind = "access" /\ ForTeam(q) /\ q.by # q.to
     /\ memb[q.to].status # "none" /\ memb[q.to].role \in {"viewer", "supplier"}
     /\ q.shops \subseteq Known
  \/ q.kind = "remove" /\ ForTeam(q) /\ q.by # q.to /\ Removable(q)
  \/ q.kind = "list" /\ Context(q.by) /\ Backfills(q)
  \/ Calls(q)
  \/ q.kind \in {"disconnect", "delete"} /\ ForTeam(q) /\ \E s \in q.shops : Reaches(q.by, s)
  \/ q.kind = "start" /\ ~link.used

\* What a request says: a new role, a list of shops, the shop it is about.
Said(q) ==
  /\ q.kind \notin {"invite", "role"} => q.role = "viewer"
  /\ q.kind \in {"invite", "accept", "role", "remove", "list", "start"} => q.shops = {}
  /\ q.kind \in {"connect", "return", "disconnect", "delete"} => Cardinality(q.shops) = 1
  /\ q.kind \notin {"invite", "accept", "role", "access", "remove"} => q.to = q.by
  /\ q.kind \in {"accept", "start", "return"} => q.by = Founder

Claiming(q, role) ==
  [kind |-> q.kind, by |-> q.by, to |-> q.to, role |-> q.role, shops |-> q.shops, claim |-> role]

\* The kinds that are decided on no role.
Roleless == {"accept", "start", "connect", "return"}

Load(p) ==
  /\ pc[p] = "idle" /\ served < MaxRequests
  /\ \E q \in [kind : Kinds, by : Users, to : Users, role : Roles, shops : SUBSET Shops] :
       LET claim == IF q.kind \in Roleless THEN "none" ELSE token[q.by]
       IN /\ Said(q) /\ Admitted(q)
          /\ req' = [req EXCEPT ![p] = Claiming(q, claim)]
          /\ shops' = [shops EXCEPT ![p] = IF q.kind = "accept" THEN Connected ELSE Known]
          /\ overlap' = (overlap \/ (q.kind = "start" /\ \E w \in Workers :
                                        pc[w] = "loaded" /\ req[w].kind = "start"))
          /\ link' = [link EXCEPT !.back = IF q.kind = "return" THEN @ + 1 ELSE @]
  /\ snap' = [snap EXCEPT ![p] = memb]
  /\ pc' = [pc EXCEPT ![p] = "loaded"]
  /\ served' = served + 1
  /\ UNCHANGED <<memb, shop, token, ghost>>

(***************************************************************************)
(* Committing.                                                             *)
(***************************************************************************)
Serving(p, k) == pc[p] = "loaded" /\ req[p].kind = k

\* What p's decision rests on still holds: the role its token claims, if it is
\* asked for one, and the membership it is about.
Grounds(p) ==
  LET q == req[p]
  IN /\ q.claim # "none" => Member(q.by) /\ memb[q.by].role = q.claim
     /\ memb[q.to] = snap[p][q.to]

\* The columns that differ from those p loaded.
Write(p, u, new) ==
  memb' = [memb EXCEPT ![u] =
             [c \in DOMAIN @ |-> IF new[c] # snap[p][u][c] THEN new[c] ELSE @[c]]]

\* u has a new list, or none any more, by somebody's decision.
Given(u, list) ==
  granted' = [granted EXCEPT ![u] = list] /\ carried' = carried \ {u}

Done(p) ==
  /\ pc' = [pc EXCEPT ![p] = "idle"]
  /\ req' = [req EXCEPT ![p] = NoRequest]
  /\ snap' = [snap EXCEPT ![p] = [u \in Users |-> Absent]]
  /\ shops' = [shops EXCEPT ![p] = {}]
  /\ UNCHANGED <<token, served, overlap>>

\* etsy_oauth_callback writes the list of an accepted member that was empty; one
\* that was not is appended to in place, which no commit notices.
Listed(p) ==
  LET m == snap[p][req[p].by] IN m.status = "accepted" /\ m.shops = {}

\* A membership inserted twice (uq_user_tenant); an UPDATE of a membership, or
\* of a shop, that has been deleted since.
Fails(p) ==
  LET q == req[p]
  IN \/ q.kind = "invite" /\ memb[q.to].status # "none"
     \/ q.kind \in {"accept", "role", "access", "list"} /\ memb[q.to].status = "none"
     \/ q.kind \in {"connect", "return"} /\ Listed(p) /\ memb[q.by].status = "none"
     \/ /\ q.kind \in {"connect", "return", "disconnect"}
        /\ \E s \in q.shops : shop[s] = "deleted"

Failed(p) ==
  /\ pc[p] = "loaded" /\ Fails(p)
  /\ Done(p)
  /\ UNCHANGED <<memb, shop, link, ghost>>

Commits(p, k) ==
  /\ Serving(p, k) /\ ~Fails(p)
  /\ Done(p)
  /\ outdated' = (outdated \/ ~Grounds(p))

Invite(p) ==
  /\ Commits(p, "invite")
  /\ LET u == req[p].to
     IN /\ memb' = [memb EXCEPT ![u] = [status |-> "pending", role |-> req[p].role, shops |-> {}]]
        /\ Given(u, {})
  /\ UNCHANGED <<shop, link>>

\* Mutant: a status the column's CHECK constraint does not know.
JoinedActive(m, all) == [m EXCEPT !.status = "active"]

\* accept_invitation: a supplier gets the shops connected at the time.
Joined(m, all) ==
  [m EXCEPT !.status = "accepted",
            !.shops = IF m.role = "supplier" /\ all # {} THEN all ELSE @]

Accept(p) ==
  /\ Commits(p, "accept")
  /\ LET u == req[p].to
         new == Joined(snap[p][u], shops[p])
     IN /\ Write(p, u, new)
        /\ IF new.shops = snap[p][u].shops THEN UNCHANGED <<granted, carried>>
                                            ELSE Given(u, new.shops)
  /\ UNCHANGED <<shop, link>>

UpdateRole(p) ==
  /\ Commits(p, "role")
  /\ LET u == req[p].to
     IN /\ Write(p, u, [snap[p][u] EXCEPT !.role = req[p].role])
        /\ carried' = IF Manages(memb[u].role) THEN carried \cup {u} ELSE carried
  /\ UNCHANGED <<shop, link, granted>>

UpdateAccess(p) ==
  /\ Commits(p, "access")
  /\ LET u == req[p].to
     IN Write(p, u, [snap[p][u] EXCEPT !.shops = req[p].shops]) /\ Given(u, req[p].shops)
  /\ UNCHANGED <<shop, link>>

Remove(p) ==
  /\ Commits(p, "remove")
  /\ memb' = [memb EXCEPT ![req[p].to] = Absent]
  /\ Given(req[p].to, {})
  /\ UNCHANGED <<shop, link>>

\* list_shops: allowed_shop_ids becomes all shops of the tenant.
ListShops(p) ==
  /\ Commits(p, "list")
  /\ LET u == req[p].by
     IN Write(p, u, [snap[p][u] EXCEPT !.shops = shops[p]])
  /\ UNCHANGED <<shop, link, granted, carried>>

\* etsy_oauth_callback: the shop, and the list of the user who connects it, or
\* who made the link.
Connect(p) ==
  /\ Commits(p, "connect") \/ Commits(p, "return")
  /\ \E s \in req[p].shops : shop' = [shop EXCEPT ![s] = "connected"]
  /\ LET u == req[p].by
     IN IF Listed(p)
        THEN /\ Write(p, u, [snap[p][u] EXCEPT !.shops = req[p].shops])
             /\ carried' = carried \cup {u}
        ELSE UNCHANGED <<memb, carried>>
  /\ UNCHANGED <<link, granted>>

Disconnect(p) ==
  /\ Commits(p, "disconnect")
  /\ \E s \in req[p].shops : shop' = [shop EXCEPT ![s] = "revoked"]
  /\ UNCHANGED <<memb, link, granted, carried>>

Delete(p) ==
  /\ Commits(p, "delete")
  /\ \E s \in req[p].shops : shop' = [shop EXCEPT ![s] = "deleted"]
  /\ UNCHANGED <<memb, link, granted, carried>>

\* Mutant: the start of a flow leaves the link as it is.
MarkedNot == link

\* start_oauth_from_connect_link: used_at is committed, the state of the OAuth
\* flow goes to Redis after that, and a crash comes between them.
Marked == [link EXCEPT !.used = TRUE]

Start(p) ==
  /\ Serving(p, "start")
  /\ link' = Marked
  /\ pc' = [pc EXCEPT ![p] = "marked"]
  /\ UNCHANGED <<memb, shop, token, overlap, req, snap, shops, served, ghost>>

Flow(p) ==
  /\ pc[p] = "marked" /\ Done(p)
  /\ link' = [link EXCEPT !.flows = @ + 1]
  /\ UNCHANGED <<memb, shop, ghost>>

Crash(p) ==
  /\ pc[p] # "idle" /\ Done(p)
  /\ UNCHANGED <<memb, shop, link, ghost>>

Step(p) ==
  \/ Load(p) \/ Failed(p) \/ Crash(p)
  \/ Invite(p) \/ Accept(p) \/ UpdateRole(p) \/ UpdateAccess(p) \/ Remove(p)
  \/ ListShops(p) \/ Connect(p) \/ Disconnect(p) \/ Delete(p)
  \/ Start(p) \/ Flow(p)

Next ==
  \/ \E u \in Users : SignIn(u) \/ SignOut(u)
  \/ \E p \in Workers : Step(p)

Spec == Init /\ [][Next]_vars

(***************************************************************************)
(* Properties.                                                             *)
(***************************************************************************)
\* team.py 564, "Must have at least one owner remaining": no sequence of
\* requests leaves the tenant without an owner who has joined, unless a request
\* was decided on a role or a membership that had changed by its commit.
OwnerRemains ==
  outdated \/ \E u \in Users : Member(u) /\ memb[u].role = "owner"

\* team.py 500-548, shops.py 383-412: whatever list_shops writes into the lists
\* of owners and admins, the shops of a member who never was one and connected
\* none himself are those given to him, by name or when he joined.  A list filled
\* in for an owner or admin stays with him in his next role, until he is given
\* another.
AccessAsGiven ==
  outdated \/ \A u \in Users \ carried :
    Manages(memb[u].role) \/ memb[u].shops = granted[u]

\* shops.py 106, "can only be used once": a connect link starts one flow,
\* unless two visitors started it at once.
LinkOnce == link.flows > 1 => overlap
=============================================================================
