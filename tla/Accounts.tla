------------------------------- MODULE Accounts -------------------------------
(***************************************************************************)
(* The account of one mail address: its users row, its membership of the   *)
(* tenant it registered (home) and of a team that invites it (team), and   *)
(* the requests of auth.py and team.py that change them.  (google_callback *)
(* of endpoints/google_oauth.py changes nothing: it assigns its logger     *)
(* further down, line 156, and raises where it first uses it, line 83.)    *)
(*                                                                         *)
(* An endpoint runs without awaiting between its query and its commit, so  *)
(* requests interleave only across the API's worker processes.  A worker   *)
(* loads the row, checks it, and later commits the columns its handler     *)
(* changed and no others: a column set to the value it was loaded with is  *)
(* not written, whatever another worker wrote meanwhile.                   *)
(*                                                                         *)
(* A request its checks refuse changes nothing and is no step; a link past *)
(* its expiry is such a refusal, at a time left open.                      *)
(***************************************************************************)
EXTENDS Naturals, FiniteSets

CONSTANTS Workers,        \* the API's worker processes
          Passwords,      \* passwords that are set or tried
          NoPassword,     \* password_hash is NULL
          VerifyRequired, \* EMAIL_VERIFICATION_REQUIRED
          MaxAttempts,    \* MAX_LOGIN_ATTEMPTS
          LockTime,       \* ACCOUNT_LOCKOUT_MINUTES
          Requests,       \* the kinds of request each worker serves
          MaxTime,        \* bound: the clock stops
          MaxMails,       \* bound: links mailed
          MaxWrong        \* bound: wrong passwords between two resets

Kinds == {"register", "login", "verify", "resend", "forgot", "reset",
          "invite", "accept", "remove", "google"}

ASSUME AccountAssumption ==
  /\ NoPassword \notin Passwords
  /\ VerifyRequired \in BOOLEAN
  /\ Requests \in [Workers -> SUBSET Kinds]
  /\ {MaxAttempts, LockTime} \subseteq Nat \ {0}
  /\ {MaxTime, MaxMails, MaxWrong} \subseteq Nat

VARIABLES
  acct,    \* the committed row, with its two memberships
  now,     \* the clock
  mails,   \* links mailed so far; a link is its number
  pc,      \* where each worker is
  req,     \* the request it serves
  snap,    \* the row as it loaded it
  stale,   \* workers whose row another one has changed since
  wrong,   \* wrong passwords answered since the last clean reset
  raced,   \* a login committed on a stale row since then
  mailed,  \* the newest reset link; 0 once it has been used
  crossed  \* a reset loaded before it was mailed committed after

served == <<pc, req, snap>>
login  == <<wrong, raced>>
link   == <<mailed, crossed>>
vars   == <<acct, now, mails, served, stale, login, link>>

Row == [on : BOOLEAN, pass : Passwords \cup {NoPassword}, verified : BOOLEAN,
        vtok : Nat, rtok : Nat, fails : Nat, lock : Nat,
        home : BOOLEAN,
        team : {"none", "pending", "accepted"}]
Request == [kind : Kinds, word : Passwords \cup {NoPassword}, link : Nat]

NoRow == [on |-> FALSE, pass |-> NoPassword, verified |-> FALSE, vtok |-> 0,
          rtok |-> 0, fails |-> 0, lock |-> 0,
          home |-> FALSE, team |-> "none"]
NoRequest == [kind |-> "login", word |-> NoPassword, link |-> 0]

\* Every variable has its type: columns, the requests' loaded rows, counters.
TypeOK ==
  /\ acct \in Row
  /\ {now, mails, wrong, mailed} \subseteq Nat
  /\ pc \in [Workers -> {"idle", "loaded"}]
  /\ req \in [Workers -> Request]
  /\ snap \in [Workers -> Row]
  /\ stale \subseteq Workers
  /\ {raced, crossed} \subseteq BOOLEAN

Init ==
  /\ acct = NoRow
  /\ now = 1 /\ mails = 0
  /\ pc = [p \in Workers |-> "idle"]
  /\ req = [p \in Workers |-> NoRequest]
  /\ snap = [p \in Workers |-> NoRow]
  /\ stale = {} /\ wrong = 0 /\ raced = FALSE
  /\ mailed = 0 /\ crossed = FALSE

(***************************************************************************)
(* Loading.                                                                *)
(***************************************************************************)
\* Mutant: login does not look at locked_until.
LockedNever(r) == FALSE

Locked(r) == r.lock > now

\* What the handler of q asks of the row before it changes anything.
Admitted(q, r) ==
  \/ q.kind = "register" /\ ~r.on
  \/ q.kind = "login" /\ r.on /\ ~Locked(r) /\ r.pass # NoPassword
  \/ q.kind = "verify" /\ q.link # 0 /\ r.vtok = q.link
  \/ q.kind = "resend" /\ r.on /\ ~r.verified
  \/ q.kind = "forgot" /\ r.on
  \/ q.kind = "reset" /\ q.link # 0 /\ r.rtok = q.link
  \/ q.kind = "invite" /\ r.team = "none"
  \/ q.kind = "remove" /\ r.team # "none"
  \/ q.kind = "accept" /\ r.team = "pending" /\ (r.pass # NoPassword \/ q.word # NoPassword)
  \/ q.kind = "google"

\* A password accompanies the kinds that take one; a link those that follow one.
Requested(p) == {q \in [kind : Requests[p], word : Passwords \cup {NoPassword}, link : 0 .. mails] :
                /\ q.kind \in {"register", "login", "reset"} => q.word # NoPassword
                /\ q.kind \notin {"register", "login", "reset", "accept"} => q.word = NoPassword
                /\ q.kind \notin {"verify", "reset"} => q.link = 0}

Load(p) ==
  /\ pc[p] = "idle"
  /\ \E q \in Requested(p) :
       /\ Admitted(q, acct)
       /\ q.kind = "login" => wrong < MaxWrong
       /\ q.kind \in {"register", "resend", "forgot"} => mails < MaxMails
       /\ req' = [req EXCEPT ![p] = q]
  /\ snap' = [snap EXCEPT ![p] = acct]
  /\ pc' = [pc EXCEPT ![p] = "loaded"]
  /\ stale' = stale \ {p}
  /\ UNCHANGED <<acct, now, mails, login, link>>

(***************************************************************************)
(* Committing.  The handlers as functions of the row they loaded.          *)
(***************************************************************************)
\* The commit of p: the columns that differ from those it loaded.
Save(p, new) ==
  /\ acct' = [c \in DOMAIN acct |-> IF new[c] # snap[p][c] THEN new[c] ELSE acct[c]]
  /\ stale' = IF acct' = acct THEN stale \ {p}
              ELSE {w \in Workers \ {p} : pc[w] = "loaded"}

\* p has answered.
Done(p) ==
  /\ pc' = [pc EXCEPT ![p] = "idle"]
  /\ req' = [req EXCEPT ![p] = NoRequest]
  /\ snap' = [snap EXCEPT ![p] = NoRow]
  /\ UNCHANGED now

\* A commit that fails: users.email is unique, a membership is too, and the
\* membership to be updated has been deleted.
Fails(p) ==
  \/ req[p].kind \in {"register", "google"} /\ ~snap[p].on /\ acct.on
  \/ req[p].kind = "invite" /\ (acct.team # "none" \/ snap[p].on # acct.on)
  \/ req[p].kind = "accept" /\ acct.team = "none"

Failed(p) ==
  /\ pc[p] = "loaded" /\ Fails(p)
  /\ Done(p)
  /\ stale' = stale \ {p}
  /\ UNCHANGED <<acct, mails, login, link>>

Commits(p, k) == pc[p] = "loaded" /\ req[p].kind = k /\ ~Fails(p) /\ Done(p)

\* register: a user, a tenant and its owner membership in one commit.
Registered(p) ==
  [NoRow EXCEPT !.on = TRUE, !.pass = req[p].word, !.verified = ~VerifyRequired,
                !.vtok = IF VerifyRequired THEN mails + 1 ELSE 0, !.home = TRUE]

Register(p) ==
  /\ Commits(p, "register")
  /\ Save(p, Registered(p))
  /\ mails' = IF VerifyRequired THEN mails + 1 ELSE mails
  /\ UNCHANGED <<login, link>>

\* Mutant: the lock comes one attempt late.
MissLate(r) == [r EXCEPT !.fails = @ + 1,
                         !.lock = IF r.fails >= MaxAttempts THEN now + LockTime ELSE @]

\* login with a wrong password: one more failure, and the lock at the limit.
Miss(r) == [r EXCEPT !.fails = @ + 1,
                     !.lock = IF r.fails + 1 >= MaxAttempts THEN now + LockTime ELSE @]

LoginWrong(p) ==
  /\ Commits(p, "login") /\ req[p].word # snap[p].pass
  /\ Save(p, Miss(snap[p]))
  /\ wrong' = wrong + 1
  /\ raced' = (raced \/ p \in stale)
  /\ UNCHANGED <<mails, link>>

\* The tenant of the session: accepted_at is NULL for the tenant the user
\* registered, and ORDER BY accepted_at DESC puts NULL first.
Preferred(r) == IF r.home THEN "home" ELSE IF r.team = "accepted" THEN "team" ELSE "none"

Welcome(r) == (VerifyRequired => r.verified) /\ Preferred(r) # "none"

\* Failures are cleared by a reset and by a login that gets in.
Cleared(p) == IF p \in stale THEN raced' = TRUE /\ UNCHANGED wrong
                             ELSE raced' = FALSE /\ wrong' = 0

Login(p) ==
  /\ Commits(p, "login") /\ req[p].word = snap[p].pass
  /\ IF Welcome(snap[p])
       THEN /\ Save(p, [snap[p] EXCEPT !.fails = 0, !.lock = 0])
            /\ Cleared(p)
       ELSE Save(p, snap[p]) /\ UNCHANGED login
  /\ UNCHANGED <<mails, link>>

VerifyEmail(p) ==
  /\ Commits(p, "verify")
  /\ Save(p, [snap[p] EXCEPT !.verified = TRUE, !.vtok = 0])
  /\ UNCHANGED <<mails, login, link>>

Resend(p) ==
  /\ Commits(p, "resend")
  /\ Save(p, [snap[p] EXCEPT !.vtok = mails + 1])
  /\ mails' = mails + 1
  /\ UNCHANGED <<login, link>>

\* Mutant: a link that is still open is kept, and another one mailed.
ForgotKeeps(r) == [r EXCEPT !.rtok = IF @ = 0 THEN mails + 1 ELSE @]

Forgot(r) == [r EXCEPT !.rtok = mails + 1]

ForgotPassword(p) ==
  /\ Commits(p, "forgot")
  /\ Save(p, Forgot(snap[p]))
  /\ mails' = mails + 1
  /\ mailed' = mails + 1 /\ crossed' = FALSE
  /\ UNCHANGED <<login>>

\* Mutant: a reset forgives one failure.
ResetForgives(r, w) == [r EXCEPT !.pass = w, !.rtok = 0, !.fails = @ - 1, !.lock = 0,
                                 !.verified = TRUE]

Reset(r, w) == [r EXCEPT !.pass = w, !.rtok = 0, !.fails = 0, !.lock = 0,
                         !.verified = TRUE]

ResetPassword(p) ==
  /\ Commits(p, "reset")
  /\ Save(p, Reset(snap[p], req[p].word))
  /\ Cleared(p)
  /\ mailed' = IF req[p].link = mailed THEN 0 ELSE mailed
  /\ crossed' = (crossed \/ p \in stale)
  /\ UNCHANGED <<mails>>

\* invite_team_member: a pending membership, for a new user without password
\* when the address has none.
Invite(p) ==
  /\ Commits(p, "invite")
  /\ Save(p, [snap[p] EXCEPT !.on = TRUE, !.team = "pending"])
  /\ UNCHANGED <<mails, login, link>>

\* accept_invitation: the password a new user chooses, or the change that an
\* existing user confirmed with the old one.
Accepted(r, w) ==
  [r EXCEPT !.team = "accepted",
            !.pass = IF w = NoPassword THEN @ ELSE w,
            !.verified = @ \/ r.pass = NoPassword]

Accept(p) ==
  /\ Commits(p, "accept")
  /\ Save(p, Accepted(snap[p], req[p].word))
  /\ UNCHANGED <<mails, login, link>>

Remove(p) ==
  /\ Commits(p, "remove")
  /\ Save(p, [snap[p] EXCEPT !.team = "none"])
  /\ UNCHANGED <<mails, login, link>>

\* authenticate_with_google: Google vouches for the address of a row that is
\* there; a new row comes with a tenant.
Linked(r) == [r EXCEPT !.on = TRUE, !.verified = TRUE]

Google(p) ==
  /\ Commits(p, "google")
  /\ Save(p, [Linked(snap[p]) EXCEPT !.home = @ \/ ~snap[p].on])
  /\ UNCHANGED <<mails, login, link>>

Tick ==
  /\ now < MaxTime
  /\ now' = now + 1
  /\ UNCHANGED <<acct, mails, served, stale, login, link>>

Step(p) ==
  \/ Load(p) \/ Failed(p)
  \/ Register(p) \/ LoginWrong(p) \/ Login(p) \/ VerifyEmail(p) \/ Resend(p)
  \/ ForgotPassword(p) \/ ResetPassword(p)
  \/ Invite(p) \/ Accept(p) \/ Remove(p)
  \/ Google(p)

Next == Tick \/ \E p \in Workers : Step(p)

Spec == Init /\ [][Next]_vars

(***************************************************************************)
(* Properties.                                                             *)
(***************************************************************************)
\* auth.py 291-309: as long as no login committed on a row that another
\* request had changed, every wrong password counts, and the one that reaches
\* MAX_LOGIN_ATTEMPTS leaves a lock.
EveryMissCounts ==
  ~raced => acct.fails = wrong /\ (wrong >= MaxAttempts => acct.lock # 0)

\* auth.py 267-273, 349-353, 663-667: a running lock ends early only by a
\* password reset, or by a login that had read the row before it was set.
LockHolds ==
  [][acct.lock > now /\ acct'.lock < acct.lock =>
       \E p \in Workers : /\ pc[p] = "loaded" /\ pc'[p] = "idle"
                          /\ \/ req[p].kind = "reset"
                             \/ req[p].kind = "login" /\ p \in stale]_vars

\* auth.py 597-680: the reset link mailed last is the one the row holds until
\* it is used, whatever else happens to the account, unless a reset that had
\* read an older row committed after the mail.
MailedLinkWorks == mailed # 0 /\ ~crossed => acct.rtok = mailed
=============================================================================
