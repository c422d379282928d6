---------------------------- MODULE AccountsProofs ----------------------------
(***************************************************************************)
(* Proofs about Accounts, for any workers, passwords, limits and times.    *)
(***************************************************************************)
EXTENDS Accounts, TLAPS

USE AccountAssumption

-----------------------------------------------------------------------------
(* The inductive invariants.                                               *)

\* A row that is not there has no failures, no lock and no links.
Off(r) == ~r.on => r.fails = 0 /\ r.lock = 0 /\ r.vtok = 0 /\ r.rtok = 0

\* What a loaded request was admitted on, in terms of the row it loaded.
Remembered(p) ==
  pc[p] = "loaded" =>
    /\ req[p].kind = "register" => ~snap[p].on
    /\ req[p].kind \in {"login", "resend", "forgot"} => snap[p].on
    /\ req[p].kind = "login" => snap[p].lock <= now
    /\ req[p].kind = "verify" => snap[p].vtok # 0
    /\ req[p].kind = "reset" => snap[p].rtok # 0 /\ snap[p].rtok = req[p].link

\* The row a worker loaded is the committed one unless somebody changed it, is
\* there only if the committed one is, and holds a link that has been mailed.
Loaded(p) ==
  /\ pc[p] = "loaded" /\ p \notin stale => snap[p] = acct
  /\ snap[p].on => acct.on
  /\ snap[p].rtok <= mails /\ Off(snap[p])

IInv ==
  /\ TypeOK
  /\ Off(acct) /\ acct.rtok <= mails
  /\ \A p \in Workers : Remembered(p) /\ Loaded(p)

-----------------------------------------------------------------------------
(* What a commit writes.                                                   *)

Columns == {"on", "pass", "verified", "vtok", "rtok", "fails", "lock", "home", "team"}

\* The columns that differ from those loaded.
LEMMA SaveIs ==
  ASSUME TypeOK, NEW p \in Workers, NEW new \in Row, Save(p, new)
  PROVE  /\ acct' \in Row /\ stale' \subseteq Workers
         /\ acct'.on = IF new.on # snap[p].on THEN new.on ELSE acct.on
         /\ acct'.vtok = IF new.vtok # snap[p].vtok THEN new.vtok ELSE acct.vtok
         /\ acct'.rtok = IF new.rtok # snap[p].rtok THEN new.rtok ELSE acct.rtok
         /\ acct'.fails = IF new.fails # snap[p].fails THEN new.fails ELSE acct.fails
         /\ acct'.lock = IF new.lock # snap[p].lock THEN new.lock ELSE acct.lock
         /\ snap[p] = acct => acct' = new
<1> DEFINE row == [c \in Columns |-> IF new[c] # snap[p][c] THEN new[c] ELSE acct[c]]
<1>1. acct \in Row /\ snap[p] \in Row
  BY DEF TypeOK
<1>2. DOMAIN acct = Columns
  BY <1>1 DEF Row, Columns
<1>3. acct' = row
  BY <1>2 DEF Save
<1>4. row \in Row
  BY <1>1 DEF Row, Columns
<1>5. /\ row.on = IF new.on # snap[p].on THEN new.on ELSE acct.on
      /\ row.vtok = IF new.vtok # snap[p].vtok THEN new.vtok ELSE acct.vtok
      /\ row.rtok = IF new.rtok # snap[p].rtok THEN new.rtok ELSE acct.rtok
      /\ row.fails = IF new.fails # snap[p].fails THEN new.fails ELSE acct.fails
      /\ row.lock = IF new.lock # snap[p].lock THEN new.lock ELSE acct.lock
  BY DEF Columns
<1>6. ASSUME snap[p] = acct PROVE row = new
  <2>1. row = [c \in Columns |-> new[c]]
    BY <1>6
  <2>. QED  BY <2>1 DEF Row, Columns
<1>7. stale' \subseteq Workers
  BY DEF Save, TypeOK
<1>. HIDE DEF row
<1>. QED  BY <1>3, <1>4, <1>5, <1>6, <1>7

\* A worker that has answered forgets its request; the others go on.
LEMMA DoneIs ==
  ASSUME TypeOK, NEW p \in Workers, Done(p)
  PROVE  /\ pc' \in [Workers -> {"idle", "loaded"}] /\ req' \in [Workers -> Request]
         /\ snap' \in [Workers -> Row] /\ now' = now
         /\ pc'[p] = "idle" /\ snap'[p] = NoRow
         /\ \A w \in Workers \ {p} : pc'[w] = pc[w] /\ req'[w] = req[w] /\ snap'[w] = snap[w]
<1>1. NoRequest \in Request
  BY DEF NoRequest, Request, Kinds
<1>2. NoRow \in Row
  BY DEF NoRow, Row
<1>. QED  BY <1>1, <1>2 DEF Done, TypeOK

Commit(p) ==
  \/ Register(p) \/ LoginWrong(p) \/ Login(p) \/ VerifyEmail(p) \/ Resend(p)
  \/ ForgotPassword(p) \/ ResetPassword(p)
  \/ Invite(p) \/ Accept(p) \/ Remove(p)
  \/ Google(p)

\* What a handler makes of the row it loaded.
Fitting(p, new) ==
  /\ new \in Row /\ Off(new) /\ new.rtok <= mails'
  /\ snap[p].on => new.on

Keeps(p, new) == new.fails = snap[p].fails /\ new.lock = snap[p].lock

\* The ways a handler may touch failures, locks and reset links.
Quiet(p, new) ==
  /\ Keeps(p, new) /\ new.rtok = snap[p].rtok /\ UNCHANGED <<login, link>>

Misses(p, new) ==
  /\ req[p].kind = "login" /\ new = Miss(snap[p])
  /\ wrong' = wrong + 1 /\ raced' = (raced \/ p \in stale) /\ UNCHANGED link

Clears(p, new) ==
  /\ req[p].kind = "login" /\ new.fails = 0 /\ new.lock = 0
  /\ Cleared(p) /\ new.rtok = snap[p].rtok /\ UNCHANGED link

Mails(p, new) ==
  /\ Keeps(p, new) /\ new.rtok = mails + 1 /\ mails' = mails + 1 /\ UNCHANGED login
  /\ mailed' = mails + 1 /\ crossed' = FALSE

Resets(p, new) ==
  /\ req[p].kind = "reset" /\ new.fails = 0 /\ new.lock = 0 /\ new.rtok = 0
  /\ Cleared(p)
  /\ mailed' = (IF req[p].link = mailed THEN 0 ELSE mailed)
  /\ crossed' = (crossed \/ p \in stale)

Handles(p, new) ==
  /\ Fitting(p, new)
  /\ \/ Quiet(p, new) \/ Misses(p, new) \/ Clears(p, new) \/ Mails(p, new) \/ Resets(p, new)

LEMMA CommitIs ==
  ASSUME IInv, NEW p \in Workers, Commit(p)
  PROVE  /\ Done(p) /\ pc[p] = "loaded" /\ mails' \in Nat /\ mails <= mails'
         /\ \E new : Save(p, new) /\ Handles(p, new)
<1> USE DEF login, link
<1>0. /\ snap[p] \in Row /\ Off(snap[p]) /\ snap[p].rtok <= mails /\ mails \in Nat /\ now \in Nat
      /\ req[p] \in Request /\ Remembered(p) /\ NoRow \in Row
      /\ snap[p].rtok \in Nat /\ snap[p].fails \in Nat
  BY DEF IInv, Loaded, TypeOK, NoRow, Row
<1>1. Done(p) /\ pc[p] = "loaded"
  BY DEF Commit, Register, LoginWrong, Login, VerifyEmail, Resend, ForgotPassword, ResetPassword,
     Invite, Accept, Remove, Google, Commits
<1>2. mails' \in {mails, mails + 1}
  BY DEF Commit, Register, LoginWrong, Login, VerifyEmail, Resend, ForgotPassword, ResetPassword,
     Invite, Accept, Remove, Google
<1>3. mails' \in Nat /\ mails <= mails'
  BY <1>0, <1>2
<1>4. ASSUME NEW new \in Row, Off(new), Quiet(p, new), snap[p].on => new.on, Save(p, new)
      PROVE  Save(p, new) /\ Handles(p, new)
  BY <1>0, <1>3, <1>4 DEF Handles, Fitting, Quiet
<1>5. CASE Register(p)
  <2> DEFINE new == Registered(p)
  <2>1. ~snap[p].on /\ req[p].word \in Passwords \cup {NoPassword}
    BY <1>0, <1>1, <1>5 DEF Register, Commits, Remembered, Request
  <2>2. new \in Row /\ new.on /\ new.rtok = 0 /\ new.fails = 0 /\ new.lock = 0
    <3> DEFINE flag == ~VerifyRequired
               token == IF VerifyRequired THEN mails + 1 ELSE 0
    <3>1. flag \in BOOLEAN /\ token \in Nat
      BY <1>0
    <3>2. new = [NoRow EXCEPT !.on = TRUE, !.pass = req[p].word, !.verified = flag,
                              !.vtok = token, !.home = TRUE]
      BY DEF Registered
    <3>. HIDE DEF flag, token, new
    <3>3. /\ NoRow.rtok = 0 /\ NoRow.fails = 0 /\ NoRow.lock = 0
      BY DEF NoRow
    <3>. QED  BY <1>0, <2>1, <3>1, <3>2, <3>3 DEF Row
  <2>3. Off(new) /\ Quiet(p, new) /\ Save(p, new)
    BY <1>0, <1>5, <2>1, <2>2 DEF Register, Off, Quiet, Keeps
  <2>. QED  BY <1>1, <1>3, <1>4, <2>1, <2>2, <2>3
<1>6. CASE LoginWrong(p)
  <2> DEFINE new == Miss(snap[p])
  <2>1. snap[p].on /\ req[p].kind = "login"
    BY <1>0, <1>1, <1>6 DEF LoginWrong, Commits, Remembered
  <2>2. new \in Row /\ new.on /\ new.rtok = snap[p].rtok
    <3> DEFINE until == IF snap[p].fails + 1 >= MaxAttempts THEN now + LockTime ELSE snap[p].lock
    <3>1. until \in Nat /\ snap[p].fails + 1 \in Nat
      BY <1>0 DEF Row
    <3>2. new = [snap[p] EXCEPT !.fails = snap[p].fails + 1, !.lock = until]
      BY DEF Miss
    <3>. HIDE DEF until, new
    <3>. QED  BY <1>0, <2>1, <3>1, <3>2 DEF Row
  <2>3. Misses(p, new) /\ Save(p, new)
    BY <1>6, <2>1 DEF LoginWrong, Misses
  <2>. QED  BY <1>0, <1>1, <1>3, <2>2, <2>3 DEF Handles, Fitting, Off
<1>7. CASE Login(p)
  <2>1. snap[p].on /\ req[p].kind = "login"
    BY <1>0, <1>1, <1>7 DEF Login, Commits, Remembered
  <2>2. CASE Welcome(snap[p])
    <3> DEFINE new == [snap[p] EXCEPT !.fails = 0, !.lock = 0]
    <3>1. new \in Row /\ new.on /\ new.rtok = snap[p].rtok /\ new.fails = 0 /\ new.lock = 0
      BY <1>0, <2>1 DEF Row
    <3>2. Clears(p, new) /\ Save(p, new)
      BY <1>7, <2>1, <2>2, <3>1 DEF Login, Clears
    <3>. HIDE DEF new
    <3>. QED  BY <1>0, <1>1, <1>3, <3>1, <3>2 DEF Handles, Fitting, Off
  <2>3. CASE ~Welcome(snap[p])
    <3>1. Quiet(p, snap[p]) /\ Save(p, snap[p])
      BY <1>7, <2>3 DEF Login, Quiet, Keeps
    <3>. QED  BY <1>0, <1>1, <1>3, <1>4, <3>1
  <2>. QED  BY <2>2, <2>3
<1>8. CASE VerifyEmail(p)
  <2> DEFINE new == [snap[p] EXCEPT !.verified = TRUE, !.vtok = 0]
  <2>1. /\ new \in Row /\ new.on = snap[p].on /\ new.rtok = snap[p].rtok
        /\ new.fails = snap[p].fails /\ new.lock = snap[p].lock /\ new.vtok = 0
    BY <1>0 DEF Row
  <2>2. Off(new) /\ Quiet(p, new) /\ Save(p, new)
    BY <1>0, <1>8, <2>1 DEF VerifyEmail, Off, Quiet, Keeps
  <2>. QED  BY <1>1, <1>3, <1>4, <2>1, <2>2
<1>9. CASE Resend(p)
  <2> DEFINE new == [snap[p] EXCEPT !.vtok = mails + 1]
  <2>1. snap[p].on
    BY <1>0, <1>1, <1>9 DEF Resend, Commits, Remembered
  <2>2. /\ new \in Row /\ new.on /\ new.rtok = snap[p].rtok
        /\ new.fails = snap[p].fails /\ new.lock = snap[p].lock
    BY <1>0, <2>1 DEF Row
  <2>3. Off(new) /\ Quiet(p, new) /\ Save(p, new)
    BY <1>9, <2>2 DEF Resend, Off, Quiet, Keeps
  <2>. QED  BY <1>1, <1>3, <1>4, <2>2, <2>3
<1>10. CASE ForgotPassword(p)
  <2> DEFINE new == Forgot(snap[p])
  <2>1. snap[p].on
    BY <1>0, <1>1, <1>10 DEF ForgotPassword, Commits, Remembered
  <2>2. /\ new \in Row /\ new.on /\ new.rtok = mails + 1
        /\ new.fails = snap[p].fails /\ new.lock = snap[p].lock
    BY <1>0, <2>1 DEF Row, Forgot
  <2>3. Off(new) /\ Mails(p, new) /\ Save(p, new)
    BY <1>10, <2>2 DEF ForgotPassword, Off, Mails, Keeps
  <2>. QED  BY <1>0, <1>1, <1>3, <2>2, <2>3 DEF Handles, Fitting, Mails
<1>11. CASE ResetPassword(p)
  <2> DEFINE new == Reset(snap[p], req[p].word)
  <2>1. snap[p].on /\ req[p].kind = "reset" /\ req[p].word \in Passwords \cup {NoPassword}
    BY <1>0, <1>1, <1>11 DEF ResetPassword, Commits, Remembered, Off, Request
  <2>2. new \in Row /\ new.on /\ new.rtok = 0 /\ new.fails = 0 /\ new.lock = 0
    BY <1>0, <2>1 DEF Row, Reset
  <2>3. Off(new) /\ Resets(p, new) /\ Save(p, new)
    BY <1>11, <2>1, <2>2 DEF ResetPassword, Off, Resets
  <2>. QED  BY <1>1, <1>3, <2>2, <2>3 DEF Handles, Fitting
<1>12. ASSUME NEW new \in Row, Save(p, new), new.on \/ new.on = snap[p].on,
              new.vtok = snap[p].vtok, new.rtok = snap[p].rtok, new.fails = snap[p].fails,
              new.lock = snap[p].lock, UNCHANGED <<login, link>>
       PROVE  \E x : Save(p, x) /\ Handles(p, x)
  BY <1>0, <1>4, <1>12 DEF Off, Quiet, Keeps
<1>13. CASE Invite(p)
  <2> DEFINE new == [snap[p] EXCEPT !.on = TRUE, !.team = "pending"]
  <2>1. /\ new \in Row /\ new.on /\ new.vtok = snap[p].vtok /\ new.rtok = snap[p].rtok
        /\ new.fails = snap[p].fails /\ new.lock = snap[p].lock
    BY <1>0 DEF Row
  <2>. QED  BY <1>1, <1>3, <1>12, <1>13, <2>1 DEF Invite
<1>14. CASE Accept(p)
  <2> DEFINE new == Accepted(snap[p], req[p].word)
  <2>1. (snap[p].verified \/ snap[p].pass = NoPassword) \in BOOLEAN
    OBVIOUS
  <2>2. req[p].word \in Passwords \cup {NoPassword}
    BY <1>0 DEF Request
  <2>3. /\ new \in Row /\ new.on = snap[p].on /\ new.vtok = snap[p].vtok
        /\ new.rtok = snap[p].rtok /\ new.fails = snap[p].fails /\ new.lock = snap[p].lock
    BY <1>0, <2>1, <2>2 DEF Row, Accepted
  <2>. QED  BY <1>1, <1>3, <1>12, <1>14, <2>3 DEF Accept
<1>15. CASE Remove(p)
  <2> DEFINE new == [snap[p] EXCEPT !.team = "none"]
  <2>1. /\ new \in Row /\ new.on = snap[p].on /\ new.vtok = snap[p].vtok
        /\ new.rtok = snap[p].rtok /\ new.fails = snap[p].fails /\ new.lock = snap[p].lock
    BY <1>0 DEF Row
  <2>. QED  BY <1>1, <1>3, <1>12, <1>15, <2>1 DEF Remove
<1>16. CASE Google(p)
  <2> DEFINE new == [Linked(snap[p]) EXCEPT !.home = @ \/ ~snap[p].on]
  <2>1. /\ new \in Row /\ new.on
        /\ new.vtok = snap[p].vtok /\ new.rtok = snap[p].rtok
        /\ new.fails = snap[p].fails /\ new.lock = snap[p].lock
    BY <1>0 DEF Row, Linked
  <2>2. UNCHANGED <<login, link>> /\ Save(p, new)
    BY <1>16 DEF Google
  <2>. HIDE DEF new
  <2>. QED  BY <1>1, <1>3, <1>12, <2>1, <2>2
<1>. QED  BY <1>5, <1>6, <1>7, <1>8, <1>9, <1>10, <1>11, <1>13, <1>14, <1>15, <1>16 DEF Commit

-----------------------------------------------------------------------------
(* Types.                                                                  *)

LEMMA InvInit == Init => IInv
<1> SUFFICES ASSUME Init PROVE IInv
  OBVIOUS
<1>1. NoRow \in Row /\ NoRequest \in Request
  BY DEF NoRow, Row, NoRequest, Request, Kinds
<1>2. TypeOK
  <2>1. {raced, crossed} \subseteq BOOLEAN
    <3>1. raced = FALSE /\ crossed = FALSE
      BY Zenon DEF Init
    <3>. QED  BY <3>1
  <2>. QED  BY <1>1, <2>1 DEF Init, TypeOK
<1>3. NoRow.on = FALSE /\ NoRow.rtok = 0 /\ Off(NoRow)
  BY DEF NoRow, Off
<1>. QED  BY <1>2, <1>3 DEF Init, IInv, Remembered, Loaded

LEMMA ClearedTypes ==
  ASSUME NEW p \in Workers, TypeOK, Cleared(p)
  PROVE  wrong' \in Nat /\ raced' \in BOOLEAN
<1>1. CASE p \in stale
  BY <1>1 DEF Cleared, TypeOK
<1>2. CASE p \notin stale
  <2>1. raced' = FALSE /\ wrong' = 0
    BY <1>2, Zenon DEF Cleared
  <2>2. raced' \in BOOLEAN
    BY <2>1, Zenon
  <2>3. wrong' \in Nat
    BY <2>1
  <2>. QED  BY <2>2, <2>3
<1>. QED  BY <1>1, <1>2

\* A commit keeps the types, and what the rows of other workers say.
LEMMA CommitTypes ==
  ASSUME IInv, NEW p \in Workers, Commit(p)
  PROVE  TypeOK'
<1> USE DEF login, link
<1>1. PICK new : Save(p, new) /\ Handles(p, new)
  BY CommitIs
<1>2. /\ Done(p) /\ mails' \in Nat /\ TypeOK /\ new \in Row
  BY <1>1, CommitIs DEF IInv, Handles, Fitting
<1>3. acct' \in Row /\ stale' \subseteq Workers
  BY <1>1, <1>2, SaveIs
<1>4. wrong' \in Nat /\ raced' \in BOOLEAN
  <2>1. CASE Misses(p, new)
    BY <1>2, <2>1 DEF Misses, TypeOK
  <2>2. CASE Cleared(p)
    BY <1>2, <2>2, ClearedTypes
  <2>3. CASE UNCHANGED login
    BY <1>2, <2>3 DEF TypeOK
  <2>. QED  BY <1>1, <2>1, <2>2, <2>3 DEF Handles, Quiet, Clears, Mails, Resets
<1>5. mailed' \in Nat /\ crossed' \in BOOLEAN
  <2>1. CASE UNCHANGED link
    BY <1>2, <2>1 DEF TypeOK
  <2>2. CASE Mails(p, new)
    BY <1>2, <2>2 DEF Mails, TypeOK
  <2>3. CASE Resets(p, new)
    <3>1. mailed' \in Nat
      BY <1>2, <2>3 DEF Resets, TypeOK
    <3>2. crossed' \in BOOLEAN
      BY <1>2, <2>3, Zenon DEF Resets, TypeOK
    <3>. QED  BY <3>1, <3>2
  <2>. QED  BY <1>1, <2>1, <2>2, <2>3 DEF Handles, Quiet, Misses, Clears
<1>6. now' \in Nat
  BY <1>2, DoneIs DEF TypeOK
<1>. QED  BY <1>2, <1>3, <1>4, <1>5, <1>6, DoneIs DEF TypeOK

LEMMA LoadIs ==
  ASSUME TypeOK, NEW p \in Workers, Load(p)
  PROVE  /\ TypeOK' /\ Remembered(p)'
         /\ snap'[p] = acct /\ stale' = stale \ {p}
         /\ \A w \in Workers \ {p} : pc'[w] = pc[w] /\ req'[w] = req[w] /\ snap'[w] = snap[w]
         /\ UNCHANGED <<acct, now, mails, login, link>>
<1> USE DEF login, link
<1>1. PICK q \in Requested(p) : Admitted(q, acct) /\ req' = [req EXCEPT ![p] = q]
  BY DEF Load
<1>2. q \in Request
  <2>1. Requests[p] \subseteq Kinds
    OBVIOUS
  <2>. QED  BY <2>1 DEF Requested, Request, TypeOK
<1>3. TypeOK'
  BY <1>1, <1>2 DEF Load, TypeOK
<1>4. snap'[p] = acct /\ req'[p] = q /\ UNCHANGED now
  BY <1>1 DEF Load, TypeOK
<1>5. acct.lock \in Nat /\ now \in Nat
  BY DEF TypeOK, Row
<1>6. /\ q.kind = "register" => ~acct.on
      /\ q.kind \in {"login", "resend", "forgot"} => acct.on
      /\ q.kind = "login" => ~(acct.lock > now)
      /\ q.kind = "verify" => acct.vtok # 0
      /\ q.kind = "reset" => acct.rtok # 0 /\ acct.rtok = q.link
  BY <1>1 DEF Admitted, Locked
<1>7. Remembered(p)'
  BY <1>4, <1>5, <1>6 DEF Remembered
<1>. QED  BY <1>1, <1>3, <1>4, <1>7 DEF Load, TypeOK

-----------------------------------------------------------------------------
(* The inductive step.                                                     *)

\* A commit leaves a row that fits, and loaded rows that still tell the truth.
LEMMA CommitKeeps ==
  ASSUME IInv, NEW p \in Workers, Commit(p)
  PROVE  IInv'
<1>1. PICK new : Save(p, new) /\ Handles(p, new)
  BY CommitIs
<1>2. /\ Done(p) /\ mails' \in Nat /\ mails <= mails' /\ TypeOK /\ new \in Row
      /\ Off(new) /\ new.rtok <= mails' /\ (snap[p].on => new.on)
  BY <1>1, CommitIs DEF IInv, Handles, Fitting
<1>3. /\ Off(acct) /\ acct.rtok <= mails /\ Loaded(p) /\ mails \in Nat
      /\ acct \in Row /\ snap[p] \in Row /\ acct.rtok \in Nat
  BY DEF IInv, TypeOK, Row
<1>4. /\ acct' \in Row
      /\ acct'.on = IF new.on # snap[p].on THEN new.on ELSE acct.on
      /\ acct'.vtok = IF new.vtok # snap[p].vtok THEN new.vtok ELSE acct.vtok
      /\ acct'.rtok = IF new.rtok # snap[p].rtok THEN new.rtok ELSE acct.rtok
      /\ acct'.fails = IF new.fails # snap[p].fails THEN new.fails ELSE acct.fails
      /\ acct'.lock = IF new.lock # snap[p].lock THEN new.lock ELSE acct.lock
  BY <1>1, <1>2, SaveIs
<1>5. acct.on => acct'.on
  BY <1>2, <1>3, <1>4 DEF Row
<1>6. Off(acct')
  BY <1>2, <1>3, <1>4 DEF Row, Off, Loaded
<1>7. acct'.rtok <= mails'
  BY <1>2, <1>3, <1>4 DEF Row
<1>8. ASSUME NEW w \in Workers PROVE Remembered(w)' /\ Loaded(w)'
  <2>0. Remembered(w) /\ Loaded(w) /\ now' = now /\ snap[w].rtok \in Nat
    BY <1>2, DoneIs DEF IInv, TypeOK, Row
  <2>1. CASE w = p
    BY <1>2, <2>1, DoneIs DEF Remembered, Loaded, NoRow, Off
  <2>2. CASE w # p
    <3>1. pc'[w] = pc[w] /\ req'[w] = req[w] /\ snap'[w] = snap[w]
      BY <1>2, <2>2, DoneIs
    <3>2. pc'[w] = "loaded" /\ w \notin stale' => w \notin stale /\ acct' = acct
      BY <1>1, <2>2, <3>1 DEF Save
    <3>. QED  BY <1>2, <1>3, <1>5, <2>0, <3>1, <3>2 DEF Remembered, Loaded
  <2>. QED  BY <2>1, <2>2
<1>. QED  BY <1>6, <1>7, <1>8, CommitTypes DEF IInv, Off

LEMMA InvStep == IInv /\ [Next]_vars => IInv'
<1> SUFFICES ASSUME IInv, [Next]_vars PROVE IInv'
  OBVIOUS
<1> USE DEF served, login, link
<1>0. TypeOK
  BY DEF IInv
<1>1. ASSUME NEW p \in Workers, Load(p) PROVE IInv'
  <2>1. ASSUME NEW w \in Workers PROVE Remembered(w)' /\ Loaded(w)'
    <3>1. CASE w = p
      BY <1>0, <1>1, <3>1, LoadIs DEF IInv, Loaded, Off
    <3>2. CASE w # p
      BY <1>0, <1>1, <3>2, LoadIs DEF IInv, Remembered, Loaded
    <3>. QED  BY <3>1, <3>2
  <2>. QED  BY <1>0, <1>1, <2>1, LoadIs DEF IInv, Off
<1>2. ASSUME NEW p \in Workers, Failed(p) PROVE IInv'
  <2>1. TypeOK'
    BY <1>0, <1>2, DoneIs DEF Failed, TypeOK
  <2>2. ASSUME NEW w \in Workers PROVE Remembered(w)' /\ Loaded(w)'
    <3>1. CASE w = p
      BY <1>0, <1>2, <3>1, DoneIs DEF IInv, Failed, Remembered, Loaded, NoRow, Off, TypeOK
    <3>2. CASE w # p
      BY <1>0, <1>2, <3>2, DoneIs DEF IInv, Failed, Remembered, Loaded
    <3>. QED  BY <3>1, <3>2
  <2>. QED  BY <1>2, <2>1, <2>2 DEF IInv, Off, Failed
<1>3. CASE Tick
  <2>1. TypeOK'
    BY <1>0, <1>3 DEF Tick, TypeOK
  <2>2. ASSUME NEW w \in Workers PROVE Remembered(w)' /\ Loaded(w)'
    <3>1. snap[w].lock \in Nat /\ now \in Nat
      BY <1>0 DEF TypeOK, Row
    <3>. QED  BY <1>3, <3>1 DEF IInv, Tick, Remembered, Loaded
  <2>. QED  BY <1>3, <2>1, <2>2 DEF IInv, Off, Tick
<1>4. CASE UNCHANGED vars
  BY <1>4 DEF vars, IInv, TypeOK, Off, Remembered, Loaded
<1>. QED  BY <1>1, <1>2, <1>3, <1>4, CommitKeeps DEF Next, Step, Commit

LEMMA InvTheorem == Spec => []IInv
<1>. QED  BY InvInit, InvStep, PTL DEF Spec

\* Every variable has its type, whatever requests interleave.
THEOREM TypeCorrect == Spec => []TypeOK
<1>1. IInv => TypeOK
  BY DEF IInv
<1>. QED  BY InvTheorem, <1>1, PTL

-----------------------------------------------------------------------------
(* What the invariant says about failures, locks and links.                *)

\* All that the properties ask of a commit, in one place.
LEMMA CommitEffect ==
  ASSUME IInv, NEW p \in Workers, Commit(p)
  PROVE  \E new \in Row :
           /\ Handles(p, new)
           /\ acct'.rtok = IF new.rtok # snap[p].rtok THEN new.rtok ELSE acct.rtok
           /\ acct'.fails = IF new.fails # snap[p].fails THEN new.fails ELSE acct.fails
           /\ acct'.lock = IF new.lock # snap[p].lock THEN new.lock ELSE acct.lock
           /\ p \notin stale => snap[p] = acct /\ acct' = new
           /\ pc[p] = "loaded" /\ pc'[p] = "idle" /\ Remembered(p)
           /\ snap[p].rtok <= mails /\ snap[p].rtok \in Nat /\ acct \in Row /\ acct' \in Row
<1>1. PICK new : Save(p, new) /\ Handles(p, new)
  BY CommitIs
<1>2. new \in Row /\ TypeOK /\ Loaded(p) /\ Remembered(p) /\ snap[p] \in Row /\ acct \in Row
  BY <1>1 DEF Handles, Fitting, IInv, TypeOK
<1>3. pc[p] = "loaded" /\ pc'[p] = "idle"
  BY <1>2, CommitIs, DoneIs
<1>4. p \notin stale => snap[p] = acct /\ acct' = new
  BY <1>1, <1>2, <1>3, SaveIs DEF Loaded
<1>. QED  BY <1>1, <1>2, <1>3, <1>4, SaveIs DEF Loaded, Row

\* Steps that commit nothing leave the account and what is told of it alone.
LEMMA QuietStep ==
  ASSUME [Next]_vars, \A p \in Workers : ~Commit(p)
  PROVE  UNCHANGED <<acct, wrong, raced, mailed, crossed>>
BY DEF Next, Step, Commit, Load, Failed, Tick, vars, served, login, link

LEMMA MissStep == IInv /\ EveryMissCounts /\ [Next]_vars => EveryMissCounts'
<1> SUFFICES ASSUME IInv, EveryMissCounts, [Next]_vars PROVE EveryMissCounts'
  OBVIOUS
<1> USE DEF login, link
<1>1. ASSUME NEW p \in Workers, Commit(p) PROVE EveryMissCounts'
  <2>1. PICK new \in Row :
           /\ Handles(p, new)
           /\ acct'.fails = IF new.fails # snap[p].fails THEN new.fails ELSE acct.fails
           /\ acct'.lock = IF new.lock # snap[p].lock THEN new.lock ELSE acct.lock
           /\ p \notin stale => snap[p] = acct /\ acct' = new
    BY <1>1, CommitEffect
  <2>2. acct \in Row /\ now \in Nat /\ wrong \in Nat
    BY DEF IInv, TypeOK
  <2>3. CASE Keeps(p, new) /\ UNCHANGED login
    BY <2>1, <2>3 DEF Keeps, EveryMissCounts
  <2>4. CASE Misses(p, new)
    <3>1. CASE raced \/ p \in stale
      BY <2>4, <3>1, Zenon DEF Misses, EveryMissCounts
    <3>2. CASE ~raced /\ p \notin stale
      <4>1. acct' = Miss(acct) /\ wrong' = wrong + 1
        BY <2>1, <2>4, <3>2 DEF Misses
      <4>2. acct'.fails = acct.fails + 1
            /\ acct'.lock = IF acct.fails + 1 >= MaxAttempts THEN now + LockTime ELSE acct.lock
        BY <2>2, <4>1 DEF Miss, Row
      <4>3. acct.fails = wrong
        BY <3>2 DEF EveryMissCounts
      <4>4. now + LockTime # 0
        BY <2>2
      <4>. QED  BY <4>1, <4>2, <4>3, <4>4 DEF EveryMissCounts
    <3>. QED  BY <3>1, <3>2
  <2>5. CASE Cleared(p) /\ new.fails = 0
    <3>1. CASE p \in stale
      BY <2>5, <3>1 DEF Cleared, EveryMissCounts
    <3>2. CASE p \notin stale
      <4>1. wrong' = 0 /\ acct'.fails = 0
        BY <2>1, <2>5, <3>2 DEF Cleared
      <4>2. ~(0 >= MaxAttempts)
        OBVIOUS
      <4>. QED  BY <4>1, <4>2 DEF EveryMissCounts
    <3>. QED  BY <3>1, <3>2
  <2>. QED  BY <2>1, <2>3, <2>4, <2>5 DEF Handles, Quiet, Clears, Mails, Resets
<1>2. CASE \A p \in Workers : ~Commit(p)
  BY <1>2, QuietStep DEF EveryMissCounts
<1>. QED  BY <1>1, <1>2

\* As long as no login committed on a row changed since it was read, no wrong
\* password is lost, and the one that reaches the limit locks the account.
THEOREM MissTheorem == Spec => []EveryMissCounts
<1>1. Init => EveryMissCounts
  <2>1. NoRow.fails = 0 /\ ~(0 >= MaxAttempts)
    BY DEF NoRow
  <2>. QED  BY <2>1 DEF Init, EveryMissCounts
<1>. QED  BY <1>1, InvTheorem, MissStep, PTL DEF Spec

LEMMA LockStep ==
  IInv /\ [Next]_vars =>
    (acct.lock > now /\ acct'.lock < acct.lock =>
       \E p \in Workers : /\ pc[p] = "loaded" /\ pc'[p] = "idle"
                          /\ \/ req[p].kind = "reset"
                             \/ req[p].kind = "login" /\ p \in stale)
<1> SUFFICES ASSUME IInv, [Next]_vars, acct.lock > now, acct'.lock < acct.lock
             PROVE  \E p \in Workers : /\ pc[p] = "loaded" /\ pc'[p] = "idle"
                                       /\ \/ req[p].kind = "reset"
                                          \/ req[p].kind = "login" /\ p \in stale
  OBVIOUS
<1>0. acct.lock \in Nat /\ now \in Nat
  BY DEF IInv, TypeOK, Row
<1>1. ASSUME NEW p \in Workers, Commit(p)
      PROVE  /\ pc[p] = "loaded" /\ pc'[p] = "idle"
             /\ req[p].kind = "reset" \/ (req[p].kind = "login" /\ p \in stale)
  <2>1. PICK new \in Row :
           /\ Handles(p, new)
           /\ acct'.lock = IF new.lock # snap[p].lock THEN new.lock ELSE acct.lock
           /\ p \notin stale => snap[p] = acct
           /\ pc[p] = "loaded" /\ pc'[p] = "idle" /\ Remembered(p)
    BY <1>1, CommitEffect
  <2>2. CASE Keeps(p, new)
    BY <1>0, <2>1, <2>2 DEF Keeps
  <2>3. CASE req[p].kind = "login"
    <3>1. snap[p].lock <= now
      BY <2>1, <2>3 DEF Remembered
    <3>2. p \in stale
      BY <1>0, <2>1, <3>1
    <3>. QED  BY <2>1, <2>3, <3>2
  <2>4. CASE req[p].kind = "reset"
    BY <2>1, <2>4
  <2>. QED  BY <2>1, <2>2, <2>3, <2>4 DEF Handles, Quiet, Misses, Clears, Mails, Resets
<1>2. CASE \A p \in Workers : ~Commit(p)
  BY <1>0, <1>2, QuietStep
<1>. QED  BY <1>1, <1>2

\* A lock that runs is lifted by a reset, or by a login that read the row before
\* the lock was set, and by nothing else.
THEOREM LockTheorem == Spec => LockHolds
<1>. QED  BY InvTheorem, LockStep, PTL DEF Spec, LockHolds

LEMMA LinkStep == IInv /\ MailedLinkWorks /\ [Next]_vars => MailedLinkWorks'
<1> SUFFICES ASSUME IInv, MailedLinkWorks, [Next]_vars PROVE MailedLinkWorks'
  OBVIOUS
<1> USE DEF login, link
<1>1. ASSUME NEW p \in Workers, Commit(p) PROVE MailedLinkWorks'
  <2>1. PICK new \in Row :
           /\ Handles(p, new)
           /\ acct'.rtok = IF new.rtok # snap[p].rtok THEN new.rtok ELSE acct.rtok
           /\ p \notin stale => snap[p] = acct
           /\ snap[p].rtok <= mails /\ snap[p].rtok \in Nat
           /\ pc[p] = "loaded" /\ Remembered(p)
    BY <1>1, CommitEffect
  <2>2. mails \in Nat
    BY DEF IInv, TypeOK
  <2>3. CASE new.rtok = snap[p].rtok /\ UNCHANGED link
    BY <2>1, <2>3 DEF MailedLinkWorks
  <2>4. CASE Misses(p, new)
    <3>1. new.rtok = snap[p].rtok
      BY <2>4 DEF Misses, Miss, IInv, TypeOK, Row
    <3>. QED  BY <2>3, <2>4, <3>1 DEF Misses
  <2>5. CASE Mails(p, new)
    <3>1. new.rtok # snap[p].rtok
      BY <2>1, <2>2, <2>5 DEF Mails
    <3>. QED  BY <2>1, <2>5, <3>1 DEF Mails, MailedLinkWorks
  <2>6. CASE Resets(p, new)
    <3>1. CASE crossed \/ p \in stale
      BY <2>6, <3>1, Zenon DEF Resets, MailedLinkWorks
    <3>2. CASE ~crossed /\ p \notin stale
      <4>1. acct.rtok = req[p].link
        BY <2>1, <2>6, <3>2 DEF Resets, Remembered
      <4>2. mailed' = 0
        BY <2>6, <3>2, <4>1 DEF Resets, MailedLinkWorks
      <4>. QED  BY <4>2 DEF MailedLinkWorks
    <3>. QED  BY <3>1, <3>2
  <2>. QED  BY <2>1, <2>3, <2>4, <2>5, <2>6 DEF Handles, Quiet, Clears
<1>2. CASE \A p \in Workers : ~Commit(p)
  BY <1>2, QuietStep DEF MailedLinkWorks
<1>. QED  BY <1>1, <1>2

\* The reset link mailed last works until it is used, unless a reset that had
\* read an older row crossed it.
THEOREM LinkTheorem == Spec => []MailedLinkWorks
<1>1. Init => MailedLinkWorks
  BY DEF Init, MailedLinkWorks
<1>. QED  BY <1>1, InvTheorem, LinkStep, PTL DEF Spec
=============================================================================
