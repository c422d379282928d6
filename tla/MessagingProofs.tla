---------------------------- MODULE MessagingProofs ----------------------------
(***************************************************************************)
(* Proofs about Messaging, for any workers, conversations and retries.     *)
(***************************************************************************)
EXTENDS Messaging, FiniteSetTheorems, FunctionTheorems, TLAPS

USE MessagingAssumption

-----------------------------------------------------------------------------
(* Types.                                                                  *)

LEMMA JobTypes ==
  /\ \A t \in Threads : NewJob("scrape", t) \in Jobs /\ NewJob("reply", t) \in Jobs
  /\ \A j \in Jobs : j.for \in Threads /\ j.what \in {"scrape", "reply"}
BY DEF NewJob, Jobs

\* Adding a job to the queue, retrying one, and taking one out.
LEMMA QueueTypes ==
  ASSUME queue \in [Jobs -> Nat]
  PROVE  /\ \A j \in Jobs : Enqueue(j) => queue' \in [Jobs -> Nat]
         /\ \A w \in Workers : job[w] \in Jobs /\ Retry(w) => queue' \in [Jobs -> Nat]
<1>1. \A j \in Jobs : Enqueue(j) => queue' \in [Jobs -> Nat]
  BY DEF Enqueue
<1>2. ASSUME NEW w \in Workers, job[w] \in Jobs, Retry(w)
      PROVE  queue' \in [Jobs -> Nat]
  <2>. DEFINE again == [job[w] EXCEPT !.retries = @ + 1]
  <2>1. again.retries <= MaxRetries => again \in Jobs
    BY <1>2 DEF Jobs
  <2>2. again.retries <= MaxRetries => Enqueue(again)
    BY <1>2 DEF Retry
  <2>3. ~(again.retries <= MaxRetries) => queue' = queue
    BY <1>2 DEF Retry
  <2>. QED  BY <1>1, <2>1, <2>2, <2>3
<1>. QED  BY <1>1, <1>2

\* A commit keeps the row's type, and sets no column but to what it was given.
LEMMA SaveTypes ==
  ASSUME NEW w \in Workers, NEW to \in Row, thread \in [Threads -> Row],
         Of(w) \in Threads, Save(w, to)
  PROVE  /\ thread' \in [Threads -> Row]
         /\ \A t \in Threads \ {Of(w)} : thread'[t] = thread[t]
         /\ thread'[Of(w)].message \in {thread[Of(w)].message, to.message}
         /\ thread'[Of(w)].replied \in {thread[Of(w)].replied, to.replied}
         /\ to.message = seen[w].message => thread'[Of(w)].message = thread[Of(w)].message
         /\ to.replied = seen[w].replied => thread'[Of(w)].replied = thread[Of(w)].replied
<1>1. DOMAIN to = {"status", "message", "replied"}
  BY DEF Row
<1>2. thread'[Of(w)] = [f \in {"status", "message", "replied"} |->
        IF to[f] = seen[w][f] THEN thread[Of(w)][f] ELSE to[f]]
  BY <1>1 DEF Save
<1>3. thread[Of(w)] \in Row
  OBVIOUS
<1>4. /\ thread'[Of(w)] \in Row
      /\ thread'[Of(w)].message \in {thread[Of(w)].message, to.message}
      /\ thread'[Of(w)].replied \in {thread[Of(w)].replied, to.replied}
      /\ to.message = seen[w].message => thread'[Of(w)].message = thread[Of(w)].message
      /\ to.replied = seen[w].replied => thread'[Of(w)].replied = thread[Of(w)].replied
  BY <1>2, <1>3 DEF Row
<1>. QED  BY <1>4 DEF Save

\* What every step needs to know of a worker that has a job.
LEMMA WorkerTypes ==
  ASSUME TypeOK, NEW w \in Workers, pc[w] # "idle"
  PROVE  /\ job[w] \in Jobs /\ Of(w) \in Threads
         /\ seen[w] \in Row /\ text[w] \in Threads \cup {None}
BY JobTypes DEF TypeOK, Of

\* A worker whose job has ended.
LEMMA EndTypes ==
  ASSUME TypeOK, NEW w \in Workers, End(w)
  PROVE  /\ pc' \in [Workers -> Stages]
         /\ job' \in [Workers -> Jobs \cup {Idle}]
         /\ \A v \in Workers : pc'[v] # "idle" => job'[v] \in Jobs
         /\ seen' \in [Workers -> Row]
         /\ text' \in [Workers -> Threads \cup {None}]
<1>1. NoRow \in Row /\ "idle" \in Stages
  BY DEF NoRow, Row, Stages
<1>. QED  BY <1>1 DEF TypeOK, End, Goto

\* A worker that goes on with its job.
LEMMA GotoTypes ==
  ASSUME TypeOK, NEW w \in Workers, pc[w] # "idle", NEW s \in Stages, Goto(w, s),
         UNCHANGED job
  PROVE  /\ pc' \in [Workers -> Stages]
         /\ \A v \in Workers : pc'[v] # "idle" => job'[v] \in Jobs
BY DEF TypeOK, Goto

LEMMA StageNames ==
  /\ {"idle", "check", "open", "goto", "page", "filled", "sent", "commit", "leave",
      "fail", "close"} = Stages
  /\ InBrowser \subseteq Stages /\ "idle" \notin InBrowser
BY DEF Stages, InBrowser

LEMMA TypeInit == Init => TypeOK
<1> SUFFICES ASSUME Init PROVE TypeOK
  OBVIOUS
<1>1. NoRow \in Row /\ Blank \in Page
  BY DEF NoRow, Row, Blank, Page
<1>2. pc \in [Workers -> Stages] /\ \A w \in Workers : pc[w] = "idle"
  BY StageNames DEF Init
<1>3. queue \in [Jobs -> Nat] /\ sent \in [Threads -> Nat]
  BY DEF Init
<1>4. stray \in BOOLEAN /\ raced \in BOOLEAN /\ stuck \in BOOLEAN
  BY DEF Init
<1>. QED  BY <1>1, <1>2, <1>3, <1>4 DEF Init, TypeOK

LEMMA TypeStep == TypeOK /\ [Next]_vars => TypeOK'
<1> SUFFICES ASSUME TypeOK, [Next]_vars PROVE TypeOK'
  OBVIOUS
<1> USE DEF rowVars, bounds, browser, ghosts, workerVars
<1>1. ASSUME NEW t \in Threads, CreateThread(t) PROVE TypeOK'
  <2>1. thread' \in [Threads -> Row]
    BY <1>1 DEF CreateThread, TypeOK, Row
  <2>2. queue' \in [Jobs -> Nat]
    BY <1>1, QueueTypes, JobTypes DEF CreateThread, TypeOK
  <2>3. asked' \in Nat /\ fails' \in Nat
    BY <1>1 DEF CreateThread, Fail, TypeOK
  <2>. QED  BY <1>1, <2>1, <2>2, <2>3 DEF CreateThread, TypeOK
<1>2. ASSUME NEW t \in Threads, ReplyToThread(t) \/ RetryScrape(t) PROVE TypeOK'
  <2>1. queue' \in [Jobs -> Nat]
    BY <1>2, QueueTypes, JobTypes DEF ReplyToThread, RetryScrape, Ask, TypeOK
  <2>. QED  BY <1>2, <2>1 DEF ReplyToThread, RetryScrape, Ask, TypeOK
<1>3. ASSUME NEW w \in Workers, Take(w) PROVE TypeOK'
  <2>1. PICK j \in Jobs : /\ queue' = [queue EXCEPT ![j] = @ - 1] /\ queue[j] > 0
                          /\ job' = [job EXCEPT ![w] = j]
                          /\ seen' = [seen EXCEPT ![w] = thread[j.for]]
    BY <1>3 DEF Take
  <2>2. queue' \in [Jobs -> Nat]
    BY <2>1 DEF TypeOK
  <2>3. seen' \in [Workers -> Row]
    BY <2>1, JobTypes DEF TypeOK
  <2>4. job' \in [Workers -> Jobs \cup {Idle}] /\ pc' \in [Workers -> Stages]
    BY <1>3, <2>1, StageNames DEF TypeOK, Take, Goto
  <2>5. \A v \in Workers : pc'[v] # "idle" => job'[v] \in Jobs
    BY <1>3, <2>1 DEF TypeOK, Take, Goto
  <2>. QED  BY <1>3, <2>2, <2>3, <2>4, <2>5 DEF Take, TypeOK
<1>4. ASSUME NEW w \in Workers, Check(w) \/ Handle(w) PROVE TypeOK'
  <2>1. pc[w] # "idle" /\ UNCHANGED job
    BY <1>4 DEF Check, Handle
  <2>2. queue' \in [Jobs -> Nat]
    BY <1>4, <2>1, WorkerTypes, QueueTypes DEF Check, Handle, TypeOK
  <2>3. thread' \in [Threads -> Row]
    BY <1>4, <2>1, WorkerTypes DEF Check, Handle, TypeOK, Row
  <2>4. /\ pc' \in [Workers -> Stages]
        /\ \A v \in Workers : pc'[v] # "idle" => job'[v] \in Jobs
    BY <1>4, <2>1, GotoTypes, StageNames DEF Check, Handle
  <2>. QED  BY <1>4, <2>2, <2>3, <2>4 DEF Check, Handle, TypeOK
<1>5. ASSUME NEW w \in Workers, OpenProfile(w) \/ Navigate(w) \/ FillReply(w)
                                \/ ReadPage(w) \/ Leave(w) \/ LosesBrowser(w)
      PROVE  TypeOK'
  <2>1. pc[w] # "idle" /\ UNCHANGED job
    BY <1>5, StageNames DEF OpenProfile, Navigate, FillReply, ReadPage, Leave, LosesBrowser
  <2>2. /\ pc' \in [Workers -> Stages]
        /\ \A v \in Workers : pc'[v] # "idle" => job'[v] \in Jobs
    BY <1>5, <2>1, GotoTypes, StageNames
    DEF OpenProfile, Navigate, FillReply, ReadPage, Leave, LosesBrowser
  <2>3. page' \in Page /\ text' \in [Workers -> Threads \cup {None}]
    BY <1>5, <2>1, WorkerTypes
    DEF OpenProfile, Navigate, FillReply, ReadPage, Leave, LosesBrowser, TypeOK, Page
  <2>4. live' \in [Workers -> BOOLEAN] /\ active' \in BOOLEAN /\ raced' \in BOOLEAN
    BY <1>5 DEF OpenProfile, Navigate, FillReply, ReadPage, Leave, LosesBrowser, TypeOK
  <2>. QED
    BY <1>5, <2>1, <2>2, <2>3, <2>4
    DEF OpenProfile, Navigate, FillReply, ReadPage, Leave, LosesBrowser, TypeOK
<1>6. ASSUME NEW w \in Workers, CommitScrape(w) \/ ConfirmReply(w) PROVE TypeOK'
  <2>1. pc[w] # "idle" /\ UNCHANGED job
    BY <1>6 DEF CommitScrape, ConfirmReply
  <2>2. /\ [seen[w] EXCEPT !.status = "unread", !.message = text[w]] \in Row
        /\ [seen[w] EXCEPT !.status = "replied", !.replied = TRUE] \in Row
    BY <2>1, WorkerTypes DEF Row
  <2>3. thread' \in [Threads -> Row]
    BY <1>6, <2>1, <2>2, WorkerTypes, SaveTypes DEF CommitScrape, ConfirmReply, TypeOK
  <2>4. /\ pc' \in [Workers -> Stages]
        /\ \A v \in Workers : pc'[v] # "idle" => job'[v] \in Jobs
    BY <1>6, <2>1, GotoTypes, StageNames DEF CommitScrape, ConfirmReply
  <2>. QED  BY <1>6, <2>3, <2>4 DEF CommitScrape, ConfirmReply, TypeOK
<1>7. ASSUME NEW w \in Workers, ClickSend(w) PROVE TypeOK'
  <2>1. pc[w] # "idle" /\ UNCHANGED job
    BY <1>7 DEF ClickSend
  <2>2. /\ pc' \in [Workers -> Stages]
        /\ \A v \in Workers : pc'[v] # "idle" => job'[v] \in Jobs
    BY <1>7, <2>1, GotoTypes, StageNames DEF ClickSend
  <2>3. sent' \in [Threads -> Nat]
    BY <1>7 DEF ClickSend, TypeOK
  <2>4. page' \in Page
    BY <1>7 DEF ClickSend, TypeOK, Page
  <2>5. stray' \in BOOLEAN
    BY <1>7 DEF ClickSend
  <2>. QED  BY <1>7, <2>1, <2>2, <2>3, <2>4, <2>5 DEF ClickSend, TypeOK
<1>8. ASSUME NEW w \in Workers, Raise(w) \/ HandlerFails(w) PROVE TypeOK'
  <2>1. pc[w] # "idle" /\ UNCHANGED job
    BY <1>8 DEF Raise, HandlerFails
  <2>2. /\ pc' \in [Workers -> Stages]
        /\ \A v \in Workers : pc'[v] # "idle" => job'[v] \in Jobs
    BY <1>8, <2>1, GotoTypes, StageNames DEF Raise, HandlerFails
  <2>3. fails' \in Nat /\ asked' \in Nat
    BY <1>8 DEF Raise, HandlerFails, Fail, TypeOK
  <2>4. live' \in [Workers -> BOOLEAN]
    BY <1>8 DEF Raise, HandlerFails, TypeOK
  <2>. QED  BY <1>8, <2>1, <2>2, <2>3, <2>4 DEF Raise, HandlerFails, TypeOK
<1>9. ASSUME NEW w \in Workers, CloseProfile(w) \/ CloseFails(w) PROVE TypeOK'
  <2>1. End(w)
    BY <1>9 DEF CloseProfile, CloseFails
  <2>2. page' \in Page /\ fails' \in Nat /\ asked' \in Nat
    BY <1>9 DEF CloseProfile, CloseFails, Fail, TypeOK, Blank, Page
  <2>3. live' \in [Workers -> BOOLEAN] /\ active' \in BOOLEAN /\ stuck' \in BOOLEAN
    BY <1>9 DEF CloseProfile, CloseFails, TypeOK
  <2>. QED  BY <1>9, <2>1, <2>2, <2>3, EndTypes DEF CloseProfile, CloseFails, TypeOK
<1>10. ASSUME NEW w \in Workers, Crash(w) PROVE TypeOK'
  <2>1. queue' \in [Jobs -> Nat]
    BY <1>10, WorkerTypes, QueueTypes DEF Crash, TypeOK
  <2>. QED  BY <1>10, <2>1, EndTypes DEF Crash, Fail, TypeOK
<1>11. CASE UNCHANGED vars
  BY <1>11 DEF vars, TypeOK
<1>. QED
  BY <1>1, <1>2, <1>3, <1>4, <1>5, <1>6, <1>7, <1>8, <1>9, <1>10, <1>11
  DEF Next, Step, Failure

\* Every variable keeps its type; in particular a row never has a status its
\* CHECK constraint refuses.
THEOREM TypeCorrect == Spec => []TypeOK
BY TypeInit, TypeStep, PTL DEF Spec
-----------------------------------------------------------------------------
(* A running browser has a job that will stop it.                          *)

\* A job that is queued waits, and no other job is lost for it.
LEMMA EnqueueKeeps ==
  ASSUME queue \in [Jobs -> Nat], NEW j \in Jobs, Enqueue(j)
  PROVE  queue'[j] > 0 /\ \A k \in Jobs : queue[k] > 0 => queue'[k] > 0
BY DEF Enqueue

\* A job in progress stays in progress.
LEMMA GotoBusy ==
  ASSUME TypeOK, NEW w \in Workers, NEW s \in Stages \ {"idle"}, Goto(w, s)
  PROVE  \E v \in Workers : pc'[v] # "idle"
BY DEF TypeOK, Goto

LEMMA FreedStep == TypeOK /\ ProfileFreed /\ [Next]_vars => ProfileFreed'
<1> SUFFICES ASSUME TypeOK, ProfileFreed, [Next]_vars PROVE ProfileFreed'
  OBVIOUS
<1> USE DEF rowVars, bounds, browser, ghosts, workerVars
<1>1. ASSUME NEW t \in Threads, CreateThread(t) \/ ReplyToThread(t) \/ RetryScrape(t)
      PROVE  ProfileFreed'
  <2>1. PICK j \in Jobs : Enqueue(j) \/ UNCHANGED queue
    BY <1>1, JobTypes DEF CreateThread, ReplyToThread, RetryScrape, Ask
  <2>2. \A k \in Jobs : queue[k] > 0 => queue'[k] > 0
    BY <2>1, EnqueueKeeps DEF TypeOK
  <2>3. UNCHANGED <<active, stuck, pc>>
    BY <1>1 DEF CreateThread, ReplyToThread, RetryScrape, Ask
  <2>. QED  BY <2>2, <2>3 DEF ProfileFreed
\* Every step of a job but the last leaves it in progress.
<1>2. ASSUME NEW w \in Workers, Step(w) \/ Failure(w),
             ~(CloseProfile(w) \/ CloseFails(w) \/ Crash(w))
      PROVE  ProfileFreed'
  <2>1. \E s \in Stages \ {"idle"} : Goto(w, s)
    BY <1>2, StageNames
    DEF Step, Failure, Take, Check, OpenProfile, Navigate, ReadPage, CommitScrape,
        FillReply, ClickSend, ConfirmReply, Leave, LosesBrowser, Handle, Raise,
        HandlerFails
  <2>. QED  BY <2>1, GotoBusy DEF ProfileFreed
<1>3. ASSUME NEW w \in Workers, CloseProfile(w) \/ CloseFails(w) PROVE ProfileFreed'
  BY <1>3 DEF CloseProfile, CloseFails, ProfileFreed
<1>4. ASSUME NEW w \in Workers, Crash(w) PROVE ProfileFreed'
  <2>1. job[w] \in Jobs /\ Enqueue(job[w])
    BY <1>4, WorkerTypes DEF Crash
  <2>2. queue'[job[w]] > 0
    BY <2>1, EnqueueKeeps DEF TypeOK
  <2>. QED  BY <2>1, <2>2 DEF ProfileFreed
<1>5. CASE UNCHANGED vars
  BY <1>5 DEF vars, ProfileFreed
<1>. QED  BY <1>1, <1>2, <1>3, <1>4, <1>5 DEF Next

\* Whatever jobs die or are refused the profile, a browser that runs has a job, in
\* progress or queued, whose end will stop it, or AdsPower failed to stop it.
THEOREM ProfileFreedTheorem == Spec => []ProfileFreed
<1>1. Init => ProfileFreed
  BY DEF Init, ProfileFreed
<1>. QED  BY <1>1, FreedStep, TypeCorrect, PTL DEF Spec
-----------------------------------------------------------------------------
(* Own conversations.  While no job has started a browser that ran already,*)
(* at most one worker is connected, so the page shows what it put there.   *)

Alone ==
  ~raced => \A w \in Workers : live[w] =>
              active /\ \A v \in Workers : live[v] => v = w

\* What a worker knows of the page, of its text and of its reply.
Knows(w) ==
  /\ pc[w] \in {"page", "filled"} /\ live[w] => page.shows = Of(w)
  /\ pc[w] = "filled" /\ live[w] => page.box = Of(w)
  /\ pc[w] = "sent" => sent[Of(w)] > 0
  /\ pc[w] = "commit" => text[w] = Of(w)

Settled == ~raced => \A w \in Workers : Knows(w)

IInv == TypeOK /\ Alone /\ Settled /\ OwnConversation

LEMMA OwnInit == Init => Alone /\ Settled /\ OwnConversation
<1> SUFFICES ASSUME Init PROVE Alone /\ Settled /\ OwnConversation
  OBVIOUS
<1>1. \A w \in Workers : pc[w] = "idle" /\ ~live[w]
  BY DEF Init
<1>2. \A t \in Threads : thread[t].message = None /\ ~thread[t].replied
  BY DEF Init, NoRow
<1>3. ~stray
  BY DEF Init
<1>. QED  BY <1>1, <1>2, <1>3 DEF Alone, Settled, Knows, OwnConversation

\* Only a start of the browser connects a worker, and one that is not a race finds
\* nobody connected.
LEMMA AloneStep == IInv /\ [Next]_vars => Alone'
<1> SUFFICES ASSUME IInv, [Next]_vars, ~raced'
             PROVE  \A w \in Workers : live'[w] =>
                      active' /\ \A v \in Workers : live'[v] => v = w
  BY DEF Alone
<1> USE DEF rowVars, bounds, browser, ghosts, workerVars
<1>1. ASSUME NEW t \in Threads, CreateThread(t) \/ ReplyToThread(t) \/ RetryScrape(t)
      PROVE  UNCHANGED <<raced, live, active>>
  BY <1>1 DEF CreateThread, ReplyToThread, RetryScrape, Ask
<1>2. ASSUME NEW w \in Workers, OpenProfile(w)
      PROVE  ~raced /\ ~active /\ active' /\ live' = [live EXCEPT ![w] = TRUE]
  BY <1>2 DEF OpenProfile
<1>3. ASSUME NEW w \in Workers, CloseProfile(w)
      PROVE  \A v \in Workers : ~live'[v]
  BY <1>3 DEF CloseProfile
<1>4. ASSUME NEW w \in Workers, Step(w) \/ Failure(w), ~OpenProfile(w), ~CloseProfile(w)
      PROVE  /\ UNCHANGED <<raced, active>>
             /\ live' = live \/ live' = [live EXCEPT ![w] = FALSE]
  BY <1>4
  DEF Step, Failure, Take, Check, Navigate, ReadPage, CommitScrape, FillReply,
      ClickSend, ConfirmReply, Leave, LosesBrowser, Handle, Raise, HandlerFails,
      CloseFails, Crash
<1>5. CASE UNCHANGED vars
  BY <1>5 DEF vars, IInv, Alone
<1>6. live \in [Workers -> BOOLEAN]
  BY DEF IInv, TypeOK
<1>7. ASSUME NEW w \in Workers, OpenProfile(w)
      PROVE  \A u \in Workers : live'[u] =>
               active' /\ \A v \in Workers : live'[v] => v = u
  <2>1. \A v \in Workers : ~live[v]
    BY <1>2, <1>7 DEF IInv, Alone
  <2>. QED  BY <1>2, <1>6, <1>7, <2>1
<1>8. ASSUME NEW w \in Workers, Step(w) \/ Failure(w), ~OpenProfile(w), ~CloseProfile(w)
      PROVE  \A u \in Workers : live'[u] =>
               active' /\ \A v \in Workers : live'[v] => v = u
  <2>1. \A v \in Workers : live'[v] => live[v]
    BY <1>4, <1>6, <1>8
  <2>. QED  BY <1>4, <1>8, <2>1 DEF IInv, Alone
<1>. QED  BY <1>1, <1>3, <1>5, <1>7, <1>8 DEF Next, IInv, Alone

\* No step forgets that a job started a browser that ran.
LEMMA RacedStays == [Next]_vars /\ ~raced' => ~raced
<1> USE DEF rowVars, bounds, browser, ghosts, workerVars
<1>1. ASSUME NEW t \in Threads, CreateThread(t) \/ ReplyToThread(t) \/ RetryScrape(t)
      PROVE  raced' = raced
  BY <1>1 DEF CreateThread, ReplyToThread, RetryScrape, Ask
<1>2. ASSUME NEW w \in Workers, Step(w) \/ Failure(w), ~raced'
      PROVE  ~raced
  BY <1>2
  DEF Step, Failure, Take, Check, OpenProfile, Navigate, ReadPage, CommitScrape,
      FillReply, ClickSend, ConfirmReply, Leave, LosesBrowser, Handle, CloseProfile,
      Raise, HandlerFails, CloseFails, Crash
<1>3. UNCHANGED vars => raced' = raced
  BY DEF vars
<1>. QED  BY <1>1, <1>2, <1>3 DEF Next

\* What the other workers know is not disturbed by a step that leaves the page and
\* the replies alone and connects nobody.
LEMMA OthersKnow ==
  ASSUME IInv, TypeOK', NEW v \in Workers, Knows(v),
         pc'[v] = pc[v], job'[v] = job[v], text'[v] = text[v],
         live'[v] => live[v] /\ page' = page,
         \A t \in Threads : sent'[t] >= sent[t]
  PROVE  Knows(v)'
<1>1. pc[v] = "sent" => sent'[Of(v)] > 0
  <2>. SUFFICES ASSUME pc[v] = "sent" PROVE sent'[Of(v)] > 0
    OBVIOUS
  <2>1. Of(v) \in Threads
    BY WorkerTypes DEF IInv
  <2>2. sent[Of(v)] > 0 /\ sent'[Of(v)] >= sent[Of(v)]
    BY <2>1 DEF Knows
  <2>3. sent[Of(v)] \in Nat /\ sent'[Of(v)] \in Nat
    BY <2>1 DEF IInv, TypeOK
  <2>. QED  BY <2>2, <2>3
<1>. QED  BY <1>1 DEF Knows, Of

\* A connected worker is the only one, and so none of the others is disturbed by
\* what it does to the page; a worker whose own step is over knows what it did.
LEMMA SettledStep == IInv /\ TypeOK' /\ [Next]_vars => Settled'
<1> SUFFICES ASSUME IInv, TypeOK', [Next]_vars, ~raced'
             PROVE  \A w \in Workers : Knows(w)'
  BY DEF Settled
<1> USE DEF rowVars, bounds, browser, ghosts, workerVars
<1>0. ~raced /\ \A w \in Workers : Knows(w)
  BY RacedStays DEF IInv, Settled
<1>1. ASSUME NEW t \in Threads, CreateThread(t) \/ ReplyToThread(t) \/ RetryScrape(t)
      PROVE  UNCHANGED <<page, pc, job, text, live, sent>>
  BY <1>1 DEF CreateThread, ReplyToThread, RetryScrape, Ask
<1>2. UNCHANGED <<page, pc, job, text, live, sent>> => \A w \in Workers : Knows(w)'
  BY <1>0 DEF Knows, Of
<1>3. ASSUME NEW w \in Workers, Step(w) \/ Failure(w) PROVE Knows(w)'
  <2>1. pc \in [Workers -> Stages] /\ text \in [Workers -> Threads \cup {None}]
    BY DEF IInv, TypeOK
  <2>2. CASE Navigate(w)
    BY <2>1, <2>2 DEF Navigate, Goto, Knows, Of
  <2>3. CASE ReadPage(w)
    BY <1>0, <2>1, <2>3 DEF ReadPage, Goto, Knows, Of
  <2>4. CASE FillReply(w)
    BY <1>0, <2>1, <2>4 DEF FillReply, Goto, Knows, Of, IInv, TypeOK, Page
  <2>5. CASE ClickSend(w)
    <3>1. Of(w) \in Threads /\ pc'[w] = "sent"
      BY <2>1, <2>5, WorkerTypes DEF ClickSend, Goto, IInv
    <3>2. page.shows = Of(w) /\ page.box = Of(w)
      BY <1>0, <2>5 DEF ClickSend, Knows
    <3>3. sent'[Of(w)] = sent[Of(w)] + 1 /\ sent[Of(w)] \in Nat
      BY <2>5, <3>1, <3>2 DEF ClickSend, IInv, TypeOK
    <3>. QED  BY <2>5, <3>1, <3>3 DEF ClickSend, Knows, Of
  <2>6. CASE Take(w) \/ Check(w) \/ OpenProfile(w) \/ CommitScrape(w) \/ ConfirmReply(w)
             \/ Leave(w) \/ LosesBrowser(w) \/ Handle(w) \/ CloseProfile(w) \/ Failure(w)
    <3>1. pc'[w] \in {"check", "open", "fail", "goto", "leave", "close", "idle"}
      BY <2>1, <2>6
      DEF Take, Check, OpenProfile, CommitScrape, ConfirmReply, Leave, LosesBrowser,
          Handle, CloseProfile, Failure, Raise, HandlerFails, CloseFails, Crash, End, Goto
    <3>. QED  BY <3>1 DEF Knows
  <2>. QED  BY <1>3, <2>2, <2>3, <2>4, <2>5, <2>6 DEF Step
<1>4. ASSUME NEW w \in Workers, Step(w) \/ Failure(w), NEW v \in Workers, v # w
      PROVE  Knows(v)'
  <2>1. pc'[v] = pc[v] /\ job'[v] = job[v] /\ text'[v] = text[v]
    BY <1>4
    DEF IInv, TypeOK, Step, Failure, Take, Check, OpenProfile, Navigate, ReadPage,
        CommitScrape, FillReply, ClickSend, ConfirmReply, Leave, LosesBrowser, Handle,
        CloseProfile, Raise, HandlerFails, CloseFails, Crash, End, Goto
  <2>2. \A t \in Threads : sent'[t] >= sent[t]
    <3>1. sent \in [Threads -> Nat]
      BY DEF IInv, TypeOK
    <3>2. CASE ClickSend(w)
      BY <3>1, <3>2 DEF ClickSend
    <3>3. CASE ~ClickSend(w)
      <4>1. sent' = sent
        BY <1>4, <3>3
        DEF Step, Failure, Take, Check, OpenProfile, Navigate, ReadPage, CommitScrape,
            FillReply, ConfirmReply, Leave, LosesBrowser, Handle, CloseProfile, Raise,
            HandlerFails, CloseFails, Crash
      <4>. QED  BY <3>1, <4>1
    <3>. QED  BY <3>2, <3>3
  <2>3. live'[v] => live[v] /\ page' = page
    <3>1. CASE Navigate(w) \/ FillReply(w) \/ ClickSend(w)
      <4>1. live[w] /\ live' = live
        BY <3>1 DEF Navigate, FillReply, ClickSend
      <4>. QED  BY <1>0, <1>4, <4>1 DEF IInv, Alone
    <3>2. CASE CloseProfile(w)
      BY <3>2 DEF CloseProfile
    <3>3. CASE ~(Navigate(w) \/ FillReply(w) \/ ClickSend(w) \/ CloseProfile(w))
      BY <1>4, <3>3
      DEF IInv, TypeOK, Step, Failure, Take, Check, OpenProfile, ReadPage, CommitScrape,
          ConfirmReply, Leave, LosesBrowser, Handle, Raise, HandlerFails, CloseFails, Crash
    <3>. QED  BY <3>1, <3>2, <3>3
  <2>. QED  BY <1>0, <2>1, <2>2, <2>3, OthersKnow
<1>5. CASE UNCHANGED vars
  BY <1>2, <1>5 DEF vars
<1>. QED  BY <1>1, <1>2, <1>3, <1>4, <1>5 DEF Next

\* A thread shows what was read and is marked replied only in a commit; both write
\* what the worker knows.
LEMMA OwnStep == IInv /\ TypeOK' /\ [Next]_vars => OwnConversation'
<1> SUFFICES ASSUME IInv, TypeOK', [Next]_vars, ~raced' PROVE OwnConversation'
  BY DEF OwnConversation
<1> USE DEF rowVars, bounds, browser, ghosts, workerVars
<1> DEFINE Kept(t) == /\ thread'[t].message \in {thread[t].message, t}
                      /\ thread'[t].replied => thread[t].replied \/ sent[t] > 0
                      /\ sent'[t] >= sent[t]
<1>1. SUFFICES ASSUME ~raced
               PROVE  stray' = stray /\ \A t \in Threads : Kept(t)
  <2>1. ~raced
    BY RacedStays
  <2>2. sent \in [Threads -> Nat] /\ sent' \in [Threads -> Nat]
    BY DEF IInv, TypeOK
  <2>3. ASSUME \A t \in Threads : Kept(t), NEW t \in Threads
        PROVE  /\ thread'[t].message \in {None, t}
               /\ thread'[t].replied => sent'[t] > 0
    <3>1. thread[t].message \in {None, t} /\ (thread[t].replied => sent[t] > 0)
      BY <2>1 DEF IInv, OwnConversation
    <3>. QED  BY <2>2, <2>3, <3>1
  <2>. QED  BY <2>1, <2>3 DEF IInv, OwnConversation
<1>2. ASSUME stray' = stray, sent' = sent,
             \A t \in Threads : /\ thread'[t].message = thread[t].message
                                /\ thread'[t].replied = thread[t].replied
      PROVE  stray' = stray /\ \A t \in Threads : Kept(t)
  <2>1. sent \in [Threads -> Nat]
    BY DEF IInv, TypeOK
  <2>. QED  BY <1>2, <2>1
<1>3. ASSUME NEW t \in Threads, CreateThread(t) \/ ReplyToThread(t) \/ RetryScrape(t)
      PROVE  stray' = stray /\ \A u \in Threads : Kept(u)
  <2>1. UNCHANGED <<stray, sent>>
    BY <1>3 DEF CreateThread, ReplyToThread, RetryScrape, Ask
  <2>2. \A u \in Threads : /\ thread'[u].message = thread[u].message
                           /\ thread'[u].replied = thread[u].replied
    BY <1>3 DEF CreateThread, ReplyToThread, RetryScrape, Ask, IInv, TypeOK, Row
  <2>. QED  BY <1>2, <2>1, <2>2
<1>4. ASSUME NEW w \in Workers, Step(w) \/ Failure(w)
      PROVE  stray' = stray /\ \A t \in Threads : Kept(t)
  <2>0. Knows(w) /\ thread \in [Threads -> Row] /\ sent \in [Threads -> Nat]
    BY <1>1 DEF IInv, Settled, TypeOK
  <2>1. CASE CommitScrape(w)
    <3>1. /\ Of(w) \in Threads /\ text[w] = Of(w) /\ seen[w] \in Row
          /\ [seen[w] EXCEPT !.status = "unread", !.message = text[w]] \in Row
      BY <2>0, <2>1, WorkerTypes DEF CommitScrape, Knows, IInv, Row
    <3>2. [seen[w] EXCEPT !.status = "unread", !.message = text[w]].message = Of(w)
      BY <3>1 DEF Row
    <3>3. [seen[w] EXCEPT !.status = "unread", !.message = text[w]].replied
          = seen[w].replied
      BY <3>1 DEF Row
    <3>4. /\ thread'[Of(w)].message \in {thread[Of(w)].message, Of(w)}
          /\ thread'[Of(w)].replied = thread[Of(w)].replied
          /\ \A t \in Threads \ {Of(w)} : thread'[t] = thread[t]
      BY <2>0, <2>1, <3>1, <3>2, <3>3, SaveTypes DEF CommitScrape
    <3>5. UNCHANGED <<stray, sent>>
      BY <2>1 DEF CommitScrape
    <3>. QED  BY <2>0, <3>4, <3>5
  <2>2. CASE ConfirmReply(w)
    <3>1. /\ Of(w) \in Threads /\ sent[Of(w)] > 0 /\ seen[w] \in Row
          /\ [seen[w] EXCEPT !.status = "replied", !.replied = TRUE] \in Row
      BY <2>0, <2>2, WorkerTypes DEF ConfirmReply, Knows, IInv, Row
    <3>2. [seen[w] EXCEPT !.status = "replied", !.replied = TRUE].message
          = seen[w].message
      BY <3>1 DEF Row
    <3>3. /\ thread'[Of(w)].message = thread[Of(w)].message
          /\ \A t \in Threads \ {Of(w)} : thread'[t] = thread[t]
      BY <2>0, <2>2, <3>1, <3>2, SaveTypes DEF ConfirmReply
    <3>4. UNCHANGED <<stray, sent>>
      BY <2>2 DEF ConfirmReply
    <3>. QED  BY <2>0, <3>1, <3>3, <3>4
  <2>3. CASE ClickSend(w)
    <3>1. page.box = page.shows /\ UNCHANGED thread
      BY <2>0, <2>3 DEF ClickSend, Knows
    <3>2. stray' = stray
      BY <2>3, <3>1 DEF ClickSend, IInv, TypeOK
    <3>3. \A t \in Threads : sent'[t] >= sent[t]
      BY <2>0, <2>3 DEF ClickSend
    <3>. QED  BY <3>1, <3>2, <3>3
  <2>4. CASE Handle(w)
    <3>1. UNCHANGED <<stray, sent>>
      BY <2>4 DEF Handle
    <3>2. \A u \in Threads : /\ thread'[u].message = thread[u].message
                             /\ thread'[u].replied = thread[u].replied
      BY <2>0, <2>4 DEF Handle, Row
    <3>. QED  BY <1>2, <3>1, <3>2
  <2>5. CASE Take(w) \/ Check(w) \/ OpenProfile(w) \/ Navigate(w) \/ ReadPage(w)
             \/ FillReply(w) \/ Leave(w) \/ LosesBrowser(w) \/ CloseProfile(w)
             \/ Failure(w)
    <3>1. UNCHANGED <<stray, sent, thread>>
      BY <2>5
      DEF Take, Check, OpenProfile, Navigate, ReadPage, FillReply, Leave, LosesBrowser,
          CloseProfile, Failure, Raise, HandlerFails, CloseFails, Crash
    <3>. QED  BY <1>2, <3>1
  <2>. QED  BY <1>4, <2>1, <2>2, <2>3, <2>4, <2>5 DEF Step
<1>5. ASSUME UNCHANGED vars
      PROVE  stray' = stray /\ \A t \in Threads : Kept(t)
  <2>1. UNCHANGED <<stray, sent, thread>>
    BY <1>5 DEF vars
  <2>. QED  BY <1>2, <2>1
<1>. QED  BY <1>3, <1>4, <1>5 DEF Next

\* As long as no job starts a browser that another job has started, for any number
\* of workers, conversations and retries and through every failure: no reply goes to
\* another conversation, no thread shows the messages of another one, and a thread
\* that is marked replied has had a reply sent.
THEOREM OwnConversationTheorem == Spec => []OwnConversation
<1>1. Init => IInv
  BY TypeInit, OwnInit DEF IInv
<1>2. IInv /\ [Next]_vars => IInv'
  <2>1. IInv => TypeOK
    BY DEF IInv
  <2>. QED  BY <2>1, TypeStep, AloneStep, SettledStep, OwnStep DEF IInv
<1>3. IInv => OwnConversation
  BY DEF IInv
<1>. QED  BY <1>1, <1>2, <1>3, PTL DEF Spec
-----------------------------------------------------------------------------
(* How often a reply is sent.  Every request brings a copy of the job, and *)
(* every failure at most one; a copy that has been retried k times may     *)
(* still send as many replies as 1 .. MaxRetries - k has subsets, since it *)
(* may leave two copies with a retry more, or send one and leave one.      *)
(* What may still be sent is counted by an injection into                  *)
(* Pool: no sum is needed, and no arithmetic of powers.                    *)

Reply(t, k) == [what |-> "reply", for |-> t, retries |-> k]

Share(k) == SUBSET ((k + 1) .. MaxRetries)
Rest(k)  == IF k < MaxRetries THEN Share(k + 1) ELSE {}

\* What a worker at this stage of its job may still send for thread t.
Claim(t, stage, j) ==
  IF j.what # "reply" \/ j.for # t THEN {}
  ELSE IF stage \in {"check", "open", "goto", "page"} THEN Share(j.retries)
  ELSE IF stage \in {"filled", "sent", "fail"} THEN Rest(j.retries)
  ELSE {}

\* The n replies sent, the one in the box b, those of the queue q, and those of
\* the workers at stages s with jobs j.
SentClaims(n)      == {"sent"} \X (1 .. n) \X {{}}
BoxClaims(t, b)    == {u \in {"box"} \X {0} \X {{}} : b = t}
QueueClaims(t, q)  ==
  {u \in {"queue"} \X ((0 .. MaxRetries) \X Nat) \X SUBSET (1 .. MaxRetries) :
     /\ u[2][2] \in 1 .. q[Reply(t, u[2][1])]
     /\ u[3] \in Share(u[2][1])}
WorkerClaims(t, s, j) ==
  {u \in {"worker"} \X Workers \X SUBSET (1 .. MaxRetries) :
     u[3] \in Claim(t, s[u[2]], j[u[2]])}

Claims(t, n, b, q, s, j) ==
  SentClaims(n) \cup BoxClaims(t, b) \cup QueueClaims(t, q) \cup WorkerClaims(t, s, j)

Owed(t) == Claims(t, sent[t], page.box, queue, pc, job)
Pool    == (1 .. asked + fails) \X SUBSET (1 .. MaxRetries)

SentFit == \A t \in Threads : ExistsInjection(Owed(t), Pool)

\* Which of its parts a claim belongs to.
LEMMA ClaimOf ==
  ASSUME NEW t, NEW n, NEW b, NEW q, NEW s, NEW j, NEW X, NEW i
  PROVE  /\ <<"sent", i, X>> \in Claims(t, n, b, q, s, j) <=> i \in 1 .. n /\ X = {}
         /\ <<"box", i, X>> \in Claims(t, n, b, q, s, j) <=> b = t /\ i = 0 /\ X = {}
         /\ <<"queue", i, X>> \in Claims(t, n, b, q, s, j) <=>
              <<"queue", i, X>> \in QueueClaims(t, q)
         /\ <<"worker", i, X>> \in Claims(t, n, b, q, s, j) <=>
              <<"worker", i, X>> \in WorkerClaims(t, s, j)
<1>1. <<"sent", i, X>> \in Claims(t, n, b, q, s, j) <=> i \in 1 .. n /\ X = {}
  BY DEF Claims, SentClaims, BoxClaims, QueueClaims, WorkerClaims
<1>2. <<"box", i, X>> \in Claims(t, n, b, q, s, j) <=> b = t /\ i = 0 /\ X = {}
  BY DEF Claims, SentClaims, BoxClaims, QueueClaims, WorkerClaims
<1>3. <<"queue", i, X>> \in Claims(t, n, b, q, s, j) <=>
        <<"queue", i, X>> \in QueueClaims(t, q)
  BY DEF Claims, SentClaims, BoxClaims, WorkerClaims
<1>4. <<"worker", i, X>> \in Claims(t, n, b, q, s, j) <=>
        <<"worker", i, X>> \in WorkerClaims(t, s, j)
  BY DEF Claims, SentClaims, BoxClaims, QueueClaims
<1>. QED  BY <1>1, <1>2, <1>3, <1>4

LEMMA ShareIs ==
  ASSUME NEW k \in Nat
  PROVE  Share(k) \subseteq SUBSET (1 .. MaxRetries)
BY DEF Share

LEMMA QueueClaim ==
  ASSUME NEW t, NEW q, NEW k \in 0 .. MaxRetries, NEW i, NEW X, q[Reply(t, k)] \in Nat
  PROVE  <<"queue", <<k, i>>, X>> \in QueueClaims(t, q) <=>
           i \in 1 .. q[Reply(t, k)] /\ X \in Share(k)
BY ShareIs DEF QueueClaims

LEMMA InjectionIs ==
  ASSUME NEW A, NEW P, ExistsInjection(A, P)
  PROVE  \E f \in [A -> P] : \A x, y \in A : f[x] = f[y] => x = y
<1>1. PICK f : f \in Injection(A, P)
  BY DEF ExistsInjection
<1>. QED  BY <1>1, Fun_InjectionProperties

\* What is new takes the places of what is gone, ...
LEMMA Trade ==
  ASSUME NEW A, NEW B, NEW P, NEW Q, P \subseteq Q, ExistsInjection(A, P),
         NEW h \in [B \ A -> A \ B], \A x, y \in B \ A : h[x] = h[y] => x = y
  PROVE  ExistsInjection(B, Q)
<1>1. PICK f \in [A -> P] : \A x, y \in A : f[x] = f[y] => x = y
  BY InjectionIs
<1> DEFINE f2 == [x \in B |-> IF x \in A THEN f[x] ELSE f[h[x]]]
<1>2. f2 \in [B -> Q]
  BY <1>1
<1>3. \A x, y \in B : f2[x] = f2[y] => x = y
  BY <1>1
<1>. HIDE DEF f2
<1>4. f2 \in Injection(B, Q)
  BY <1>2, <1>3, Fun_IsInj
<1>. QED  BY <1>4 DEF ExistsInjection

\* ... or of a request or failure that is new.
LEMMA Grant ==
  ASSUME NEW A, NEW B, NEW P, NEW Q, P \subseteq Q, ExistsInjection(A, P),
         NEW h, \A x \in B \ A : h[x] \in Q \ P, \A x, y \in B \ A : h[x] = h[y] => x = y
  PROVE  ExistsInjection(B, Q)
<1>1. PICK f \in [A -> P] : \A x, y \in A : f[x] = f[y] => x = y
  BY InjectionIs
<1> DEFINE f2 == [x \in B |-> IF x \in A THEN f[x] ELSE h[x]]
<1>2. f2 \in [B -> Q]
  BY <1>1
<1>3. \A x, y \in B : f2[x] = f2[y] => x = y
  BY <1>1
<1>. HIDE DEF f2
<1>4. f2 \in Injection(B, Q)
  BY <1>2, <1>3, Fun_IsInj
<1>. QED  BY <1>4 DEF ExistsInjection

\* What is new in B is a block of claims <<a, c, X>>, one for every X in D, and each
\* takes a claim <<d, e, g[X]>> that is gone.
Moves(A, B, a, c, d, e, D, g) ==
  /\ \A X, Y \in D : g[X] = g[Y] => X = Y
  /\ \A u \in B \ A : \E X \in D : u = <<a, c, X>>
  /\ \A X \in D : <<d, e, g[X]>> \in A \ B

LEMMA Move ==
  ASSUME NEW A, NEW B, NEW P, NEW Q, P \subseteq Q, ExistsInjection(A, P),
         NEW a, NEW c, NEW d, NEW e, NEW D, NEW g, Moves(A, B, a, c, d, e, D, g)
  PROVE  ExistsInjection(B, Q)
<1> USE DEF Moves
<1> DEFINE h == [u \in B \ A |-> <<d, e, g[u[3]]>>]
<1>1. h \in [B \ A -> A \ B]
  <2> SUFFICES ASSUME NEW u \in B \ A PROVE <<d, e, g[u[3]]>> \in A \ B
    OBVIOUS
  <2>1. PICK X \in D : u = <<a, c, X>>
    OBVIOUS
  <2>. QED  BY <2>1
<1>2. \A x, y \in B \ A : h[x] = h[y] => x = y
  <2> SUFFICES ASSUME NEW x \in B \ A, NEW y \in B \ A, h[x] = h[y] PROVE x = y
    OBVIOUS
  <2>1. PICK X \in D : x = <<a, c, X>>
    OBVIOUS
  <2>2. PICK Y \in D : y = <<a, c, Y>>
    OBVIOUS
  <2>3. <<d, e, g[x[3]]>> = <<d, e, g[y[3]]>>
    OBVIOUS
  <2>. QED  BY <2>1, <2>2, <2>3
<1>. HIDE DEF h
<1>. QED  BY <1>1, <1>2, Trade

\* What is new is one block.
OneBlock(A, B, a, c) ==
  \A u \in B \ A : \E X \in SUBSET (1 .. MaxRetries) : u = <<a, c, X>>

\* It is paid by request or failure number N.
LEMMA Pay ==
  ASSUME NEW A, NEW B, NEW P, NEW Q, P \subseteq Q, ExistsInjection(A, P),
         NEW a, NEW c, NEW N, OneBlock(A, B, a, c),
         \A X \in SUBSET (1 .. MaxRetries) : <<N, X>> \in Q \ P
  PROVE  ExistsInjection(B, Q)
<1> USE DEF OneBlock
<1> DEFINE h == [u \in B \ A |-> <<N, u[3]>>]
<1>1. \A u \in B \ A : h[u] \in Q \ P
  <2> SUFFICES ASSUME NEW u \in B \ A PROVE <<N, u[3]>> \in Q \ P
    OBVIOUS
  <2>1. PICK X \in SUBSET (1 .. MaxRetries) : u = <<a, c, X>>
    OBVIOUS
  <2>. QED  BY <2>1
<1>2. \A x, y \in B \ A : h[x] = h[y] => x = y
  <2> SUFFICES ASSUME NEW x \in B \ A, NEW y \in B \ A, h[x] = h[y] PROVE x = y
    OBVIOUS
  <2>1. PICK X \in SUBSET (1 .. MaxRetries) : x = <<a, c, X>>
    OBVIOUS
  <2>2. PICK Y \in SUBSET (1 .. MaxRetries) : y = <<a, c, Y>>
    OBVIOUS
  <2>3. <<N, x[3]>> = <<N, y[3]>>
    OBVIOUS
  <2>. QED  BY <2>1, <2>2, <2>3
<1>. HIDE DEF h
<1>. QED  BY <1>1, <1>2, Grant

\* Nothing is new.
LEMMA Fewer ==
  ASSUME NEW A, NEW B, NEW P, NEW Q, P \subseteq Q, ExistsInjection(A, P), B \subseteq A
  PROVE  ExistsInjection(B, Q)
<1> DEFINE h == [u \in B \ A |-> u]
<1>1. h \in [B \ A -> A \ B] /\ \A x, y \in B \ A : h[x] = h[y] => x = y
  OBVIOUS
<1>. HIDE DEF h
<1>. QED  BY <1>1, Trade

-----------------------------------------------------------------------------
(* How the claims change with the state.                                   *)

\* The queue r has one job jb more than q; no worker but w goes on.
OneMore(q, r, jb)    == r[jb] = q[jb] + 1 /\ \A x \in Jobs \ {jb} : r[x] = q[x]
Only(w, s, z, j, g) == \A v \in Workers \ {w} : z[v] = s[v] /\ g[v] = j[v]

LEMMA NewClaims ==
  ASSUME NEW t, NEW n, NEW b, NEW q, NEW s, NEW j, NEW m, NEW c, NEW r, NEW z, NEW g,
         NEW u \in Claims(t, m, c, r, z, g) \ Claims(t, n, b, q, s, j)
  PROVE  \/ \E i \in (1 .. m) \ (1 .. n) : u = <<"sent", i, {}>>
         \/ c = t /\ b # t /\ u = <<"box", 0, {}>>
         \/ u \in QueueClaims(t, r) \ QueueClaims(t, q)
         \/ u \in WorkerClaims(t, z, g) \ WorkerClaims(t, s, j)
<1>1. u \in SentClaims(m) \ SentClaims(n) => \E i \in (1 .. m) \ (1 .. n) : u = <<"sent", i, {}>>
  BY DEF SentClaims
<1>2. u \in BoxClaims(t, c) \ BoxClaims(t, b) => c = t /\ b # t /\ u = <<"box", 0, {}>>
  BY DEF BoxClaims
<1>. QED  BY <1>1, <1>2 DEF Claims

\* The types of a reply, and which job it is.
LEMMA ReplyTypes ==
  ASSUME NEW t \in Threads
  PROVE  /\ \A k \in 0 .. MaxRetries : Reply(t, k) \in Jobs
         /\ \A jb \in Jobs : /\ jb.retries \in 0 .. MaxRetries
                             /\ jb.what = "reply" /\ jb.for = t <=> jb = Reply(t, jb.retries)
         /\ \A k, l : Reply(t, k) = Reply(t, l) => k = l
BY DEF Reply, Jobs

\* A job that is queued brings the claims of its retries, if it is a reply for t.
LEMMA QueueChange ==
  ASSUME NEW t \in Threads, NEW q \in [Jobs -> Nat], NEW r \in [Jobs -> Nat],
         NEW jb \in Jobs, OneMore(q, r, jb)
  PROVE  /\ jb.what # "reply" \/ jb.for # t => QueueClaims(t, r) = QueueClaims(t, q)
         /\ \A k : jb = Reply(t, k) =>
              /\ \A u \in QueueClaims(t, r) \ QueueClaims(t, q) :
                   \E X \in Share(k) : u = <<"queue", <<k, q[jb] + 1>>, X>>
              /\ \A X \in Share(k) :
                   <<"queue", <<k, q[jb] + 1>>, X>> \in QueueClaims(t, r) \ QueueClaims(t, q)
              /\ QueueClaims(t, q) \subseteq QueueClaims(t, r)
<1>1. ASSUME jb.what # "reply" \/ jb.for # t
      PROVE  QueueClaims(t, r) = QueueClaims(t, q)
  <2>1. \A k \in 0 .. MaxRetries : r[Reply(t, k)] = q[Reply(t, k)]
    <3> SUFFICES ASSUME NEW k \in 0 .. MaxRetries PROVE r[Reply(t, k)] = q[Reply(t, k)]
      OBVIOUS
    <3>1. Reply(t, k) \in Jobs /\ Reply(t, k) # jb
      BY <1>1, ReplyTypes DEF Reply
    <3>. QED  BY <3>1 DEF OneMore
  <2>. QED  BY <2>1 DEF QueueClaims
<1>2. ASSUME NEW k, jb = Reply(t, k)
      PROVE  /\ \A u \in QueueClaims(t, r) \ QueueClaims(t, q) :
                  \E X \in Share(k) : u = <<"queue", <<k, q[jb] + 1>>, X>>
             /\ \A X \in Share(k) :
                  <<"queue", <<k, q[jb] + 1>>, X>> \in QueueClaims(t, r) \ QueueClaims(t, q)
             /\ QueueClaims(t, q) \subseteq QueueClaims(t, r)
  <2>1. k \in 0 .. MaxRetries
    BY <1>2, ReplyTypes DEF Reply
  <2>2. \A l \in 0 .. MaxRetries : l # k => r[Reply(t, l)] = q[Reply(t, l)]
    BY <1>2, ReplyTypes DEF OneMore
  <2>3. r[Reply(t, k)] = q[Reply(t, k)] + 1 /\ q[Reply(t, k)] \in Nat
    BY <1>2 DEF OneMore
  <2>4. \A i \in Int : i \in 1 .. r[Reply(t, k)] <=>
                         i \in 1 .. q[Reply(t, k)] \/ i = q[Reply(t, k)] + 1
    BY <2>3
  <2>5. ASSUME NEW u \in QueueClaims(t, r) \ QueueClaims(t, q)
        PROVE  \E X \in Share(k) : u = <<"queue", <<k, q[jb] + 1>>, X>>
    <3>1. PICK l \in 0 .. MaxRetries, i \in Nat, X \in SUBSET (1 .. MaxRetries) :
            /\ u = <<"queue", <<l, i>>, X>>
            /\ i \in 1 .. r[Reply(t, l)] /\ X \in Share(l)
      BY DEF QueueClaims
    <3>2. ~(i \in 1 .. q[Reply(t, l)])
      BY <3>1 DEF QueueClaims
    <3>3. l = k
      BY <2>2, <3>1, <3>2
    <3>4. i = q[Reply(t, k)] + 1
      BY <2>4, <3>1, <3>2, <3>3
    <3>. QED  BY <1>2, <3>1, <3>3, <3>4
  <2>6. ASSUME NEW X \in Share(k)
        PROVE  <<"queue", <<k, q[jb] + 1>>, X>> \in QueueClaims(t, r) \ QueueClaims(t, q)
    <3>1. X \in SUBSET (1 .. MaxRetries) /\ q[jb] + 1 \in Nat
      BY <2>1, ShareIs
    <3>2. q[jb] + 1 \in 1 .. r[Reply(t, k)] /\ ~(q[jb] + 1 \in 1 .. q[Reply(t, k)])
      BY <1>2, <2>3
    <3>. QED  BY <2>1, <3>1, <3>2 DEF QueueClaims
  <2>7. QueueClaims(t, q) \subseteq QueueClaims(t, r)
    BY <2>2, <2>4 DEF QueueClaims
  <2>. QED  BY <2>5, <2>6, <2>7
<1>. QED  BY <1>1, <1>2

\* Only the claims of the worker that goes on change.
LEMMA WorkerChange ==
  ASSUME NEW t, NEW w \in Workers, NEW s, NEW z, NEW j, NEW g, Only(w, s, z, j, g)
  PROVE  /\ \A u \in WorkerClaims(t, z, g) \ WorkerClaims(t, s, j) :
              \E X \in Claim(t, z[w], g[w]) \ Claim(t, s[w], j[w]) : u = <<"worker", w, X>>
         /\ \A X \in Claim(t, s[w], j[w]) \ Claim(t, z[w], g[w]) :
              X \in SUBSET (1 .. MaxRetries) =>
                <<"worker", w, X>> \in WorkerClaims(t, s, j) \ WorkerClaims(t, z, g)
BY DEF WorkerClaims, Only

-----------------------------------------------------------------------------
(* Every step keeps SentFit.                                               *)

Fit(t) == ExistsInjection(Owed(t), Pool)

\* What a stage may still send, for a reply of this thread that was retried k times.
LEMMA ClaimIs ==
  ASSUME NEW t, NEW stage \in Stages, NEW jb \in Jobs
  PROVE  /\ jb.what # "reply" \/ jb.for # t => Claim(t, stage, jb) = {}
         /\ stage \in {"idle", "commit", "leave", "close"} => Claim(t, stage, jb) = {}
         /\ jb.what = "reply" /\ jb.for = t =>
              /\ stage \in {"check", "open", "goto", "page"} =>
                   Claim(t, stage, jb) = Share(jb.retries)
              /\ stage \in {"filled", "sent", "fail"} => Claim(t, stage, jb) = Rest(jb.retries)
BY DEF Claim

LEMMA IdleClaim ==
  ASSUME NEW t, NEW jb
  PROVE  Claim(t, "idle", jb) = {}
BY DEF Claim

\* A copy that is sent, or has failed, leaves at most one with a retry more.
LEMMA RestIs ==
  ASSUME NEW k \in 0 .. MaxRetries
  PROVE  /\ Rest(k) \subseteq Share(k) /\ Share(k) \subseteq SUBSET (1 .. MaxRetries)
         /\ (k + 1) .. MaxRetries \in Share(k) \ Rest(k)
         /\ k < MaxRetries => Rest(k) = Share(k + 1)
         /\ ~(k < MaxRetries) => Rest(k) = {}
<1>1. CASE k < MaxRetries
  <2>1. Rest(k) = SUBSET ((k + 1 + 1) .. MaxRetries)
    BY <1>1 DEF Rest, Share
  <2>2. (k + 1 + 1) .. MaxRetries \subseteq (k + 1) .. MaxRetries
    OBVIOUS
  <2>3. k + 1 \in (k + 1) .. MaxRetries /\ ~(k + 1 \in (k + 1 + 1) .. MaxRetries)
    BY <1>1
  <2>4. (k + 1) .. MaxRetries \notin SUBSET ((k + 1 + 1) .. MaxRetries)
    BY <2>3
  <2>. QED  BY <1>1, <2>1, <2>2, <2>4, ShareIs DEF Share, Rest
<1>2. CASE ~(k < MaxRetries)
  BY <1>2, ShareIs DEF Share, Rest
<1>. QED  BY <1>1, <1>2

\* Of two copies of a job that was retried once more than k times, one takes the
\* subsets without k + 1 and the other those with it.
LEMMA Halves ==
  ASSUME NEW k \in 0 .. MaxRetries, k < MaxRetries
  PROVE  /\ \A X \in Share(k + 1) : X \cup {k + 1} \in Share(k) \ Share(k + 1)
         /\ \A X, Y \in Share(k + 1) : X \cup {k + 1} = Y \cup {k + 1} => X = Y
<1>1. ~(k + 1 \in (k + 1 + 1) .. MaxRetries) /\ k + 1 \in (k + 1) .. MaxRetries
  OBVIOUS
<1>2. (k + 1 + 1) .. MaxRetries \subseteq (k + 1) .. MaxRetries
  OBVIOUS
<1> DEFINE V == (k + 1 + 1) .. MaxRetries
           U == (k + 1) .. MaxRetries
           e == k + 1
<1>3. Share(k + 1) = SUBSET V /\ Share(k) = SUBSET U
  BY DEF Share
<1>4. e \notin V /\ e \in U /\ V \subseteq U
  BY <1>1, <1>2
<1>. HIDE DEF V, U, e
<1>5. \A X \in SUBSET V : X \cup {e} \in SUBSET U /\ X \cup {e} \notin SUBSET V
  BY <1>4
<1>6. \A X, Y \in SUBSET V : X \cup {e} = Y \cup {e} => X = Y
  <2> SUFFICES ASSUME NEW X \in SUBSET V, NEW Y \in SUBSET V, X \cup {e} = Y \cup {e}
               PROVE  X = Y
    OBVIOUS
  <2>1. e \notin X /\ e \notin Y
    BY <1>4
  <2>2. \A x : x \in X \cup {e} <=> x \in Y \cup {e}
    OBVIOUS
  <2>. QED  BY <2>1, <2>2
<1>. QED  BY <1>3, <1>5, <1>6 DEF e

\* Requests and failures are counted up, and one more gives MaxRetries' subsets more.
LEMMA Pools ==
  ASSUME TypeOK, TypeOK', asked' + fails' >= asked + fails
  PROVE  /\ Pool \subseteq Pool'
         /\ asked' + fails' = asked + fails + 1 =>
              \A X \in SUBSET (1 .. MaxRetries) : <<asked + fails + 1, X>> \in Pool' \ Pool
<1> DEFINE p == asked + fails
           p2 == asked' + fails'
<1>0. asked \in Nat /\ fails \in Nat /\ asked' \in Nat /\ fails' \in Nat
  BY DEF TypeOK
<1>1. p \in Nat /\ p2 \in Nat /\ p2 >= p
  <2>1. \A a, f, a2, f2 \in Nat : a2 + f2 >= a + f =>
          a + f \in Nat /\ a2 + f2 \in Nat /\ a2 + f2 >= a + f
    OBVIOUS
  <2>. QED  BY <1>0, <2>1, Zenon
<1>2. Pool = (1 .. p) \X SUBSET (1 .. MaxRetries) /\ Pool' = (1 .. p2) \X SUBSET (1 .. MaxRetries)
  BY DEF Pool
<1>. HIDE DEF p, p2
<1>3. 1 .. p \subseteq 1 .. p2
  BY <1>1
<1>4. p2 = p + 1 => p + 1 \in 1 .. p2 /\ ~(p + 1 \in 1 .. p)
  BY <1>1
<1>. QED  BY <1>2, <1>3, <1>4 DEF p, p2

LEMMA OwedNext ==
  ASSUME NEW t
  PROVE  /\ Owed(t)' = Claims(t, sent'[t], page'.box, queue', pc', job')
         /\ Fit(t)' <=> ExistsInjection(Claims(t, sent'[t], page'.box, queue', pc', job'), Pool')
BY DEF Owed, Fit

\* A step in which no claim is new.
LEMMA Quiet ==
  ASSUME NEW t \in Threads, NEW w \in Workers, Fit(t), Pool \subseteq Pool',
         sent'[t] = sent[t], page'.box \in {page.box, None},
         QueueClaims(t, queue') = QueueClaims(t, queue), Only(w, pc, pc', job, job'),
         Claim(t, pc'[w], job'[w]) \subseteq Claim(t, pc[w], job[w])
  PROVE  Fit(t)'
<1> DEFINE A == Owed(t)
           B == Claims(t, sent'[t], page'.box, queue', pc', job')
<1>1. B \subseteq A
  <2> SUFFICES ASSUME NEW u \in B \ A PROVE FALSE
    OBVIOUS
  <2>1. u \notin WorkerClaims(t, pc', job') \ WorkerClaims(t, pc, job)
    BY WorkerChange
  <2>2. \/ \E i \in (1 .. sent'[t]) \ (1 .. sent[t]) : u = <<"sent", i, {}>>
        \/ page'.box = t /\ page.box # t
        \/ u \in QueueClaims(t, queue') \ QueueClaims(t, queue)
        \/ u \in WorkerClaims(t, pc', job') \ WorkerClaims(t, pc, job)
    BY NewClaims DEF Owed
  <2>. QED  BY <2>1, <2>2, MessagingAssumption
<1>. HIDE DEF B
<1>2. ExistsInjection(B, Pool')
  BY <1>1, Fewer DEF Fit
<1>. QED  BY <1>2, OwedNext DEF B

\* What every step needs to know of the worker that takes it.
LEMMA AtWork ==
  ASSUME TypeOK, NEW w \in Workers, pc[w] # "idle"
  PROVE  /\ job[w] \in Jobs /\ pc[w] \in Stages
         /\ job[w].retries \in 0 .. MaxRetries
         /\ asked \in Nat /\ fails \in Nat
         /\ queue \in [Jobs -> Nat]
BY DEF TypeOK, Jobs

LEMMA GoesOn ==
  ASSUME TypeOK, NEW w \in Workers, NEW stage \in Stages, Goto(w, stage), UNCHANGED job
  PROVE  Only(w, pc, pc', job, job') /\ pc'[w] = stage /\ job'[w] = job[w]
BY DEF TypeOK, Goto, Only

LEMMA Stops ==
  ASSUME TypeOK, NEW w \in Workers, End(w)
  PROVE  Only(w, pc, pc', job, job') /\ pc'[w] = "idle"
BY DEF TypeOK, End, Goto, Only

\* The steps of a job that neither send, fill the box nor touch the queue.
LEMMA QuietSteps ==
  ASSUME TypeOK, TypeOK', NEW t \in Threads, NEW w \in Workers, Fit(t),
         \/ OpenProfile(w) \/ Navigate(w) \/ ReadPage(w) \/ CommitScrape(w)
         \/ ConfirmReply(w) \/ Leave(w) \/ LosesBrowser(w) \/ HandlerFails(w)
  PROVE  Fit(t)'
<1>1. PICK stage \in Stages :
        /\ pc[w] # "idle" /\ Goto(w, stage)
        /\ \/ job[w].what = "scrape"
           \/ pc[w] \in {"open", "goto"} /\ stage \in {"goto", "page"}
           \/ pc[w] \in InBrowser /\ stage = "fail"
           \/ stage \in {"leave", "close"}
  <2>1. {"goto", "page", "commit", "leave", "close", "fail"} \subseteq Stages
    BY DEF Stages, InBrowser
  <2>2. "idle" \notin InBrowser
    BY DEF InBrowser
  <2>3. CASE OpenProfile(w)
    BY <2>1, <2>3 DEF OpenProfile
  <2>4. CASE Navigate(w)
    BY <2>1, <2>4 DEF Navigate
  <2>5. CASE ReadPage(w)
    BY <2>1, <2>5 DEF ReadPage
  <2>6. CASE CommitScrape(w)
    BY <2>1, <2>6 DEF CommitScrape
  <2>7. CASE ConfirmReply(w)
    BY <2>1, <2>7 DEF ConfirmReply
  <2>8. CASE Leave(w)
    BY <2>1, <2>8 DEF Leave
  <2>9. CASE LosesBrowser(w)
    BY <2>1, <2>2, <2>9 DEF LosesBrowser
  <2>10. CASE HandlerFails(w)
    BY <2>1, <2>10 DEF HandlerFails
  <2>. QED  BY <2>3, <2>4, <2>5, <2>6, <2>7, <2>8, <2>9, <2>10
<1>2. /\ job' = job /\ queue' = queue /\ sent' = sent /\ asked' = asked
      /\ fails' \in {fails, fails + 1} /\ page'.box \in {page.box, None}
  BY DEF OpenProfile, Navigate, ReadPage, CommitScrape, ConfirmReply, Leave, LosesBrowser,
     HandlerFails, Fail, rowVars, bounds, browser, ghosts
<1>3. Pool \subseteq Pool'
  BY <1>1, <1>2, AtWork, Pools
<1>4. Only(w, pc, pc', job, job') /\ pc'[w] = stage /\ job'[w] = job[w]
  BY <1>1, <1>2, GoesOn
<1>5. Claim(t, stage, job[w]) \subseteq Claim(t, pc[w], job[w])
  <2>1. job[w] \in Jobs /\ pc[w] \in Stages /\ job[w].retries \in 0 .. MaxRetries
    BY <1>1, AtWork
  <2>2. CASE job[w].what # "reply" \/ job[w].for # t
    BY <2>1, <2>2, ClaimIs
  <2>3. CASE stage \in {"leave", "close"}
    BY <2>1, <2>3, ClaimIs
  <2>4. CASE /\ job[w].what = "reply" /\ job[w].for = t
             /\ pc[w] \in {"open", "goto"} /\ stage \in {"goto", "page"}
    BY <2>1, <2>4, ClaimIs
  <2>5. CASE job[w].what = "reply" /\ job[w].for = t /\ pc[w] \in InBrowser /\ stage = "fail"
    <3>1. Claim(t, stage, job[w]) = Rest(job[w].retries)
      BY <2>1, <2>5, ClaimIs
    <3>2. Claim(t, pc[w], job[w]) \in {Share(job[w].retries), Rest(job[w].retries)}
      BY <2>1, <2>5, ClaimIs DEF InBrowser
    <3>. QED  BY <2>1, <3>1, <3>2, RestIs
  <2>. QED  BY <1>1, <2>2, <2>3, <2>4, <2>5
<1>. QED  BY <1>2, <1>3, <1>4, <1>5, Quiet

\* The browser is stopped, or cannot be, when the job has nothing left to send.
LEMMA CloseSteps ==
  ASSUME TypeOK, TypeOK', NEW t \in Threads, NEW w \in Workers, Fit(t),
         CloseProfile(w) \/ CloseFails(w)
  PROVE  Fit(t)'
<1>1. /\ pc[w] # "idle" /\ queue' = queue /\ sent' = sent /\ asked' = asked
      /\ fails' \in {fails, fails + 1} /\ page'.box \in {page.box, None}
      /\ End(w)
  BY DEF CloseProfile, CloseFails, Fail, Blank, rowVars, bounds, browser, ghosts
<1>2. Pool \subseteq Pool'
  BY <1>1, AtWork, Pools
<1>3. Only(w, pc, pc', job, job') /\ pc'[w] = "idle"
  BY <1>1, Stops
<1>4. Claim(t, pc'[w], job'[w]) \subseteq Claim(t, pc[w], job[w])
  BY <1>3, IdleClaim
<1>. QED  BY <1>1, <1>2, <1>3, <1>4, Quiet

LEMMA EnqueueIs ==
  ASSUME queue \in [Jobs -> Nat], NEW jb \in Jobs, Enqueue(jb)
  PROVE  OneMore(queue, queue', jb) /\ queue' \in [Jobs -> Nat]
BY DEF Enqueue, OneMore

\* A retry queues a copy of the reply with a retry more, if it may have one.
LEMMA RetryIs ==
  ASSUME TypeOK, NEW t \in Threads, NEW w \in Workers, pc[w] # "idle", Retry(w),
         NEW k, k = job[w].retries
  PROVE  /\ job[w].what # "reply" \/ job[w].for # t =>
              QueueClaims(t, queue') = QueueClaims(t, queue)
         /\ job[w].what = "reply" /\ job[w].for = t =>
              /\ k < MaxRetries => /\ OneMore(queue, queue', Reply(t, k + 1))
                                   /\ queue' \in [Jobs -> Nat]
              /\ ~(k < MaxRetries) => queue' = queue
<1> DEFINE again == [job[w] EXCEPT !.retries = @ + 1]
<1>1. job[w] \in Jobs /\ k \in 0 .. MaxRetries /\ queue \in [Jobs -> Nat]
  BY AtWork
<1>2. /\ again.what = job[w].what /\ again.for = job[w].for /\ again.retries = k + 1
      /\ k < MaxRetries => again \in Jobs
  BY <1>1 DEF Jobs
<1>3. k < MaxRetries => Enqueue(again)
  BY <1>1, <1>2 DEF Retry
<1>4. ~(k < MaxRetries) => queue' = queue
  BY <1>1, <1>2 DEF Retry
<1>. HIDE DEF again
<1>5. k < MaxRetries => OneMore(queue, queue', again) /\ queue' \in [Jobs -> Nat]
  BY <1>1, <1>2, <1>3, EnqueueIs
<1>6. ASSUME job[w].what # "reply" \/ job[w].for # t
      PROVE  QueueClaims(t, queue') = QueueClaims(t, queue)
  BY <1>1, <1>2, <1>4, <1>5, <1>6, QueueChange
<1>7. ASSUME job[w].what = "reply", job[w].for = t, k < MaxRetries
      PROVE  OneMore(queue, queue', Reply(t, k + 1)) /\ queue' \in [Jobs -> Nat]
  <2>1. again = Reply(t, k + 1)
    BY <1>2, <1>7, ReplyTypes
  <2>. QED  BY <1>5, <1>7, <2>1
<1>. QED  BY <1>4, <1>6, <1>7

LEMMA Moved ==
  ASSUME NEW t \in Threads, Fit(t), Pool \subseteq Pool',
         NEW B, B = Claims(t, sent'[t], page'.box, queue', pc', job'),
         NEW a, NEW c, NEW d, NEW e, NEW D, NEW g, Moves(Owed(t), B, a, c, d, e, D, g)
  PROVE  Fit(t)'
<1>1. ExistsInjection(Owed(t), Pool)
  BY DEF Fit
<1>2. ExistsInjection(B, Pool')
  BY <1>1, Move
<1>. QED  BY <1>2, OwedNext

LEMMA Paid ==
  ASSUME NEW t \in Threads, Fit(t), Pool \subseteq Pool',
         \A X \in SUBSET (1 .. MaxRetries) : <<asked + fails + 1, X>> \in Pool' \ Pool,
         NEW B, B = Claims(t, sent'[t], page'.box, queue', pc', job'),
         NEW a, NEW c, OneBlock(Owed(t), B, a, c)
  PROVE  Fit(t)'
<1>1. ExistsInjection(Owed(t), Pool)
  BY DEF Fit
<1>2. PICK N : N = asked + fails + 1
  OBVIOUS
<1>3. \A X \in SUBSET (1 .. MaxRetries) : <<N, X>> \in Pool' \ Pool
  BY <1>2
<1>4. ExistsInjection(B, Pool')
  BY <1>1, <1>3, Pay
<1>. QED  BY <1>4, OwedNext

\* A worker takes a job: what it may send is no longer in the queue.
LEMMA TakeStep ==
  ASSUME TypeOK, TypeOK', NEW t \in Threads, NEW w \in Workers, Fit(t), Take(w)
  PROVE  Fit(t)'
<1>1. PICK jb \in Jobs : /\ queue[jb] > 0
                         /\ queue' = [queue EXCEPT ![jb] = @ - 1]
                         /\ job' = [job EXCEPT ![w] = jb]
  BY DEF Take
<1>2. /\ pc[w] = "idle" /\ Goto(w, "check") /\ sent' = sent /\ page' = page
      /\ asked' = asked /\ fails' = fails
  BY DEF Take, bounds, browser, ghosts
<1>3. queue \in [Jobs -> Nat] /\ queue' \in [Jobs -> Nat] /\ OneMore(queue', queue, jb)
  BY <1>1 DEF TypeOK, OneMore
<1>4. Only(w, pc, pc', job, job') /\ pc'[w] = "check" /\ job'[w] = jb
  BY <1>1, <1>2 DEF TypeOK, Goto, Only
<1>5. Pool \subseteq Pool'
  BY <1>2 DEF Pool
<1>6. Claim(t, pc[w], job[w]) = {}
  BY <1>2, IdleClaim
<1>7. "check" \in Stages
  BY DEF Stages
<1>8. CASE jb.what # "reply" \/ jb.for # t
  <2>1. QueueClaims(t, queue') = QueueClaims(t, queue)
    BY <1>3, <1>8, QueueChange
  <2>2. Claim(t, pc'[w], job'[w]) = {}
    BY <1>4, <1>7, <1>8, ClaimIs
  <2>. QED  BY <1>2, <1>4, <1>5, <2>1, <2>2, Quiet
<1>9. CASE jb.what = "reply" /\ jb.for = t
  <2>1. PICK k \in 0 .. MaxRetries : k = jb.retries /\ jb = Reply(t, k)
    BY <1>9, ReplyTypes
  <2> DEFINE B == Claims(t, sent'[t], page'.box, queue', pc', job')
             c == <<k, queue'[jb] + 1>>
             g == [X \in Share(k) |-> X]
  <2>2. Claim(t, pc'[w], job'[w]) = Share(k)
    BY <1>4, <1>7, <1>9, <2>1, ClaimIs
  <2>3. /\ \A X \in Share(k) : <<"queue", c, X>> \in QueueClaims(t, queue) \ QueueClaims(t, queue')
        /\ QueueClaims(t, queue') \subseteq QueueClaims(t, queue)
    BY <1>3, <2>1, QueueChange
  <2>. HIDE DEF c
  <2>4. \A u \in B \ Owed(t) : \E X \in Share(k) : u = <<"worker", w, X>>
    <3> SUFFICES ASSUME NEW u \in B \ Owed(t)
                 PROVE  \E X \in Share(k) : u = <<"worker", w, X>>
      OBVIOUS
    <3>1. u \in WorkerClaims(t, pc', job') \ WorkerClaims(t, pc, job)
      BY <1>2, <2>3, NewClaims DEF Owed
    <3>. QED  BY <1>4, <2>2, <3>1, WorkerChange
  <2>5. \A X \in Share(k) : <<"queue", c, g[X]>> \in Owed(t) \ B
    <3> SUFFICES ASSUME NEW X \in Share(k) PROVE <<"queue", c, X>> \in Owed(t) \ B
      OBVIOUS
    <3>. QED  BY <2>3, ClaimOf DEF Owed
  <2>6. \A X, Y \in Share(k) : g[X] = g[Y] => X = Y
    OBVIOUS
  <2>7. Moves(Owed(t), B, "worker", w, "queue", c, Share(k), g)
    <3>. HIDE DEF g, B
    <3>. QED  BY <2>4, <2>5, <2>6 DEF Moves
  <2>. HIDE DEF g
  <2>. QED  BY <1>5, <2>7, Moved
<1>. QED  BY <1>8, <1>9

\* A job that is refused the profile leaves a copy and fails: the copy takes half of
\* what the job could still send, and the other half is left to its handler.
LEMMA CheckStep ==
  ASSUME TypeOK, TypeOK', NEW t \in Threads, NEW w \in Workers, Fit(t), Check(w)
  PROVE  Fit(t)'
<1>1. /\ pc[w] = "check" /\ job' = job /\ sent' = sent /\ page' = page
      /\ asked' = asked /\ fails' = fails
  BY DEF Check, bounds, browser, ghosts
<1>2. "open" \in Stages /\ "fail" \in Stages /\ pc[w] # "idle"
  BY <1>1 DEF Stages
<1>3. PICK k : k = job[w].retries
  OBVIOUS
<1>4. job[w] \in Jobs /\ pc[w] \in Stages /\ k \in 0 .. MaxRetries /\ queue \in [Jobs -> Nat]
  BY <1>2, <1>3, AtWork
<1>5. Pool \subseteq Pool'
  BY <1>1 DEF Pool
<1>6. CASE Goto(w, "open") /\ queue' = queue
  <2>1. Only(w, pc, pc', job, job') /\ pc'[w] = "open" /\ job'[w] = job[w]
    BY <1>1, <1>2, <1>6, GoesOn
  <2>2. Claim(t, "open", job[w]) = Claim(t, "check", job[w])
    BY DEF Claim
  <2>. QED  BY <1>1, <1>5, <1>6, <2>1, <2>2, Quiet
<1>7. CASE Goto(w, "fail") /\ Retry(w)
  <2>1. Only(w, pc, pc', job, job') /\ pc'[w] = "fail" /\ job'[w] = job[w]
    BY <1>1, <1>2, <1>7, GoesOn
  <2>2. CASE job[w].what # "reply" \/ job[w].for # t
    <3>1. QueueClaims(t, queue') = QueueClaims(t, queue)
      BY <1>2, <1>7, <2>2, RetryIs
    <3>2. Claim(t, pc'[w], job'[w]) = {}
      BY <1>2, <1>4, <2>1, <2>2, ClaimIs
    <3>. QED  BY <1>1, <1>5, <2>1, <3>1, <3>2, Quiet
  <2>3. CASE job[w].what = "reply" /\ job[w].for = t
    <3>1. Claim(t, pc[w], job[w]) = Share(k) /\ Claim(t, pc'[w], job'[w]) = Rest(k)
      BY <1>1, <1>2, <1>3, <1>4, <2>1, <2>3, ClaimIs
    <3>2. CASE ~(k < MaxRetries)
      <4>1. queue' = queue
        BY <1>2, <1>3, <1>7, <2>3, <3>2, RetryIs
      <4>2. Claim(t, pc'[w], job'[w]) \subseteq Claim(t, pc[w], job[w])
        BY <1>4, <3>1, RestIs
      <4>. QED  BY <1>1, <1>5, <2>1, <4>1, <4>2, Quiet
    <3>3. CASE k < MaxRetries
      <4> DEFINE B == Claims(t, sent'[t], page'.box, queue', pc', job')
                 c == <<k + 1, queue[Reply(t, k + 1)] + 1>>
                 g == [X \in Share(k + 1) |-> X \cup {k + 1}]
      <4>1. OneMore(queue, queue', Reply(t, k + 1)) /\ queue' \in [Jobs -> Nat]
        BY <1>2, <1>3, <1>7, <2>3, <3>3, RetryIs
      <4>2. k + 1 \in 0 .. MaxRetries /\ Reply(t, k + 1) \in Jobs
        BY <1>4, <3>3, ReplyTypes
      <4>3. /\ \A u \in QueueClaims(t, queue') \ QueueClaims(t, queue) :
                 \E X \in Share(k + 1) : u = <<"queue", c, X>>
            /\ QueueClaims(t, queue) \subseteq QueueClaims(t, queue')
        BY <1>4, <4>1, <4>2, QueueChange
      <4>. HIDE DEF c
      <4>4. Claim(t, pc'[w], job'[w]) = Share(k + 1) /\ Share(k + 1) \subseteq Share(k)
            /\ Share(k) \subseteq SUBSET (1 .. MaxRetries)
        BY <1>4, <3>1, <3>3, RestIs
      <4>5. \A u \in B \ Owed(t) : \E X \in Share(k + 1) : u = <<"queue", c, X>>
        <5> SUFFICES ASSUME NEW u \in B \ Owed(t)
                     PROVE  u \in QueueClaims(t, queue') \ QueueClaims(t, queue)
          BY <4>3
        <5>1. u \notin WorkerClaims(t, pc', job') \ WorkerClaims(t, pc, job)
          BY <2>1, <3>1, <4>4, WorkerChange
        <5>. QED  BY <1>1, <5>1, NewClaims DEF Owed
      <4>6. ASSUME NEW X \in Share(k + 1)
            PROVE  <<"worker", w, X \cup {k + 1}>> \in Owed(t) \ B
        <5>1. X \cup {k + 1} \in Share(k) \ Share(k + 1)
          BY <1>4, <3>3, Halves
        <5>2. PICK Y : Y = X \cup {k + 1}
          OBVIOUS
        <5>5. Y \in Share(k) \ Share(k + 1)
          BY <5>1, <5>2
        <5>6. /\ Y \in Claim(t, pc[w], job[w]) \ Claim(t, pc'[w], job'[w])
              /\ Y \in SUBSET (1 .. MaxRetries)
          BY <3>1, <4>4, <5>5
        <5>3. <<"worker", w, Y>> \in WorkerClaims(t, pc, job) \ WorkerClaims(t, pc', job')
          BY <2>1, <5>6, WorkerChange
        <5>4. <<"worker", w, Y>> \in Owed(t) \ B
          BY <5>3, ClaimOf DEF Owed
        <5>. QED  BY <5>2, <5>4
      <4>7. \A X, Y \in Share(k + 1) : X \cup {k + 1} = Y \cup {k + 1} => X = Y
        BY <1>4, <3>3, Halves
      <4>8. \A X \in Share(k + 1) : g[X] = X \cup {k + 1}
        OBVIOUS
      <4>9. Moves(Owed(t), B, "queue", c, "worker", w, Share(k + 1), g)
        <5>. HIDE DEF g, B
        <5>. QED  BY <4>5, <4>6, <4>7, <4>8 DEF Moves
      <4>. HIDE DEF g
      <4>. QED  BY <1>5, <4>9, Moved
    <3>. QED  BY <3>2, <3>3
  <2>. QED  BY <2>2, <2>3
<1>. QED  BY <1>6, <1>7 DEF Check

\* The handler leaves a copy, and nothing to the job itself.
LEMMA HandleStep ==
  ASSUME TypeOK, TypeOK', NEW t \in Threads, NEW w \in Workers, Fit(t), Handle(w)
  PROVE  Fit(t)'
<1>1. /\ pc[w] = "fail" /\ job' = job /\ sent' = sent /\ page' = page
      /\ asked' = asked /\ fails' = fails /\ Retry(w) /\ Goto(w, "close")
  BY DEF Handle, bounds, browser, ghosts
<1>2. "close" \in Stages /\ pc[w] # "idle"
  BY <1>1 DEF Stages
<1>3. PICK k : k = job[w].retries
  OBVIOUS
<1>4. job[w] \in Jobs /\ pc[w] \in Stages /\ k \in 0 .. MaxRetries /\ queue \in [Jobs -> Nat]
  BY <1>2, <1>3, AtWork
<1>5. Pool \subseteq Pool'
  BY <1>1 DEF Pool
<1>6. Only(w, pc, pc', job, job') /\ pc'[w] = "close" /\ job'[w] = job[w]
  BY <1>1, <1>2, GoesOn
<1>7. Claim(t, pc'[w], job'[w]) = {}
  BY <1>2, <1>4, <1>6, ClaimIs
<1>8. CASE job[w].what # "reply" \/ job[w].for # t
  <2>1. QueueClaims(t, queue') = QueueClaims(t, queue)
    BY <1>1, <1>2, <1>8, RetryIs
  <2>. QED  BY <1>1, <1>5, <1>6, <1>7, <2>1, Quiet
<1>9. CASE job[w].what = "reply" /\ job[w].for = t /\ ~(k < MaxRetries)
  <2>1. queue' = queue
    BY <1>1, <1>2, <1>3, <1>9, RetryIs
  <2>. QED  BY <1>1, <1>5, <1>6, <1>7, <2>1, Quiet
<1>10. CASE job[w].what = "reply" /\ job[w].for = t /\ k < MaxRetries
  <2> DEFINE B == Claims(t, sent'[t], page'.box, queue', pc', job')
             c == <<k + 1, queue[Reply(t, k + 1)] + 1>>
             g == [X \in Share(k + 1) |-> X]
  <2>1. OneMore(queue, queue', Reply(t, k + 1)) /\ queue' \in [Jobs -> Nat]
    BY <1>1, <1>2, <1>3, <1>10, RetryIs
  <2>2. k + 1 \in 0 .. MaxRetries /\ Reply(t, k + 1) \in Jobs
    BY <1>4, <1>10, ReplyTypes
  <2>3. /\ \A u \in QueueClaims(t, queue') \ QueueClaims(t, queue) :
             \E X \in Share(k + 1) : u = <<"queue", c, X>>
        /\ QueueClaims(t, queue) \subseteq QueueClaims(t, queue')
    BY <1>4, <2>1, <2>2, QueueChange
  <2>. HIDE DEF c
  <2>4. Claim(t, pc[w], job[w]) = Share(k + 1)
    <3>1. Claim(t, pc[w], job[w]) = Rest(k)
      BY <1>1, <1>3, <1>4, <1>10, ClaimIs
    <3>. QED  BY <1>4, <1>10, <3>1, RestIs
  <2>5. Share(k + 1) \subseteq SUBSET (1 .. MaxRetries)
    BY <2>2, ShareIs
  <2>6. \A u \in B \ Owed(t) : \E X \in Share(k + 1) : u = <<"queue", c, X>>
    <3> SUFFICES ASSUME NEW u \in B \ Owed(t)
                 PROVE  u \in QueueClaims(t, queue') \ QueueClaims(t, queue)
      BY <2>3
    <3>1. u \notin WorkerClaims(t, pc', job') \ WorkerClaims(t, pc, job)
      BY <1>6, <1>7, WorkerChange
    <3>. QED  BY <1>1, <3>1, NewClaims DEF Owed
  <2>7. ASSUME NEW X \in Share(k + 1)
        PROVE  <<"worker", w, X>> \in Owed(t) \ B
    <3>1. <<"worker", w, X>> \in WorkerClaims(t, pc, job) \ WorkerClaims(t, pc', job')
      BY <1>6, <1>7, <2>4, <2>5, WorkerChange
    <3>. QED  BY <3>1, ClaimOf DEF Owed
  <2>8. \A X \in Share(k + 1) : g[X] = X
    OBVIOUS
  <2>9. Moves(Owed(t), B, "queue", c, "worker", w, Share(k + 1), g)
    <3>. HIDE DEF g, B
    <3>. QED  BY <2>6, <2>7, <2>8 DEF Moves
  <2>. HIDE DEF g
  <2>. QED  BY <1>5, <2>9, Moved
<1>. QED  BY <1>8, <1>9, <1>10

\* The reply is typed: it can be sent once more than the copies the job may leave.
LEMMA FillStep ==
  ASSUME TypeOK, TypeOK', NEW t \in Threads, NEW w \in Workers, Fit(t), FillReply(w)
  PROVE  Fit(t)'
<1>1. /\ pc[w] = "page" /\ job' = job /\ sent' = sent /\ queue' = queue
      /\ asked' = asked /\ fails' = fails /\ Goto(w, "filled") /\ job[w].what = "reply"
  BY DEF FillReply, rowVars, bounds, ghosts
<1>2. "filled" \in Stages /\ pc[w] # "idle"
  BY <1>1 DEF Stages, InBrowser
<1>3. PICK k : k = job[w].retries
  OBVIOUS
<1>4. job[w] \in Jobs /\ pc[w] \in Stages /\ k \in 0 .. MaxRetries
  BY <1>2, <1>3, AtWork
<1>5. page'.box = job[w].for
  BY DEF FillReply, Of, TypeOK, Page
<1>6. Pool \subseteq Pool'
  BY <1>1 DEF Pool
<1>7. Only(w, pc, pc', job, job') /\ pc'[w] = "filled" /\ job'[w] = job[w]
  BY <1>1, <1>2, GoesOn
<1>8. CASE job[w].for # t
  <2>1. Claim(t, pc'[w], job'[w]) = {}
    BY <1>2, <1>4, <1>7, <1>8, ClaimIs
  <2> DEFINE B == Claims(t, sent'[t], page'.box, queue', pc', job')
  <2>2. B \subseteq Owed(t)
    <3> SUFFICES ASSUME NEW u \in B \ Owed(t) PROVE FALSE
      OBVIOUS
    <3>1. u \notin WorkerClaims(t, pc', job') \ WorkerClaims(t, pc, job)
      BY <1>7, <2>1, WorkerChange
    <3>. QED  BY <1>1, <1>5, <1>8, <3>1, NewClaims DEF Owed
  <2>. HIDE DEF B
  <2>3. ExistsInjection(B, Pool')
    BY <1>6, <2>2, Fewer DEF Fit
  <2>. QED  BY <2>3, OwedNext DEF B
<1>9. CASE job[w].for = t
  <2> DEFINE B == Claims(t, sent'[t], page'.box, queue', pc', job')
             all == (k + 1) .. MaxRetries
             g == [X \in {{}} |-> all]
  <2>1. Claim(t, pc[w], job[w]) = Share(k) /\ Claim(t, pc'[w], job'[w]) = Rest(k)
    BY <1>1, <1>2, <1>3, <1>4, <1>7, <1>9, ClaimIs
  <2>2. all \in Share(k) \ Rest(k) /\ Rest(k) \subseteq Share(k)
        /\ Share(k) \subseteq SUBSET (1 .. MaxRetries)
    BY <1>4, RestIs
  <2>. HIDE DEF all
  <2>3. \A u \in B \ Owed(t) : \E X \in {{}} : u = <<"box", 0, X>>
    <3> SUFFICES ASSUME NEW u \in B \ Owed(t) PROVE u = <<"box", 0, {}>>
      OBVIOUS
    <3>1. u \notin WorkerClaims(t, pc', job') \ WorkerClaims(t, pc, job)
      BY <1>7, <2>1, <2>2, WorkerChange
    <3>. QED  BY <1>1, <3>1, NewClaims DEF Owed
  <2>4. <<"worker", w, all>> \in Owed(t) \ B
    <3>1. <<"worker", w, all>> \in WorkerClaims(t, pc, job) \ WorkerClaims(t, pc', job')
      BY <1>7, <2>1, <2>2, WorkerChange
    <3>. QED  BY <3>1, ClaimOf DEF Owed
  <2>5. \A X \in {{}} : g[X] = all
    OBVIOUS
  <2>6. Moves(Owed(t), B, "box", 0, "worker", w, {{}}, g)
    <3>. HIDE DEF g, B
    <3>. QED  BY <2>3, <2>4, <2>5 DEF Moves
  <2>. HIDE DEF g
  <2>. QED  BY <1>6, <2>6, Moved
<1>. QED  BY <1>8, <1>9

\* What was in the box is sent, and the box is empty.
LEMMA ClickStep ==
  ASSUME TypeOK, TypeOK', NEW t \in Threads, NEW w \in Workers, Fit(t), ClickSend(w)
  PROVE  Fit(t)'
<1>1. /\ pc[w] = "filled" /\ job' = job /\ queue' = queue
      /\ asked' = asked /\ fails' = fails /\ Goto(w, "sent")
  BY DEF ClickSend, rowVars, bounds
<1>2. "sent" \in Stages
  BY DEF Stages, InBrowser
<1>3. page'.box = None
  BY DEF ClickSend, TypeOK, Page
<1>4. Pool \subseteq Pool'
  BY <1>1 DEF Pool
<1>5. Only(w, pc, pc', job, job') /\ pc'[w] = "sent" /\ job'[w] = job[w]
  BY <1>1, <1>2, GoesOn
<1>6. Claim(t, pc'[w], job'[w]) = Claim(t, pc[w], job[w])
  BY <1>1, <1>5 DEF Claim
<1>7. CASE ~(t = page.box /\ t = page.shows)
  <2>1. sent'[t] = sent[t]
    BY <1>7 DEF ClickSend
  <2>. QED  BY <1>1, <1>3, <1>4, <1>5, <1>6, <2>1, Quiet
<1>8. CASE t = page.box /\ t = page.shows
  <2>1. sent'[t] = sent[t] + 1 /\ sent[t] \in Nat
    BY <1>8 DEF ClickSend, TypeOK
  <2> DEFINE B == Claims(t, sent'[t], page'.box, queue', pc', job')
             g == [X \in {{}} |-> {}]
             n == sent[t] + 1
  <2>2. \A i \in (1 .. sent'[t]) \ (1 .. sent[t]) : i = n
    BY <2>1
  <2>. HIDE DEF n
  <2>3. \A u \in B \ Owed(t) : \E X \in {{}} : u = <<"sent", n, X>>
    <3> SUFFICES ASSUME NEW u \in B \ Owed(t) PROVE u = <<"sent", n, {}>>
      OBVIOUS
    <3>1. u \notin WorkerClaims(t, pc', job') \ WorkerClaims(t, pc, job)
      BY <1>5, <1>6, WorkerChange
    <3>2. page'.box # t
      BY <1>3
    <3>. QED  BY <1>1, <2>2, <3>1, <3>2, NewClaims DEF Owed
  <2>4. <<"box", 0, {}>> \in Owed(t) \ B
    <3>1. page'.box # t
      BY <1>3
    <3>. QED  BY <1>8, <3>1, ClaimOf DEF Owed
  <2>5. \A X \in {{}} : g[X] = {}
    OBVIOUS
  <2>6. Moves(Owed(t), B, "sent", n, "box", 0, {{}}, g)
    <3>. HIDE DEF g, B
    <3>. QED  BY <2>3, <2>4, <2>5 DEF Moves
  <2>. HIDE DEF g
  <2>. QED  BY <1>4, <2>6, Moved
<1>. QED  BY <1>7, <1>8

\* A user asks for a reply, and pays for it.
LEMMA ReplyStep ==
  ASSUME TypeOK, TypeOK', NEW t \in Threads, NEW u \in Threads, Fit(t), ReplyToThread(u)
  PROVE  Fit(t)'
<1>1. /\ pc' = pc /\ job' = job /\ sent' = sent /\ page' = page
      /\ asked' = asked + 1 /\ fails' = fails /\ Enqueue(NewJob("reply", u))
  BY DEF ReplyToThread, Ask, browser, workerVars, ghosts
<1>2. NewJob("reply", u) = Reply(u, 0)
  BY DEF NewJob, Reply
<1>3. Reply(u, 0) \in Jobs /\ queue \in [Jobs -> Nat] /\ asked \in Nat /\ fails \in Nat
  BY ReplyTypes DEF TypeOK
<1>4. OneMore(queue, queue', Reply(u, 0)) /\ queue' \in [Jobs -> Nat]
  BY <1>1, <1>2, <1>3, EnqueueIs
<1>5. /\ Pool \subseteq Pool'
      /\ \A X \in SUBSET (1 .. MaxRetries) : <<asked + fails + 1, X>> \in Pool' \ Pool
  BY <1>1, <1>3, Pools
<1> DEFINE B == Claims(t, sent'[t], page'.box, queue', pc', job')
           c == <<0, queue[Reply(u, 0)] + 1>>
<1>6. OneBlock(Owed(t), B, "queue", c)
  <2>1. \A v \in QueueClaims(t, queue') \ QueueClaims(t, queue) :
          \E X \in Share(0) : v = <<"queue", c, X>>
    <3>1. CASE u = t
      BY <1>3, <1>4, <3>1, QueueChange
    <3>2. CASE u # t
      <4>1. Reply(u, 0).for # t
        BY <3>2 DEF Reply
      <4>. QED  BY <1>3, <1>4, <4>1, QueueChange
    <3>. QED  BY <3>1, <3>2
  <2>2. Share(0) \subseteq SUBSET (1 .. MaxRetries)
    BY ShareIs
  <2>. HIDE DEF c
  <2>3. ASSUME NEW v \in B \ Owed(t)
        PROVE  v \in QueueClaims(t, queue') \ QueueClaims(t, queue)
    BY <1>1, NewClaims DEF Owed
  <2>. QED  BY <2>1, <2>2, <2>3 DEF OneBlock
<1>. HIDE DEF c
<1>. QED  BY <1>5, <1>6, Paid

\* A scrape is queued: it sends nothing.
LEMMA ScrapeStep ==
  ASSUME TypeOK, TypeOK', NEW t \in Threads, NEW u \in Threads, Fit(t),
         CreateThread(u) \/ RetryScrape(u)
  PROVE  Fit(t)'
<1>1. /\ pc' = pc /\ job' = job /\ sent' = sent /\ page' = page
      /\ asked' + fails' \in {asked + fails, asked + fails + 1}
      /\ Enqueue(NewJob("scrape", u)) \/ queue' = queue
  <2>1. asked \in Nat /\ fails \in Nat
    BY DEF TypeOK
  <2>. QED  BY <2>1 DEF CreateThread, RetryScrape, Ask, Fail, bounds, browser, workerVars, ghosts
<1>2. NewJob("scrape", u) \in Jobs /\ NewJob("scrape", u).what # "reply"
  BY JobTypes DEF NewJob
<1>3. queue \in [Jobs -> Nat] /\ asked \in Nat /\ fails \in Nat
  BY DEF TypeOK
<1>4. QueueClaims(t, queue') = QueueClaims(t, queue)
  <2>1. CASE Enqueue(NewJob("scrape", u))
    <3>1. OneMore(queue, queue', NewJob("scrape", u)) /\ queue' \in [Jobs -> Nat]
      BY <1>2, <1>3, <2>1, EnqueueIs
    <3>. QED  BY <1>2, <1>3, <3>1, QueueChange
  <2>. QED  BY <1>1, <2>1
<1>5. Pool \subseteq Pool'
  BY <1>1, <1>3, Pools
<1> DEFINE B == Claims(t, sent'[t], page'.box, queue', pc', job')
<1>6. B \subseteq Owed(t)
  BY <1>1, <1>4 DEF Claims, Owed
<1>. HIDE DEF B
<1>7. ExistsInjection(B, Pool')
  BY <1>5, <1>6, Fewer DEF Fit
<1>. QED  BY <1>7, OwedNext DEF B

\* A call fails: the job's handler may leave a copy, even of a job that was done.
LEMMA RaiseStep ==
  ASSUME TypeOK, TypeOK', NEW t \in Threads, NEW w \in Workers, Fit(t), Raise(w)
  PROVE  Fit(t)'
<1>1. /\ pc[w] # "idle" /\ job' = job /\ queue' = queue /\ sent' = sent /\ page' = page
      /\ asked' = asked /\ fails' = fails + 1 /\ Goto(w, "fail")
  BY DEF Raise, Fail, rowVars, browser, ghosts
<1>2. /\ job[w] \in Jobs /\ job[w].retries \in 0 .. MaxRetries
      /\ asked \in Nat /\ fails \in Nat
  BY <1>1, AtWork
<1>3. "fail" \in Stages
  BY DEF Stages
<1>4. Only(w, pc, pc', job, job') /\ pc'[w] = "fail" /\ job'[w] = job[w]
  BY <1>1, <1>3, GoesOn
<1>5. /\ Pool \subseteq Pool'
      /\ \A X \in SUBSET (1 .. MaxRetries) : <<asked + fails + 1, X>> \in Pool' \ Pool
  BY <1>1, <1>2, Pools
<1>6. Claim(t, pc'[w], job'[w]) \subseteq SUBSET (1 .. MaxRetries)
  <2>1. Claim(t, pc'[w], job'[w]) \in {{}, Rest(job[w].retries)}
    BY <1>2, <1>3, <1>4, ClaimIs
  <2>2. Rest(job[w].retries) \subseteq SUBSET (1 .. MaxRetries)
    BY <1>2, RestIs
  <2>. QED  BY <2>1, <2>2
<1> DEFINE B == Claims(t, sent'[t], page'.box, queue', pc', job')
<1>7. OneBlock(Owed(t), B, "worker", w)
  <2>1. ASSUME NEW v \in B \ Owed(t)
        PROVE  v \in WorkerClaims(t, pc', job') \ WorkerClaims(t, pc, job)
    BY <1>1, NewClaims DEF Owed
  <2>2. \A v \in WorkerClaims(t, pc', job') \ WorkerClaims(t, pc, job) :
          \E X \in Claim(t, pc'[w], job'[w]) \ Claim(t, pc[w], job[w]) :
            v = <<"worker", w, X>>
    BY <1>4, WorkerChange
  <2>. QED  BY <1>6, <2>1, <2>2 DEF OneBlock
<1>. QED  BY <1>5, <1>7, Paid

\* A worker is lost: its job comes back, whatever it had sent or queued.
LEMMA CrashStep ==
  ASSUME TypeOK, TypeOK', NEW t \in Threads, NEW w \in Workers, Fit(t), Crash(w)
  PROVE  Fit(t)'
<1>1. /\ pc[w] # "idle" /\ sent' = sent /\ page' = page
      /\ asked' = asked /\ fails' = fails + 1 /\ End(w) /\ Enqueue(job[w])
  BY DEF Crash, Fail, browser, ghosts
<1>2. PICK jb \in Jobs : jb = job[w] /\ jb.retries \in 0 .. MaxRetries
  BY <1>1, AtWork
<1>3. queue \in [Jobs -> Nat] /\ asked \in Nat /\ fails \in Nat
  BY DEF TypeOK
<1>4. Only(w, pc, pc', job, job') /\ pc'[w] = "idle"
  BY <1>1, Stops
<1>5. Claim(t, pc'[w], job'[w]) = {}
  BY <1>4, IdleClaim
<1>6. /\ Pool \subseteq Pool'
      /\ \A X \in SUBSET (1 .. MaxRetries) : <<asked + fails + 1, X>> \in Pool' \ Pool
  BY <1>1, <1>3, Pools
<1>7. OneMore(queue, queue', jb) /\ queue' \in [Jobs -> Nat]
  BY <1>1, <1>2, <1>3, EnqueueIs
<1> DEFINE B == Claims(t, sent'[t], page'.box, queue', pc', job')
           c == <<jb.retries, queue[jb] + 1>>
<1>8. OneBlock(Owed(t), B, "queue", c)
  <2>1. \A v \in QueueClaims(t, queue') \ QueueClaims(t, queue) :
          \E X \in Share(jb.retries) : v = <<"queue", c, X>>
    <3>1. CASE jb.what # "reply" \/ jb.for # t
      BY <1>3, <1>7, <3>1, QueueChange
    <3>2. CASE jb.what = "reply" /\ jb.for = t
      <4>1. jb = Reply(t, jb.retries)
        BY <3>2, ReplyTypes
      <4>. QED  BY <1>3, <1>7, <4>1, QueueChange
    <3>. QED  BY <3>1, <3>2
  <2>2. Share(jb.retries) \subseteq SUBSET (1 .. MaxRetries)
    BY <1>2, ShareIs
  <2>. HIDE DEF c
  <2>3. ASSUME NEW v \in B \ Owed(t)
        PROVE  v \in QueueClaims(t, queue') \ QueueClaims(t, queue)
    <3>1. v \notin WorkerClaims(t, pc', job') \ WorkerClaims(t, pc, job)
      BY <1>4, <1>5, WorkerChange
    <3>. QED  BY <1>1, <3>1, NewClaims DEF Owed
  <2>. QED  BY <2>1, <2>2, <2>3 DEF OneBlock
<1>. HIDE DEF c
<1>. QED  BY <1>6, <1>8, Paid

LEMMA SentInit == Init => SentFit
<1> SUFFICES ASSUME Init, NEW t \in Threads PROVE ExistsInjection(Owed(t), Pool)
  BY DEF SentFit
<1>1. \A k \in 0 .. MaxRetries : queue[Reply(t, k)] = 0
  BY ReplyTypes DEF Init
<1>2. QueueClaims(t, queue) = {}
  BY <1>1 DEF QueueClaims
<1>3. WorkerClaims(t, pc, job) = {}
  BY DEF WorkerClaims, Claim, Init
<1>4. SentClaims(sent[t]) = {} /\ BoxClaims(t, page.box) = {}
  BY DEF SentClaims, BoxClaims, Init, Blank
<1>5. Owed(t) = {}
  BY <1>2, <1>3, <1>4 DEF Owed, Claims
<1> DEFINE f == [u \in {} |-> u]
<1>6. f \in [{} -> Pool] /\ \A x, y \in {} : f[x] = f[y] => x = y
  OBVIOUS
<1>. HIDE DEF f
<1>7. f \in Injection({}, Pool)
  BY <1>6, Fun_IsInj
<1>. QED  BY <1>5, <1>7 DEF ExistsInjection

LEMMA SentStep == TypeOK /\ TypeOK' /\ SentFit /\ [Next]_vars => SentFit'
<1> SUFFICES ASSUME TypeOK, TypeOK', SentFit, [Next]_vars, NEW t \in Threads
             PROVE  Fit(t)'
  BY DEF SentFit, Fit
<1>1. Fit(t)
  BY DEF SentFit, Fit
<1>2. ASSUME NEW u \in Threads, CreateThread(u) \/ ReplyToThread(u) \/ RetryScrape(u)
      PROVE  Fit(t)'
  BY <1>1, <1>2, ScrapeStep, ReplyStep
<1>3. ASSUME NEW w \in Workers, Step(w) PROVE Fit(t)'
  BY <1>1, <1>3, TakeStep, CheckStep, QuietSteps, FillStep, ClickStep, HandleStep, CloseSteps
     DEF Step
<1>4. ASSUME NEW w \in Workers, Failure(w) PROVE Fit(t)'
  BY <1>1, <1>4, RaiseStep, QuietSteps, CloseSteps, CrashStep DEF Failure
<1>5. CASE UNCHANGED vars
  <2>1. Owed(t)' = Owed(t) /\ Pool' = Pool
    BY <1>5 DEF Owed, Pool, vars, rowVars, bounds, browser, workerVars, ghosts
  <2>. QED  BY <1>1, <2>1 DEF Fit
<1>. QED  BY <1>2, <1>3, <1>4, <1>5 DEF Next

LEMMA UpTo ==
  ASSUME NEW n \in Nat
  PROVE  IsFiniteSet(1 .. n) /\ Cardinality(1 .. n) = n
<1>1. PICK a, b : a = 1 /\ b = n
  OBVIOUS
<1>2. a \in Int /\ b \in Int
  BY <1>1
<1>3. IsFiniteSet(a .. b) /\ Cardinality(a .. b) = IF a > b THEN 0 ELSE b - a + 1
  BY <1>2, FS_Interval
<1>. QED  BY <1>1, <1>3

\* The replies sent are among the claims, and so are as many as Pool has elements at most.
LEMMA SentCounted == TypeOK /\ SentFit => SentBound
<1> SUFFICES ASSUME TypeOK, SentFit, NEW t \in Threads
             PROVE  sent[t] <= (asked + fails) * 2 ^ MaxRetries
  BY DEF SentBound
<1>1. PICK n, p : /\ n = sent[t] /\ p = asked + fails /\ n \in Nat /\ p \in Nat
  BY DEF TypeOK
<1>2. MaxRetries \in Nat
  OBVIOUS
<1>3. PICK f \in [Owed(t) -> Pool] : \A x, y \in Owed(t) : f[x] = f[y] => x = y
  BY InjectionIs DEF SentFit
<1>4. \A i \in 1 .. n : <<"sent", i, {}>> \in Owed(t)
  BY <1>1, ClaimOf DEF Owed
<1> DEFINE g == [i \in 1 .. n |-> f[<<"sent", i, {}>>]]
<1>5. g \in [1 .. n -> Pool]
  BY <1>3, <1>4
<1>6. \A i, j \in 1 .. n : g[i] = g[j] => i = j
  <2> SUFFICES ASSUME NEW i \in 1 .. n, NEW j \in 1 .. n, g[i] = g[j] PROVE i = j
    OBVIOUS
  <2>1. f[<<"sent", i, {}>>] = f[<<"sent", j, {}>>]
    OBVIOUS
  <2>2. <<"sent", i, {}>> = <<"sent", j, {}>>
    BY <1>3, <1>4, <2>1
  <2>. QED  BY <2>2
<1>. HIDE DEF g
<1>7. g \in Injection(1 .. n, Pool)
  BY <1>5, <1>6, Fun_IsInj
<1>8. /\ IsFiniteSet(1 .. n) /\ Cardinality(1 .. n) = n
      /\ IsFiniteSet(1 .. p) /\ Cardinality(1 .. p) = p
      /\ IsFiniteSet(1 .. MaxRetries) /\ Cardinality(1 .. MaxRetries) = MaxRetries
  BY <1>1, <1>2, UpTo
<1>9. /\ IsFiniteSet(SUBSET (1 .. MaxRetries))
      /\ Cardinality(SUBSET (1 .. MaxRetries)) = 2 ^ MaxRetries
  BY <1>8, FS_SUBSET
<1>10. Pool = (1 .. p) \X SUBSET (1 .. MaxRetries)
  BY <1>1 DEF Pool
<1>11. IsFiniteSet(Pool) /\ Cardinality(Pool) = p * 2 ^ MaxRetries
  BY <1>8, <1>9, <1>10, FS_Product
<1>12. Cardinality(1 .. n) <= Cardinality(Pool)
  BY <1>7, <1>11, FS_Injection DEF ExistsInjection
<1>. QED  BY <1>1, <1>8, <1>11, <1>12

\* However many workers drive the one browser, whatever jobs stop it, die or are run
\* again, and whatever the number of retries: a reply reaches the buyer at most
\* 2^max_retries times for every request or failure.
THEOREM SentTheorem == Spec => []SentBound
<1>1. Init => TypeOK /\ SentFit
  BY TypeInit, SentInit
<1>2. TypeOK /\ SentFit /\ [Next]_vars => (TypeOK /\ SentFit)'
  BY TypeStep, SentStep
<1>3. TypeOK /\ SentFit => SentBound
  BY SentCounted
<1>. QED  BY <1>1, <1>2, <1>3, PTL DEF Spec
=============================================================================
