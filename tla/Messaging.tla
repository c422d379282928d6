------------------------------- MODULE Messaging -------------------------------
(***************************************************************************)
(* Buyer messages of one shop: the message_threads rows, the Celery jobs   *)
(* that scrape a conversation or send a reply, and the browser profile in  *)
(* AdsPower that all of them drive.  A job asks whether the profile is in  *)
(* use, starts it, and works in the first page of its only window: two     *)
(* jobs in one browser work in one page.                                   *)
(*                                                                         *)
(* A job ends by stopping the profile, whoever started it.  Celery         *)
(* acknowledges a job when it has ended, and runs it again when its worker *)
(* is lost.  Every call to AdsPower, to the page or to the database is a   *)
(* step.  A thread stands for its conversation as well.                    *)
(***************************************************************************)
EXTENDS Naturals, FiniteSets

CONSTANTS Workers,   \* the Celery processes
          Threads,   \* the conversations buyers may begin
          None,      \* no thread
          MaxRetries,\* max_retries of the two tasks
          MaxAsked,  \* bound: replies and scrapes users ask for
          MaxFails   \* bound: failures

ASSUME MessagingAssumption ==
  /\ None \notin Threads
  /\ {MaxRetries, MaxAsked, MaxFails} \subseteq Nat

VARIABLES
  thread,  \* the rows of message_threads
  queue,   \* how many of each job wait in the broker
  asked,   \* requests users made so far
  fails,   \* failures so far
  active,  \* AdsPower: the profile's browser runs
  page,    \* the page: the conversation it shows, and the text in its reply box
  pc,      \* where each worker is
  job,     \* its job
  seen,    \* the row as its session loaded it
  text,    \* the conversation it has read
  live,    \* it is connected to the browser that runs
  sent,    \* ghost: the replies of each thread sent in its conversation
  stray,   \* ghost: a reply was sent in another conversation
  raced,   \* ghost: a job started the profile after another one had
  stuck    \* ghost: AdsPower failed to stop the profile

rowVars    == <<thread, queue>>
bounds     == <<asked, fails>>
browser    == <<active, page>>
workerVars == <<pc, job, seen, text, live>>
ghosts     == <<sent, stray, raced, stuck>>
vars       == <<rowVars, bounds, browser, workerVars, ghosts>>

Jobs    == [what : {"scrape", "reply"}, for : Threads, retries : 0 .. MaxRetries]
Idle    == [what |-> "scrape", for |-> None, retries |-> 0]
Row     == [status : {"none", "pending_read", "unread", "replied", "failed"},
            message : Threads \cup {None}, replied : BOOLEAN]
NoRow   == [status |-> "none", message |-> None, replied |-> FALSE]
Page    == [shows : Threads \cup {None}, box : Threads \cup {None}]
Blank   == [shows |-> None, box |-> None]

\* In the browser; and all the stages of a job.
InBrowser == {"goto", "page", "filled", "sent"}
Stages    == InBrowser \cup {"idle", "check", "open", "commit", "leave", "fail", "close"}

TypeOK ==
  /\ thread \in [Threads -> Row]
  /\ queue \in [Jobs -> Nat]
  /\ asked \in Nat
  /\ fails \in Nat
  /\ active \in BOOLEAN
  /\ page \in Page
  /\ pc \in [Workers -> Stages]
  /\ job \in [Workers -> Jobs \cup {Idle}]
  /\ \A w \in Workers : pc[w] # "idle" => job[w] \in Jobs
  /\ seen \in [Workers -> Row]
  /\ text \in [Workers -> Threads \cup {None}]
  /\ live \in [Workers -> BOOLEAN]
  /\ sent \in [Threads -> Nat]
  /\ {stray, raced, stuck} \subseteq BOOLEAN

Init ==
  /\ thread = [t \in Threads |-> NoRow]
  /\ queue = [j \in Jobs |-> 0]
  /\ asked = 0 /\ fails = 0
  /\ active = FALSE
  /\ page = Blank
  /\ pc = [w \in Workers |-> "idle"]
  /\ job = [w \in Workers |-> Idle]
  /\ seen = [w \in Workers |-> NoRow]
  /\ text = [w \in Workers |-> None]
  /\ live = [w \in Workers |-> FALSE]
  /\ sent = [t \in Threads |-> 0]
  /\ stray = FALSE /\ raced = FALSE /\ stuck = FALSE

-----------------------------------------------------------------------------
(* What the steps share.                                                   *)

Goto(w, stage) == pc' = [pc EXCEPT ![w] = stage]

Of(w) == job[w].for

Fail == fails < MaxFails /\ fails' = fails + 1 /\ UNCHANGED asked

Enqueue(j) == queue' = [queue EXCEPT ![j] = @ + 1]

NewJob(what, t) == [what |-> what, for |-> t, retries |-> 0]

\* Mutant: the retries are not counted.
RetryUncounted(w) == Enqueue(job[w])

\* self.retry: the job goes back with one retry more, or has had them all.
Retry(w) ==
  LET again == [job[w] EXCEPT !.retries = @ + 1] IN
  IF again.retries <= MaxRetries THEN Enqueue(again) ELSE UNCHANGED queue

\* An UPDATE sets the columns in which the object differs from what was loaded.
Save(w, to) ==
  thread' = [thread EXCEPT ![Of(w)] =
    [f \in DOMAIN to |-> IF to[f] = seen[w][f] THEN @[f] ELSE to[f]]]

End(w) ==
  /\ Goto(w, "idle")
  /\ job' = [job EXCEPT ![w] = Idle]
  /\ seen' = [seen EXCEPT ![w] = NoRow]
  /\ text' = [text EXCEPT ![w] = None]

-----------------------------------------------------------------------------
(* The API.                                                                *)

\* A mail announces a conversation: internal_create_thread commits the row and
\* queues its scrape, unless the broker or the process fails in between.
CreateThread(t) ==
  /\ thread[t] = NoRow
  /\ thread' = [thread EXCEPT ![t].status = "pending_read"]
  /\ \/ Enqueue(NewJob("scrape", t)) /\ UNCHANGED bounds
     \/ Fail /\ UNCHANGED queue
  /\ UNCHANGED <<browser, workerVars, ghosts>>

\* A user's request queues a job; the row does not change until the job does it.
Ask(what, t, statuses) ==
  /\ thread[t].status \in statuses
  /\ asked < MaxAsked /\ asked' = asked + 1
  /\ Enqueue(NewJob(what, t))
  /\ UNCHANGED <<thread, fails, browser, workerVars, ghosts>>

ReplyToThread(t) == Ask("reply", t, {"unread"})
RetryScrape(t)   == Ask("scrape", t, {"failed", "pending_read"})

-----------------------------------------------------------------------------
(* scrape_conversation and send_reply.                                     *)

Take(w) ==
  /\ pc[w] = "idle"
  /\ \E j \in Jobs :
       /\ queue[j] > 0
       /\ queue' = [queue EXCEPT ![j] = @ - 1]
       /\ job' = [job EXCEPT ![w] = j]
       /\ seen' = [seen EXCEPT ![w] = thread[j.for]]
  /\ Goto(w, "check")
  /\ UNCHANGED <<thread, bounds, browser, text, live, ghosts>>

\* Mutant: a job that is refused the profile does not stop it.
CheckOnly(w) ==
  /\ pc[w] = "check"
  /\ \/ ~active /\ Goto(w, "open") /\ UNCHANGED <<queue, job, seen, text>>
     \/ active /\ Retry(w) /\ End(w)
  /\ UNCHANGED <<thread, bounds, browser, live, ghosts>>

\* profile_is_active.  The retry it raises is an exception like any other: the
\* handler below catches it and retries once more.
Check(w) ==
  /\ pc[w] = "check"
  /\ \/ ~active /\ Goto(w, "open") /\ UNCHANGED queue
     \/ active /\ Goto(w, "fail") /\ Retry(w)
  /\ UNCHANGED <<thread, bounds, browser, job, seen, text, live, ghosts>>

\* open_profile starts the browser, or finds it started since.
OpenProfile(w) ==
  /\ pc[w] = "open"
  /\ active' = TRUE
  /\ raced' = (raced \/ active)
  /\ live' = [live EXCEPT ![w] = TRUE]
  /\ Goto(w, "goto")
  /\ UNCHANGED <<rowVars, bounds, page, job, seen, text, sent, stray, stuck>>

\* _get_browser_and_page: the first page goes to the conversation.
Navigate(w) ==
  /\ pc[w] = "goto" /\ live[w]
  /\ page' = [shows |-> Of(w), box |-> None]
  /\ Goto(w, "page")
  /\ UNCHANGED <<rowVars, bounds, active, job, seen, text, live, ghosts>>

ReadPage(w) ==
  /\ pc[w] = "page" /\ job[w].what = "scrape" /\ live[w]
  /\ text' = [text EXCEPT ![w] = page.shows]
  /\ Goto(w, "commit")
  /\ UNCHANGED <<rowVars, bounds, browser, job, seen, live, ghosts>>

CommitScrape(w) ==
  /\ pc[w] = "commit"
  /\ Save(w, [seen[w] EXCEPT !.status = "unread", !.message = text[w]])
  /\ Goto(w, "leave")
  /\ UNCHANGED <<queue, bounds, browser, job, seen, text, live, ghosts>>

FillReply(w) ==
  /\ pc[w] = "page" /\ job[w].what = "reply" /\ live[w]
  /\ page' = [page EXCEPT !.box = Of(w)]
  /\ Goto(w, "filled")
  /\ UNCHANGED <<rowVars, bounds, active, job, seen, text, live, ghosts>>

\* Etsy takes what is in the box; the button does nothing with an empty one.
ClickSend(w) ==
  /\ pc[w] = "filled" /\ live[w]
  /\ page' = [page EXCEPT !.box = None]
  /\ stray' = (stray \/ page.box \notin {None, page.shows})
  /\ sent' = [t \in Threads |->
               IF t = page.box /\ t = page.shows THEN sent[t] + 1 ELSE sent[t]]
  /\ Goto(w, "sent")
  /\ UNCHANGED <<rowVars, bounds, active, job, seen, text, live, raced, stuck>>

\* Mutant: a click that did not get through goes unnoticed.
ConfirmUnchecked(w) ==
  /\ pc[w] \in {"filled", "sent"} /\ live[w]
  /\ Save(w, [seen[w] EXCEPT !.status = "replied", !.replied = TRUE])
  /\ Goto(w, "leave")
  /\ UNCHANGED <<queue, bounds, browser, job, seen, text, live, ghosts>>

\* An empty box says that the reply was sent, and the row is written.
ConfirmReply(w) ==
  /\ pc[w] = "sent" /\ live[w] /\ page.box = None
  /\ Save(w, [seen[w] EXCEPT !.status = "replied", !.replied = TRUE])
  /\ Goto(w, "leave")
  /\ UNCHANGED <<queue, bounds, browser, job, seen, text, live, ghosts>>

\* The inner finally: disconnect from the browser.
Leave(w) ==
  /\ pc[w] = "leave"
  /\ live' = [live EXCEPT ![w] = FALSE]
  /\ Goto(w, "close")
  /\ UNCHANGED <<rowVars, bounds, browser, job, seen, text, ghosts>>

\* A call to AdsPower, the page or the database fails; the soft time limit,
\* too, is an exception.
Raise(w) ==
  /\ pc[w] \in Stages \ {"idle", "fail", "close"}
  /\ Fail
  /\ live' = [live EXCEPT ![w] = FALSE]
  /\ Goto(w, "fail")
  /\ UNCHANGED <<rowVars, browser, job, seen, text, ghosts>>

\* The browser is gone, stopped by another job; or the box is not empty.
LosesBrowser(w) ==
  /\ pc[w] \in InBrowser
  /\ ~live[w] \/ (pc[w] = "sent" /\ page.box # None)
  /\ live' = [live EXCEPT ![w] = FALSE]
  /\ Goto(w, "fail")
  /\ UNCHANGED <<rowVars, bounds, browser, job, seen, text, ghosts>>

\* Mutant: a status the column's CHECK constraint does not know.
HandleAsError(w) ==
  /\ pc[w] = "fail"
  /\ thread' = [thread EXCEPT ![Of(w)].status = "error"]
  /\ Retry(w)
  /\ Goto(w, "close")
  /\ UNCHANGED <<bounds, browser, job, seen, text, live, ghosts>>

\* The handler: a scrape says in the row that it failed, and both try again.
Handle(w) ==
  /\ pc[w] = "fail"
  /\ IF job[w].what = "scrape"
       THEN thread' = [thread EXCEPT ![Of(w)].status = "failed"]
       ELSE UNCHANGED thread
  /\ Retry(w)
  /\ Goto(w, "close")
  /\ UNCHANGED <<bounds, browser, job, seen, text, live, ghosts>>

\* The handler of a scrape cannot commit: it ends there, without a retry.
HandlerFails(w) ==
  /\ pc[w] = "fail" /\ job[w].what = "scrape"
  /\ Fail
  /\ Goto(w, "close")
  /\ UNCHANGED <<rowVars, browser, job, seen, text, live, ghosts>>

\* finally: close_profile stops the browser, whoever works in it.
CloseProfile(w) ==
  /\ pc[w] = "close"
  /\ active' = FALSE
  /\ page' = Blank
  /\ live' = [v \in Workers |-> FALSE]
  /\ End(w)
  /\ UNCHANGED <<rowVars, bounds, ghosts>>

\* It never raises: an AdsPower that does not answer leaves the browser running.
CloseFails(w) ==
  /\ pc[w] = "close"
  /\ Fail
  /\ stuck' = TRUE
  /\ End(w)
  /\ UNCHANGED <<rowVars, browser, live, sent, stray, raced>>

\* The worker is lost: no finally runs, and the broker delivers the job again.
Crash(w) ==
  /\ pc[w] # "idle"
  /\ Fail
  /\ Enqueue(job[w])
  /\ live' = [live EXCEPT ![w] = FALSE]
  /\ End(w)
  /\ UNCHANGED <<thread, browser, ghosts>>

-----------------------------------------------------------------------------
Step(w) ==
  \/ Take(w) \/ Check(w) \/ OpenProfile(w) \/ Navigate(w)
  \/ ReadPage(w) \/ CommitScrape(w)
  \/ FillReply(w) \/ ClickSend(w) \/ ConfirmReply(w)
  \/ Leave(w) \/ LosesBrowser(w) \/ Handle(w) \/ CloseProfile(w)

Failure(w) == Raise(w) \/ HandlerFails(w) \/ CloseFails(w) \/ Crash(w)

Next ==
  \/ \E t \in Threads : CreateThread(t) \/ ReplyToThread(t) \/ RetryScrape(t)
  \/ \E w \in Workers : Step(w) \/ Failure(w)

Spec == Init /\ [][Next]_vars

-----------------------------------------------------------------------------
(* Properties.                                                             *)

\* As long as no job started a profile that another had started between its
\* check and its start: every reply that left went to its own conversation, a
\* thread shows the messages of its own conversation, and one that is marked
\* replied has had a reply sent, although jobs stop each other's browsers, die
\* anywhere, are run again and retry.
OwnConversation ==
  ~raced =>
    /\ ~stray
    /\ \A t \in Threads :
         /\ thread[t].message \in {None, t}
         /\ thread[t].replied => sent[t] > 0

\* A browser that runs has a job that will stop it, even when the job that
\* started it died, unless AdsPower failed to: otherwise no later job of the shop
\* would find the profile free.
ProfileFreed ==
  active => \/ stuck
            \/ \E w \in Workers : pc[w] # "idle"
            \/ \E j \in Jobs : queue[j] > 0

\* A job that finds the profile in use is queued twice, and one whose reply left
\* may fail afterwards and send it again.  Yet a reply that was asked for once
\* reaches the buyer at most 2^max_retries times; a worker that is lost, whose job
\* may have queued its retries already, counts as asking once more.
SentBound ==
  \A t \in Threads : sent[t] <= (asked + fails) * 2 ^ MaxRetries

\* "If profile is already active, retry later to avoid conflicting sessions": no
\* reply is sent in another buyer's conversation.
NoStrayReply == ~stray
=============================================================================
