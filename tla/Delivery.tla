------------------------------- MODULE Delivery -------------------------------
(***************************************************************************)
(* What reaches the API by POST: requests of the browser (lib/api.ts) and  *)
(* of other clients that set a key, Etsy's webhooks, and conversations     *)
(* that the IMAP listener finds.  All pass through the idempotency         *)
(* middleware; each sender has its own way to deal with an answer that is  *)
(* lost or not the one it hoped for.                                       *)
(*                                                                         *)
(* A call keeps its Idempotency-Key for all its attempts, so a message is  *)
(* its own key.  A webhook is recorded first and carried out by a task.    *)
(***************************************************************************)
EXTENDS Naturals, FiniteSets

CONSTANTS Clicks, Hooks, Mails,  \* messages, by sender; a click goes to a path that
                                 \* takes a key, and has one
          Exempt,   \* messages whose path needs no key
          Keyed,    \* messages whose sender sets one
          Calls,    \* slots for POSTs under way
          None,
          MaxSends, \* bound: attempts per message, by its sender and by the broker
          MaxPosted \* bound: messages that are sent

Messages == Clicks \cup Hooks \cup Mails

ASSUME DeliveryAssumption ==
  /\ Clicks \cap Hooks = {} /\ Clicks \cap Mails = {} /\ Hooks \cap Mails = {}
  /\ Exempt \subseteq Messages /\ Keyed \subseteq Messages
  /\ Clicks \subseteq Keyed \ Exempt
  /\ None \notin Calls \cup Messages
  /\ {MaxSends, MaxPosted} \subseteq Nat

VARIABLES
  effects,  \* how often each message has been carried out
  cache,    \* the answer the middleware keeps for each key
  calls,    \* the POSTs under way
  st, line, \* each sender: where it is, and the call it waits for
  sends,    \* attempts so far
  session,  \* the browser's cookies: the access token, the refresh token
  renewed,  \* clicks repeated after a refresh
  event,    \* webhook_events.status
  job,      \* the task of each event
  seen,     \* mails with the flag \Seen
  scan,     \* the mails the last SEARCH UNSEEN returned, still to be fetched
  reading,  \* the mail being processed
  excused   \* messages that met a fault after which they may repeat or be lost

sender  == <<st, line, sends, renewed>>
hook    == <<event, job>>
mailbox == <<seen, scan, reading>>
vars    == <<effects, cache, calls, sender, session, hook, mailbox, excused>>

Codes == {"ok", "denied", "keyless", "error"}
Call  == [msg : Messages \cup {None}, at : {"free", "arrived", "run", "looked", "recorded", "done"},
          code : Codes]
Free  == [msg |-> None, at |-> "free", code |-> "error"]

\* Every variable has its type; only keyed answers below 500 are kept.
TypeOK ==
  /\ effects \in [Messages -> Nat]
  /\ cache \in [Messages -> {"none", "ok", "denied"}]
  /\ calls \in [Calls -> Call]
  /\ st \in [Messages -> {"new", "sent", "lost", "refreshing", "again", "ok", "refused"}]
  /\ line \in [Messages -> Calls \cup {None}]
  /\ sends \in [Messages -> Nat]
  /\ session \in [access : BOOLEAN, refresh : BOOLEAN]
  /\ renewed \subseteq Clicks
  /\ event \in [Hooks -> {"none", "pending", "skipped", "processed"}]
  /\ job \in [Hooks -> {"none", "queued", "loaded", "acted"}]
  /\ seen \subseteq Mails /\ scan \subseteq Mails
  /\ reading \in Mails \cup {None}
  /\ excused \subseteq Messages

Init ==
  /\ effects = [m \in Messages |-> 0]
  /\ cache = [m \in Messages |-> "none"]
  /\ calls = [c \in Calls |-> Free]
  /\ st = [m \in Messages |-> "new"]
  /\ line = [m \in Messages |-> None]
  /\ sends = [m \in Messages |-> 0]
  /\ session = [access |-> TRUE, refresh |-> TRUE]
  /\ renewed = {}
  /\ event = [m \in Hooks |-> "none"]
  /\ job = [m \in Hooks |-> "none"]
  /\ seen = {} /\ scan = {} /\ reading = None
  /\ excused = {}

(***************************************************************************)
(* The senders.                                                            *)
(***************************************************************************)
\* The browser repeats a call after a refresh, and a client that relies on its
\* key one it got no answer to; Etsy repeats what was not accepted; the listener
\* posts once.
MaySend(m) ==
  \/ m \in Clicks /\ st[m] \in {"new", "lost", "again"}
  \/ m \in Hooks /\ st[m] \in {"new", "lost", "refused"}
  \/ m \in Mails /\ st[m] = "new" /\ reading = m

Posted == {m \in Messages : sends[m] > 0}

Post(m, c) ==
  /\ MaySend(m) /\ sends[m] < MaxSends /\ Cardinality(Posted \cup {m}) <= MaxPosted
  /\ calls[c].at = "free"
  /\ calls' = [calls EXCEPT ![c] = [msg |-> m, at |-> "arrived", code |-> "error"]]
  /\ st' = [st EXCEPT ![m] = "sent"]
  /\ line' = [line EXCEPT ![m] = c]
  /\ sends' = [sends EXCEPT ![m] = @ + 1]
  /\ UNCHANGED <<effects, cache, session, renewed, hook, mailbox, excused>>

\* No answer: a timeout, or a connection that breaks.
Lose(m) ==
  /\ st[m] = "sent"
  /\ st' = [st EXCEPT ![m] = "lost"]
  /\ line' = [line EXCEPT ![m] = None]
  /\ UNCHANGED <<effects, cache, calls, sends, renewed, session, hook, mailbox, excused>>

\* tryRefreshToken: one refresh serves every call that waits for it.
Waiting == {m \in Clicks : st[m] = "refreshing"}

Refresh ==
  /\ Waiting # {}
  /\ session' = [session EXCEPT !.access = session.refresh]
  /\ st' = [m \in Messages |-> IF m \notin Waiting THEN st[m]
                               ELSE IF session.refresh THEN "again" ELSE "refused"]
  /\ renewed' = renewed \cup Waiting
  /\ UNCHANGED <<effects, cache, calls, line, sends, hook, mailbox, excused>>

\* A cookie reaches its age: the access token, or both.
Expire ==
  /\ session.access
  /\ \E r \in {session.refresh, FALSE} : session' = [access |-> FALSE, refresh |-> r]
  /\ UNCHANGED <<effects, cache, calls, sender, hook, mailbox, excused>>

(***************************************************************************)
(* The middleware.                                                         *)
(***************************************************************************)
At(c, s) == calls[c].at = s

Answers(c, code) ==
  calls' = [calls EXCEPT ![c] = [msg |-> @.msg, at |-> "done", code |-> code]]

Moves(c, s) == calls' = [calls EXCEPT ![c].at = s]

Past(c) == calls[c].at \notin {"free", "arrived"}

\* Another attempt of c's message has passed the check and is not stored yet.
Beside(c) == \E d \in Calls \ {c} : calls[d].msg = calls[c].msg /\ Past(d)

\* Mutant: the check does not look into the cache.
CachedNever(m) == FALSE

Cached(m) == cache[m] # "none"

Check(c) ==
  /\ At(c, "arrived")
  /\ LET m == calls[c].msg
     IN /\ \/ m \in Exempt /\ Moves(c, "run")
           \/ m \notin Exempt \cup Keyed /\ Answers(c, "keyless")
           \/ m \in Keyed \ Exempt /\ Cached(m) /\ Answers(c, cache[m])
           \/ m \in Keyed \ Exempt /\ ~Cached(m) /\ Moves(c, "run")
        /\ excused' = IF m \in Clicks /\ Beside(c) THEN excused \cup {m} ELSE excused
  /\ UNCHANGED <<effects, cache, sender, session, hook, mailbox>>

\* Mutant: errors are kept as well.
KeptAlways(c) == calls[c].code

\* Everything below 500 is kept, whatever it says.
Kept(c) == IF calls[c].code \in {"ok", "denied"} THEN calls[c].code ELSE cache[calls[c].msg]

\* How an answer leaves its sender.
Told(m, code) ==
  IF code = "ok" THEN "ok"
  ELSE IF code = "denied" /\ m \in Clicks \ renewed THEN "refreshing" ELSE "refused"

\* setex, which may fail, and the answer, to the sender if it still waits.
Answer(c) ==
  /\ At(c, "done")
  /\ LET m == calls[c].msg
     IN /\ \/ m \in Keyed \ Exempt /\ cache' = [cache EXCEPT ![m] = Kept(c)]
              /\ UNCHANGED excused
           \/ m \in Keyed \ Exempt /\ UNCHANGED cache
              /\ excused' = IF calls[c].code = "ok" THEN excused \cup {m} ELSE excused
           \/ m \notin Keyed \ Exempt /\ UNCHANGED <<cache, excused>>
        /\ IF line[m] = c
             THEN /\ st' = [st EXCEPT ![m] = Told(m, calls[c].code)]
                  /\ line' = [line EXCEPT ![m] = None]
             ELSE UNCHANGED <<st, line>>
  /\ calls' = [calls EXCEPT ![c] = Free]
  /\ UNCHANGED <<effects, sends, renewed, session, hook, mailbox>>

\* The API's process dies: what ran in it is neither answered nor stored.
CrashCall(c) ==
  /\ ~At(c, "free")
  /\ LET m == calls[c].msg
     IN /\ excused' = IF At(c, "recorded") \/ (m \in Clicks /\ Past(c)) THEN excused \cup {m}
                                                                         ELSE excused
        /\ IF line[m] = c THEN st' = [st EXCEPT ![m] = "lost"] /\ line' = [line EXCEPT ![m] = None]
                          ELSE UNCHANGED <<st, line>>
  /\ calls' = [calls EXCEPT ![c] = Free]
  /\ UNCHANGED <<effects, cache, sends, renewed, session, hook, mailbox>>

(***************************************************************************)
(* The handlers.                                                           *)
(***************************************************************************)
Acts(m) == effects' = [effects EXCEPT ![m] = @ + 1]

\* A request of the browser: no session, the work and its commit, or an error
\* before or after the commit.
Serve(c) ==
  /\ At(c, "run") /\ calls[c].msg \in Clicks
  /\ LET m == calls[c].msg
     IN \/ ~session.access /\ Answers(c, "denied") /\ UNCHANGED <<effects, excused>>
        \/ session.access /\ Acts(m) /\ Answers(c, "ok") /\ UNCHANGED excused
        \/ session.access /\ Answers(c, "error") /\ UNCHANGED <<effects, excused>>
        \/ session.access /\ Acts(m) /\ Answers(c, "error") /\ excused' = excused \cup {m}
  /\ UNCHANGED <<cache, sender, session, hook, mailbox>>

\* internal_create_thread: the thread and its commit, or an error before it, or
\* after it when the scrape cannot be queued.
CreateThread(c) ==
  /\ At(c, "run") /\ calls[c].msg \in Mails
  /\ \/ Acts(calls[c].msg) /\ \E code \in {"ok", "error"} : Answers(c, code)
     \/ Answers(c, "error") /\ UNCHANGED effects
  /\ UNCHANGED <<cache, sender, session, hook, mailbox, excused>>

\* etsy_webhook: a query for the event, its insert (external_id is unique), and
\* the task once the insert is committed.
LookUp(c) ==
  /\ At(c, "run") /\ calls[c].msg \in Hooks
  /\ IF event[calls[c].msg] # "none" THEN Answers(c, "ok") ELSE Moves(c, "looked")
  /\ UNCHANGED <<effects, cache, sender, session, hook, mailbox, excused>>

RecordEvent(c) ==
  /\ At(c, "looked")
  /\ LET m == calls[c].msg
     IN \/ /\ event[m] # "none" /\ Answers(c, "error") /\ UNCHANGED event
        \/ /\ event[m] = "none" /\ Moves(c, "recorded")
           /\ event' = [event EXCEPT ![m] = "pending"]
        \/ /\ event[m] = "none" /\ Answers(c, "ok")
           /\ event' = [event EXCEPT ![m] = "skipped"]
  /\ UNCHANGED <<effects, cache, sender, session, job, mailbox, excused>>

Queue(c) ==
  /\ At(c, "recorded")
  /\ LET m == calls[c].msg
     IN \/ job' = [job EXCEPT ![m] = "queued"] /\ Answers(c, "ok") /\ UNCHANGED excused
        \/ UNCHANGED job /\ Answers(c, "error") /\ excused' = excused \cup {m}
  /\ UNCHANGED <<effects, cache, sender, session, event, mailbox>>

(***************************************************************************)
(* process_webhook_event.                                                  *)
(***************************************************************************)
\* Mutant: an event that has been recorded is taken for processed.
AlreadyRecorded(m) == event[m] # "none"

Already(m) == event[m] = "processed"

Load(m) ==
  /\ job[m] = "queued"
  /\ job' = [job EXCEPT ![m] = IF Already(m) THEN "none" ELSE "loaded"]
  /\ UNCHANGED <<effects, cache, calls, sender, session, event, mailbox, excused>>

\* celery_app.py does not include the task's module: a worker that has not met it
\* by another way drops what it does not know.
Discard(m) ==
  /\ job[m] = "queued"
  /\ job' = [job EXCEPT ![m] = "none"]
  /\ excused' = excused \cup {m}
  /\ UNCHANGED <<effects, cache, calls, sender, session, event, mailbox>>

\* The task ends; or its worker is lost before it acknowledges it.
Ends(m) == \E j \in {"none", "queued"} : job' = [job EXCEPT ![m] = j]

\* The shop is gone, or the type is not known.
Skip(m) ==
  /\ job[m] = "loaded"
  /\ event' = [event EXCEPT ![m] = "skipped"]
  /\ Ends(m)
  /\ UNCHANGED <<effects, cache, calls, sender, session, mailbox, excused>>

Handle(m) ==
  /\ job[m] = "loaded"
  /\ Acts(m)
  /\ job' = [job EXCEPT ![m] = "acted"]
  /\ UNCHANGED <<cache, calls, sender, session, event, mailbox, excused>>

MarkProcessed(m) ==
  /\ job[m] = "acted"
  /\ event' = [event EXCEPT ![m] = "processed"]
  /\ Ends(m)
  /\ UNCHANGED <<effects, cache, calls, sender, session, mailbox, excused>>

\* An exception: the event is left pending, "Will retry later", and nothing does.
Abandon(m) ==
  /\ job[m] \in {"loaded", "acted"}
  /\ event' = [event EXCEPT ![m] = "pending"]
  /\ job' = [job EXCEPT ![m] = "none"]
  /\ excused' = excused \cup {m}
  /\ UNCHANGED <<effects, cache, calls, sender, session, mailbox>>

\* The worker is lost and the broker hands the task out again.
Redeliver(m) ==
  /\ job[m] \in {"loaded", "acted"} /\ effects[m] < MaxSends
  /\ job' = [job EXCEPT ![m] = "queued"]
  /\ excused' = IF job[m] = "acted" THEN excused \cup {m} ELSE excused
  /\ UNCHANGED <<effects, cache, calls, sender, session, event, mailbox>>

(***************************************************************************)
(* The listener.                                                           *)
(***************************************************************************)
\* process_new_emails, after a push or what the library reports as one.
Search ==
  /\ scan = {} /\ reading = None
  /\ scan' = Mails \ seen
  /\ UNCHANGED <<effects, cache, calls, sender, session, hook, seen, reading, excused>>

\* FETCH (RFC822) sets \Seen.
Flagged(m) == seen \cup {m}

\* A mail that is not Etsy's, or has no conversation in it, is only flagged;
\* a fetch that fails leaves it for the next search.
Fetch(m) ==
  /\ m \in scan /\ reading = None
  /\ scan' = scan \ {m}
  /\ \/ seen' = Flagged(m) /\ reading' = m /\ st' = [st EXCEPT ![m] = "new"]
     \/ seen' = Flagged(m) /\ UNCHANGED <<reading, st>>
     \/ UNCHANGED <<seen, reading, st>>
  /\ UNCHANGED <<effects, cache, calls, line, sends, renewed, session, hook, excused>>

\* create_thread swallows whatever came of its POST, and the next mail follows.
NextMail ==
  /\ reading # None /\ st[reading] \notin {"new", "sent"}
  /\ seen' = seen \cup {reading}
  /\ reading' = None
  /\ UNCHANGED <<effects, cache, calls, sender, session, hook, scan, excused>>

\* The connection breaks, or the manager cancels the listener to reload the
\* configuration: it starts anew, wherever it was.
Restart ==
  /\ scan # {} \/ reading # None
  /\ scan' = {} /\ reading' = None
  /\ IF reading # None /\ st[reading] = "sent"
       THEN st' = [st EXCEPT ![reading] = "lost"] /\ line' = [line EXCEPT ![reading] = None]
       ELSE UNCHANGED <<st, line>>
  /\ UNCHANGED <<effects, cache, calls, sends, renewed, session, hook, seen, excused>>

Step(c) ==
  \/ Check(c) \/ Serve(c) \/ CreateThread(c) \/ LookUp(c) \/ RecordEvent(c) \/ Queue(c)
  \/ Answer(c) \/ CrashCall(c)

Task(m) ==
  \/ Discard(m) \/ Load(m) \/ Skip(m) \/ Handle(m) \/ MarkProcessed(m)
  \/ Abandon(m) \/ Redeliver(m)

Next ==
  \/ \E m \in Messages : Lose(m) \/ \E c \in Calls : Post(m, c)
  \/ Refresh \/ Expire
  \/ \E c \in Calls : Step(c)
  \/ \E m \in Hooks : Task(m)
  \/ Search \/ NextMail \/ Restart \/ \E m \in Mails : Fetch(m)

Spec == Init /\ [][Next]_vars

(***************************************************************************)
(* Properties.                                                             *)
(***************************************************************************)
\* idempotency.py 109-165, webhooks.py 128-164, imap_listener.py 192-252: what
\* is sent is carried out at most once, however often it is repeated, unless
\* two attempts were past the check at once, an answer was not stored, or a
\* process died between the work and its record.  For a mail there is no such
\* excuse: it is flagged by the fetch and never posted again.
ActsOnce ==
  \A m \in Messages : effects[m] <= 1 \/ m \in excused \cap (Clicks \cup Hooks)

\* Where an accepted message waits.
Open ==
  {m \in Hooks : job[m] # "none" \/ \E c \in Calls : calls[c].msg = m /\ At(c, "recorded")}

Settled ==
  {m \in Messages : effects[m] > 0} \cup {m \in Hooks : event[m] = "skipped"}

\* webhooks.py 164, webhook_tasks.py 82-88: a sender that was told of success
\* can rely on it: its message has been carried out or dismissed, waits in the
\* queue, or has met one of the faults above.
SuccessIsTrue ==
  \A m \in Messages : st[m] = "ok" => m \in Settled \cup Open \cup excused

I == INSTANCE Inbox WITH open <- Open, settled <- Settled,
                         Repeatable <- Clicks \cup Hooks

\* The same as a refinement: every step of the API is one that a sender may
\* expect (Inbox), or none.
Implements == I!Spec

\* webhooks.py 40, "Receive webhook events from Etsy API", imap_listener.py 341,
\* "Call internal FastAPI endpoint to create a message thread", and api.ts 192,
\* "attempt a silent token refresh once": whoever is entitled to what it asks is
\* not turned away.
NobodyTurnedAway ==
  [][\A c \in Calls : At(c, "done") /\ ~At(c, "done")' =>
       /\ calls[c].code # "keyless"
       /\ calls[c].code = "denied" => calls[c].msg \notin renewed \/ ~session.access]_vars
=============================================================================
