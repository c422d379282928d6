---------------------------- MODULE DeliveryProofs ----------------------------
(***************************************************************************)
(* Proofs about Delivery, for any messages, keys and calls: the API's      *)
(* steps are those of Inbox.                                               *)
(***************************************************************************)
EXTENDS Delivery, TLAPS

USE DeliveryAssumption

-----------------------------------------------------------------------------
(* The inductive invariant.                                                *)

\* What is at a place in the middleware has a message that belongs there.
CallsFit ==
  \A c \in Calls :
    /\ At(c, "free") <=> calls[c].msg = None
    /\ calls[c].at \in {"looked", "recorded"} => calls[c].msg \in Hooks

Of(c, m) == calls[c].msg = m

\* A request that has met no fault runs once: what the cache does not know yet
\* is in the one call past the check.
ClicksFit ==
  \A m \in Clicks \ excused :
    /\ \A c, d \in Calls : Of(c, m) /\ Of(d, m) /\ Past(c) /\ Past(d) => c = d
    /\ \A c \in Calls : Of(c, m) /\ At(c, "run") => effects[m] = 0
    /\ effects[m] > 0 => \/ Cached(m)
                         \/ \E c \in Calls : Of(c, m) /\ At(c, "done") /\ calls[c].code = "ok"

\* An event is recorded by one call, whose task finds it so.
HooksFit ==
  \A m \in Hooks :
    /\ event[m] = "none" => job[m] = "none" /\ effects[m] = 0
    /\ \A c \in Calls : Of(c, m) /\ At(c, "recorded") =>
         /\ event[m] = "pending" /\ job[m] = "none" /\ effects[m] = 0
         /\ \A d \in Calls : Of(d, m) /\ At(d, "recorded") => c = d
    /\ Already(m) \/ job[m] = "acted" => effects[m] > 0
    /\ job[m] = "loaded" => ~Already(m)
    /\ job[m] \in {"queued", "loaded"} => effects[m] = 0 \/ m \in excused \/ Already(m)

Fresh(m) == m \notin seen \/ (reading = m /\ st[m] = "new")

\* A mail that is fetched is never fetched again, and is posted once.
MailsFit ==
  /\ scan \cap seen = {}
  /\ reading # None => reading \in seen
  /\ \A m \in Mails :
       /\ Fresh(m) => effects[m] = 0 /\ \A c \in Calls : ~Of(c, m)
       /\ \A c \in Calls : Of(c, m) /\ calls[c].at \in {"arrived", "run"} => effects[m] = 0
       /\ \A c, d \in Calls : Of(c, m) /\ Of(d, m) => c = d

Good == Settled \cup Open \cup excused

\* Every "ok" under way, kept or received speaks the truth.
Truth ==
  /\ \A c \in Calls : At(c, "done") /\ calls[c].code = "ok" => calls[c].msg \in Good
  /\ \A m \in Messages : cache[m] = "ok" \/ st[m] = "ok" => m \in Good
  /\ \A m \in Hooks : event[m] # "none" => m \in Good

IInv == TypeOK /\ CallsFit /\ ClicksFit /\ HooksFit /\ MailsFit

-----------------------------------------------------------------------------
(* Types.                                                                  *)

LEMMA CallTypes ==
  ASSUME TypeOK, CallsFit, NEW c \in Calls
  PROVE  /\ calls[c] \in Call
         /\ ~At(c, "free") => calls[c].msg \in Messages
         /\ calls[c].msg \in Messages => ~At(c, "free")
<1>1. calls[c] \in Call
  BY DEF TypeOK
<1>2. calls[c].msg \in Messages \cup {None}
  BY <1>1 DEF Call
<1>. QED  BY <1>1, <1>2 DEF CallsFit, At

\* A call that goes on, or is answered, keeps its message; the others stay.
Turned(c, s) ==
  /\ calls' \in [Calls -> Call]
  /\ calls'[c].msg = calls[c].msg /\ calls'[c].at = s
  /\ \A d \in Calls \ {c} : calls'[d] = calls[d]

LEMMA MovesTurns ==
  ASSUME TypeOK, NEW c \in Calls, NEW s \in {"run", "looked", "recorded"}, Moves(c, s)
  PROVE  Turned(c, s) /\ calls'[c].code = calls[c].code
BY DEF TypeOK, Call, Moves, Turned

LEMMA AnswersTurns ==
  ASSUME TypeOK, NEW c \in Calls, NEW code \in Codes, Answers(c, code)
  PROVE  Turned(c, "done") /\ calls'[c].code = code
<1>1. calls[c].msg \in Messages \cup {None}
  BY DEF TypeOK, Call
<1>. QED  BY <1>1 DEF TypeOK, Call, Answers, Turned

\* What a commit, or the end of a call, does to what is counted.
LEMMA ActsTypes ==
  ASSUME TypeOK, NEW m \in Messages, Acts(m)
  PROVE  /\ effects' \in [Messages -> Nat]
         /\ effects'[m] = effects[m] + 1
         /\ \A n \in Messages \ {m} : effects'[n] = effects[n]
BY DEF TypeOK, Acts

LEMMA KeptTypes ==
  ASSUME TypeOK, NEW c \in Calls, calls[c].msg \in Messages
  PROVE  Kept(c) \in {"none", "ok", "denied"}
BY DEF TypeOK, Kept

LEMMA ToldTypes ==
  ASSUME NEW m, NEW code
  PROVE  Told(m, code) \in {"ok", "refreshing", "refused"}
BY DEF Told

LEMMA TypeInit == Init => TypeOK
BY DEF Init, TypeOK, Call, Free, Codes, Messages

LEMMA TypeStep == TypeOK /\ CallsFit /\ [Next]_vars => TypeOK'
<1> SUFFICES ASSUME TypeOK, CallsFit, [Next]_vars PROVE TypeOK'
  OBVIOUS
<1> USE DEF sender, hook, mailbox
<1>1. ASSUME NEW m \in Messages, NEW c \in Calls, Post(m, c) PROVE TypeOK'
  BY <1>1 DEF TypeOK, Post, Call, Codes
<1>2. ASSUME NEW m \in Messages, Lose(m) PROVE TypeOK'
  BY <1>2 DEF TypeOK, Lose
<1>3. ASSUME Refresh PROVE TypeOK'
  BY <1>3 DEF TypeOK, Refresh, Waiting
<1>4. ASSUME Expire PROVE TypeOK'
  <2>1. session.refresh \in BOOLEAN
    BY DEF TypeOK
  <2>2. PICK r \in {session.refresh, FALSE} : session' = [access |-> FALSE, refresh |-> r]
    BY <1>4, Zenon DEF Expire
  <2>3. r \in BOOLEAN
    BY <2>1, <2>2, Zenon
  <2>4. session' \in [access : BOOLEAN, refresh : BOOLEAN]
    BY <2>2, <2>3
  <2>. QED  BY <1>4, <2>4 DEF TypeOK, Expire
<1>5. ASSUME NEW c \in Calls, Step(c) PROVE TypeOK'
  <2> DEFINE m == calls[c].msg
  <2>0. ~At(c, "free") => m \in Messages
    BY CallTypes
  <2>1. CASE Check(c)
    <3>1. m \in Messages
      BY <2>0, <2>1 DEF Check, At
    <3>2. calls' \in [Calls -> Call]
      <4>1. Moves(c, "run") => calls' \in [Calls -> Call]
        BY MovesTurns DEF Turned
      <4>2. Answers(c, "keyless") => calls' \in [Calls -> Call]
        BY AnswersTurns DEF Turned, Codes
      <4>3. Cached(m) /\ Answers(c, cache[m]) => calls' \in [Calls -> Call]
        BY <3>1, AnswersTurns DEF Turned, Codes, Cached, TypeOK
      <4>. QED  BY <2>1, <4>1, <4>2, <4>3 DEF Check
    <3>3. excused' \subseteq Messages
      BY <2>1, <3>1 DEF Check, TypeOK
    <3>. QED  BY <2>1, <3>2, <3>3 DEF Check, TypeOK
  <2>2. CASE Serve(c)
    <3>1. m \in Messages
      BY <2>0, <2>2 DEF Serve, At
    <3>2. calls' \in [Calls -> Call]
      BY <2>2, AnswersTurns DEF Serve, Turned, Codes
    <3>3. effects' \in [Messages -> Nat] /\ excused' \subseteq Messages
      BY <2>2, <3>1, ActsTypes DEF Serve, TypeOK
    <3>. QED  BY <2>2, <3>2, <3>3 DEF Serve, TypeOK
  <2>3. CASE CreateThread(c)
    <3>1. m \in Messages
      BY <2>0, <2>3 DEF CreateThread, At
    <3>2. calls' \in [Calls -> Call]
      BY <2>3, AnswersTurns DEF CreateThread, Turned, Codes
    <3>3. effects' \in [Messages -> Nat]
      BY <2>3, <3>1, ActsTypes DEF CreateThread, TypeOK
    <3>. QED  BY <2>3, <3>2, <3>3 DEF CreateThread, TypeOK
  <2>4. CASE LookUp(c)
    <3>1. calls' \in [Calls -> Call]
      BY <2>4, AnswersTurns, MovesTurns DEF LookUp, Turned, Codes
    <3>. QED  BY <2>4, <3>1 DEF LookUp, TypeOK
  <2>5. CASE RecordEvent(c)
    <3>1. calls' \in [Calls -> Call]
      BY <2>5, AnswersTurns, MovesTurns DEF RecordEvent, Turned, Codes
    <3>2. event' \in [Hooks -> {"none", "pending", "skipped", "processed"}]
      BY <2>5 DEF RecordEvent, TypeOK
    <3>. QED  BY <2>5, <3>1, <3>2 DEF RecordEvent, TypeOK
  <2>6. CASE Queue(c)
    <3>1. calls' \in [Calls -> Call]
      BY <2>6, AnswersTurns DEF Queue, Turned, Codes
    <3>2. m \in Messages
      BY <2>0, <2>6 DEF Queue, At
    <3>3. job' \in [Hooks -> {"none", "queued", "loaded", "acted"}] /\ excused' \subseteq Messages
      BY <2>6, <3>2 DEF Queue, TypeOK
    <3>. QED  BY <2>6, <3>1, <3>3 DEF Queue, TypeOK
  <2>7. CASE Answer(c)
    <3>1. m \in Messages
      BY <2>0, <2>7 DEF Answer, At
    <3>2. cache' \in [Messages -> {"none", "ok", "denied"}] /\ excused' \subseteq Messages
      BY <2>7, <3>1, KeptTypes DEF Answer, TypeOK
    <3>3. /\ st' \in [Messages -> {"new", "sent", "lost", "refreshing", "again", "ok", "refused"}]
          /\ line' \in [Messages -> Calls \cup {None}]
      BY <2>7, <3>1, ToldTypes DEF Answer, TypeOK
    <3>4. calls' \in [Calls -> Call]
      BY <2>7 DEF Answer, TypeOK, Call, Free, Codes
    <3>. QED  BY <2>7, <3>2, <3>3, <3>4 DEF Answer, TypeOK
  <2>8. CASE CrashCall(c)
    <3>1. m \in Messages
      BY <2>0, <2>8 DEF CrashCall
    <3>2. /\ st' \in [Messages -> {"new", "sent", "lost", "refreshing", "again", "ok", "refused"}]
          /\ line' \in [Messages -> Calls \cup {None}]
          /\ excused' \subseteq Messages
      BY <2>8, <3>1 DEF CrashCall, TypeOK
    <3>3. calls' \in [Calls -> Call]
      BY <2>8 DEF CrashCall, TypeOK, Call, Free, Codes
    <3>. QED  BY <2>8, <3>2, <3>3 DEF CrashCall, TypeOK
  <2>. QED  BY <1>5, <2>1, <2>2, <2>3, <2>4, <2>5, <2>6, <2>7, <2>8 DEF Step
<1>6. ASSUME NEW m \in Hooks, Task(m) PROVE TypeOK'
  <2>1. m \in Messages
    BY DEF Messages
  <2>2. CASE Handle(m)
    BY <2>1, <2>2, ActsTypes DEF Handle, TypeOK
  <2>3. CASE Discard(m) \/ Load(m) \/ Skip(m) \/ MarkProcessed(m)
    BY <2>1, <2>3 DEF Discard, Load, Skip, MarkProcessed, Ends, TypeOK
  <2>4. CASE Abandon(m) \/ Redeliver(m)
    BY <2>1, <2>4 DEF Abandon, Redeliver, TypeOK
  <2>. QED  BY <1>6, <2>2, <2>3, <2>4 DEF Task
<1>7. ASSUME Search \/ NextMail \/ Restart PROVE TypeOK'
  BY <1>7 DEF TypeOK, Search, NextMail, Restart, Messages
<1>8. ASSUME NEW m \in Mails, Fetch(m) PROVE TypeOK'
  BY <1>8 DEF TypeOK, Fetch, Flagged, Messages
<1>9. ASSUME UNCHANGED vars PROVE TypeOK'
  BY <1>9 DEF TypeOK, vars, Call
<1>. QED  BY <1>1, <1>2, <1>3, <1>4, <1>5, <1>6, <1>7, <1>8, <1>9 DEF Next

-----------------------------------------------------------------------------
(* How calls move.                                                         *)

\* A step of a call turns that call, or frees it, and leaves the others alone.
LEMMA StepTurns ==
  ASSUME TypeOK, CallsFit, NEW c \in Calls, Step(c)
  PROVE  /\ calls[c].msg \in Messages /\ ~At(c, "free")
         /\ \/ Turned(c, "run") \/ Turned(c, "done")
            \/ (Turned(c, "looked") \/ Turned(c, "recorded")) /\ calls[c].msg \in Hooks
            \/ calls' = [calls EXCEPT ![c] = Free]
<1>1. ~At(c, "free")
  BY DEF Step, Check, Serve, CreateThread, LookUp, RecordEvent, Queue, Answer, CrashCall, At
<1>2. calls[c].msg \in Messages
  BY <1>1, CallTypes
<1>3. \A s \in {"run", "looked", "recorded"} : Moves(c, s) => Turned(c, s)
  BY MovesTurns
<1>4. \A code \in Codes : Answers(c, code) => Turned(c, "done")
  BY AnswersTurns
<1>5. {"ok", "denied", "keyless", "error"} \subseteq Codes
  BY DEF Codes
<1>6. CASE Check(c)
  <2>1. Cached(calls[c].msg) => cache[calls[c].msg] \in Codes
    BY <1>2 DEF Cached, Codes, TypeOK
  <2>. QED  BY <1>1, <1>2, <1>3, <1>4, <1>5, <1>6, <2>1 DEF Check
<1>7. CASE Serve(c) \/ CreateThread(c) \/ Queue(c)
  BY <1>1, <1>2, <1>4, <1>5, <1>7 DEF Serve, CreateThread, Queue
<1>8. CASE LookUp(c)
  BY <1>1, <1>2, <1>3, <1>4, <1>5, <1>8 DEF LookUp
<1>9. CASE RecordEvent(c)
  <2>1. calls[c].msg \in Hooks
    BY <1>9 DEF RecordEvent, CallsFit, At
  <2>. QED  BY <1>1, <1>2, <1>3, <1>4, <1>5, <1>9, <2>1 DEF RecordEvent
<1>10. CASE Answer(c) \/ CrashCall(c)
  BY <1>1, <1>2, <1>10 DEF Answer, CrashCall
<1>. QED  BY <1>6, <1>7, <1>8, <1>9, <1>10 DEF Step

\* Nothing but a new post and a step of a call touches the calls.
LEMMA CallsChange ==
  ASSUME [Next]_vars
  PROVE  \/ \E m \in Messages, c \in Calls : Post(m, c)
         \/ \E c \in Calls : Step(c)
         \/ UNCHANGED calls
<1> USE DEF sender, hook, mailbox
<1>1. ASSUME NEW m \in Hooks, Task(m) PROVE UNCHANGED calls
  BY <1>1 DEF Task, Discard, Load, Skip, Handle, MarkProcessed, Abandon, Redeliver
<1>. QED  BY <1>1 DEF Next, vars, Lose, Refresh, Expire, Search, NextMail, Restart, Fetch

LEMMA CallsStep == TypeOK /\ CallsFit /\ [Next]_vars => CallsFit'
<1> SUFFICES ASSUME TypeOK, CallsFit, [Next]_vars PROVE CallsFit'
  OBVIOUS
<1>1. ASSUME NEW m \in Messages, NEW c \in Calls, Post(m, c) PROVE CallsFit'
  <2>1. calls' = [calls EXCEPT ![c] = [msg |-> m, at |-> "arrived", code |-> "error"]]
    BY <1>1 DEF Post
  <2>2. m # None
    OBVIOUS
  <2>. QED  BY <2>1, <2>2 DEF CallsFit, At, TypeOK
<1>2. ASSUME NEW c \in Calls, Step(c) PROVE CallsFit'
  <2>1. calls[c].msg # None
    BY <1>2, StepTurns
  <2>2. CASE calls' = [calls EXCEPT ![c] = Free]
    BY <2>2 DEF CallsFit, At, Free, TypeOK
  <2>3. CASE Turned(c, "run") \/ Turned(c, "done")
    BY <2>1, <2>3 DEF CallsFit, At, Turned
  <2>4. CASE (Turned(c, "looked") \/ Turned(c, "recorded")) /\ calls[c].msg \in Hooks
    BY <2>1, <2>4 DEF CallsFit, At, Turned
  <2>. QED  BY <1>2, <2>2, <2>3, <2>4, StepTurns
<1>3. ASSUME UNCHANGED calls PROVE CallsFit'
  BY <1>3 DEF CallsFit, At
<1>. QED  BY <1>1, <1>2, <1>3, CallsChange

LEMMA ExcusedGrows == [Next]_vars => excused \subseteq excused'
<1> USE DEF sender, hook, mailbox
<1>1. ASSUME NEW c \in Calls, Step(c) PROVE excused \subseteq excused'
  BY <1>1 DEF Step, Check, Serve, CreateThread, LookUp, RecordEvent, Queue, Answer, CrashCall
<1>2. ASSUME NEW m \in Hooks, Task(m) PROVE excused \subseteq excused'
  BY <1>2 DEF Task, Discard, Load, Skip, Handle, MarkProcessed, Abandon, Redeliver
<1>. QED
  BY <1>1, <1>2 DEF Next, vars, Post, Lose, Refresh, Expire, Search, NextMail, Restart, Fetch

-----------------------------------------------------------------------------
(* Requests of the browser.                                                *)

LEMMA ClicksStep == TypeOK /\ CallsFit /\ ClicksFit /\ [Next]_vars => ClicksFit'
<1> DEFINE Alone(m) == \A c, d \in Calls : Of(c, m) /\ Of(d, m) /\ Past(c) /\ Past(d) => c = d
           Runs(m)  == \A c \in Calls : Of(c, m) /\ At(c, "run") => effects[m] = 0
           Kept2(m) == effects[m] > 0 =>
                         \/ Cached(m)
                         \/ \E c \in Calls : Of(c, m) /\ At(c, "done") /\ calls[c].code = "ok"
<1> SUFFICES ASSUME TypeOK, CallsFit, ClicksFit, [Next]_vars, NEW m \in Clicks, m \notin excused'
             PROVE  Alone(m)' /\ Runs(m)' /\ Kept2(m)'
  BY DEF ClicksFit
<1> USE DEF sender, hook, mailbox
<1>0. /\ Alone(m) /\ Runs(m) /\ Kept2(m)
      /\ m \in Messages /\ m \notin Hooks /\ m \notin Mails /\ m \notin excused /\ m # None
      /\ m \in Keyed \ Exempt
      /\ effects[m] \in Nat /\ cache[m] \in {"none", "ok", "denied"}
  BY ExcusedGrows DEF ClicksFit, Messages, TypeOK
<1>1. ASSUME NEW n \in Messages, NEW c \in Calls, Post(n, c)
      PROVE  Alone(m)' /\ Runs(m)' /\ Kept2(m)'
  <2>1. /\ calls'[c].at = "arrived" /\ calls[c].at = "free"
        /\ \A d \in Calls \ {c} : calls'[d] = calls[d]
        /\ UNCHANGED <<effects, cache>>
    BY <1>1 DEF Post, TypeOK
  <2>. QED  BY <1>0, <2>1 DEF Of, Past, At, Cached
<1>2. ASSUME NEW c \in Calls, Step(c), ~Of(c, m)
      PROVE  Alone(m)' /\ Runs(m)' /\ Kept2(m)'
  <2>1. calls'[c].msg # m /\ \A d \in Calls \ {c} : calls'[d] = calls[d]
    BY <1>0, <1>2, StepTurns DEF Turned, Of, Free, TypeOK
  <2>2. calls[c].msg \in Messages /\ calls[c].msg # m
    BY <1>2, StepTurns DEF Of
  <2>3. effects'[m] = effects[m]
    BY <1>0, <1>2, <2>2, ActsTypes
    DEF Step, Check, Serve, CreateThread, LookUp, RecordEvent, Queue, Answer, CrashCall
  <2>4. cache'[m] = cache[m]
    BY <1>0, <1>2, <2>2
    DEF Step, Check, Serve, CreateThread, LookUp, RecordEvent, Queue, Answer, CrashCall, TypeOK
  <2>. QED  BY <1>0, <2>1, <2>2, <2>3, <2>4 DEF Of, Past, At, Cached
<1>3. ASSUME NEW c \in Calls, Step(c), Of(c, m)
      PROVE  Alone(m)' /\ Runs(m)' /\ Kept2(m)'
  <2>0. calls[c].msg = m /\ calls[c] \in Call
    BY <1>3, CallTypes DEF Of
  <2>1. CASE Check(c)
    <3>1. At(c, "arrived") /\ ~Beside(c) /\ UNCHANGED <<effects, cache>>
      BY <1>0, <2>0, <2>1 DEF Check
    <3>2. \A d \in Calls \ {c} : Of(d, m) => ~Past(d)
      BY <2>0, <3>1 DEF Beside, Of
    <3>3. CASE Cached(m) /\ Answers(c, cache[m])
      <4>1. Turned(c, "done")
        BY <1>0, <3>3, AnswersTurns DEF Cached, Codes
      <4>. QED  BY <2>0, <3>1, <3>2, <3>3, <4>1 DEF Turned, Of, Past, At, Cached
    <3>4. CASE ~Cached(m) /\ Moves(c, "run")
      <4>1. Turned(c, "run")
        BY <3>4, MovesTurns
      <4>2. effects[m] = 0
        <5>1. \A d \in Calls : Of(d, m) => ~At(d, "done")
          BY <3>1, <3>2 DEF Past, At
        <5>. QED  BY <1>0, <3>4, <5>1
      <4>. QED  BY <2>0, <3>1, <3>2, <4>1, <4>2 DEF Turned, Of, Past, At
    <3>. QED  BY <1>0, <2>0, <2>1, <3>3, <3>4 DEF Check
  <2>2. CASE Serve(c)
    <3>1. At(c, "run") /\ effects[m] = 0 /\ UNCHANGED cache
      BY <1>0, <1>3, <2>2 DEF Serve
    <3>2. \A d \in Calls \ {c} : Of(d, m) => ~Past(d)
      BY <1>0, <1>3, <3>1 DEF Past, At
    <3>3. Turned(c, "done") /\ (effects'[m] = 0 \/ calls'[c].code = "ok")
      <4>1. \A code \in Codes : Answers(c, code) => Turned(c, "done") /\ calls'[c].code = code
        BY AnswersTurns
      <4>2. {"ok", "denied", "error"} \subseteq Codes
        BY DEF Codes
      <4>. QED  BY <1>0, <2>0, <2>2, <3>1, <4>1, <4>2 DEF Serve
    <3>. QED  BY <2>0, <3>1, <3>2, <3>3 DEF Turned, Of, Past, At
  <2>3. CASE Answer(c)
    <3>1. /\ At(c, "done") /\ UNCHANGED effects
          /\ calls' = [calls EXCEPT ![c] = Free]
      BY <2>3 DEF Answer
    <3>2. calls'[c].msg = None /\ \A d \in Calls \ {c} : calls'[d] = calls[d]
      BY <3>1 DEF Free, TypeOK
    <3>3. \A d \in Calls \ {c} : Of(d, m) => ~Past(d)
      BY <1>0, <1>3, <3>1 DEF Past, At
    <3>4. effects[m] > 0 => cache'[m] # "none"
      <4>1. effects[m] > 0 => Cached(m) \/ calls[c].code = "ok"
        BY <1>0, <3>3 DEF Past, At
      <4>2. cache'[m] = Kept(c) \/ (UNCHANGED cache /\ calls[c].code # "ok")
        BY <1>0, <2>0, <2>3 DEF Answer, TypeOK
      <4>. QED  BY <2>0, <4>1, <4>2 DEF Kept, Cached
    <3>. QED  BY <1>0, <3>1, <3>2, <3>3, <3>4 DEF Of, Past, At, Cached
  <2>4. CASE CrashCall(c)
    <3>1. /\ At(c, "arrived") /\ UNCHANGED <<effects, cache>>
          /\ calls' = [calls EXCEPT ![c] = Free]
      BY <1>0, <2>0, <2>4 DEF CrashCall, Past, At
    <3>2. calls'[c].msg = None /\ \A d \in Calls \ {c} : calls'[d] = calls[d]
      BY <3>1 DEF Free, TypeOK
    <3>. QED  BY <1>0, <3>1, <3>2 DEF Of, Past, At, Cached
  <2>5. ~CreateThread(c) /\ ~LookUp(c) /\ ~RecordEvent(c) /\ ~Queue(c)
    BY <1>0, <2>0 DEF CreateThread, LookUp, RecordEvent, Queue, CallsFit, At
  <2>. QED  BY <1>3, <2>1, <2>2, <2>3, <2>4, <2>5 DEF Step
<1>4. ASSUME UNCHANGED calls, ~\E c \in Calls : Step(c)
      PROVE  Alone(m)' /\ Runs(m)' /\ Kept2(m)'
  <2>1. effects'[m] = effects[m] /\ cache' = cache
    <3>1. ASSUME NEW n \in Hooks, Task(n) PROVE effects'[m] = effects[m] /\ cache' = cache
      BY <1>0, <3>1, ActsTypes
      DEF Task, Discard, Load, Skip, Handle, MarkProcessed, Abandon, Redeliver, Messages
    <3>. QED
      BY <1>4, <3>1 DEF Next, vars, Post, Lose, Refresh, Expire, Search, NextMail, Restart, Fetch
  <2>. QED  BY <1>0, <1>4, <2>1 DEF Of, Past, At, Cached
<1>. QED  BY <1>1, <1>2, <1>3, <1>4, CallsChange

-----------------------------------------------------------------------------
(* Events.                                                                 *)

LEMMA HooksStep == TypeOK /\ CallsFit /\ HooksFit /\ [Next]_vars => HooksFit'
<1> DEFINE Recorded(c, m) == Of(c, m) /\ At(c, "recorded")
           New(m)   == event[m] = "none" => job[m] = "none" /\ effects[m] = 0
           Held(m)  == \A c \in Calls : Recorded(c, m) =>
                         /\ event[m] = "pending" /\ job[m] = "none" /\ effects[m] = 0
                         /\ \A d \in Calls : Recorded(d, m) => c = d
           Ran(m)   == /\ Already(m) \/ job[m] = "acted" => effects[m] > 0
                       /\ job[m] = "loaded" => ~Already(m)
                       /\ job[m] \in {"queued", "loaded"} =>
                            effects[m] = 0 \/ m \in excused \/ Already(m)
           Fit(m)   == New(m) /\ Held(m) /\ Ran(m)
           Row(m)   == <<effects[m], event[m], job[m]>>
<1> SUFFICES ASSUME TypeOK, CallsFit, HooksFit, [Next]_vars, NEW m \in Hooks
             PROVE  Fit(m)'
  BY DEF HooksFit
<1> USE DEF sender, hook, mailbox
<1>0. /\ Fit(m)
      /\ m \in Messages /\ m \notin Clicks /\ m \notin Mails /\ m # None
      /\ effects[m] \in Nat
      /\ m \in excused => m \in excused'
  BY ExcusedGrows DEF HooksFit, Messages, TypeOK
<1>1. ASSUME \A c \in Calls : Recorded(c, m)' <=> Recorded(c, m), Row(m)' = Row(m)
      PROVE  Fit(m)'
  BY <1>0, <1>1 DEF Already
<1>2. ASSUME NEW n \in Messages, NEW c \in Calls, Post(n, c) PROVE Fit(m)'
  <2>1. /\ calls'[c].at = "arrived" /\ calls[c].at = "free"
        /\ \A d \in Calls \ {c} : calls'[d] = calls[d]
        /\ UNCHANGED <<effects, event, job>>
    BY <1>2 DEF Post, TypeOK
  <2>. QED  BY <1>1, <2>1 DEF Of, At
<1>3. ASSUME NEW c \in Calls, Step(c), ~Of(c, m) PROVE Fit(m)'
  <2>1. calls'[c].msg # m /\ \A d \in Calls \ {c} : calls'[d] = calls[d]
    BY <1>0, <1>3, StepTurns DEF Turned, Of, Free, TypeOK
  <2>2. calls[c].msg \in Messages /\ calls[c].msg # m
    BY <1>3, StepTurns DEF Of
  <2>3. effects'[m] = effects[m]
    BY <1>0, <1>3, <2>2, ActsTypes
    DEF Step, Check, Serve, CreateThread, LookUp, RecordEvent, Queue, Answer, CrashCall
  <2>4. event'[m] = event[m] /\ job'[m] = job[m]
    BY <1>0, <1>3, <2>2
    DEF Step, Check, Serve, CreateThread, LookUp, RecordEvent, Queue, Answer, CrashCall, TypeOK
  <2>5. \A d \in Calls : Recorded(d, m)' <=> Recorded(d, m)
    BY <2>1, <2>2 DEF Of, At
  <2>. QED  BY <1>1, <2>3, <2>4, <2>5
<1>4. ASSUME NEW c \in Calls, Step(c), Of(c, m) PROVE Fit(m)'
  <2>0. calls[c].msg = m
    BY <1>4 DEF Of
  <2>1. CASE (Check(c) \/ LookUp(c) \/ Answer(c) \/ CrashCall(c)) /\ ~At(c, "recorded")
    <3>1. UNCHANGED <<effects, event, job>>
      BY <2>1 DEF Check, LookUp, Answer, CrashCall
    <3>2. calls'[c].at # "recorded" /\ \A d \in Calls \ {c} : calls'[d] = calls[d]
      <4>1. \/ Turned(c, "run") \/ Turned(c, "done") \/ Turned(c, "looked")
            \/ calls' = [calls EXCEPT ![c] = Free]
        <5>1. CASE LookUp(c)
          BY <5>1, MovesTurns, AnswersTurns DEF LookUp, Codes
        <5>2. CASE Check(c)
          <6>1. \A code \in Codes : Answers(c, code) => Turned(c, "done")
            BY AnswersTurns
          <6>2. Cached(m) => cache[m] \in Codes
            BY <1>0 DEF Cached, Codes, TypeOK
          <6>. QED  BY <2>0, <5>2, <6>1, <6>2, MovesTurns DEF Check, Codes
        <5>. QED  BY <2>1, <5>1, <5>2 DEF Answer, CrashCall
      <4>. QED  BY <4>1 DEF Turned, Free, TypeOK
    <3>. QED  BY <1>1, <2>1, <3>1, <3>2 DEF Of, At
  <2>2. CASE CrashCall(c) /\ At(c, "recorded")
    <3>1. /\ UNCHANGED <<effects, event, job>>
          /\ calls' = [calls EXCEPT ![c] = Free]
      BY <2>2 DEF CrashCall
    <3>2. calls'[c].at = "free" /\ \A d \in Calls \ {c} : calls'[d] = calls[d]
      BY <3>1 DEF Free, TypeOK
    <3>. QED  BY <1>0, <3>1, <3>2 DEF Of, At, Already
  <2>3. CASE RecordEvent(c)
    <3>1. At(c, "looked") /\ UNCHANGED <<effects, job>>
      BY <2>3 DEF RecordEvent
    <3>2. CASE Answers(c, "error") /\ UNCHANGED event
      <4>1. Turned(c, "done")
        BY <3>2, AnswersTurns DEF Codes
      <4>. QED  BY <1>1, <3>1, <3>2, <4>1 DEF Turned, Of, At
    <3>3. CASE event[m] = "none" /\ Moves(c, "recorded") /\ event' = [event EXCEPT ![m] = "pending"]
      <4>1. Turned(c, "recorded")
        BY <3>3, MovesTurns
      <4>2. event'[m] = "pending" /\ \A d \in Calls : ~Recorded(d, m)
        BY <1>0, <3>3 DEF TypeOK
      <4>3. \A d \in Calls : Recorded(d, m)' => d = c
        BY <4>1, <4>2 DEF Turned, Of, At
      <4>. QED  BY <1>0, <3>1, <3>3, <4>2, <4>3 DEF Already
    <3>4. CASE event[m] = "none" /\ Answers(c, "ok") /\ event' = [event EXCEPT ![m] = "skipped"]
      <4>1. Turned(c, "done")
        BY <3>4, AnswersTurns DEF Codes
      <4>2. event'[m] = "skipped" /\ \A d \in Calls : ~Recorded(d, m)
        BY <1>0, <3>4 DEF TypeOK
      <4>3. \A d \in Calls : ~Recorded(d, m)'
        BY <4>1, <4>2 DEF Turned, Of, At
      <4>. QED  BY <1>0, <3>1, <3>4, <4>2, <4>3 DEF Already
    <3>. QED  BY <2>0, <2>3, <3>2, <3>3, <3>4 DEF RecordEvent
  <2>4. CASE Queue(c)
    <3>1. At(c, "recorded") /\ UNCHANGED <<effects, event>> /\ Turned(c, "done")
      BY <2>4, AnswersTurns DEF Queue, Codes
    <3>2. event[m] = "pending" /\ job[m] = "none" /\ effects[m] = 0
      BY <1>0, <1>4, <3>1
    <3>3. \A d \in Calls : ~Recorded(d, m)'
      BY <1>0, <1>4, <3>1 DEF Turned, Of, At
    <3>4. job'[m] \in {"none", "queued"}
      BY <2>0, <2>4, <3>2 DEF Queue, TypeOK
    <3>. QED  BY <3>1, <3>2, <3>3, <3>4 DEF Already
  <2>5. ~Serve(c) /\ ~CreateThread(c)
    BY <1>0, <2>0 DEF Serve, CreateThread
  <2>6. At(c, "recorded") => ~Check(c) /\ ~LookUp(c) /\ ~Answer(c)
    BY DEF Check, LookUp, Answer, At
  <2>. QED  BY <1>4, <2>1, <2>2, <2>3, <2>4, <2>5, <2>6 DEF Step
<1>5. ASSUME NEW n \in Hooks, Task(n) PROVE Fit(m)'
  <2>0. UNCHANGED calls
    BY <1>5 DEF Task, Discard, Load, Skip, Handle, MarkProcessed, Abandon, Redeliver
  <2>1. CASE n # m
    <3>1. Row(m)' = Row(m)
      BY <1>0, <1>5, <2>1, ActsTypes
      DEF Task, Discard, Load, Skip, Handle, MarkProcessed, Abandon, Redeliver, Ends, Messages, TypeOK
    <3>. QED  BY <1>1, <2>0, <3>1 DEF Of, At
  <2>2. CASE n = m
    <3>1. job[m] # "none" /\ event[m] # "none" /\ \A c \in Calls : ~Recorded(c, m)'
      <4>1. job[m] # "none"
        BY <1>5, <2>2
        DEF Task, Discard, Load, Skip, Handle, MarkProcessed, Abandon, Redeliver
      <4>. QED  BY <1>0, <2>0, <4>1 DEF Of, At
    <3>2. CASE Handle(m)
      <4>1. event'[m] = event[m] /\ job'[m] = "acted" /\ effects'[m] > 0
        BY <1>0, <3>2, ActsTypes DEF Handle, TypeOK
      <4>. QED  BY <3>1, <4>1
    <3>3. CASE Discard(m) \/ Load(m)
      <4>1. /\ event'[m] = event[m] /\ effects' = effects /\ job[m] = "queued"
            /\ job'[m] = "none" \/ (job'[m] = "loaded" /\ ~Already(m))
        BY <3>3 DEF Discard, Load, TypeOK
      <4>. QED  BY <1>0, <3>1, <4>1 DEF Already
    <3>4. CASE Skip(m)
      <4>1. /\ event'[m] = "skipped" /\ effects' = effects /\ job[m] = "loaded"
            /\ job'[m] \in {"none", "queued"}
        BY <3>4 DEF Skip, Ends, TypeOK
      <4>. QED  BY <1>0, <3>1, <4>1 DEF Already
    <3>5. CASE MarkProcessed(m)
      <4>1. /\ event'[m] = "processed" /\ effects' = effects /\ job[m] = "acted"
            /\ job'[m] \in {"none", "queued"}
        BY <3>5 DEF MarkProcessed, Ends, TypeOK
      <4>. QED  BY <1>0, <3>1, <4>1 DEF Already
    <3>6. CASE Abandon(m)
      <4>1. event'[m] = "pending" /\ effects' = effects /\ job'[m] = "none"
        BY <3>6 DEF Abandon, TypeOK
      <4>. QED  BY <1>0, <3>1, <4>1 DEF Already
    <3>7. CASE Redeliver(m)
      <4>1. /\ event' = event /\ effects' = effects /\ job'[m] = "queued"
            /\ job[m] = "loaded" \/ m \in excused'
        BY <3>7 DEF Redeliver, TypeOK
      <4>. QED  BY <1>0, <3>1, <4>1 DEF Already
    <3>. QED  BY <1>5, <2>2, <3>2, <3>3, <3>4, <3>5, <3>6, <3>7 DEF Task
  <2>. QED  BY <2>1, <2>2
<1>6. ASSUME UNCHANGED <<calls, effects, event, job>> PROVE Fit(m)'
  BY <1>1, <1>6 DEF Of, At
<1>. QED
  BY <1>2, <1>3, <1>4, <1>5, <1>6
  DEF Next, vars, Lose, Refresh, Expire, Search, NextMail, Restart, Fetch

-----------------------------------------------------------------------------
(* Mails.                                                                  *)

LEMMA FlagsStep ==
  TypeOK /\ MailsFit /\ [Next]_vars =>
    /\ scan' \cap seen' = {} /\ (reading' # None => reading' \in seen')
    /\ seen \subseteq seen'
<1> SUFFICES ASSUME TypeOK, MailsFit, [Next]_vars
             PROVE  /\ scan' \cap seen' = {} /\ (reading' # None => reading' \in seen')
                    /\ seen \subseteq seen'
  OBVIOUS
<1> USE DEF sender, hook, mailbox
<1>0. scan \cap seen = {} /\ (reading # None => reading \in seen)
  BY DEF MailsFit
<1>1. ASSUME NEW c \in Calls, Step(c) PROVE UNCHANGED mailbox
  BY <1>1 DEF Step, Check, Serve, CreateThread, LookUp, RecordEvent, Queue, Answer, CrashCall
<1>2. ASSUME NEW m \in Hooks, Task(m) PROVE UNCHANGED mailbox
  BY <1>2 DEF Task, Discard, Load, Skip, Handle, MarkProcessed, Abandon, Redeliver
<1>3. CASE Search \/ NextMail \/ Restart
  BY <1>0, <1>3 DEF Search, NextMail, Restart
<1>4. ASSUME NEW m \in Mails, Fetch(m)
      PROVE  /\ scan' \cap seen' = {} /\ (reading' # None => reading' \in seen')
             /\ seen \subseteq seen'
  BY <1>0, <1>4 DEF Fetch, Flagged
<1>5. CASE UNCHANGED mailbox
  BY <1>0, <1>5
<1>. QED  BY <1>1, <1>2, <1>3, <1>4, <1>5 DEF Next, vars, Post, Lose, Refresh, Expire

LEMMA MailsStep == TypeOK /\ CallsFit /\ MailsFit /\ [Next]_vars => MailsFit'
<1> DEFINE Untouched(m) == effects[m] = 0 /\ \A c \in Calls : ~Of(c, m)
           Early(m) == \A c \in Calls : Of(c, m) /\ calls[c].at \in {"arrived", "run"} => effects[m] = 0
           One(m)   == \A c, d \in Calls : Of(c, m) /\ Of(d, m) => c = d
           Fit(m)   == (Fresh(m) => Untouched(m)) /\ Early(m) /\ One(m)
<1> SUFFICES ASSUME TypeOK, CallsFit, MailsFit, [Next]_vars, NEW m \in Mails
             PROVE  Fit(m)'
  BY FlagsStep DEF MailsFit
<1> USE DEF sender, hook, mailbox
<1>0. /\ Fit(m)
      /\ m \in Messages /\ m \notin Clicks /\ m \notin Hooks /\ m # None
      /\ seen \subseteq seen' /\ (reading = m => m \in seen)
  BY FlagsStep DEF MailsFit, Messages
<1>1. ASSUME \A c \in Calls : (Of(c, m) \/ Of(c, m)') => calls'[c] = calls[c],
             effects'[m] = effects[m], Fresh(m)' => Fresh(m)
      PROVE  Fit(m)'
  BY <1>0, <1>1 DEF Of
<1>2. ASSUME NEW n \in Messages, NEW c \in Calls, Post(n, c) PROVE Fit(m)'
  <2>1. /\ calls'[c].msg = n /\ calls[c].msg = None
        /\ \A d \in Calls \ {c} : calls'[d] = calls[d]
        /\ st' = [st EXCEPT ![n] = "sent"]
        /\ UNCHANGED <<effects, seen, reading>>
    BY <1>2 DEF Post, TypeOK, CallsFit, At
  <2>2. CASE n # m
    <3>1. Fresh(m)' => Fresh(m)
      BY <1>0, <2>1, <2>2 DEF Fresh, TypeOK
    <3>. QED  BY <1>0, <1>1, <2>1, <2>2, <3>1 DEF Of
  <2>3. CASE n = m
    <3>1. reading = m /\ st[m] = "new"
      BY <1>0, <1>2, <2>3 DEF Post, MaySend
    <3>2. Untouched(m) /\ ~Fresh(m)'
      BY <1>0, <2>1, <2>3, <3>1 DEF Fresh, TypeOK
    <3>. QED  BY <2>1, <2>3, <3>2 DEF Of
  <2>. QED  BY <2>2, <2>3
<1>3. ASSUME NEW c \in Calls, Step(c) PROVE Fit(m)'
  <2>0. calls[c].msg \in Messages /\ \A d \in Calls \ {c} : calls'[d] = calls[d]
    BY <1>3, StepTurns DEF Turned, TypeOK
  <2>1. UNCHANGED <<seen, reading>>
    BY <1>3 DEF Step, Check, Serve, CreateThread, LookUp, RecordEvent, Queue, Answer, CrashCall
  <2>2. Fresh(m)' => Fresh(m)
    <3>1. st'[m] = st[m] \/ st'[m] # "new"
      <4>1. CASE UNCHANGED st
        BY <4>1
      <4>2. CASE Answer(c)
        BY <1>0, <2>0, <4>2, ToldTypes DEF Answer, TypeOK
      <4>3. CASE CrashCall(c)
        BY <1>0, <2>0, <4>3 DEF CrashCall, TypeOK
      <4>. QED
        BY <1>3, <4>1, <4>2, <4>3 DEF Step, Check, Serve, CreateThread, LookUp, RecordEvent, Queue
    <3>. QED  BY <2>1, <3>1 DEF Fresh
  <2>3. CASE ~Of(c, m)
    <3>1. calls'[c].msg # m
      BY <1>0, <1>3, <2>3, StepTurns DEF Turned, Of, Free, TypeOK
    <3>2. effects'[m] = effects[m]
      BY <1>0, <1>3, <2>0, <2>3, ActsTypes
      DEF Of, Step, Check, Serve, CreateThread, LookUp, RecordEvent, Queue, Answer, CrashCall
    <3>. QED  BY <1>1, <2>0, <2>2, <2>3, <3>1, <3>2 DEF Of
  <2>4. CASE Of(c, m)
    <3>0. calls[c].msg = m /\ ~Fresh(m) /\ \A d \in Calls \ {c} : ~Of(d, m) /\ ~Of(d, m)'
      BY <1>0, <2>0, <2>4 DEF Of
    <3>1. CASE Check(c)
      <4>1. effects[m] = 0 /\ effects' = effects
        BY <1>0, <2>4, <3>1 DEF Check, At
      <4>. QED  BY <2>2, <3>0, <4>1
    <3>2. CASE CreateThread(c)
      <4>1. Turned(c, "done")
        BY <3>2, AnswersTurns DEF CreateThread, Codes
      <4>. QED  BY <2>2, <3>0, <4>1 DEF Turned
    <3>3. CASE Answer(c) \/ CrashCall(c)
      <4>1. calls'[c].at = "free" /\ calls'[c].msg = None
        BY <3>3 DEF Answer, CrashCall, Free, TypeOK
      <4>. QED  BY <1>0, <2>2, <3>0, <4>1 DEF Of
    <3>4. ~Serve(c) /\ ~LookUp(c) /\ ~RecordEvent(c) /\ ~Queue(c)
      BY <1>0, <3>0 DEF Serve, LookUp, RecordEvent, Queue, CallsFit, At
    <3>. QED  BY <1>3, <3>1, <3>2, <3>3, <3>4 DEF Step
  <2>. QED  BY <2>3, <2>4
<1>4. ASSUME NEW n \in Hooks, Task(n) PROVE Fit(m)'
  <2>1. effects'[m] = effects[m] /\ UNCHANGED <<calls, seen, reading, st>>
    BY <1>0, <1>4, ActsTypes
    DEF Task, Discard, Load, Skip, Handle, MarkProcessed, Abandon, Redeliver, Messages
  <2>. QED  BY <1>1, <2>1 DEF Fresh
<1>5. ASSUME NEW n \in Mails, Fetch(n) PROVE Fit(m)'
  <2>0. UNCHANGED <<calls, effects>> /\ n \notin seen /\ reading = None
    BY <1>5 DEF Fetch, MailsFit
  <2>1. CASE n = m
    BY <1>0, <2>0, <2>1 DEF Fresh, Of
  <2>2. CASE n # m
    <3>1. st'[m] = st[m] /\ reading' # m
      BY <1>0, <1>5, <2>0, <2>2 DEF Fetch, TypeOK
    <3>. QED  BY <1>0, <1>1, <2>0, <3>1 DEF Fresh
  <2>. QED  BY <2>1, <2>2
<1>6. ASSUME Search \/ NextMail \/ Restart PROVE Fit(m)'
  <2>1. UNCHANGED <<calls, effects>> /\ ((reading' = reading /\ st' = st) \/ reading' # m)
    BY <1>0, <1>6 DEF Search, NextMail, Restart
  <2>. QED  BY <1>0, <1>1, <2>1 DEF Fresh
<1>7. ASSUME (\E n \in Messages : Lose(n)) \/ Refresh \/ Expire PROVE Fit(m)'
  <2>1. UNCHANGED <<calls, effects, seen, reading>> /\ (st'[m] = st[m] \/ st'[m] # "new")
    BY <1>0, <1>7 DEF Lose, Refresh, Expire, Waiting, TypeOK
  <2>. QED  BY <1>1, <2>1 DEF Fresh
<1>8. ASSUME UNCHANGED vars PROVE Fit(m)'
  BY <1>1, <1>8 DEF vars, Fresh
<1>. QED  BY <1>2, <1>3, <1>4, <1>5, <1>6, <1>7, <1>8 DEF Next

-----------------------------------------------------------------------------
(* The refinement.                                                         *)

Recorded(c, m) == Of(c, m) /\ At(c, "recorded")

\* Open depends on the tasks and on the calls that have recorded an event.
LEMMA OpenIs == Open = {m \in Hooks : job[m] # "none" \/ \E c \in Calls : Recorded(c, m)}
BY DEF Open, Recorded, Of

LEMMA OpenKept ==
  ASSUME \A m \in Hooks, c \in Calls : Recorded(c, m)' <=> Recorded(c, m), UNCHANGED job
  PROVE  Open' = Open
BY OpenIs DEF Recorded, Of, At, Open

LEMMA SettledKept == UNCHANGED <<effects, event>> => Settled' = Settled
BY DEF Settled

LEMMA SettledActs ==
  ASSUME TypeOK, NEW m \in Messages, Acts(m), UNCHANGED event
  PROVE  Settled' = Settled \cup {m}
<1>1. /\ effects'[m] > 0 /\ \A n \in Messages \ {m} : effects'[n] = effects[n]
  BY ActsTypes DEF TypeOK
<1>. QED  BY <1>1 DEF Settled

\* A call that has recorded nothing and is not about to leaves Open as it is.
LEMMA OpenTurns ==
  ASSUME TypeOK, NEW c \in Calls, ~At(c, "recorded"), UNCHANGED job,
         \/ Turned(c, "run") \/ Turned(c, "done") \/ Turned(c, "looked")
         \/ calls' = [calls EXCEPT ![c] = Free]
  PROVE  Open' = Open
<1>1. calls'[c].at # "recorded" /\ \A d \in Calls \ {c} : calls'[d] = calls[d]
  BY DEF Turned, Free, TypeOK
<1>2. \A m \in Hooks, d \in Calls : Recorded(d, m)' <=> Recorded(d, m)
  BY <1>1 DEF Recorded, Of, At
<1>. QED  BY <1>2, OpenKept

Allowed == [I!Next]_I!vars

LEMMA Stutters == UNCHANGED <<effects, excused>> /\ Open' = Open /\ Settled' = Settled => Allowed
BY DEF Allowed, I!vars

LEMMA Acted ==
  ASSUME NEW m \in Messages, effects[m] = 0 \/ m \in excused \cap (Clicks \cup Hooks),
         Acts(m), Open' = Open, Settled' = Settled \cup {m},
         excused' = excused \/ excused' = excused \cup {m}
  PROVE  Allowed
<1>1. I!CarryOut(m)
  BY DEF I!CarryOut, Acts
<1>. QED  BY <1>1 DEF Allowed, I!Next

LEMMA Faulted ==
  ASSUME NEW m \in Messages, excused' = excused \cup {m}, UNCHANGED effects,
         Open' = Open \/ Open' = Open \ {m},
         Settled' = Settled \/ (effects[m] = 0 /\ Settled' = Settled \ {m})
  PROVE  Allowed
<1>1. I!Fault(m)
  BY DEF I!Fault
<1>. QED  BY <1>1 DEF Allowed, I!Next

LEMMA CallRefines ==
  ASSUME IInv, NEW c \in Calls, Step(c)
  PROVE  Allowed
<1> USE DEF sender, hook, mailbox
<1> DEFINE m == calls[c].msg
<1>0. m \in Messages /\ TypeOK /\ CallsFit /\ ClicksFit /\ HooksFit /\ MailsFit
  BY StepTurns DEF IInv
<1>. HIDE DEF m
<1>1. CASE Check(c)
  <2>1. Turned(c, "run") \/ Turned(c, "done")
    <3>1. Cached(m) => cache[m] \in Codes
      BY <1>0 DEF Cached, Codes, TypeOK
    <3>2. \A code \in Codes : Answers(c, code) => Turned(c, "done")
      BY <1>0, AnswersTurns
    <3>. QED  BY <1>0, <1>1, <3>1, <3>2, MovesTurns DEF Check, Codes, m
  <2>2. Open' = Open /\ Settled' = Settled
    BY <1>0, <1>1, <2>1, OpenTurns, SettledKept DEF Check, At
  <2>3. UNCHANGED effects /\ (excused' = excused \/ excused' = excused \cup {m})
    BY <1>1 DEF Check, m
  <2>. QED  BY <1>0, <2>2, <2>3, Stutters, Faulted
<1>2. CASE Serve(c)
  <2>1. At(c, "run") /\ m \in Clicks /\ UNCHANGED <<event, job>>
    BY <1>2 DEF Serve, m
  <2>2. effects[m] = 0 \/ m \in excused \cap (Clicks \cup Hooks)
    BY <1>0, <2>1 DEF ClicksFit, Of, m
  <2>3. Open' = Open
    <3>1. Turned(c, "done")
      BY <1>0, <1>2, AnswersTurns DEF Serve, Codes
    <3>. QED  BY <1>0, <2>1, <3>1, OpenTurns DEF At
  <2>4. \/ UNCHANGED <<effects, excused>>
        \/ Acts(m) /\ (excused' = excused \/ excused' = excused \cup {m})
    BY <1>2 DEF Serve, m
  <2>. QED  BY <1>0, <2>1, <2>2, <2>3, <2>4, Stutters, Acted, SettledKept, SettledActs
<1>3. CASE CreateThread(c)
  <2>1. At(c, "run") /\ m \in Mails /\ UNCHANGED <<event, job, excused>>
    BY <1>3 DEF CreateThread, m
  <2>2. effects[m] = 0
    BY <1>0, <2>1 DEF MailsFit, Of, At, m
  <2>3. Open' = Open
    <3>1. Turned(c, "done")
      BY <1>0, <1>3, AnswersTurns DEF CreateThread, Codes
    <3>. QED  BY <1>0, <2>1, <3>1, OpenTurns DEF At
  <2>4. UNCHANGED effects \/ Acts(m)
    BY <1>3 DEF CreateThread, m
  <2>. QED  BY <1>0, <2>1, <2>2, <2>3, <2>4, Stutters, Acted, SettledKept, SettledActs
<1>4. CASE LookUp(c)
  <2>1. Turned(c, "done") \/ Turned(c, "looked")
    BY <1>0, <1>4, AnswersTurns, MovesTurns DEF LookUp, Codes
  <2>2. Open' = Open /\ Settled' = Settled /\ UNCHANGED <<effects, excused>>
    BY <1>0, <1>4, <2>1, OpenTurns, SettledKept DEF LookUp, At
  <2>. QED  BY <2>2, Stutters
<1>5. CASE RecordEvent(c)
  <2>1. At(c, "looked") /\ m \in Hooks /\ UNCHANGED <<effects, job, excused>>
    BY <1>0, <1>5 DEF RecordEvent, CallsFit, At, m
  <2>2. event[m] = "none" => m \notin Open
    BY <1>0, <2>1, OpenIs DEF HooksFit, Recorded
  <2>3. CASE Answers(c, "error") /\ UNCHANGED event
    <3>1. Open' = Open /\ Settled' = Settled
      BY <1>0, <2>1, <2>3, AnswersTurns, OpenTurns, SettledKept DEF Codes, At
    <3>. QED  BY <2>1, <3>1, Stutters
  <2>4. CASE event[m] = "none" /\ Moves(c, "recorded") /\ event' = [event EXCEPT ![m] = "pending"]
    <3>1. Turned(c, "recorded")
      BY <1>0, <2>4, MovesTurns
    <3>2. \A n \in Hooks, d \in Calls : Recorded(d, n)' <=> Recorded(d, n) \/ (d = c /\ n = m)
      BY <2>1, <3>1 DEF Recorded, Of, At, Turned, m
    <3>3. Open' = Open \cup {m}
      BY <2>1, <3>2 DEF Open, Recorded, Of, At
    <3>4. Settled' = Settled
      BY <1>0, <2>1, <2>4 DEF Settled, TypeOK
    <3>5. I!Accept(m)
      BY <2>1, <2>2, <2>4, <3>3, <3>4 DEF I!Accept
    <3>. QED  BY <1>0, <3>5 DEF Allowed, I!Next
  <2>5. CASE event[m] = "none" /\ Answers(c, "ok") /\ event' = [event EXCEPT ![m] = "skipped"]
    <3>1. Open' = Open
      BY <1>0, <2>1, <2>5, AnswersTurns, OpenTurns DEF Codes, At
    <3>2. Settled' = Settled \cup {m}
      BY <1>0, <2>1, <2>5 DEF Settled, TypeOK
    <3>3. I!Dismiss(m)
      BY <2>1, <3>1, <3>2 DEF I!Dismiss
    <3>. QED  BY <1>0, <3>3 DEF Allowed, I!Next
  <2>. QED  BY <1>5, <2>3, <2>4, <2>5 DEF RecordEvent, m
<1>6. CASE Queue(c)
  <2>1. At(c, "recorded") /\ UNCHANGED <<effects, event>>
    BY <1>6 DEF Queue
  <2>2. m \in Hooks
    BY <1>0, <2>1 DEF CallsFit, At, m
  <2>3. Turned(c, "done")
    BY <1>0, <1>6, AnswersTurns DEF Queue, Codes
  <2>4. \A n \in Hooks, d \in Calls : Recorded(d, n)' <=> Recorded(d, n) /\ ~(d = c)
    BY <2>3 DEF Recorded, Of, At, Turned
  <2>5. \A d \in Calls : Recorded(d, m) => d = c
    BY <1>0, <2>1, <2>2 DEF HooksFit, Recorded, Of, m
  <2>6. \A n \in Hooks : Recorded(c, n) => n = m
    BY DEF Recorded, Of, m
  <2>7. CASE job' = [job EXCEPT ![m] = "queued"] /\ UNCHANGED excused
    <3>1. job'[m] = "queued" /\ \A n \in Hooks \ {m} : job'[n] = job[n]
      BY <1>0, <2>2, <2>7 DEF TypeOK
    <3>2. m \in Open /\ m \in Open'
      BY <2>1, <2>2, <3>1 DEF Open, m
    <3>3. \A n \in Hooks \ {m} : n \in Open' <=> n \in Open
      BY <2>4, <2>6, <3>1 DEF Open, Recorded, Of, At
    <3>4. Open' = Open
      BY <3>2, <3>3 DEF Open
    <3>. QED  BY <2>1, <2>7, <3>4, Stutters, SettledKept
  <2>8. CASE UNCHANGED job /\ excused' = excused \cup {m}
    <3>1. Open' = Open \/ Open' = Open \ {m}
      <4>1. \A n \in Hooks \ {m} : n \in Open' <=> n \in Open
        BY <2>4, <2>6, <2>8 DEF Open, Recorded, Of, At
      <4>2. m \in Open
        BY <2>1, <2>2 DEF Open, m
      <4>. QED  BY <4>1, <4>2 DEF Open
    <3>. QED  BY <1>0, <2>1, <2>8, <3>1, Faulted, SettledKept
  <2>. QED  BY <1>6, <2>7, <2>8 DEF Queue, m
<1>7. CASE Answer(c)
  <2>1. Open' = Open /\ Settled' = Settled /\ UNCHANGED effects
    BY <1>0, <1>7, OpenTurns, SettledKept DEF Answer, At
  <2>2. excused' = excused \/ excused' = excused \cup {m}
    BY <1>7 DEF Answer, m
  <2>. QED  BY <1>0, <2>1, <2>2, Stutters, Faulted
<1>8. CASE CrashCall(c)
  <2>1. /\ UNCHANGED <<effects, event, job>> /\ calls' = [calls EXCEPT ![c] = Free]
        /\ excused' = excused \/ excused' = excused \cup {m}
        /\ At(c, "recorded") => excused' = excused \cup {m}
    BY <1>8 DEF CrashCall, m
  <2>2. CASE ~At(c, "recorded")
    BY <1>0, <2>1, <2>2, OpenTurns, SettledKept, Stutters, Faulted
  <2>3. CASE At(c, "recorded")
    <3>1. calls'[c].at = "free" /\ \A d \in Calls \ {c} : calls'[d] = calls[d]
      BY <1>0, <2>1 DEF Free, TypeOK
    <3>2. \A n \in Hooks \ {m} : n \in Open' <=> n \in Open
      BY <2>1, <3>1 DEF Open, At, m
    <3>3. Open' = Open \/ Open' = Open \ {m}
      <4>1. m \in Hooks
        BY <1>0, <2>3 DEF CallsFit, At, m
      <4>2. m \in Open
        BY <2>3, <4>1 DEF Open, m
      <4>. QED  BY <3>2, <4>2 DEF Open
    <3>. QED  BY <1>0, <2>1, <2>3, <3>3, Faulted, SettledKept
  <2>. QED  BY <2>2, <2>3
<1>. QED  BY <1>1, <1>2, <1>3, <1>4, <1>5, <1>6, <1>7, <1>8 DEF Step

LEMMA TaskRefines ==
  ASSUME IInv, NEW m \in Hooks, Task(m)
  PROVE  Allowed
<1> USE DEF sender, hook, mailbox
<1>0. m \in Messages /\ TypeOK /\ HooksFit
  BY DEF IInv, Messages
<1>1. job[m] # "none" /\ UNCHANGED calls
  BY DEF Task, Discard, Load, Skip, Handle, MarkProcessed, Abandon, Redeliver
<1>2. \A n \in Hooks \ {m} : job'[n] = job[n]
  BY <1>0 DEF Task, Discard, Load, Skip, Handle, MarkProcessed, Abandon, Redeliver, Ends, TypeOK
<1>3. Open' = IF job'[m] = "none" THEN Open \ {m} ELSE Open
  <2>1. m \in Open
    BY <1>1, OpenIs
  <2>2. \A c \in Calls : ~Recorded(c, m)
    BY <1>0, <1>1 DEF HooksFit, Recorded
  <2>3. m \in Open' <=> job'[m] # "none"
    BY <1>1, <2>2 DEF Open, Recorded, Of, At
  <2>4. \A n \in Hooks \ {m} : n \in Open' <=> n \in Open
    BY <1>1, <1>2 DEF Open, At
  <2>. QED  BY <2>1, <2>3, <2>4 DEF Open
<1>4. CASE Handle(m)
  <2>1. effects[m] = 0 \/ m \in excused \cap (Clicks \cup Hooks)
    BY <1>0, <1>4 DEF Handle, HooksFit
  <2>2. Open' = Open
    BY <1>0, <1>3, <1>4 DEF Handle, TypeOK
  <2>. QED  BY <1>0, <1>4, <2>1, <2>2, Acted, SettledActs DEF Handle
<1>5. CASE Discard(m)
  BY <1>0, <1>3, <1>5, Faulted, SettledKept DEF Discard
<1>6. CASE Load(m)
  <2>1. UNCHANGED <<effects, event, excused>> /\ Settled' = Settled
    BY <1>6, SettledKept DEF Load
  <2>2. CASE Already(m)
    <3>1. Open' = Open \ {m} /\ m \in Open
      BY <1>0, <1>1, <1>3, <1>6, <2>2, OpenIs DEF Load, TypeOK
    <3>2. m \in Settled
      BY <1>0, <2>2 DEF HooksFit, Settled
    <3>3. I!Close(m)
      BY <2>1, <3>1, <3>2 DEF I!Close
    <3>. QED  BY <1>0, <3>3 DEF Allowed, I!Next
  <2>3. CASE ~Already(m)
    <3>1. Open' = Open
      BY <1>0, <1>3, <1>6, <2>3 DEF Load, TypeOK
    <3>. QED  BY <2>1, <3>1, Stutters
  <2>. QED  BY <2>2, <2>3
<1>7. CASE Skip(m)
  <2>1. Settled' = Settled \cup {m} /\ UNCHANGED <<effects, excused>>
    BY <1>0, <1>7 DEF Skip, Settled, TypeOK
  <2>2. Open' \in {Open, Open \ {m}}
    BY <1>3
  <2>3. I!Dismiss(m)
    BY <2>1, <2>2 DEF I!Dismiss
  <2>. QED  BY <1>0, <2>3 DEF Allowed, I!Next
<1>8. CASE MarkProcessed(m)
  <2>1. effects[m] > 0 /\ m \in Open
    BY <1>0, <1>1, <1>8, OpenIs DEF MarkProcessed, HooksFit
  <2>2. Settled' = Settled /\ m \in Settled /\ UNCHANGED <<effects, excused>>
    BY <1>0, <1>8, <2>1 DEF MarkProcessed, Settled, TypeOK
  <2>3. CASE job'[m] = "none"
    <3>1. I!Close(m)
      BY <1>3, <2>1, <2>2, <2>3 DEF I!Close
    <3>. QED  BY <1>0, <3>1 DEF Allowed, I!Next
  <2>4. CASE job'[m] # "none"
    BY <1>3, <2>2, <2>4, Stutters
  <2>. QED  BY <2>3, <2>4
<1>9. CASE Abandon(m)
  <2>1. UNCHANGED effects /\ excused' = excused \cup {m}
    BY <1>9 DEF Abandon
  <2>2. Settled' = Settled \/ (effects[m] = 0 /\ Settled' = Settled \ {m})
    <3>1. event'[m] = "pending" /\ \A n \in Hooks \ {m} : event'[n] = event[n]
      BY <1>0, <1>9 DEF Abandon, TypeOK
    <3>2. \A n \in Messages \ {m} : n \in Settled' <=> n \in Settled
      BY <2>1, <3>1 DEF Settled
    <3>3. m \in Settled' <=> effects[m] > 0
      BY <1>0, <2>1, <3>1 DEF Settled
    <3>4. effects[m] > 0 => m \in Settled
      BY <1>0 DEF Settled
    <3>5. effects[m] > 0 \/ effects[m] = 0
      BY <1>0 DEF TypeOK
    <3>6. Settled \subseteq Messages /\ Settled' \subseteq Messages
      BY DEF Settled, Messages
    <3>. QED  BY <3>2, <3>3, <3>4, <3>5, <3>6
  <2>. QED  BY <1>0, <1>3, <2>1, <2>2, Faulted
<1>10. CASE Redeliver(m)
  <2>1. UNCHANGED effects /\ Settled' = Settled /\ (excused' = excused \/ excused' = excused \cup {m})
    BY <1>10, SettledKept DEF Redeliver
  <2>2. Open' = Open
    BY <1>0, <1>3, <1>10 DEF Redeliver, TypeOK
  <2>. QED  BY <1>0, <2>1, <2>2, Stutters, Faulted
<1>. QED  BY <1>4, <1>5, <1>6, <1>7, <1>8, <1>9, <1>10 DEF Task

LEMMA NextRefines == IInv /\ [Next]_vars => Allowed
<1> SUFFICES ASSUME IInv, [Next]_vars PROVE Allowed
  OBVIOUS
<1> USE DEF sender, hook, mailbox
<1>1. ASSUME NEW m \in Messages, NEW c \in Calls, Post(m, c) PROVE Allowed
  <2>1. /\ calls'[c].at = "arrived" /\ calls[c].at = "free"
        /\ \A d \in Calls \ {c} : calls'[d] = calls[d]
        /\ UNCHANGED <<effects, event, job, excused>>
    BY <1>1 DEF Post, IInv, TypeOK
  <2>2. \A n \in Hooks, d \in Calls : Recorded(d, n)' <=> Recorded(d, n)
    BY <2>1 DEF Recorded, Of, At
  <2>. QED  BY <2>1, <2>2, OpenKept, SettledKept, Stutters
<1>2. ASSUME UNCHANGED <<effects, calls, event, job, excused>> PROVE Allowed
  <2>1. \A n \in Hooks, d \in Calls : Recorded(d, n)' <=> Recorded(d, n)
    BY <1>2 DEF Recorded, Of, At
  <2>. QED  BY <1>2, <2>1, OpenKept, SettledKept, Stutters
<1>. QED
  BY <1>1, <1>2, CallRefines, TaskRefines
  DEF Next, vars, Lose, Refresh, Expire, Search, NextMail, Restart, Fetch

-----------------------------------------------------------------------------
(* What the sender is told.                                                *)

\* What is good stays good: Inbox closes a book only on what is settled.
LEMMA GoodStays == IInv /\ [Next]_vars => Good \subseteq Good'
<1> SUFFICES ASSUME IInv, [Next]_vars PROVE Good \subseteq Good'
  OBVIOUS
<1>1. Allowed
  BY NextRefines
<1>2. ASSUME NEW m \in Messages, I!Accept(m) \/ I!CarryOut(m) \/ I!Close(m) \/ I!Dismiss(m)
      PROVE  Good \subseteq Good'
  BY <1>2 DEF I!Accept, I!CarryOut, I!Close, I!Dismiss, Good
<1>3. ASSUME NEW m \in Messages, I!Fault(m) PROVE Good \subseteq Good'
  BY <1>3 DEF I!Fault, Good
<1>4. ASSUME UNCHANGED I!vars PROVE Good \subseteq Good'
  BY <1>4 DEF I!vars, Good
<1>. QED  BY <1>1, <1>2, <1>3, <1>4 DEF Allowed, I!Next

\* Only the call that moves may come to an "ok", and then on good grounds.
LEMMA CallTells ==
  ASSUME IInv, Truth, NEW c \in Calls, Step(c), At(c, "done")', calls'[c].code = "ok"
  PROVE  calls'[c].msg \in Good'
<1> USE DEF sender, hook, mailbox
<1> DEFINE m == calls[c].msg
<1>0. m \in Messages /\ TypeOK /\ CallsFit /\ (m \in Good => m \in Good')
  <2>1. [Next]_vars
    BY DEF Next
  <2>. QED  BY <2>1, StepTurns, GoodStays DEF IInv
<1>1. \A code \in Codes : Answers(c, code) => Turned(c, "done") /\ calls'[c].code = code
  BY <1>0, AnswersTurns
<1>2. {"ok", "denied", "keyless", "error"} \subseteq Codes
  BY DEF Codes
<1>3. \A s \in {"run", "looked", "recorded"} : ~Moves(c, s)
  BY <1>0, MovesTurns DEF Turned, At
<1>4. calls'[c].at # "free" /\ calls'[c].msg = m
  BY <1>0, StepTurns DEF At, Turned, Free, TypeOK
<1>5. Acts(m) /\ UNCHANGED event => m \in Good'
  BY <1>0, SettledActs DEF Good
<1>. SUFFICES m \in Good'
  BY <1>4
<1>6. CASE Check(c)
  <2>1. cache[m] = "ok"
    <3>1. Cached(m) => cache[m] \in Codes
      BY <1>0 DEF Cached, Codes, TypeOK
    <3>. QED  BY <1>1, <1>2, <1>3, <1>6, <3>1 DEF Check
  <2>. QED  BY <1>0, <2>1 DEF Truth
<1>7. CASE Serve(c)
  BY <1>1, <1>2, <1>5, <1>7 DEF Serve
<1>8. CASE CreateThread(c)
  <2>1. Acts(m)
    BY <1>1, <1>2, <1>8 DEF CreateThread
  <2>. QED  BY <1>5, <1>8, <2>1 DEF CreateThread
<1>9. CASE LookUp(c)
  <2>1. m \in Hooks /\ event[m] # "none"
    BY <1>3, <1>9 DEF LookUp
  <2>. QED  BY <1>0, <2>1 DEF Truth
<1>10. CASE RecordEvent(c)
  <2>1. m \in Hooks
    BY <1>0, <1>10 DEF RecordEvent, CallsFit, At
  <2>2. event' = [event EXCEPT ![m] = "skipped"]
    BY <1>1, <1>2, <1>3, <1>10 DEF RecordEvent
  <2>3. m \in Settled'
    BY <1>0, <2>1, <2>2 DEF Settled, TypeOK
  <2>. QED  BY <2>3 DEF Good
<1>11. CASE Queue(c)
  <2>1. m \in Hooks
    BY <1>0, <1>11 DEF Queue, CallsFit, At
  <2>2. job' = [job EXCEPT ![m] = "queued"]
    BY <1>1, <1>2, <1>11 DEF Queue
  <2>3. m \in Open'
    BY <1>0, <2>1, <2>2 DEF Open, TypeOK
  <2>. QED  BY <2>3 DEF Good
<1>12. ~Answer(c) /\ ~CrashCall(c)
  BY <1>0, <1>4 DEF Answer, CrashCall, Free, TypeOK
<1>. QED  BY <1>6, <1>7, <1>8, <1>9, <1>10, <1>11, <1>12 DEF Step

LEMMA TruthStep == IInv /\ Truth /\ [Next]_vars => Truth'
<1> SUFFICES ASSUME IInv, Truth, [Next]_vars PROVE Truth'
  OBVIOUS
<1> USE DEF sender, hook, mailbox
<1>0. TypeOK /\ CallsFit /\ HooksFit /\ Good \subseteq Good'
  BY GoodStays DEF IInv
<1>1. \A c \in Calls : At(c, "done")' /\ calls'[c].code = "ok" => calls'[c].msg \in Good'
  <2> SUFFICES ASSUME NEW c \in Calls, At(c, "done")', calls'[c].code = "ok"
               PROVE  calls'[c].msg \in Good'
    OBVIOUS
  <2>1. CASE calls'[c] = calls[c]
    BY <1>0, <2>1 DEF Truth, At
  <2>2. CASE Step(c)
    BY <2>2, CallTells
  <2>3. ASSUME NEW d \in Calls, Step(d), d # c PROVE calls'[c] = calls[c]
    BY <1>0, <2>3, StepTurns DEF Turned, TypeOK
  <2>4. ASSUME NEW m \in Messages, NEW d \in Calls, Post(m, d) PROVE calls'[c] = calls[c]
    BY <1>0, <2>4 DEF Post, At, TypeOK
  <2>. QED  BY <2>1, <2>2, <2>3, <2>4, CallsChange
<1>2. \A m \in Messages : cache'[m] = "ok" \/ st'[m] = "ok" => m \in Good'
  <2> SUFFICES ASSUME NEW m \in Messages, cache'[m] = "ok" \/ st'[m] = "ok"
               PROVE  m \in Good'
    OBVIOUS
  <2>1. CASE cache[m] = "ok" \/ st[m] = "ok"
    BY <1>0, <2>1 DEF Truth
  <2>2. ASSUME NEW c \in Calls, Answer(c) PROVE m \in Good'
    <3>1. calls[c].msg \in Messages /\ At(c, "done")
      BY <1>0, <2>2, CallTypes DEF Answer, At
    <3>2. CASE m = calls[c].msg /\ calls[c].code = "ok"
      BY <1>0, <3>1, <3>2 DEF Truth
    <3>3. CASE m # calls[c].msg
      BY <1>0, <2>1, <2>2, <3>1, <3>3 DEF Answer, TypeOK
    <3>4. CASE m = calls[c].msg /\ calls[c].code # "ok"
      BY <1>0, <2>1, <2>2, <3>1, <3>4 DEF Answer, Kept, Told, TypeOK
    <3>. QED  BY <3>2, <3>3, <3>4
  <2>3. ASSUME NEW c \in Calls, Step(c), ~Answer(c) PROVE cache[m] = "ok" \/ st[m] = "ok"
    <3>1. UNCHANGED cache
      BY <2>3 DEF Step, Check, Serve, CreateThread, LookUp, RecordEvent, Queue, CrashCall
    <3>2. st'[m] = st[m] \/ st'[m] = "lost"
      BY <1>0, <2>3 DEF Step, Check, Serve, CreateThread, LookUp, RecordEvent, Queue, CrashCall, TypeOK
    <3>. QED  BY <3>1, <3>2
  <2>4. ASSUME NEW n \in Hooks, Task(n) PROVE UNCHANGED <<cache, st>>
    BY <2>4 DEF Task, Discard, Load, Skip, Handle, MarkProcessed, Abandon, Redeliver
  <2>5. ASSUME NEW n \in Messages, Lose(n) \/ \E c \in Calls : Post(n, c)
        PROVE  cache' = cache /\ (st'[m] = st[m] \/ st'[m] # "ok")
    BY <1>0, <2>5 DEF Lose, Post, TypeOK
  <2>6. ASSUME Refresh \/ Expire \/ Search \/ NextMail \/ Restart \/ \E n \in Mails : Fetch(n)
        PROVE  cache' = cache /\ (st'[m] = st[m] \/ st'[m] # "ok")
    BY <1>0, <2>6 DEF Refresh, Expire, Search, NextMail, Restart, Fetch, TypeOK
  <2>7. ASSUME UNCHANGED vars PROVE UNCHANGED <<cache, st>>
    BY <2>7 DEF vars
  <2>. QED  BY <2>1, <2>2, <2>3, <2>4, <2>5, <2>6, <2>7 DEF Next
<1>3. \A m \in Hooks : event'[m] # "none" => m \in Good'
  <2> SUFFICES ASSUME NEW m \in Hooks, event'[m] # "none" PROVE m \in Good'
    OBVIOUS
  <2>1. CASE event[m] # "none"
    BY <1>0, <2>1 DEF Truth
  <2>2. ASSUME NEW c \in Calls, RecordEvent(c), event[m] = "none" PROVE m \in Good'
    <3>1. m = calls[c].msg
      BY <1>0, <2>2 DEF RecordEvent, TypeOK
    <3>2. CASE Moves(c, "recorded")
      <4>1. calls'[c].at = "recorded" /\ calls'[c].msg = m
        BY <1>0, <3>1, <3>2, MovesTurns DEF Turned
      <4>2. m \in Open'
        BY <4>1 DEF Open, At
      <4>. QED  BY <4>2 DEF Good
    <3>3. CASE event' = [event EXCEPT ![m] = "skipped"]
      <4>1. m \in Settled'
        BY <1>0, <3>3 DEF Settled, TypeOK, Messages
      <4>. QED  BY <4>1 DEF Good
    <3>. QED  BY <2>2, <3>1, <3>2, <3>3 DEF RecordEvent
  <2>3. ASSUME NEW c \in Calls, Step(c), ~RecordEvent(c) PROVE UNCHANGED event
    BY <2>3 DEF Step, Check, Serve, CreateThread, LookUp, Queue, Answer, CrashCall
  <2>4. ASSUME NEW n \in Hooks, Task(n) PROVE event[m] # "none"
    <3>1. event[n] # "none"
      BY <1>0, <2>4
      DEF Task, Discard, Load, Skip, Handle, MarkProcessed, Abandon, Redeliver, HooksFit
    <3>2. n # m => event'[m] = event[m]
      BY <1>0, <2>4
      DEF Task, Discard, Load, Skip, Handle, MarkProcessed, Abandon, Redeliver, TypeOK
    <3>. QED  BY <3>1, <3>2
  <2>. QED
    BY <2>1, <2>2, <2>3, <2>4
    DEF Next, vars, Post, Lose, Refresh, Expire, Search, NextMail, Restart, Fetch
<1>. QED  BY <1>1, <1>2, <1>3 DEF Truth

-----------------------------------------------------------------------------
(* The theorems.                                                           *)

LEMMA InitFits == Init => IInv /\ Truth
<1> SUFFICES ASSUME Init PROVE IInv /\ Truth
  OBVIOUS
<1>1. TypeOK
  BY TypeInit
<1>2. CallsFit
  BY DEF Init, CallsFit, At, Free
<1>3. \A c \in Calls : calls[c].msg = None /\ calls[c].at = "free"
  BY DEF Init, Free
<1>4. ClicksFit /\ HooksFit /\ MailsFit
  BY <1>3 DEF Init, ClicksFit, HooksFit, MailsFit, Of, At, Past, Already, Messages
<1>5. Truth
  BY <1>3 DEF Init, Truth, At, Messages
<1>. QED  BY <1>1, <1>2, <1>4, <1>5 DEF IInv

LEMMA FitsStep == IInv /\ [Next]_vars => IInv'
BY TypeStep, CallsStep, ClicksStep, HooksStep, MailsStep DEF IInv

\* Every variable keeps its type; the middleware keeps no answer of 500 or more.
THEOREM TypeCorrect == Spec => []TypeOK
<1>1. IInv => TypeOK
  BY DEF IInv
<1>. QED  BY <1>1, InitFits, FitsStep, PTL DEF Spec

\* The API implements what a sender may expect (Inbox): whatever is lost, crashes,
\* is repeated or redelivered, every step carries out a message for the first time
\* or meets one of the named faults.
THEOREM ImplementsTheorem == Spec => Implements
<1>1. Init => I!Init
  <2> SUFFICES ASSUME Init PROVE I!Init
    OBVIOUS
  <2>1. Open = {} /\ Settled = {}
    BY DEF Init, Open, Settled, At, Free, Messages
  <2>. QED  BY <2>1 DEF Init, I!Init
<1>2. IInv /\ [Next]_vars => [I!Next]_I!vars
  BY NextRefines DEF Allowed
<1>. QED  BY <1>1, <1>2, InitFits, FitsStep, PTL DEF Spec, Implements, I!Spec

\* A sender that was told of success can rely on it: the message was carried out
\* or dismissed, waits in the queue, or has met a fault.
THEOREM SuccessTheorem == Spec => []SuccessIsTrue
<1>1. Truth => SuccessIsTrue
  BY DEF Truth, SuccessIsTrue, Good
<1>. QED  BY <1>1, InitFits, FitsStep, TruthStep, PTL DEF Spec

\* No message is carried out twice, unless it is one that may be repeated and has
\* met a fault; a mail never is.
THEOREM ActsOnceTheorem == Spec => []ActsOnce
<1>1. Init => ActsOnce
  BY DEF Init, ActsOnce
<1>2. IInv /\ ActsOnce /\ [Next]_vars => ActsOnce'
  <2> SUFFICES ASSUME IInv, ActsOnce, [Next]_vars PROVE ActsOnce'
    OBVIOUS
  <2>0. effects \in [Messages -> Nat]
    BY DEF IInv, TypeOK
  <2>1. ASSUME NEW m \in Messages, I!CarryOut(m) PROVE ActsOnce'
    BY <2>0, <2>1 DEF I!CarryOut, ActsOnce
  <2>2. ASSUME NEW m \in Messages, I!Accept(m) \/ I!Close(m) \/ I!Dismiss(m) \/ I!Fault(m)
        PROVE  ActsOnce'
    BY <2>0, <2>2 DEF I!Accept, I!Close, I!Dismiss, I!Fault, ActsOnce
  <2>3. ASSUME UNCHANGED I!vars PROVE ActsOnce'
    BY <2>3 DEF I!vars, ActsOnce
  <2>. QED  BY <2>1, <2>2, <2>3, NextRefines DEF Allowed, I!Next
<1>. QED  BY <1>1, <1>2, InitFits, FitsStep, PTL DEF Spec
=============================================================================
