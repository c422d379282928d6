------------------------------ MODULE EtsyGateway ------------------------------
(***************************************************************************)
(* The way to Etsy for the requests of one shop (EtsyClient._make_request):*)
(* the circuit breaker, which each worker process keeps in its own memory, *)
(* and the token bucket in Redis, which all of them share.                 *)
(*                                                                         *)
(* A call of Requests runs in one worker.  Its coroutines take             *)
(* turns at an await, and the wait for the bucket is not one: it sleeps    *)
(* with the event loop.  Every round trip to Redis or to Etsy is a step.   *)
(* The bucket counts in units of which a request costs Cost, because the   *)
(* refill is a fraction of a request per tick of the clock.                *)
(***************************************************************************)
EXTENDS Integers, FiniteSets

CONSTANTS Requests,   \* the calls that run concurrently
          Workers,    \* the worker processes
          WorkerOf,   \* the worker each call runs in
          Threshold,  \* failure_threshold
          Cooldown,   \* cooldown_seconds
          Capacity,   \* the bucket's capacity, in units
          Refill,     \* units added in a tick
          Cost,       \* units a request takes
          MaxWait,    \* max_wait_ms
          LastStart,  \* bound: no call starts after this time
          MaxTime     \* bound: the clock stops

ASSUME GatewayAssumption ==
  /\ WorkerOf \in [Requests -> Workers]
  /\ {Threshold, Refill, Cost, MaxWait} \subseteq Nat \ {0}
  /\ {Cooldown, Capacity, LastStart, MaxTime} \subseteq Nat

VARIABLES
  circuit,  \* the worker's _ShopCircuit
  tokens,   \* the bucket's tokens
  refilled, \* the bucket's last_refill_ms
  now,      \* the clock
  at,       \* where each call is
  since,    \* when it began to wait for the bucket
  clock,    \* the time it last read, the now_ms it gives the bucket
  told,     \* the wait_ms the script answered
  slept,    \* when that answer arrived and its sleep began
  probe,    \* ghost: it was let through while the circuit was half open
  granted,  \* ghost: requests the bucket allowed since mark
  mark      \* ghost: any moment at which one starts to count them

requestVars == <<at, since, clock, told, slept, probe>>
bucket      == <<tokens, refilled>>
counting    == <<granted, mark>>
gatewayVars == <<circuit, bucket, now, requestVars, counting>>

Circuit == [state : {"closed", "open", "half_open"}, failures : Nat, failedAt : Nat]
Closed  == [state |-> "closed", failures |-> 0, failedAt |-> 0]

\* In acquire_or_wait: nothing else runs in the call's worker.
Waiting == {"ask", "told", "sleep"}
RequestStages  == Waiting \cup {"idle", "token", "sent", "refresh", "resent"}

GatewayTypeOK ==
  /\ circuit \in [Workers -> Circuit]
  /\ tokens \in Nat
  /\ refilled \in Nat
  /\ now \in Nat
  /\ at \in [Requests -> RequestStages]
  /\ since \in [Requests -> Nat]
  /\ clock \in [Requests -> Nat]
  /\ told \in [Requests -> Int]
  /\ slept \in [Requests -> Nat]
  /\ probe \in [Requests -> BOOLEAN]
  /\ granted \in Nat
  /\ mark \in Nat

GatewayInit ==
  /\ circuit = [w \in Workers |-> Closed]
  /\ tokens = Capacity
  /\ refilled = 0
  /\ now = 0
  /\ at = [p \in Requests |-> "idle"]
  /\ since = [p \in Requests |-> 0]
  /\ clock = [p \in Requests |-> 0]
  /\ told = [p \in Requests |-> 0]
  /\ slept = [p \in Requests |-> 0]
  /\ probe = [p \in Requests |-> FALSE]
  /\ granted = 0
  /\ mark = 0

-----------------------------------------------------------------------------
(* The circuit breaker, for the worker of call p.                          *)

Breaker(p) == circuit[WorkerOf[p]]

SetBreaker(p, c) == circuit' = [circuit EXCEPT ![WorkerOf[p]] = c]

Cooled(c) == now - c.failedAt >= Cooldown

\* before_request: only an open circuit that has not cooled down says no.
Admits(c) == c.state = "open" => Cooled(c)
Admitted(c) == IF c.state = "open" THEN [c EXCEPT !.state = "half_open"] ELSE c

RecordSuccessKeeps(c) == [c EXCEPT !.state = "closed"]

RecordSuccess(c) == [c EXCEPT !.state = "closed", !.failures = 0]

\* record_failure of a 429 or a 5xx; it does nothing for another 4xx.
RecordFailure(c) ==
  [state    |-> IF c.state = "half_open" \/ c.failures + 1 >= Threshold
                  THEN "open" ELSE c.state,
   failures |-> c.failures + 1,
   failedAt |-> now]

-----------------------------------------------------------------------------
(* The token bucket: the script Redis runs, and the loop around it.        *)

Least(a, b) == IF a < b THEN a ELSE b
Most(a, b)  == IF a < b THEN b ELSE a

RefilledBack(t) == Least(Capacity, tokens + (t - refilled) * Refill)

\* The bucket after a refill up to t, a clock that another caller's may be
\* ahead of.
Refilled(t) ==
  IF t > refilled THEN Least(Capacity, tokens + (t - refilled) * Refill) ELSE tokens

\* The script that always sets last_refill_ms, to a clock that may be behind.
RefillTimeBack(t) == t

RefillTime(t) == Most(refilled, t)

\* The script's answer: how long until the missing tokens are there.
Missing(t) == (Cost - Refilled(t)) \div Refill

\* Mutant: the sleep is not cut to what is left of max_wait.
PauseInFull(p) == Most(told[p], 1)

\* How long the loop sleeps: at least a moment, and at most what was left of
\* max_wait when it read its clock.
Pause(p) == Least(Most(told[p], 1), MaxWait - (clock[p] - since[p]))

-----------------------------------------------------------------------------
(* _make_request.                                                          *)

\* Whether the event loop of p's worker runs p.
HasLoop(p) ==
  \A q \in Requests \ {p} : WorkerOf[q] = WorkerOf[p] => at[q] \notin Waiting

Reaches(p, stage) == at' = [at EXCEPT ![p] = stage]

Ends(p) ==
  /\ Reaches(p, "idle")
  /\ since' = [since EXCEPT ![p] = 0]
  /\ clock' = [clock EXCEPT ![p] = 0]
  /\ told' = [told EXCEPT ![p] = 0]
  /\ slept' = [slept EXCEPT ![p] = 0]
  /\ probe' = [probe EXCEPT ![p] = FALSE]

\* The breaker admits the call, and the wait for the bucket begins.
Start(p) ==
  /\ at[p] = "idle" /\ HasLoop(p) /\ now <= LastStart
  /\ Admits(Breaker(p))
  /\ SetBreaker(p, Admitted(Breaker(p)))
  /\ probe' = [probe EXCEPT ![p] = Breaker(p).state # "closed"]
  /\ Reaches(p, "ask")
  /\ since' = [since EXCEPT ![p] = now]
  /\ clock' = [clock EXCEPT ![p] = now]
  /\ UNCHANGED <<bucket, now, told, slept, counting>>

\* The script runs: it takes the tokens, or says how long to wait for them.
Acquire(p) ==
  LET has == Refilled(clock[p]) IN
  /\ at[p] = "ask"
  /\ refilled' = RefillTime(clock[p])
  /\ \/ /\ has >= Cost
        /\ tokens' = has - Cost
        /\ granted' = granted + 1
        /\ Reaches(p, "token")
        /\ UNCHANGED told
     \/ /\ has < Cost
        /\ tokens' = has
        /\ told' = [told EXCEPT ![p] = Missing(clock[p])]
        /\ Reaches(p, "told")
        /\ UNCHANGED granted
  /\ UNCHANGED <<circuit, now, since, clock, slept, probe, mark>>

\* The refusal arrives, a round trip after the clock was read, and the call
\* sleeps for the pause from then on.
Rest(p) ==
  /\ at[p] = "told"
  /\ slept' = [slept EXCEPT ![p] = now]
  /\ Reaches(p, "sleep")
  /\ UNCHANGED <<circuit, bucket, now, since, clock, told, probe, counting>>

Awake(p) == at[p] = "sleep" /\ now >= slept[p] + Pause(p)

AskAgain(p) ==
  /\ Awake(p) /\ now - since[p] < MaxWait
  /\ clock' = [clock EXCEPT ![p] = now]
  /\ told' = [told EXCEPT ![p] = 0]
  /\ slept' = [slept EXCEPT ![p] = 0]
  /\ Reaches(p, "ask")
  /\ UNCHANGED <<circuit, bucket, now, since, probe, counting>>

\* RateLimitExceeded.
GiveUp(p) ==
  /\ Awake(p) /\ now - since[p] >= MaxWait
  /\ Ends(p)
  /\ UNCHANGED <<circuit, bucket, now, counting>>

Await(p, stage, to) ==
  /\ at[p] = stage /\ HasLoop(p)
  /\ Reaches(p, to)
  /\ UNCHANGED <<circuit, bucket, now, since, clock, told, slept, probe, counting>>

\* An access token is at hand, and the request goes out, ...
Send(p) == Await(p, "token", "sent")

\* ... again with a new one after a 401.
Unauthorized(p) == Await(p, "sent", "refresh")
Resend(p)       == Await(p, "refresh", "resent")

\* Etsy's answer reaches the worker.
Answered(p, circuitAfter) ==
  /\ at[p] \in {"sent", "resent"} /\ HasLoop(p)
  /\ SetBreaker(p, circuitAfter)
  /\ Ends(p)
  /\ UNCHANGED <<bucket, now, counting>>

Succeeded(p) == Answered(p, RecordSuccess(Breaker(p)))
Failed(p)    == Answered(p, RecordFailure(Breaker(p)))

\* An unknown shop, Redis out of reach, no token, no new token, a second 401,
\* another 4xx, a timeout or a broken connection: the caller gets an error and
\* the breaker hears nothing of it.
Raises(p) ==
  /\ at[p] \in RequestStages \ {"idle", "sleep"} /\ HasLoop(p)
  /\ Ends(p)
  /\ UNCHANGED <<circuit, bucket, now, counting>>

\* The worker is restarted: its calls and its breaker are gone.
Restart(w) ==
  /\ \E p \in Requests : WorkerOf[p] = w /\ at[p] # "idle"
  /\ circuit' = [circuit EXCEPT ![w] = Closed]
  /\ at' = [p \in Requests |-> IF WorkerOf[p] = w THEN "idle" ELSE at[p]]
  /\ since' = [p \in Requests |-> IF WorkerOf[p] = w THEN 0 ELSE since[p]]
  /\ clock' = [p \in Requests |-> IF WorkerOf[p] = w THEN 0 ELSE clock[p]]
  /\ told' = [p \in Requests |-> IF WorkerOf[p] = w THEN 0 ELSE told[p]]
  /\ slept' = [p \in Requests |-> IF WorkerOf[p] = w THEN 0 ELSE slept[p]]
  /\ probe' = [p \in Requests |-> IF WorkerOf[p] = w THEN FALSE ELSE probe[p]]
  /\ UNCHANGED <<bucket, now, counting>>

Tick == now < MaxTime /\ now' = now + 1 /\ UNCHANGED <<circuit, bucket, requestVars, counting>>

\* One starts to count at any moment, from what the bucket's clock then says.
Mark ==
  /\ mark' = refilled /\ granted' = 0
  /\ mark' # mark
  /\ UNCHANGED <<circuit, bucket, now, requestVars>>

RequestStep(p) ==
  \/ Acquire(p) \/ Rest(p) \/ AskAgain(p) \/ GiveUp(p)
  \/ Send(p) \/ Unauthorized(p) \/ Resend(p)
  \/ Succeeded(p) \/ Failed(p) \/ Raises(p)

GatewayNext ==
  \/ \E p \in Requests : Start(p) \/ RequestStep(p)
  \/ \E w \in Workers : Restart(w)
  \/ Tick \/ Mark

GatewaySpec == GatewayInit /\ [][GatewayNext]_gatewayVars

-----------------------------------------------------------------------------
(* Properties.                                                             *)

\* A circuit is closed exactly while its count of consecutive failures is
\* below the threshold, and with the count at the threshold it is open until
\* it has cooled down since the last failure, however late answers, probes and
\* restarts interleave.
BreakerSound ==
  \A w \in Workers :
    LET c == circuit[w] IN
    /\ c.state = "closed" <=> c.failures < Threshold
    /\ c.failures >= Threshold /\ ~Cooled(c) => c.state = "open"

\* From any moment on, all workers together are granted no more requests than
\* the bucket holds when full and what flows in since, although each caller
\* brings a clock it read some time ago.
RateBound == granted * Cost <= Capacity + (now - mark) * Refill

\* What a call's last round through the loop has taken beyond its sleep: the
\* round trip, and the time it overslept.
Overrun(p) ==
  IF at[p] = "sleep"
    THEN slept[p] - clock[p] + Most(0, now - (slept[p] + Pause(p)))
    ELSE now - clock[p]

\* A wait for the bucket, and with it the standstill of its worker, exceeds
\* max_wait by no more than the last round trip to Redis (and what the call
\* overslept): the sleeps and the earlier trips never add up to more.
WaitBounded ==
  \A p \in Requests : at[p] \in Waiting => now - since[p] <= MaxWait + Overrun(p)

\* "Transitions OPEN -> HALF_OPEN when cooldown expires (allowing one probe
\* request through)": a half-open circuit has let one request through.
OneProbe ==
  \A w \in Workers : circuit[w].state = "half_open" =>
    Cardinality({p \in Requests : WorkerOf[p] = w /\ probe[p]}) <= 1
=============================================================================
