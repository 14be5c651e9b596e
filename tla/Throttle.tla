------------------------------ MODULE Throttle ------------------------------
(***************************************************************************)
(* One throttled API operation (src/microvm/throttle.py): the token bucket *)
(* that threads of a process share, and the retry loop each call runs.     *)
(*                                                                         *)
(* The bucket's floats are integers here: a token is Unit units, a tick of *)
(* the clock adds Gain of them, and Second ticks make a second, so that    *)
(* rate_per_second = Gain * Second / Unit.                                 *)
(***************************************************************************)
EXTENDS Integers

CONSTANTS
    Threads,      \* the threads that share one Throttled
    Demand,       \* calls each thread makes
    MaxAttempts,  \* Throttled.max_attempts
    Unit, Gain, Second,
    Window        \* length, in ticks, of the stretch of time that is observed

ASSUME DemandAssumption == Demand \in Nat /\ MaxAttempts \in Nat \ {0}
ASSUME ScaleAssumption == Unit \in Nat \ {0} /\ Gain \in Nat \ {0} /\ Second \in Nat \ {0}
ASSUME WindowAssumption == Window \in Nat

VARIABLES
    pc, attempt, left,   \* per thread: where it is, attempts made, sleep still due
    jobs,                \* per thread: calls still to make
    passed,              \* per thread: a token went to another while it slept
    tokens, age,         \* bucket.tokens, and ticks since bucket.updated
    span, granted        \* the observed window: its age, the tokens taken in it

thread == <<pc, attempt, left, jobs, passed>>
bucket == <<tokens, age>>
window == <<span, granted>>
vars   == <<thread, bucket, window>>

Lesser(a, b)  == IF a < b THEN a ELSE b
Greater(a, b) == IF a < b THEN b ELSE a

\* max(1, int(rate_per_second)) tokens.
Capacity == Unit * Greater(1, (Gain * Second) \div Unit)

\* The tokens an acquire finds after the refill it does first.
Level == Lesser(Capacity, tokens + Gain * age)

\* (1 - tokens) / rate: the ticks until a token is there, rounded up.
Wait == (Unit - Level + Gain - 1) \div Gain

TypeOK ==
    /\ pc \in [Threads -> {"idle", "acquire", "sleep", "call", "backoff"}]
    /\ attempt \in [Threads -> 0..MaxAttempts]
    /\ left \in [Threads -> Nat]
    /\ jobs \in [Threads -> 0..Demand]
    /\ passed \in [Threads -> BOOLEAN]
    /\ tokens \in 0..Capacity /\ age \in Nat
    /\ span \in 0..Window + 1 /\ granted \in Nat

Init ==
    /\ pc = [t \in Threads |-> "idle"]
    /\ attempt = [t \in Threads |-> 0]
    /\ left = [t \in Threads |-> 0]
    /\ jobs = [t \in Threads |-> Demand]
    /\ passed = [t \in Threads |-> FALSE]
    /\ tokens = Capacity /\ age = 0
    /\ span = Window + 1 /\ granted = 0

Goto(t, label) == pc' = [pc EXCEPT ![t] = label]

-----------------------------------------------------------------------------
\* Throttled.__call__ and each further turn of its loop.
Call(t) ==
    /\ pc[t] = "idle" /\ jobs[t] > 0
    /\ attempt' = [attempt EXCEPT ![t] = 1]
    /\ jobs' = [jobs EXCEPT ![t] = @ - 1]
    /\ Goto(t, "acquire")
    /\ UNCHANGED <<left, passed, bucket, window>>

\* Mutant: a token is taken without moving bucket.updated, so the same time is
\* credited again.
AcquireStale(t) ==
    /\ pc[t] = "acquire" /\ Level >= Unit
    /\ tokens' = Level - Unit
    /\ granted' = IF span <= Window THEN granted + 1 ELSE granted
    /\ passed' = [u \in Threads |-> TRUE]
    /\ Goto(t, "call")
    /\ UNCHANGED <<attempt, left, jobs, age, span>>

\* TokenBucket.acquire under the bucket's lock: refill, then take a token ...
Acquire(t) ==
    /\ pc[t] = "acquire" /\ Level >= Unit
    /\ tokens' = Level - Unit /\ age' = 0
    /\ granted' = IF span <= Window THEN granted + 1 ELSE granted
    /\ passed' = [u \in Threads |-> TRUE]
    /\ Goto(t, "call")
    /\ UNCHANGED <<attempt, left, jobs, span>>

\* Mutant: bucket.updated moves before the refill is kept.
SleepForgetful(t) ==
    /\ pc[t] = "acquire" /\ Level < Unit
    /\ age' = 0
    /\ left' = [left EXCEPT ![t] = Wait]
    /\ passed' = [passed EXCEPT ![t] = FALSE]
    /\ Goto(t, "sleep")
    /\ UNCHANGED <<tokens, attempt, jobs, window>>

\* ... or sleep, without the lock, until one is due and try again.
Sleep(t) ==
    /\ pc[t] = "acquire" /\ Level < Unit
    /\ tokens' = Level /\ age' = 0
    /\ left' = [left EXCEPT ![t] = Wait]
    /\ passed' = [passed EXCEPT ![t] = FALSE]
    /\ Goto(t, "sleep")
    /\ UNCHANGED <<attempt, jobs, window>>

Wake(t) ==
    /\ pc[t] = "sleep" /\ left[t] = 0
    /\ Goto(t, "acquire")
    /\ UNCHANGED <<attempt, left, jobs, passed, bucket, window>>

\* The API call returns, or raises an error that is not retried.
Finish(t) ==
    /\ pc[t] = "call"
    /\ Goto(t, "idle")
    /\ UNCHANGED <<attempt, left, jobs, passed, bucket, window>>

\* A code in RETRYABLE: raised on the last attempt, otherwise slept over.  How
\* long (jittered, doubling or by the minute) is left open.
Retry(t) ==
    /\ pc[t] = "call" /\ attempt[t] < MaxAttempts
    /\ Goto(t, "backoff")
    /\ UNCHANGED <<attempt, left, jobs, passed, bucket, window>>

\* Mutant: the attempt is not counted.
TryAgainUncounted(t) ==
    /\ pc[t] = "backoff"
    /\ Goto(t, "acquire")
    /\ UNCHANGED <<attempt, left, jobs, passed, bucket, window>>

TryAgain(t) ==
    /\ pc[t] = "backoff"
    /\ attempt' = [attempt EXCEPT ![t] = @ + 1]
    /\ Goto(t, "acquire")
    /\ UNCHANGED <<left, jobs, passed, bucket, window>>

\* time.monotonic advances.  A full bucket stays as it is, however long it waits.
Tick ==
    /\ left' = [t \in Threads |-> Greater(0, left[t] - 1)]
    /\ age' = IF Level = Capacity THEN age ELSE age + 1
    /\ span' = Lesser(span + 1, Window + 1)
    /\ UNCHANGED <<pc, attempt, jobs, passed, tokens, granted>>

\* An observer starts to count, at any moment.
OpenWindow ==
    /\ span' = 0 /\ granted' = 0
    /\ UNCHANGED <<thread, bucket>>

Step(t) == Call(t) \/ Acquire(t) \/ Sleep(t) \/ Wake(t) \/ Finish(t) \/ Retry(t) \/ TryAgain(t)

Next == (\E t \in Threads : Step(t)) \/ Tick \/ OpenWindow

Spec == Init /\ [][Next]_vars

\* Time passes, threads that can run do, and API calls come back.
Fairness ==
    /\ WF_vars(Tick)
    /\ \A t \in Threads : /\ WF_vars(Call(t)) /\ WF_vars(Acquire(t) \/ Sleep(t)) /\ WF_vars(Wake(t))
                          /\ WF_vars(Finish(t) \/ Retry(t)) /\ WF_vars(TryAgain(t))

FairSpec == Spec /\ Fairness

-----------------------------------------------------------------------------
\* In any stretch of time, wherever it begins and however threads sleep and
\* wake, the bucket grants at most its capacity and what it earned meanwhile:
\* a wait refilled twice or a token given to two threads would exceed it.
WindowBound == span <= Window => granted * Unit <= Capacity + Gain * span

\* While others keep taking tokens from under a sleeping thread, every call
\* still returns or raises, as long as the demand is finite.
CallsSettle == \A t \in Threads : (pc[t] = "acquire") ~> (pc[t] = "idle")

\* A sleeping thread finds its token when it wakes, unless another thread took
\* one meanwhile: no refill is lost to a thread that only looks and sleeps, and
\* the wait is never computed too short.
SleepSuffices ==
    \A t \in Threads :
        pc[t] = "sleep" /\ ~passed[t] => Level + Gain * left[t] >= Unit

=============================================================================
