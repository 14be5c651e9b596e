---------------------------- MODULE LeaseRuntime ----------------------------
(***************************************************************************)
(* The lease runtime inside one microVM (src/microvm/hooks/server.py,      *)
(* 148-561): the /run hook that accepts a lease, the worker thread that    *)
(* runs the handler, the heartbeat thread, the /terminate hook, the lock   *)
(* that serialises them, and the completer calls that carry the result to  *)
(* the orchestrator over a network that loses, delays and repeats.         *)
(*                                                                         *)
(* A microVM serves one lease (docs/hooks.md: "one VM, one task, one       *)
(* token"), so the lease is the state of the module.  The orchestrator is  *)
(* external and modelled by what the completers rely on: a token that is   *)
(* open until it is answered or expires, and a closed token that says so.  *)
(***************************************************************************)
EXTENDS Naturals

CONSTANTS
    Terminators,   \* the /terminate requests, each on a thread of its own
    Kinds,         \* the lease kinds a payload may carry
    HttpTries,     \* _HttpCompleter.RETRIES + 1
    SdkTries,      \* attempts of one boto3 call, the SDK's own retries included
    Free           \* ctx._lock is not held

Worker == "worker"
Heart  == "heart"
Deliverers == {Worker} \union Terminators
Callers    == {Heart} \union Deliverers

LeaseKinds == {"none", "sfn", "durable", "http", "sqs", "eventbridge"}

ASSUME TerminatorsAssumption == Worker \notin Terminators /\ Heart \notin Terminators
ASSUME FreeAssumption == Free \notin Callers
ASSUME KindsAssumption == Kinds \subseteq LeaseKinds /\ Kinds # {}
ASSUME TriesAssumption == HttpTries \in Nat \ {0} /\ SdkTries \in Nat \ {0}

VARIABLES
    runPc,     \* how far the /run hook came with the lease
    kind,      \* lease["kind"], once accepted
    pc,        \* where each thread is
    result,    \* what the handler came to: "success" or "failure"
    done,      \* ctx.done
    error,     \* ctx.error, by its error_type
    lost,      \* ctx.lost
    stop,      \* ctx._stop
    lock,      \* holder of ctx._lock
    tries,     \* attempts of the thread's current completer call
    reply,     \* what came back for the current attempt
    wire,      \* requests on their way to the orchestrator
    token,     \* the orchestrator's side: "open", "answered", "expired"
    accepted,  \* completions the orchestrator took
    vm         \* "up", "gone" after a /terminate hook returned, "killed"

lease == <<runPc, kind, result>>
ctx   == <<done, error, lost, stop, lock>>
net   == <<tries, reply, wire>>
orch  == <<token, accepted>>
vars  == <<lease, pc, ctx, net, orch, vm>>

RunStates     == {"idle", "published", "started", "ignored", "broken", "raised"}
ThreadStates  == {"idle", "handler", "wait", "lock", "verdict", "stop", "send", "call", "mark", "out"}
Outcomes      == {"success", "failure", "terminated"}
Replies       == {"none", "ok", "closed", "refused"}

MaxTries == IF HttpTries > SdkTries THEN HttpTries ELSE SdkTries
Messages == [by : Callers, n : 1..MaxTries, what : Outcomes \union {"heartbeat"}]

TypeOK ==
    /\ runPc \in RunStates
    /\ kind \in Kinds \union {"unset"}
    /\ pc \in [Callers -> ThreadStates]
    /\ result \in {"none", "success", "failure"}
    /\ done \in BOOLEAN /\ lost \in BOOLEAN /\ stop \in BOOLEAN
    /\ error \in {"none", "failure", "terminated", "CompleterInit"}
    /\ lock \in Callers \union {Free}
    /\ tries \in [Callers -> 0..MaxTries]
    /\ reply \in [Callers -> Replies]
    /\ wire \subseteq Messages
    /\ token \in {"open", "answered", "expired"}
    /\ accepted \subseteq Outcomes
    /\ vm \in {"up", "gone", "killed"}

Init ==
    /\ runPc = "idle" /\ kind = "unset" /\ result = "none"
    /\ pc = [c \in Callers |-> "idle"]
    /\ done = FALSE /\ error = "none" /\ lost = FALSE /\ stop = FALSE
    /\ lock = Free
    /\ tries = [c \in Callers |-> 0]
    /\ reply = [c \in Callers |-> "none"]
    /\ wire = {}
    /\ token = "open" /\ accepted = {}
    /\ vm = "up"

-----------------------------------------------------------------------------
\* What a thread delivers, and how ctx.error records it.
Outcome(d) == IF d = Worker THEN result ELSE "terminated"
ErrorOf(o) == IF o = "success" THEN "none" ELSE o

\* Attempts _Completer.send makes before it raises: the http completer counts
\* its own, the others make one SDK call.
Tries == IF kind = "http" THEN HttpTries ELSE SdkTries

\* sqs and eventbridge hand the message to a bus, which never reports that the
\* waiter is gone.
OnBus == kind \in {"sqs", "eventbridge"}

Goto(c, label) == pc' = [pc EXCEPT ![c] = label]

-----------------------------------------------------------------------------
(* The /run hook. *)

\* No lease in the payload, a malformed one, or no on_lease handler.
RunIgnored ==
    /\ vm = "up" /\ runPc = "idle"
    /\ runPc' = "ignored"
    /\ UNCHANGED <<kind, result, pc, ctx, net, orch, vm>>

\* The application's on_run raised: the hook answers 500 and the lease is never read.
RunRaises ==
    /\ vm = "up" /\ runPc = "idle"
    /\ runPc' = "raised"
    /\ UNCHANGED <<kind, result, pc, ctx, net, orch, vm>>

\* The completer could not be built, which only those with a boto3 client can
\* fail to be: the context is published already done.
RunBroken(k) ==
    /\ vm = "up" /\ runPc = "idle" /\ k \notin {"none", "http"}
    /\ runPc' = "broken" /\ kind' = k
    /\ done' = TRUE /\ error' = "CompleterInit"
    /\ UNCHANGED <<result, pc, lost, stop, lock, net, orch, vm>>

\* The lease is accepted: self.lease is set, and visible to /terminate at once.
RunAccepts(k) ==
    /\ vm = "up" /\ runPc = "idle"
    /\ runPc' = "published" /\ kind' = k
    /\ UNCHANGED <<result, pc, ctx, net, orch, vm>>

StartWorker ==
    /\ vm = "up" /\ runPc = "published"
    /\ runPc' = "started"
    /\ UNCHANGED <<kind, result, pc, ctx, net, orch, vm>>

-----------------------------------------------------------------------------
(* _run_lease, on the worker thread. *)

\* The heartbeat thread is started first, unless the kind has nothing to beat
\* against (_NoneCompleter.heartbeats is False).
WorkerBegins ==
    /\ vm = "up" /\ runPc = "started" /\ pc[Worker] = "idle"
    /\ pc' = [pc EXCEPT ![Worker] = "handler",
                        ![Heart] = IF kind = "none" THEN "idle" ELSE "lock"]
    /\ UNCHANGED <<lease, ctx, net, orch, vm>>

\* The handler returns, or raises (LeaseError, LeaseLost from ctx.check, or
\* anything else); either way the worker goes on to _deliver.
HandlerEnds(o) ==
    /\ vm = "up" /\ pc[Worker] = "handler"
    /\ result' = o
    /\ Goto(Worker, "lock")
    /\ UNCHANGED <<runPc, kind, ctx, net, orch, vm>>

(* _terminate_lease, on a request thread: self.lease and ctx.done are read
   without the lock. *)
TerminateHook(t) ==
    /\ vm = "up" /\ pc[t] = "idle"
    /\ Goto(t, IF runPc \in {"published", "started"} /\ ~done THEN "lock" ELSE "out")
    /\ UNCHANGED <<lease, ctx, net, orch, vm>>

-----------------------------------------------------------------------------
(* _deliver, on the worker or a /terminate thread. *)

\* Mutant: no second look at ctx.done under the lock.
DeliverLockUnchecked(d) ==
    /\ vm = "up" /\ pc[d] = "lock" /\ lock = Free
    /\ Goto(d, "verdict") /\ done' = TRUE /\ lock' = d
    /\ UNCHANGED <<lease, error, lost, stop, net, orch, vm>>

DeliverLock(d) ==
    /\ vm = "up" /\ pc[d] = "lock" /\ lock = Free
    /\ IF done
       THEN Goto(d, "out") /\ UNCHANGED <<done, lock>>
       ELSE Goto(d, "verdict") /\ done' = TRUE /\ lock' = d
    /\ UNCHANGED <<lease, error, lost, stop, net, orch, vm>>

\* Mutant: the lock is kept when _deliver has recorded the error.
DeliverVerdictHolding(d) ==
    /\ vm = "up" /\ pc[d] = "verdict"
    /\ error' = ErrorOf(Outcome(d))
    /\ Goto(d, "stop")
    /\ UNCHANGED <<lease, done, lost, stop, lock, net, orch, vm>>

DeliverVerdict(d) ==
    /\ vm = "up" /\ pc[d] = "verdict"
    /\ error' = ErrorOf(Outcome(d))
    /\ lock' = Free
    /\ Goto(d, "stop")
    /\ UNCHANGED <<lease, done, lost, stop, net, orch, vm>>

\* _stop is set, then ctx.lost decides whether there is anyone to tell.
DeliverStop(d) ==
    /\ vm = "up" /\ pc[d] = "stop"
    /\ stop' = TRUE
    /\ Goto(d, IF lost \/ kind = "none" THEN "out" ELSE "send")
    /\ UNCHANGED <<lease, done, error, lost, lock, net, orch, vm>>

-----------------------------------------------------------------------------
(* A completer call: one attempt at a time, each a request of its own. *)

Attempt(c) ==
    /\ vm = "up" /\ pc[c] = "send"
    /\ tries' = [tries EXCEPT ![c] = @ + 1]
    /\ reply' = [reply EXCEPT ![c] = "none"]
    /\ wire' = wire \union {[by |-> c, n |-> tries[c] + 1,
                             what |-> IF c = Heart THEN "heartbeat" ELSE Outcome(c)]}
    /\ Goto(c, "call")
    /\ UNCHANGED <<lease, ctx, orch, vm>>

\* Where a call leaves its thread: the heartbeat thread gives the lock back and
\* sleeps, a deliverer is finished.
Return(c, label) ==
    /\ Goto(c, IF c = Heart THEN label ELSE "out")
    /\ lock' = IF c = Heart THEN Free ELSE lock

CallAnswered(c) ==
    /\ vm = "up" /\ pc[c] = "call" /\ reply[c] \in {"ok", "refused"}
    /\ Return(c, "wait")
    /\ UNCHANGED <<lease, done, error, lost, stop, net, orch, vm>>

\* Mutant: any error answer is taken for a closed token.
CallClosedOnRefusal(c) ==
    /\ vm = "up" /\ pc[c] = "call" /\ reply[c] \in {"closed", "refused"}
    /\ Return(c, "mark")
    /\ lost' = (lost \/ c # Heart)
    /\ UNCHANGED <<lease, done, error, stop, net, orch, vm>>

\* _TokenClosed: a deliverer records the loss itself, the heartbeat thread
\* leaves the lock first and marks the lease lost in a step of its own.
CallClosed(c) ==
    /\ vm = "up" /\ pc[c] = "call" /\ reply[c] = "closed"
    /\ Return(c, "mark")
    /\ lost' = (lost \/ c # Heart)
    /\ UNCHANGED <<lease, done, error, stop, net, orch, vm>>

\* A timeout or a broken connection, whether or not the request got there: it
\* is retried until the attempts are used up.
CallFails(c) ==
    /\ vm = "up" /\ pc[c] = "call"
    /\ IF tries[c] < Tries
       THEN Goto(c, "send") /\ UNCHANGED lock
       ELSE Return(c, "wait")
    /\ UNCHANGED <<lease, done, error, lost, stop, net, orch, vm>>

-----------------------------------------------------------------------------
(* _heartbeat_loop. *)

\* _stop.wait(interval) timed out, or found the event set.
HeartWakes ==
    /\ vm = "up" /\ pc[Heart] = "wait"
    /\ \/ ~stop /\ Goto(Heart, "lock")
       \/ stop /\ Goto(Heart, "out")
    /\ UNCHANGED <<lease, ctx, net, orch, vm>>

HeartLock ==
    /\ vm = "up" /\ pc[Heart] = "lock" /\ lock = Free
    /\ IF done
       THEN Goto(Heart, "out") /\ UNCHANGED <<lock, tries>>
       ELSE Goto(Heart, "send") /\ lock' = Heart /\ tries' = [tries EXCEPT ![Heart] = 0]
    /\ UNCHANGED <<lease, done, error, lost, stop, reply, wire, orch, vm>>

HeartMarksLost ==
    /\ vm = "up" /\ pc[Heart] = "mark"
    /\ lost' = TRUE /\ stop' = TRUE
    /\ Goto(Heart, "out")
    /\ UNCHANGED <<lease, done, error, lock, net, orch, vm>>

-----------------------------------------------------------------------------
(* The orchestrator and the network (external). *)

\* The answer reaches the caller only if that attempt is still waiting for it.
Answer(m, r) ==
    reply' = IF pc[m.by] = "call" /\ tries[m.by] = m.n
             THEN [reply EXCEPT ![m.by] = r]
             ELSE reply

Receive(m) ==
    /\ m \in wire
    /\ wire' = wire \ {m}
    /\ IF OnBus \/ token = "open"
       THEN /\ Answer(m, "ok")
            /\ IF m.by = Heart
               THEN UNCHANGED orch
               ELSE /\ accepted' = accepted \union {m.what}
                    /\ token' = "answered"
       ELSE Answer(m, "closed") /\ UNCHANGED orch
    /\ UNCHANGED <<lease, pc, ctx, tries, vm>>

\* A server error or a throttle: the message is not recorded.
Refuse(m) ==
    /\ m \in wire
    /\ wire' = wire \ {m}
    /\ Answer(m, "refused")
    /\ UNCHANGED <<lease, pc, ctx, tries, orch, vm>>

Lose(m) ==
    /\ m \in wire
    /\ wire' = wire \ {m}
    /\ UNCHANGED <<lease, pc, ctx, tries, reply, orch, vm>>

\* The orchestrator's deadline or heartbeat timeout passes, or it is stopped.
Expire ==
    /\ token = "open"
    /\ token' = "expired"
    /\ UNCHANGED <<lease, pc, ctx, net, accepted, vm>>

\* The platform takes the VM down once a /terminate hook has returned.
TearDown ==
    /\ vm = "up" /\ \E t \in Terminators : pc[t] = "out"
    /\ vm' = "gone"
    /\ UNCHANGED <<lease, pc, ctx, net, orch>>

\* The VM dies, or the hook outlived its timeout: every thread stops where it is.
Kill ==
    /\ vm = "up"
    /\ vm' = "killed"
    /\ UNCHANGED <<lease, pc, ctx, net, orch>>

-----------------------------------------------------------------------------
RunHook   == RunIgnored \/ RunRaises \/ StartWorker
             \/ \E k \in Kinds : RunBroken(k) \/ RunAccepts(k)
Run       == WorkerBegins \/ \E o \in {"success", "failure"} : HandlerEnds(o)
Deliver(d) == DeliverLock(d) \/ DeliverVerdict(d) \/ DeliverStop(d)
Call(c)   == Attempt(c) \/ CallAnswered(c) \/ CallClosed(c) \/ CallFails(c)
HeartLoop == HeartWakes \/ HeartLock \/ HeartMarksLost
Network   == \E m \in wire : Receive(m) \/ Refuse(m) \/ Lose(m)
Platform  == Expire \/ TearDown \/ Kill

Next ==
    \/ RunHook
    \/ Run
    \/ \E t \in Terminators : TerminateHook(t)
    \/ \E d \in Deliverers : Deliver(d)
    \/ \E c \in Callers : Call(c)
    \/ HeartLoop
    \/ Network
    \/ Platform

Spec == Init /\ [][Next]_vars

\* A thread that can run does run, and a call ends (every completer has a
\* timeout).  The lock is free for a whole heartbeat interval between two beats,
\* so a deliverer that waits for it gets it: strong fairness.  Nothing is
\* assumed of the handler, the network, the orchestrator or the platform.
CallReturns(c) == CallAnswered(c) \/ CallClosed(c) \/ CallFails(c)
Fairness ==
    /\ WF_vars(StartWorker) /\ WF_vars(WorkerBegins)
    /\ WF_vars(HeartWakes) /\ WF_vars(HeartLock) /\ WF_vars(HeartMarksLost)
    /\ \A d \in Deliverers : /\ SF_vars(DeliverLock(d))
                             /\ WF_vars(DeliverVerdict(d)) /\ WF_vars(DeliverStop(d))
    /\ \A c \in Callers : WF_vars(Attempt(c)) /\ WF_vars(CallReturns(c))

FairSpec == Spec /\ Fairness

-----------------------------------------------------------------------------
(* What the runtime promises. *)

\* Whatever the orchestrator took is what GET /status reports: one outcome, the
\* same in both places, however often the completion was retried and whichever
\* of the worker and the /terminate hooks got to _deliver first.
OneVerdict == \A o \in accepted : done /\ error = ErrorOf(o)

\* While a heartbeat call is under way (it holds the lock, retries included) no
\* thread has decided the lease or is sending its completion.
BeatExcludesVerdict ==
    pc[Heart] \in {"send", "call"} =>
        \A d \in Deliverers : pc[d] \notin {"verdict", "stop", "send", "call"}

\* ctx.lost is only ever set for a token that really is closed, even when the
\* answer it was read from is older than the current attempt.
LostIsTrue == lost => token # "open"

\* The refinement to LeasePromise: the verdict is fixed when done is set (the
\* outcome of whoever holds the lock) and read off ctx.error from then on.
Verdict ==
    IF ~done THEN "undecided"
    ELSE IF pc[Worker] = "verdict" THEN result
    ELSE IF \E t \in Terminators : pc[t] = "verdict" THEN "terminated"
    ELSE IF error = "none" THEN "success"
    ELSE error

Promise == INSTANCE LeasePromise WITH
    Verdicts <- Outcomes, Silent <- {"CompleterInit"}, Undecided <- "undecided",
    verdict <- Verdict, heard <- accepted, closed <- (token # "open"), lost <- lost

\* The runtime keeps the promise: no step of any thread, retry or late answer
\* decides a lease twice, tells the orchestrator anything but the decision, or
\* declares it lost while the orchestrator still waits.
KeepsPromise == Promise!Spec

\* Every thread that asks for the lock to deliver comes out of _deliver: the
\* heartbeat thread cannot starve it and a failing call cannot hold it forever.
\* And once the lease is decided its heartbeat thread ends, although it may not
\* have been started yet when the decision fell.
ThreadsEnd ==
    /\ \A d \in Deliverers : (pc[d] = "lock") ~> (pc[d] = "out" \/ vm # "up")
    /\ (done /\ runPc = "started" /\ kind # "none") ~> (pc[Heart] = "out" \/ vm # "up")

-----------------------------------------------------------------------------
(* What the documentation says and the code does not do. *)

\* docs/hooks.md: "/terminate mid-flight sends Terminated", and the worker's
\* return sends the result: when the platform removes the VM after its
\* /terminate hook returned, a decided lease has been told to the orchestrator.
VerdictLeavesBeforeTeardown ==
    vm = "gone" /\ done /\ runPc # "broken" /\ kind # "none" =>
        lost \/ \E d \in Deliverers : tries[d] > 0
=============================================================================
