------------------------- MODULE LeaseRuntimeProofs -------------------------
(***************************************************************************)
(* Proofs about LeaseRuntime, for any number of /terminate requests, any   *)
(* set of kinds and any number of attempts per completer call.             *)
(***************************************************************************)
EXTENDS LeaseRuntime, TLAPS

\* Where a deliverer has won the lease, or is still telling the orchestrator.
Telling  == {"stop", "send", "call"}
Deciding == Telling \union {"verdict"}

Holding(c) == pc[c] \in (IF c = Heart THEN {"send", "call"} ELSE {"verdict"})

\* The lease is decided for o and ctx.error says so.
Decided(o) ==
    /\ done /\ error = ErrorOf(o)
    /\ \A d \in Deliverers : pc[d] # "verdict"

\* No thread runs before the lease is published, nothing is decided, and the
\* heartbeat thread is started by the worker.
HookInv ==
    /\ pc[Worker] = "idle" => pc[Heart] = "idle"
    /\ runPc = "idle" => ~done
    /\ runPc \notin {"published", "started"} =>
           \A c \in Callers : pc[c] \in {"idle", "out"}

\* A call starts from no attempts and never exceeds its allowance.
TriesInv ==
    /\ \A c \in Callers : pc[c] = "send" => tries[c] < Tries
    /\ \A d \in Deliverers :
           pc[d] \in {"idle", "handler", "lock", "verdict", "stop"} => tries[d] = 0

\* The lock's holder is the thread inside a critical section, which the
\* heartbeat thread only enters while the lease is undecided.
LockInv ==
    /\ \A c \in Callers : lock = c <=> Holding(c)
    /\ pc[Heart] \in {"send", "call"} => ~done

\* One deliverer at most decides the lease, with a handler's result if it is
\* the worker.
WinnerInv ==
    /\ \A d \in Deliverers : pc[d] \in Deciding => done
    /\ \A d, e \in Deliverers : pc[d] \in Deciding /\ pc[e] \in Deciding => d = e
    /\ pc[Worker] \in Deciding \union {"lock"} => result # "none"

\* Everything said to the orchestrator, or about to be, is the decision.
SaysInv ==
    /\ \A d \in Deliverers : pc[d] \in Telling => Decided(Outcome(d))
    /\ \A m \in wire : m.by # Heart => m.what # "heartbeat" /\ Decided(m.what)
    /\ \A o \in accepted : Decided(o)

\* A closed answer, read or unread, comes from a closed token.
ClosedInv ==
    lost \/ pc[Heart] = "mark" \/ (\E c \in Callers : reply[c] = "closed") =>
        token # "open"

IInv == /\ TypeOK /\ HookInv /\ TriesInv /\ LockInv
        /\ WinnerInv /\ SaysInv /\ ClosedInv

-----------------------------------------------------------------------------
LEMMA ThreadsDiffer == Worker # Heart /\ Heart \notin Deliverers /\ Free \notin Callers
BY TerminatorsAssumption, FreeAssumption DEF Worker, Heart, Deliverers, Callers

LEMMA TriesBound == Tries \in 1..MaxTries /\ MaxTries \in Nat
BY TriesAssumption DEF Tries, MaxTries

LEMMA InitInv == Init => IInv
<1> SUFFICES ASSUME Init PROVE IInv
    OBVIOUS
<1> USE ThreadsDiffer DEF Init
<1>1. TypeOK
  <2>1. tries \in [Callers -> 0..MaxTries]
    BY TriesBound
  <2> QED BY <2>1 DEF TypeOK, RunStates, ThreadStates, Replies
<1>2. HookInv /\ TriesInv
    BY DEF HookInv, TriesInv, Deliverers, Callers
<1>3. LockInv /\ WinnerInv
    BY DEF LockInv, WinnerInv, Holding, Deciding, Telling, Deliverers, Callers
<1>4. SaysInv /\ ClosedInv
    BY DEF SaysInv, ClosedInv, Telling, Deliverers, Callers
<1> QED BY <1>1, <1>2, <1>3, <1>4 DEF IInv

LEMMA HookStep == ASSUME IInv, RunHook PROVE IInv'
<1> USE ThreadsDiffer DEF IInv, TypeOK, HookInv, TriesInv, LockInv, WinnerInv, SaysInv, ClosedInv,
        Holding, Decided, Outcome, Telling, Deciding, RunStates, ctx, net, orch
<1>1. CASE RunIgnored BY <1>1 DEF RunIgnored, Tries
<1>2. CASE RunRaises BY <1>2 DEF RunRaises, Tries
<1>3. CASE StartWorker BY <1>3 DEF StartWorker, Tries
<1>4. ASSUME NEW k \in Kinds, RunBroken(k) PROVE IInv'
    BY <1>4, TriesBound DEF RunBroken, Callers, Deliverers, Tries
<1>5. ASSUME NEW k \in Kinds, RunAccepts(k) PROVE IInv'
    BY <1>5, TriesBound DEF RunAccepts, Tries
<1> QED BY <1>1, <1>2, <1>3, <1>4, <1>5 DEF RunHook

LEMMA RunStep == ASSUME IInv, Run PROVE IInv'
<1> USE ThreadsDiffer DEF IInv, TypeOK, HookInv, TriesInv, LockInv, WinnerInv, SaysInv, ClosedInv,
        Holding, Decided, Outcome, Telling, Deciding, ThreadStates, Deliverers, Callers,
        Tries, lease, ctx, net, orch, Goto
<1>1. CASE WorkerBegins
  <2> USE <1>1 DEF WorkerBegins
  <2>1. TypeOK' OBVIOUS
  <2>2. HookInv' /\ TriesInv' OBVIOUS
  <2>3. /\ pc'[Worker] = "handler" /\ pc'[Heart] \in {"idle", "lock"}
        /\ \A c \in Callers \ {Worker, Heart} : pc'[c] = pc[c]
    OBVIOUS
  <2>4. LockInv' BY <2>3
  <2>5. WinnerInv' OBVIOUS
  <2>6. SaysInv' /\ ClosedInv' OBVIOUS
  <2> QED BY <2>1, <2>2, <2>4, <2>5, <2>6
<1>2. ASSUME NEW o \in {"success", "failure"}, HandlerEnds(o) PROVE IInv'
    BY <1>2 DEF HandlerEnds
<1> QED BY <1>1, <1>2 DEF Run

LEMMA TerminateStep == ASSUME IInv, NEW t \in Terminators, TerminateHook(t) PROVE IInv'
<1> USE ThreadsDiffer DEF TerminateHook, IInv, TypeOK, HookInv, TriesInv, LockInv, WinnerInv, SaysInv,
        ClosedInv, Holding, Decided, Outcome, Telling, Deciding, ThreadStates, Deliverers, Callers,
        Tries, lease, ctx, net, orch, Goto
<1>1. TypeOK' OBVIOUS
<1>2. HookInv' /\ TriesInv' OBVIOUS
<1>3. LockInv' OBVIOUS
<1>4. pc'[t] \in {"lock", "out"} /\ \A c \in Callers \ {t} : pc'[c] = pc[c]
    OBVIOUS
<1>5. WinnerInv' BY <1>4, TerminatorsAssumption
<1>6. SaysInv' /\ ClosedInv' OBVIOUS
<1> QED BY <1>1, <1>2, <1>3, <1>5, <1>6

LEMMA DeliverStep == ASSUME IInv, NEW d \in Deliverers, Deliver(d) PROVE IInv'
<1> USE ThreadsDiffer DEF IInv, TypeOK, HookInv, TriesInv, LockInv, WinnerInv, SaysInv, ClosedInv,
        Holding, Decided, Outcome, Telling, Deciding, ThreadStates, Deliverers, Callers,
        Tries, lease, ctx, net, orch, Goto
<1>1. CASE DeliverLock(d)
  <2> USE <1>1 DEF DeliverLock
  <2>1. TypeOK'
    <3>1. d \in Callers
      OBVIOUS
    <3>2. CASE done BY <3>1, <3>2
    <3>3. CASE ~done BY <3>1, <3>3
    <3> QED BY <3>2, <3>3
  <2>2. HookInv' /\ TriesInv' OBVIOUS
  <2>3. LockInv' OBVIOUS
  <2>4. WinnerInv' OBVIOUS
  <2>5. SaysInv' /\ ClosedInv' OBVIOUS
  <2> QED BY <2>1, <2>2, <2>3, <2>4, <2>5
<1>2. CASE DeliverVerdict(d) BY <1>2 DEF DeliverVerdict, ErrorOf
<1>3. CASE DeliverStop(d) BY <1>3, TriesBound DEF DeliverStop
<1> QED BY <1>1, <1>2, <1>3 DEF Deliver

LEMMA CallStep == ASSUME IInv, NEW c \in Callers, Call(c) PROVE IInv'
<1> USE ThreadsDiffer DEF IInv, TypeOK, HookInv, TriesInv, LockInv, WinnerInv, SaysInv, ClosedInv,
        Holding, Decided, Outcome, Telling, Deciding, ThreadStates, Deliverers, Callers,
        Tries, lease, ctx, net, orch, Goto, Return
<1>1. CASE Attempt(c) BY <1>1, TriesBound DEF Attempt, Messages, Outcomes, Replies
<1>2. CASE CallAnswered(c) BY <1>2 DEF CallAnswered
<1>3. CASE CallClosed(c) BY <1>3 DEF CallClosed
<1>4. CASE CallFails(c) BY <1>4 DEF CallFails
<1> QED BY <1>1, <1>2, <1>3, <1>4 DEF Call

LEMMA HeartStep == ASSUME IInv, HeartLoop PROVE IInv'
<1> USE ThreadsDiffer DEF IInv, TypeOK, HookInv, TriesInv, LockInv, WinnerInv, SaysInv, ClosedInv,
        Holding, Decided, Outcome, Telling, Deciding, ThreadStates, Deliverers, Callers,
        Tries, lease, ctx, net, orch, Goto
<1>1. CASE HeartWakes BY <1>1 DEF HeartWakes
<1>2. CASE HeartLock BY <1>2, TriesBound DEF HeartLock
<1>3. CASE HeartMarksLost BY <1>3 DEF HeartMarksLost
<1> QED BY <1>1, <1>2, <1>3 DEF HeartLoop

LEMMA NetworkStep == ASSUME IInv, Network PROVE IInv'
<1> USE ThreadsDiffer DEF IInv, TypeOK, HookInv, TriesInv, LockInv, WinnerInv, SaysInv, ClosedInv,
        Holding, Decided, Outcome, Telling, Deciding, Replies, Messages, Deliverers, Callers,
        Tries, lease, ctx, net, orch, Answer
<1>1. ASSUME NEW m \in wire, Receive(m) PROVE IInv'
    BY <1>1 DEF Receive
<1>2. ASSUME NEW m \in wire, Refuse(m) PROVE IInv'
    BY <1>2 DEF Refuse
<1>3. ASSUME NEW m \in wire, Lose(m) PROVE IInv'
    BY <1>3 DEF Lose
<1> QED BY <1>1, <1>2, <1>3 DEF Network

LEMMA PlatformStep == ASSUME IInv, Platform PROVE IInv'
BY DEF Platform, Expire, TearDown, Kill, IInv, TypeOK, HookInv, TriesInv, LockInv, WinnerInv, SaysInv, ClosedInv,
        Holding, Decided, Outcome, Telling, Deciding, Tries, lease, ctx, net, orch

\* IInv is inductive: every reachable state satisfies it.
THEOREM Inductive == Spec => []IInv
<1>1. IInv /\ [Next]_vars => IInv'
  <2> SUFFICES ASSUME IInv, [Next]_vars PROVE IInv'
      OBVIOUS
  <2>1. CASE UNCHANGED vars
    BY <2>1 DEF vars, lease, ctx, net, orch, IInv, TypeOK, HookInv, TriesInv, LockInv, WinnerInv,
        SaysInv, ClosedInv, Holding, Decided, Outcome, Telling, Deciding, Tries
  <2> QED
    BY <2>1, HookStep, RunStep, TerminateStep, DeliverStep, CallStep, HeartStep, NetworkStep,
       PlatformStep DEF Next
<1> QED BY <1>1, InitInv, PTL DEF Spec

-----------------------------------------------------------------------------
\* Every variable keeps its type; in particular no call exceeds its attempts.
THEOREM TypeCorrect == Spec => []TypeOK
<1>1. IInv => TypeOK BY DEF IInv
<1> QED BY <1>1, Inductive, PTL

\* Whatever the orchestrator took is what GET /status reports, for any number
\* of racing /terminate hooks, retries, lost answers and late duplicates.
THEOREM OneVerdictHolds == Spec => []OneVerdict
<1>1. IInv => OneVerdict BY DEF IInv, SaysInv, Decided, OneVerdict
<1> QED BY <1>1, Inductive, PTL

\* A heartbeat call and the decision of the lease exclude each other.
THEOREM BeatExclusion == Spec => []BeatExcludesVerdict
<1>1. IInv => BeatExcludesVerdict
  BY DEF IInv, LockInv, WinnerInv, Deciding, Telling, BeatExcludesVerdict
<1> QED BY <1>1, Inductive, PTL

\* A lease is marked lost only when its token is closed.
THEOREM LostIsTrueHolds == Spec => []LostIsTrue
<1>1. IInv => LostIsTrue BY DEF IInv, ClosedInv, LostIsTrue
<1> QED BY <1>1, Inductive, PTL

-----------------------------------------------------------------------------
(* The runtime implements LeasePromise: each step of a thread, of the network *)
(* or of the platform decides, tells, closes, learns, or maps to a stutter.   *)

LEMMA DecidedVerdict == ASSUME IInv, NEW o \in Outcomes, Decided(o) PROVE Verdict = o
BY DEF Decided, Verdict, ErrorOf, Outcomes, Deliverers, IInv, TypeOK

\* A step that leaves done and error alone, and moves no thread into or out of
\* the critical section of _deliver, leaves the verdict as it was.
LEMMA SameVerdict ==
    ASSUME IInv, done' = done, error' = error,
           pc[Worker] = "verdict" => result' = result,
           \A d \in Deliverers : pc'[d] = "verdict" <=> pc[d] = "verdict"
    PROVE  Verdict' = Verdict
BY DEF Verdict, Deliverers

LEMMA PromiseHook == ASSUME IInv, RunHook PROVE [Promise!Next]_(Promise!vars)
<1> USE DEF ctx, net, orch, Promise!vars
<1>1. ASSUME UNCHANGED <<pc, result, ctx, orch>> PROVE UNCHANGED Promise!vars
    BY <1>1 DEF Verdict
<1>2. ASSUME NEW k \in Kinds, RunBroken(k) PROVE Promise!Decide("CompleterInit")
    BY <1>2 DEF RunBroken, Promise!Decide, Verdict, IInv, HookInv, Deliverers, Callers
<1> QED BY <1>1, <1>2 DEF RunHook, RunIgnored, RunRaises, StartWorker, RunAccepts, Promise!Next

LEMMA PromiseDeliver ==
    ASSUME IInv, NEW d \in Deliverers, Deliver(d) PROVE [Promise!Next]_(Promise!vars)
<1> USE ThreadsDiffer, TerminatorsAssumption DEF IInv, TypeOK, orch, Promise!vars, Goto, Deliverers, Callers
<1>1. ASSUME DeliverLock(d), ~done PROVE Promise!Decide(Outcome(d)) /\ Outcome(d) \in Outcomes
  <2>1. Outcome(d) \in Outcomes
    BY <1>1 DEF DeliverLock, Outcome, Outcomes, WinnerInv
  <2>2. Verdict = "undecided"
    BY <1>1 DEF Verdict
  <2>3. done' /\ pc'[d] = "verdict" /\ result' = result
    BY <1>1 DEF DeliverLock, lease
  <2>4. d # Worker => pc'[Worker] # "verdict"
    BY <1>1 DEF DeliverLock, WinnerInv, Deciding
  <2>5. Verdict' = Outcome(d)
    BY <2>3, <2>4 DEF Verdict, Outcome
  <2> QED BY <1>1, <2>1, <2>2, <2>5 DEF DeliverLock, Promise!Decide
<1>2. ASSUME DeliverLock(d), done PROVE UNCHANGED Promise!vars
    BY <1>2 DEF DeliverLock, Verdict, lease
<1>3. ASSUME DeliverVerdict(d) PROVE UNCHANGED Promise!vars
  <2>1. Verdict = Outcome(d) /\ Outcome(d) \in Outcomes
    BY <1>3 DEF DeliverVerdict, Verdict, Outcome, Outcomes, WinnerInv, Deciding
  <2>2. Decided(Outcome(d))'
    BY <1>3 DEF DeliverVerdict, Decided, Outcome, WinnerInv, Deciding, lease
  <2>3. Verdict' = Outcome(d)
    BY <2>1, <2>2, <1>3 DEF DeliverVerdict, Decided, Verdict, Outcome, ErrorOf, Outcomes, lease
  <2> QED BY <2>1, <2>3, <1>3 DEF DeliverVerdict
<1>4. ASSUME DeliverStop(d) PROVE UNCHANGED Promise!vars
    BY <1>4, SameVerdict DEF DeliverStop, lease
<1> QED BY <1>1, <1>2, <1>3, <1>4 DEF Deliver, Promise!Next

LEMMA PromiseCall ==
    ASSUME IInv, NEW c \in Callers, Call(c) PROVE [Promise!Next]_(Promise!vars)
<1> USE DEF IInv, TypeOK, orch, ctx, lease, Promise!vars, Goto, Return, Deliverers, Callers
<1>1. Verdict' = Verdict
    BY SameVerdict DEF Call, Attempt, CallAnswered, CallClosed, CallFails
<1>2. ASSUME CallClosed(c) PROVE Promise!Learn \/ UNCHANGED Promise!vars
    BY <1>1, <1>2 DEF CallClosed, Promise!Learn, ClosedInv
<1>3. ASSUME Attempt(c) \/ CallAnswered(c) \/ CallFails(c) PROVE UNCHANGED Promise!vars
    BY <1>1, <1>3 DEF Attempt, CallAnswered, CallFails
<1> QED BY <1>2, <1>3 DEF Call, Promise!Next

LEMMA PromiseNetwork == ASSUME IInv, Network PROVE [Promise!Next]_(Promise!vars)
<1> USE DEF IInv, TypeOK, orch, ctx, lease, Promise!vars
<1>1. Verdict' = Verdict
    BY DEF Network, Receive, Refuse, Lose, Verdict
<1>2. ASSUME NEW m \in wire, Receive(m), accepted' # accepted \/ token' # token PROVE Promise!Hear
  <2>1. m.by # Heart /\ m.what \in Outcomes /\ accepted' = accepted \union {m.what} /\ token' = "answered"
    BY <1>2 DEF Receive, SaysInv, Messages
  <2>2. Verdict = m.what
    BY <2>1, DecidedVerdict DEF SaysInv
  <2>3. \A o \in accepted : o = Verdict
    BY DecidedVerdict DEF SaysInv
  <2> QED BY <1>1, <1>2, <2>1, <2>2, <2>3 DEF Receive, Promise!Hear
<1>3. ASSUME accepted' = accepted, token' = token PROVE UNCHANGED Promise!vars
    BY <1>1, <1>3 DEF Network, Receive, Refuse, Lose
<1> QED BY <1>2, <1>3 DEF Network, Refuse, Lose, Promise!Next

\* The lease is decided once, the orchestrator hears only the decision, and it
\* is called lost only after it was closed: LeaseRuntime implements LeasePromise.
THEOREM KeepsPromiseHolds == Spec => KeepsPromise
<1>1. Init => Promise!Init
  BY DEF Init, Promise!Init, Verdict
<1>2. IInv /\ [Next]_vars => [Promise!Next]_(Promise!vars)
  <2> SUFFICES ASSUME IInv, [Next]_vars PROVE [Promise!Next]_(Promise!vars)
      OBVIOUS
  <2> USE ThreadsDiffer DEF IInv, TypeOK, lease, ctx, net, orch, Promise!vars, Goto, Deliverers, Callers
  <2>1. CASE UNCHANGED vars BY <2>1 DEF vars, Verdict
  <2>2. CASE Run
    BY <2>2, SameVerdict DEF Run, WorkerBegins, HandlerEnds
  <2>3. ASSUME NEW t \in Terminators, TerminateHook(t) PROVE UNCHANGED Promise!vars
    BY <2>3, SameVerdict DEF TerminateHook
  <2>4. CASE HeartLoop
    <3>1. Verdict' = Verdict
      BY <2>4, SameVerdict DEF HeartLoop, HeartWakes, HeartLock, HeartMarksLost
    <3> QED BY <3>1, <2>4 DEF HeartLoop, HeartWakes, HeartLock, HeartMarksLost, Promise!Next,
            Promise!Learn, ClosedInv
  <2>5. CASE Platform
    BY <2>5 DEF Platform, Expire, TearDown, Kill, Verdict, Promise!Next, Promise!Close
  <2> QED
    BY <2>1, <2>2, <2>3, <2>4, <2>5, PromiseHook, PromiseDeliver, PromiseCall, PromiseNetwork DEF Next
<1> QED BY <1>1, <1>2, Inductive, PTL DEF Spec, KeepsPromise, Promise!Spec
=============================================================================
