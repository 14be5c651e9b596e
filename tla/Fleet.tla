------------------------------- MODULE Fleet -------------------------------
(***************************************************************************)
(* Fleet (src/microvm/fleet.py, 296-411): one client that scales, drains,  *)
(* suspends, resumes and reaps the microVMs of an image, through a thread  *)
(* pool it keeps between operations.                                       *)
(*                                                                         *)
(* The fleet holds no list of its own: every operation starts from         *)
(* ListMicrovms, which lags behind a state change (a launch is listed at   *)
(* once), corrected by the set of microVMs this object has terminated.     *)
(* The platform is external: it boots, suspends on idle, resumes on        *)
(* traffic and terminates at the lifetime's end, and any call on it may    *)
(* fail, with its effect or without.  A microVM is known by the place of   *)
(* its launch, so that a smaller one is older.                             *)
(***************************************************************************)
EXTENDS Naturals, FiniteSets, SequencesExt

CONSTANTS
    MaxVMs,       \* bound: microVMs ever launched; RunMicrovm fails past it
    Already,      \* bound: those launched before this Fleet object was made
    Width,        \* MAX_WORKERS, the threads of the pool
    MaxFailures,  \* bound: calls that fail
    MaxOps,       \* bound: operations the client begins
    MaxTurns      \* bound: state changes the platform makes by itself

ASSUME WidthAssumption == Width \in Nat \ {0}
ASSUME BoundsAssumption == MaxVMs \in Nat /\ Already \in 0..MaxVMs /\ MaxFailures \in Nat /\ MaxOps \in Nat /\ MaxTurns \in Nat

VARIABLES
    state, shown,   \* each microVM, and what ListMicrovms says of it
    terminated,     \* Fleet._terminated
    main,           \* the client thread
    op, want, wait, \* the operation: its name, and the arguments of scale_to
    seen,           \* the members it listed, "absent" for the others
    asked, goal,    \* one by one: microVMs terminated by it, and how many to
    tasks,          \* on the pool: its calls, in submission order
    strays,         \* calls still running for operations that have raised
    ops, failures, turns,
    acks,           \* history: per microVM, TerminateMicrovm calls that succeeded
    upset,          \* history: what stands between the operation and its result
    tangled         \* history: an operation began while strays ran

platform == <<state, shown>>
request  == <<op, want, wait, seen, goal>>
history  == <<turns, upset, tangled>>
vars == <<platform, terminated, main, request, asked, tasks, strays, ops, failures, acks, history>>

VMs    == 1..MaxVMs
Active == {"PENDING", "RUNNING", "SUSPENDING", "SUSPENDED"}   \* ACTIVE_STATES
States == Active \union {"absent", "TERMINATED"}
Free   == {"idle", "returned", "raised"}
Calls  == {"launch", "suspend", "resume", "terminate"}
Task   == [do : Calls, vm : 0..MaxVMs, at : {"queued", "running", "done", "failed"}]
Stray  == [run : 0..MaxOps, place : Nat, do : Calls, vm : 0..MaxVMs]

TypeOK ==
    /\ state \in [VMs -> States] /\ shown \in [VMs -> States]
    /\ terminated \subseteq VMs
    /\ main \in Free \union {"mapping", "waiting", "stepping"}
    /\ op \in {"none", "scale", "drain", "suspend_all", "resume_all", "reap"}
    /\ want \in 0..MaxVMs /\ wait \in BOOLEAN
    /\ seen \in [VMs -> States] /\ goal \in 0..MaxVMs
    /\ asked \subseteq VMs /\ Cardinality(asked) <= goal
    /\ tasks \in Seq(Task) /\ strays \subseteq Stray
    /\ ops \in 0..MaxOps /\ failures \in 0..MaxFailures /\ turns \in 0..MaxTurns
    /\ acks \in [VMs -> Nat]
    /\ upset \subseteq {"platform", "strays"} /\ tangled \in BOOLEAN

\* A new Fleet object, over the microVMs the image has by then.
Init ==
    /\ \E n \in 0..Already :
           state \in {s \in [VMs -> Active \union {"absent"}] : \A v \in VMs : s[v] = "absent" <=> v > n}
    /\ shown = state
    /\ terminated = {}
    /\ main = "idle" /\ op = "none" /\ want = 0 /\ wait = FALSE
    /\ seen = [v \in VMs |-> "absent"] /\ goal = 0 /\ asked = {}
    /\ tasks = <<>> /\ strays = {}
    /\ ops = 0 /\ failures = 0 /\ turns = 0
    /\ acks = [v \in VMs |-> 0]
    /\ upset = {} /\ tangled = FALSE

ActiveVMs == {v \in VMs : state[v] \in Active}

\* Mutant: the listing is taken as it is.
MembersListed == {v \in VMs : shown[v] \in Active}

\* members(): the listing, without what this object has terminated.
Members == {v \in VMs : shown[v] \in Active} \ terminated

-----------------------------------------------------------------------------
(* What a call does to the platform. *)

\* RunMicrovm makes the next microVM, which is listed at once; the other calls
\* change a microVM in the state they apply to.  A suspension is answered while
\* the microVM is still being suspended.
Effect(do, v) ==
    LET to(s) == state' = [state EXCEPT ![v] = s]
    IN CASE do = "launch"    -> /\ to("PENDING")
                                /\ shown' = [shown EXCEPT ![v] = "PENDING"]
         [] do = "suspend"   -> /\ IF state[v] = "RUNNING" THEN to("SUSPENDING") ELSE UNCHANGED state
                                /\ UNCHANGED shown
         [] do = "resume"    -> /\ IF state[v] = "SUSPENDED" THEN to("RUNNING") ELSE UNCHANGED state
                                /\ UNCHANGED shown
         [] do = "terminate" -> to("TERMINATED") /\ UNCHANGED shown

\* The microVM a call is about.
Target(do, vm) ==
    IF do = "launch" THEN {v \in VMs : \A u \in VMs : state[u] = "absent" <=> u >= v} ELSE {vm}

\* Mutant: the microVM is not remembered.
SetAsideForgotten(v) ==
    /\ acks' = [acks EXCEPT ![v] = @ + 1]
    /\ UNCHANGED terminated

\* _terminate(): the microVM is set aside once its termination has succeeded.
SetAside(v) ==
    /\ terminated' = terminated \union {v}
    /\ acks' = [acks EXCEPT ![v] = @ + 1]

CallSucceeds(do, v) ==
    /\ Effect(do, v)
    /\ IF do = "terminate" THEN SetAside(v) ELSE UNCHANGED <<terminated, acks>>
    /\ UNCHANGED failures

\* Mutant: _terminate() sets the microVM aside before it makes the call.
CallFailsSetAside(do, vm) ==
    /\ failures < MaxFailures /\ failures' = failures + 1
    /\ \/ \E v \in Target(do, vm) : Effect(do, v)
       \/ UNCHANGED platform
    /\ IF do = "terminate" THEN SetAside(vm) ELSE UNCHANGED <<terminated, acks>>

\* The call raises, whether or not the platform has carried it out.
CallFails(do, vm) ==
    /\ \/ /\ failures < MaxFailures /\ failures' = failures + 1
          /\ \/ \E v \in Target(do, vm) : Effect(do, v)
             \/ UNCHANGED platform
       \/ Target(do, vm) = {} /\ UNCHANGED <<failures, platform>>
    /\ UNCHANGED <<terminated, acks>>

-----------------------------------------------------------------------------
(* An operation begins with the listing. *)

Begin(name) ==
    /\ main \in Free /\ ops < MaxOps
    /\ ops' = ops + 1 /\ op' = name /\ asked' = {}
    /\ upset' = (IF strays # {} THEN {"strays"} ELSE {}) \union
                (IF \E v \in Members : state[v] = "TERMINATED" /\ acks[v] = 0
                 THEN {"platform"} ELSE {})
    /\ tangled' = (tangled \/ strays # {})
    /\ UNCHANGED <<platform, terminated, strays, failures, turns, acks>>

Look(S) == seen' = [v \in VMs |-> IF v \in S THEN shown[v] ELSE "absent"]

Queued(do, vm) == [do |-> do, vm |-> vm, at |-> "queued"]

ScaleUp(n, w) ==
    /\ n > Cardinality(Members)
    /\ Begin("scale")
    /\ want' = n /\ wait' = w /\ goal' = 0
    /\ Look(Members)
    /\ tasks' = [i \in 1..(n - Cardinality(Members)) |-> Queued("launch", 0)]
    /\ main' = "mapping"

ScaleDown(n) ==
    /\ n <= Cardinality(Members)
    /\ Begin("scale")
    /\ want' = n /\ wait' = FALSE /\ goal' = Cardinality(Members) - n
    /\ Look(Members)
    /\ tasks' = <<>>
    /\ main' = "stepping"

\* drain, suspend_all and resume_all: one call per chosen member, in the order
\* of the listing, which nothing settles.
Sweep(name, do, S) ==
    /\ Begin(name)
    /\ want' = 0 /\ wait' = FALSE /\ goal' = 0
    /\ Look(S)
    /\ \E order \in SetToSeqs(S) : tasks' = [i \in 1..Len(order) |-> Queued(do, order[i])]
    /\ main' = "mapping"

Drain      == Sweep("drain", "terminate", Members)
SuspendAll == Sweep("suspend_all", "suspend", {v \in Members : shown[v] = "RUNNING"})
ResumeAll  == Sweep("resume_all", "resume", {v \in Members : shown[v] = "SUSPENDED"})

\* The members past the age are the oldest ones, those up to some launch.
Reap(last) ==
    LET old == {v \in Members : v <= last}
    IN /\ Begin("reap")
       /\ want' = 0 /\ wait' = FALSE /\ goal' = Cardinality(old)
       /\ Look(old)
       /\ tasks' = <<>>
       /\ main' = "stepping"

-----------------------------------------------------------------------------
(* One call after the other: scale-down and reap. *)

Left == {v \in VMs : seen[v] # "absent"} \ asked

\* scale_down_victims: a member listed as SUSPENDED, or else the youngest of the
\* others, a SUSPENDING one among them.
Coldest(S) ==
    LET suspended == {v \in S : seen[v] = "SUSPENDED"}
    IN IF suspended # {} THEN suspended ELSE {v \in S : \A u \in S : u <= v}

\* Mutant: the members that are not suspended are taken oldest first.
NextInTurnOldest ==
    IF op = "reap" THEN Left
    ELSE LET suspended == {v \in Left : seen[v] = "SUSPENDED"}
         IN IF suspended # {} THEN suspended ELSE {v \in Left : \A u \in Left : v <= u}

NextInTurn == IF op = "reap" THEN Left ELSE Coldest(Left)

Terminate(v) ==
    /\ main = "stepping" /\ Cardinality(asked) < goal /\ v \in NextInTurn
    /\ CallSucceeds("terminate", v)
    /\ asked' = asked \union {v}
    /\ UNCHANGED <<main, request, tasks, strays, ops, history>>

\* The first call that raises ends the operation.
TerminateRaises(v) ==
    /\ main = "stepping" /\ Cardinality(asked) < goal /\ v \in NextInTurn
    /\ CallFails("terminate", v)
    /\ main' = "raised"
    /\ UNCHANGED <<request, asked, tasks, strays, ops, history>>

StepsDone ==
    /\ main = "stepping" /\ Cardinality(asked) = goal
    /\ main' = "returned"
    /\ UNCHANGED <<platform, terminated, request, asked, tasks, strays, ops, failures, acks, history>>

-----------------------------------------------------------------------------
(* list(pool.map(...)): launches and sweeps. *)

At(label) == {i \in 1..Len(tasks) : tasks[i].at = label}

\* A free thread takes the oldest call in the pool's queue.
TaskStarts(i) ==
    /\ main = "mapping" /\ i \in At("queued") /\ \A j \in At("queued") : i <= j
    /\ Cardinality(At("running")) + Cardinality(strays) < Width
    /\ tasks' = [tasks EXCEPT ![i].at = "running"]
    /\ UNCHANGED <<platform, terminated, main, request, asked, strays, ops, failures, acks, history>>

TaskSucceeds(i) ==
    /\ i \in At("running")
    /\ \E v \in Target(tasks[i].do, tasks[i].vm) :
           /\ CallSucceeds(tasks[i].do, v)
           /\ tasks' = [tasks EXCEPT ![i].at = "done", ![i].vm = v]
    /\ UNCHANGED <<main, request, asked, strays, ops, history>>

TaskFails(i) ==
    /\ i \in At("running")
    /\ CallFails(tasks[i].do, tasks[i].vm)
    /\ tasks' = [tasks EXCEPT ![i].at = "failed"]
    /\ UNCHANGED <<main, request, asked, strays, ops, history>>

\* Every result is there; a scale-up asked to wait turns to its microVMs.
MapReturns ==
    /\ main = "mapping" /\ At("done") = 1..Len(tasks)
    /\ IF wait THEN main' = "waiting" /\ UNCHANGED tasks
               ELSE main' = "returned" /\ tasks' = <<>>
    /\ UNCHANGED <<platform, terminated, request, asked, strays, ops, failures, acks, history>>

Abandoned ==
    {[run |-> ops, place |-> i, do |-> tasks[i].do, vm |-> tasks[i].vm] : i \in At("running")}

\* Mutant: the exception is left in its future, and the results waited for.
MapRaisesLast ==
    /\ main = "mapping" /\ tasks # <<>> /\ tasks[1].at = "failed"
    /\ main' = "raised"
    /\ tasks' = <<>>
    /\ strays' = strays \union Abandoned
    /\ UNCHANGED <<platform, terminated, request, asked, ops, failures, acks, history>>

\* The results are taken in order.  At the first exception the calls still
\* queued are cancelled; those that run go on in the pool.
MapRaises ==
    /\ main = "mapping"
    /\ \E i \in At("failed") : \A j \in 1..(i - 1) : j \in At("done")
    /\ main' = "raised"
    /\ tasks' = <<>>
    /\ strays' = strays \union Abandoned
    /\ UNCHANGED <<platform, terminated, request, asked, ops, failures, acks, history>>

StrayEnds(c) ==
    /\ \/ \E v \in Target(c.do, c.vm) : CallSucceeds(c.do, v)
       \/ CallFails(c.do, c.vm)
    /\ strays' = strays \ {c}
    /\ UNCHANGED <<main, request, asked, tasks, ops, history>>

\* wait_until(..., "RUNNING"), one microVM after the other.
SeenRunning ==
    /\ main = "waiting" /\ tasks # <<>> /\ state[tasks[1].vm] = "RUNNING"
    /\ tasks' = Tail(tasks)
    /\ UNCHANGED <<platform, terminated, main, request, asked, strays, ops, failures, acks, history>>

\* It is terminated, the time is over or GetMicrovm raises.
WaitRaises ==
    /\ main = "waiting" /\ tasks # <<>>
    /\ main' = "raised" /\ tasks' = <<>>
    /\ UNCHANGED <<platform, terminated, request, asked, strays, ops, failures, acks, history>>

WaitDone ==
    /\ main = "waiting" /\ tasks = <<>>
    /\ main' = "returned"
    /\ UNCHANGED <<platform, terminated, request, asked, tasks, strays, ops, failures, acks, history>>

-----------------------------------------------------------------------------
(* The platform by itself. *)

client == <<terminated, main, request, asked, tasks, strays, ops, failures, acks, tangled>>

Turn(v, from, to) ==
    /\ state[v] = from /\ turns < MaxTurns
    /\ turns' = turns + 1
    /\ state' = [state EXCEPT ![v] = to]
    /\ UNCHANGED <<shown, client, upset>>

Boot(v)    == Turn(v, "PENDING", "RUNNING")
Idle(v)    == Turn(v, "RUNNING", "SUSPENDING")
Traffic(v) == Turn(v, "SUSPENDED", "RUNNING")

\* A suspension is complete.
Freeze(v) ==
    /\ state[v] = "SUSPENDING"
    /\ state' = [state EXCEPT ![v] = "SUSPENDED"]
    /\ UNCHANGED <<shown, client, turns, upset>>

\* maximumDurationInSeconds or the idle policy's auto-terminate.
Expire(v) ==
    /\ state[v] \in Active /\ turns < MaxTurns
    /\ turns' = turns + 1
    /\ state' = [state EXCEPT ![v] = "TERMINATED"]
    /\ upset' = upset \union {"platform"}
    /\ UNCHANGED <<shown, client>>

\* ListMicrovms catches up.
Surface(v) ==
    /\ shown[v] # state[v]
    /\ shown' = [shown EXCEPT ![v] = state[v]]
    /\ UNCHANGED <<state, client, turns, upset>>

-----------------------------------------------------------------------------
Operation ==
    \/ \E n \in 0..MaxVMs : ScaleDown(n) \/ \E w \in BOOLEAN : ScaleUp(n, w)
    \/ Drain \/ SuspendAll \/ ResumeAll
    \/ \E v \in VMs : Reap(v)

Stepping == StepsDone \/ \E v \in VMs : Terminate(v) \/ TerminateRaises(v)
Mapping == MapReturns \/ MapRaises
Waiting == SeenRunning \/ WaitRaises \/ WaitDone
PoolTask(i) == TaskStarts(i) \/ TaskSucceeds(i) \/ TaskFails(i)

Platform == \E v \in VMs : Boot(v) \/ Idle(v) \/ Freeze(v) \/ Traffic(v) \/ Expire(v) \/ Surface(v)

AStrayEnds == \E c \in strays : StrayEnds(c)

Next ==
    \/ Operation \/ Stepping \/ Mapping \/ Waiting \/ Platform \/ AStrayEnds
    \/ \E i \in 1..MaxVMs : PoolTask(i)

Spec == Init /\ [][Next]_vars

\* Threads that can run do, and every call ends, with a result or an exception.
Fairness ==
    /\ WF_vars(Stepping) /\ WF_vars(Mapping) /\ WF_vars(Waiting)
    /\ \A i \in 1..MaxVMs : WF_vars(PoolTask(i))
    /\ WF_vars(AStrayEnds)

FairSpec == Spec /\ Fairness

-----------------------------------------------------------------------------
\* A microVM that the fleet no longer counts is really terminated: a termination
\* that failed leaves it a member, for the next drain or scale-down to find.
ForgottenAreDead == TypeOK /\ \A v \in terminated : state[v] = "TERMINATED"

\* Although ListMicrovms goes on showing a terminated microVM for a while, the
\* fleet terminates it once; only calls left running by an operation that raised
\* can come twice.
TerminatedOnce == ~tangled => \A v \in VMs : acks[v] <= 1

\* What returns has done what it was asked for, even over a stale listing and after
\* failed operations.  scale_to leaves as many active microVMs as it was asked for,
\* unless the platform terminated one or calls of an earlier operation were still
\* running; drain leaves the members it listed terminated and, with nobody else
\* about, no active microVM.
ReturnsExact ==
    main = "returned" =>
        /\ op = "scale" /\ upset = {} => Cardinality(ActiveVMs) = want
        /\ op = "drain" /\ upset = {} => ActiveVMs = {}
        /\ \A v \in VMs : op = "drain" /\ seen[v] # "absent" => state[v] = "TERMINATED"

\* However far a scale-down gets before a call fails, what it has terminated was
\* colder than what it leaves, by the listing it began with: nothing goes before a
\* SUSPENDED member, and of the others, one that is just being suspended included,
\* none before a younger one (fleet.py:366-369).
SparesWarm ==
    op = "scale" =>
        \A v \in asked, u \in Left :
            seen[v] # "SUSPENDED" => seen[u] # "SUSPENDED" /\ u < v

\* Every operation comes back to its caller.
OpsEnd == main \notin Free ~> main \in Free

=============================================================================
