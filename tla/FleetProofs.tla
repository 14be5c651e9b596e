----------------------------- MODULE FleetProofs -----------------------------
(***************************************************************************)
(* Proofs about Fleet, for any number of microVMs, any width of the pool   *)
(* and any number of operations, failing calls and changes the platform    *)
(* makes by itself.                                                        *)
(***************************************************************************)
EXTENDS Fleet, FiniteSetTheorems, SequenceTheorems, TLAPS

Seen    == {v \in VMs : seen[v] # "absent"}
Pending == {i \in 1..Len(tasks) : tasks[i].at \in {"queued", "running"}}

\* The listing may be late to show that a microVM has ended, and in nothing else
\* that counts; what this object has terminated is what it was told has ended.
PlatformInv == \A v \in VMs :
    /\ state[v] \in Active => shown[v] \in Active
    /\ state[v] = "absent" => shown[v] = "absent"
    /\ v \in terminated => state[v] = "TERMINATED"
    /\ acks[v] > 0 <=> v \in terminated

\* Every call but a launch is about a microVM, and calls left running are an
\* operation's that has raised.
CallInv ==
    /\ \A i \in 1..Len(tasks) : tasks[i].do # "launch" \/ tasks[i].at = "done" => tasks[i].vm \in VMs
    /\ \A c \in strays : c.do # "launch" => c.vm \in VMs
    /\ main \notin {"mapping", "waiting"} => tasks = <<>>
    /\ main = "waiting" => \A i \in 1..Len(tasks) : tasks[i].at = "done"
    /\ strays # {} => main = "raised" \/ ("strays" \in upset /\ tangled)

\* What is to be terminated has not been yet, and is asked for once.
OnceInv == ~tangled =>
    /\ \A v \in VMs : acks[v] <= 1
    /\ \A i \in 1..Len(tasks) :
        /\ tasks[i].do = "terminate" /\ i \in Pending => tasks[i].vm \notin terminated
        /\ \A j \in 1..Len(tasks) :
            tasks[i].do = "terminate" /\ tasks[j].do = "terminate" /\ tasks[i].vm = tasks[j].vm => i = j
    /\ \A c \in strays : c.do = "terminate" =>
        /\ c.vm \notin terminated
        /\ \A d \in strays : d.do = "terminate" /\ d.vm = c.vm => c = d
    /\ main = "stepping" => \A v \in Left : v \notin terminated

\* How far a scale_to has got.
ScaleInv == op = "scale" =>
    /\ asked \subseteq Seen
    /\ \A i \in 1..Len(tasks) : tasks[i].do = "launch"
    /\ upset = {} =>
        /\ main = "stepping" => ActiveVMs = Seen \ asked /\ Cardinality(Seen) = want + goal
        /\ main = "mapping" /\ At("failed") = {} => Cardinality(ActiveVMs) + Cardinality(Pending) = want
        /\ main \in {"waiting", "returned"} => Cardinality(ActiveVMs) = want

\* How far a drain has got.
DrainInv ==
    /\ wait \/ main = "waiting" => op = "scale"
    /\ main = "stepping" => op # "drain"
    /\ op = "drain" =>
        /\ main = "mapping" =>
            /\ \A i \in 1..Len(tasks) : tasks[i].do = "terminate"
            /\ \A v \in Seen : state[v] = "TERMINATED" \/
                   \E i \in 1..Len(tasks) : tasks[i].vm = v /\ tasks[i].at # "done"
        /\ main = "returned" => \A v \in Seen : state[v] = "TERMINATED"
        /\ main \in {"mapping", "returned"} /\ upset = {} => ActiveVMs \subseteq Seen

IInv ==
    TypeOK /\ PlatformInv /\ CallInv /\ OnceInv /\ ScaleInv /\ DrainInv /\ SparesWarm

-----------------------------------------------------------------------------
(* Sets of microVMs and of calls. *)

LEMMA VMsFinite == IsFiniteSet(VMs) /\ Cardinality(VMs) = MaxVMs /\ MaxVMs \in Nat
BY BoundsAssumption, FS_Interval DEF VMs

LEMMA SetsFinite ==
    ASSUME NEW S, S \subseteq VMs
    PROVE  IsFiniteSet(S) /\ Cardinality(S) \in 0..MaxVMs
BY VMsFinite, FS_Subset, FS_CardinalityType

LEMMA StateNames ==
    /\ {"PENDING", "RUNNING", "SUSPENDING", "SUSPENDED", "TERMINATED", "absent"} = States
    /\ Active = States \ {"TERMINATED", "absent"} /\ Active \subseteq States
BY DEF States, Active

-----------------------------------------------------------------------------
(* One call on the platform. *)

\* What every call keeps, whatever becomes of it.
Kept ==
    /\ state' \in [VMs -> States] /\ shown' \in [VMs -> States]
    /\ terminated' \subseteq VMs /\ acks' \in [VMs -> Nat]
    /\ PlatformInv'
    /\ \A v \in VMs : state[v] = "TERMINATED" => state'[v] = "TERMINATED"

\* The microVM a call is about, and what it does to it.
LEMMA Effected ==
    ASSUME TypeOK, PlatformInv, NEW do \in Calls, NEW vm, do # "launch" => vm \in VMs,
           NEW v \in Target(do, vm), Effect(do, v)
    PROVE  /\ v \in VMs /\ (do # "launch" => v = vm)
           /\ state' \in [VMs -> States] /\ shown' \in [VMs -> States]
           /\ \A u \in VMs :
               /\ state[u] = "TERMINATED" => state'[u] = "TERMINATED"
               /\ state'[u] \in Active => shown'[u] \in Active
               /\ state'[u] = "absent" => shown'[u] = "absent"
           /\ do = "launch" => v \notin ActiveVMs /\ ActiveVMs' = ActiveVMs \union {v}
           /\ do = "terminate" => state'[v] = "TERMINATED" /\ ActiveVMs' = ActiveVMs \ {v}
           /\ do \in {"suspend", "resume"} => ActiveVMs' = ActiveVMs
<1> USE DEF States, Active
<1>1. CASE do = "launch"
  <2>1. v \in VMs /\ state[v] = "absent"
    BY <1>1 DEF Target, VMs
  <2>2. state' = [state EXCEPT ![v] = "PENDING"] /\ shown' = [shown EXCEPT ![v] = "PENDING"]
    BY <1>1 DEF Effect
  <2> QED BY <1>1, <2>1, <2>2 DEF TypeOK, PlatformInv, ActiveVMs
<1>2. CASE do = "terminate"
  <2>1. v = vm /\ v \in VMs
    BY <1>2 DEF Target
  <2>2. state' = [state EXCEPT ![v] = "TERMINATED"] /\ shown' = shown
    BY <1>2 DEF Effect
  <2> QED BY <1>2, <2>1, <2>2 DEF TypeOK, PlatformInv, ActiveVMs
<1>3. CASE do = "suspend"
  <2>1. v = vm /\ v \in VMs
    BY <1>3 DEF Target
  <2>2. /\ state' = IF state[v] = "RUNNING" THEN [state EXCEPT ![v] = "SUSPENDING"] ELSE state
        /\ shown' = shown
    BY <1>3 DEF Effect
  <2> QED BY <1>3, <2>1, <2>2 DEF TypeOK, PlatformInv, ActiveVMs
<1>4. CASE do = "resume"
  <2>1. v = vm /\ v \in VMs
    BY <1>4 DEF Target
  <2>2. /\ state' = IF state[v] = "SUSPENDED" THEN [state EXCEPT ![v] = "RUNNING"] ELSE state
        /\ shown' = shown
    BY <1>4 DEF Effect
  <2> QED BY <1>4, <2>1, <2>2 DEF TypeOK, PlatformInv, ActiveVMs
<1> QED BY <1>1, <1>2, <1>3, <1>4 DEF Calls

LEMMA Succeeded ==
    ASSUME TypeOK, PlatformInv, NEW do \in Calls, NEW vm, do # "launch" => vm \in VMs,
           NEW v \in Target(do, vm), CallSucceeds(do, v)
    PROVE  /\ v \in VMs /\ (do # "launch" => v = vm) /\ Kept /\ failures' = failures
           /\ do # "terminate" => UNCHANGED <<terminated, acks>>
           /\ do = "launch" => v \notin ActiveVMs /\ ActiveVMs' = ActiveVMs \union {v}
           /\ do = "terminate" =>
               /\ state'[v] = "TERMINATED" /\ ActiveVMs' = ActiveVMs \ {v}
               /\ terminated' = terminated \union {v} /\ acks' = [acks EXCEPT ![v] = @ + 1]
           /\ do \in {"suspend", "resume"} => ActiveVMs' = ActiveVMs
<1>1. Effect(do, v) /\ failures' = failures
      /\ (do = "terminate" => terminated' = terminated \union {v} /\ acks' = [acks EXCEPT ![v] = @ + 1])
      /\ (do # "terminate" => UNCHANGED <<terminated, acks>>)
  BY DEF CallSucceeds, SetAside
<1>2. /\ v \in VMs /\ (do # "launch" => v = vm)
      /\ state' \in [VMs -> States] /\ shown' \in [VMs -> States]
      /\ \A u \in VMs :
          /\ state[u] = "TERMINATED" => state'[u] = "TERMINATED"
          /\ state'[u] \in Active => shown'[u] \in Active
          /\ state'[u] = "absent" => shown'[u] = "absent"
      /\ do = "launch" => v \notin ActiveVMs /\ ActiveVMs' = ActiveVMs \union {v}
      /\ do = "terminate" => state'[v] = "TERMINATED" /\ ActiveVMs' = ActiveVMs \ {v}
      /\ do \in {"suspend", "resume"} => ActiveVMs' = ActiveVMs
  BY <1>1, Effected
<1>3. terminated' \subseteq VMs /\ acks' \in [VMs -> Nat]
  <2>1. terminated \subseteq VMs /\ acks \in [VMs -> Nat]
    BY DEF TypeOK
  <2>2. CASE do = "terminate"
    BY <1>1, <1>2, <2>1, <2>2
  <2>3. CASE do # "terminate"
    BY <1>1, <2>1, <2>3
  <2> QED BY <2>2, <2>3
<1>4. PlatformInv'
  <2> SUFFICES ASSUME NEW u \in VMs
               PROVE  /\ u \in terminated' => state'[u] = "TERMINATED"
                      /\ acks'[u] > 0 <=> u \in terminated'
    BY <1>2 DEF PlatformInv
  <2>1. CASE do = "terminate" /\ u = v
    BY <1>1, <1>2, <2>1 DEF TypeOK
  <2>2. CASE ~(do = "terminate" /\ u = v)
    BY <1>1, <1>2, <2>2 DEF TypeOK, PlatformInv
  <2> QED BY <2>1, <2>2
<1> QED BY <1>1, <1>2, <1>3, <1>4 DEF Kept

LEMMA Failed ==
    ASSUME TypeOK, PlatformInv, NEW do \in Calls, NEW vm, do # "launch" => vm \in VMs,
           CallFails(do, vm)
    PROVE  /\ Kept /\ failures' \in 0..MaxFailures /\ UNCHANGED <<terminated, acks>>
           /\ do # "launch" => ActiveVMs' \subseteq ActiveVMs
<1>1. UNCHANGED <<terminated, acks>> /\ failures' \in 0..MaxFailures
  BY BoundsAssumption DEF CallFails, TypeOK
<1>2. CASE UNCHANGED platform
  BY <1>1, <1>2 DEF platform, Kept, TypeOK, PlatformInv, ActiveVMs
<1>3. ASSUME NEW v \in Target(do, vm), Effect(do, v)
      PROVE  Kept /\ (do # "launch" => ActiveVMs' \subseteq ActiveVMs)
  <2>1. /\ v \in VMs
        /\ state' \in [VMs -> States] /\ shown' \in [VMs -> States]
        /\ \A u \in VMs :
            /\ state[u] = "TERMINATED" => state'[u] = "TERMINATED"
            /\ state'[u] \in Active => shown'[u] \in Active
            /\ state'[u] = "absent" => shown'[u] = "absent"
        /\ do = "terminate" => ActiveVMs' = ActiveVMs \ {v}
        /\ do \in {"suspend", "resume"} => ActiveVMs' = ActiveVMs
    BY <1>3, Effected
  <2> QED BY <1>1, <2>1 DEF Kept, TypeOK, PlatformInv, Calls
<1> QED BY <1>1, <1>2, <1>3 DEF CallFails

-----------------------------------------------------------------------------
LEMMA InitInv == Init => IInv
<1> SUFFICES ASSUME Init PROVE IInv
  OBVIOUS
<1> USE BoundsAssumption
<1>1. state \in [VMs -> Active \union {"absent"}] /\ shown = state
  BY DEF Init
<1>2. TypeOK
  <2>1. Cardinality(asked) <= goal
    BY FS_EmptySet DEF Init
  <2>2. tasks \in Seq(Task) /\ strays = {} /\ asked = {} /\ terminated = {} /\ upset = {}
    BY DEF Init
  <2>3. state \in [VMs -> States] /\ shown \in [VMs -> States]
    BY <1>1, StateNames
  <2>4. seen \in [VMs -> States] /\ acks \in [VMs -> Nat]
    BY StateNames DEF Init
  <2>5. /\ want \in 0..MaxVMs /\ goal \in 0..MaxVMs /\ ops \in 0..MaxOps
        /\ failures \in 0..MaxFailures /\ turns \in 0..MaxTurns
        /\ main = "idle" /\ op = "none"
    BY DEF Init
  <2>6. wait \in BOOLEAN /\ tangled \in BOOLEAN
    BY DEF Init
  <2> QED BY <2>1, <2>2, <2>3, <2>4, <2>5, <2>6 DEF TypeOK, Free
<1>3. PlatformInv
  BY <1>1 DEF Init, PlatformInv
<1>4. CallInv /\ OnceInv
  BY DEF Init, CallInv, OnceInv
<1>5. ScaleInv /\ DrainInv /\ SparesWarm
  BY DEF Init, ScaleInv, DrainInv, SparesWarm
<1> QED BY <1>2, <1>3, <1>4, <1>5 DEF IInv

\* The platform by itself: no microVM comes back to life, and one that ends is
\* noticed in upset.
LEMMA PlatformStep == ASSUME IInv, Platform PROVE IInv'
<1> PICK v \in VMs : Boot(v) \/ Idle(v) \/ Freeze(v) \/ Traffic(v) \/ Expire(v) \/ Surface(v)
  BY DEF Platform
<1>1. UNCHANGED client
  BY DEF Boot, Idle, Freeze, Traffic, Turn, Expire, Surface
<1>2. /\ state' \in [VMs -> States] /\ shown' \in [VMs -> States]
      /\ turns' \in 0..MaxTurns /\ upset' \subseteq {"platform", "strays"}
      /\ upset \subseteq upset' /\ ("strays" \in upset' => "strays" \in upset)
  <2> USE BoundsAssumption DEF IInv, TypeOK, States, Active
  <2>1. CASE Boot(v) \/ Idle(v) \/ Traffic(v)
    <3>1. PICK from, to \in {"PENDING", "RUNNING", "SUSPENDING", "SUSPENDED"} : Turn(v, from, to)
      BY <2>1 DEF Boot, Idle, Traffic
    <3> QED BY <3>1 DEF Turn, client
  <2>2. CASE Expire(v)
    BY <2>2 DEF Expire, client
  <2>3. CASE Surface(v)
    BY <2>3 DEF Surface, client
  <2>4. CASE Freeze(v)
    BY <2>4 DEF Freeze, client
  <2> QED BY <2>1, <2>2, <2>3, <2>4
<1>3. \A u \in VMs : state[u] = "TERMINATED" => state'[u] = "TERMINATED"
  BY DEF IInv, TypeOK, Active, Boot, Idle, Freeze, Traffic, Turn, Expire, Surface
<1>4. ActiveVMs' \subseteq ActiveVMs /\ (upset' = {} => ActiveVMs' = ActiveVMs)
  BY DEF IInv, TypeOK, Active, ActiveVMs, Boot, Idle, Freeze, Traffic, Turn, Expire, Surface
<1>5. TypeOK'
  BY <1>1, <1>2 DEF IInv, TypeOK, client, request
<1>6. PlatformInv'
  <2>1. CASE Boot(v) \/ Idle(v) \/ Traffic(v)
    BY <2>1, <1>1 DEF IInv, TypeOK, PlatformInv, Active, Boot, Idle, Traffic, Turn, client
  <2>2. CASE Expire(v)
    BY <2>2, <1>1 DEF IInv, TypeOK, PlatformInv, Active, Expire, client
  <2>3. CASE Surface(v)
    BY <2>3, <1>1 DEF IInv, TypeOK, PlatformInv, Active, Surface, client
  <2>4. CASE Freeze(v)
    BY <2>4, <1>1 DEF IInv, TypeOK, PlatformInv, Active, Freeze, client
  <2> QED BY <2>1, <2>2, <2>3, <2>4
<1>7. CallInv' /\ OnceInv'
  BY <1>1, <1>2 DEF IInv, CallInv, OnceInv, Pending, Left, client, request
<1>8. ScaleInv'
  BY <1>1, <1>2, <1>4 DEF IInv, ScaleInv, Seen, Pending, At, client, request
<1>9. DrainInv' /\ SparesWarm'
  BY <1>1, <1>2, <1>3, <1>4 DEF IInv, DrainInv, SparesWarm, Seen, Left, client, request
<1> QED BY <1>5, <1>6, <1>7, <1>8, <1>9 DEF IInv

-----------------------------------------------------------------------------
(* An operation begins. *)

\* What the listing, corrected, says of the microVMs; when nothing stands between
\* the operation and its result, it is the truth.
LEMMA Listed ==
    ASSUME IInv, NEW name, Begin(name)
    PROVE  /\ Members \subseteq VMs /\ ActiveVMs \subseteq Members
           /\ upset' = {} => strays = {} /\ Members = ActiveVMs
           /\ \A v \in Members : v \notin terminated /\ shown[v] # "absent"
<1>1. Members \subseteq VMs /\ ActiveVMs \subseteq Members
      /\ \A v \in Members : v \notin terminated /\ shown[v] # "absent"
  BY StateNames DEF IInv, TypeOK, PlatformInv, Members, ActiveVMs
<1>2. ASSUME upset' = {} PROVE strays = {} /\ Members = ActiveVMs
  <2>1. strays = {} /\ \A v \in Members : ~(state[v] = "TERMINATED" /\ acks[v] = 0)
    BY <1>2 DEF Begin
  <2>2. ASSUME NEW v \in Members PROVE state[v] \in Active
    <3>1. v \in VMs /\ shown[v] \in Active /\ v \notin terminated
      BY DEF Members
    <3>2. acks[v] = 0
      BY <3>1 DEF IInv, TypeOK, PlatformInv
    <3> QED BY <2>1, <3>1, <3>2, StateNames DEF IInv, TypeOK, PlatformInv
  <2> QED BY <1>1, <2>1, <2>2 DEF ActiveVMs
<1> QED BY <1>1, <1>2

\* What every operation begins with.
LEMMA Begun ==
    ASSUME IInv, NEW name \in {"scale", "drain", "suspend_all", "resume_all", "reap"}, Begin(name),
           want' \in 0..MaxVMs, wait' \in BOOLEAN, goal' \in 0..MaxVMs,
           NEW S, S \subseteq Members, Look(S), tasks' \in Seq(Task),
           main' \in {"mapping", "stepping"},
           main' = "stepping" => tasks' = <<>>,
           wait' => name = "scale", main' = "stepping" => name # "drain",
           \A i \in 1..Len(tasks') : tasks'[i].at = "queued" /\ (tasks'[i].do # "launch" => tasks'[i].vm \in VMs)
    PROVE  /\ TypeOK' /\ PlatformInv' /\ CallInv' /\ SparesWarm' /\ Seen' = S
           /\ op' = name /\ asked' = {} /\ UNCHANGED <<state, terminated, acks>>
           /\ ~tangled' => strays' = {} /\ ~tangled
<1>1. /\ op' = name /\ asked' = {} /\ ops' \in 0..MaxOps
      /\ upset' \subseteq {"platform", "strays"} /\ tangled' = (tangled \/ strays # {})
      /\ (strays # {} => "strays" \in upset')
      /\ UNCHANGED <<state, shown, terminated, strays, failures, turns, acks>>
  BY BoundsAssumption DEF Begin, IInv, TypeOK, platform
<1>2. S \subseteq VMs /\ \A v \in S : shown[v] # "absent"
  BY Listed
<1>3. seen' \in [VMs -> States] /\ Seen' = S
  BY <1>2, StateNames DEF Look, Seen, IInv, TypeOK
<1>4. TypeOK'
  <2>1. Cardinality(asked') <= goal'
    BY <1>1, FS_EmptySet
  <2> QED BY <1>1, <1>3, <2>1 DEF IInv, TypeOK
<1>5. PlatformInv'
  BY <1>1 DEF IInv, PlatformInv
<1>6. CallInv'
  BY <1>1 DEF IInv, CallInv
<1>7. SparesWarm'
  BY <1>1 DEF SparesWarm
<1>8. ~tangled' => strays' = {} /\ ~tangled
  BY <1>1 DEF IInv, TypeOK
<1> QED BY <1>1, <1>3, <1>4, <1>5, <1>6, <1>7, <1>8

LEMMA ScaleStep ==
    ASSUME IInv, NEW n \in 0..MaxVMs, ScaleDown(n) \/ \E w \in BOOLEAN : ScaleUp(n, w)
    PROVE  IInv'
<1>1. Begin("scale") /\ want' = n /\ Look(Members)
  BY DEF ScaleDown, ScaleUp
<1>2. /\ Members \subseteq VMs /\ ActiveVMs \subseteq Members
      /\ upset' = {} => strays = {} /\ Members = ActiveVMs
      /\ \A v \in Members : v \notin terminated /\ shown[v] # "absent"
  BY <1>1, Listed
<1>3. Cardinality(Members) \in 0..MaxVMs /\ MaxVMs \in Nat
  BY <1>2, SetsFinite, BoundsAssumption
<1>4. CASE ScaleDown(n)
  <2>1. /\ goal' = Cardinality(Members) - n /\ n <= Cardinality(Members)
        /\ wait' = FALSE /\ tasks' = <<>> /\ main' = "stepping"
    BY <1>4 DEF ScaleDown
  <2>2. /\ tasks' \in Seq(Task) /\ Len(tasks') = 0 /\ goal' \in 0..MaxVMs
        /\ want' \in 0..MaxVMs /\ main' \in {"mapping", "stepping"}
    BY <1>1, <1>3, <2>1
  <2>0. wait' \in BOOLEAN /\ ~wait'
    BY <2>1
  <2>3. /\ TypeOK' /\ PlatformInv' /\ CallInv' /\ SparesWarm' /\ Seen' = Members
        /\ op' = "scale" /\ asked' = {} /\ UNCHANGED <<state, terminated, acks>>
        /\ ~tangled' => strays' = {} /\ ~tangled
    BY ONLY IInv, <1>1, <2>0, <2>1, <2>2, Begun
  <2>4. OnceInv'
    BY <1>2, <2>1, <2>2, <2>3 DEF IInv, OnceInv, Left, Seen
  <2>5. ScaleInv'
    BY <1>1, <1>2, <1>3, <2>1, <2>2, <2>3 DEF ScaleInv, ActiveVMs
  <2>6. DrainInv'
    BY <2>1, <2>3 DEF DrainInv
  <2> QED BY <2>3, <2>4, <2>5, <2>6 DEF IInv
<1>5. ASSUME NEW w \in BOOLEAN, ScaleUp(n, w) PROVE IInv'
  <2> DEFINE more == n - Cardinality(Members)
  <2>1. /\ n > Cardinality(Members) /\ goal' = 0 /\ wait' = w /\ main' = "mapping"
        /\ tasks' = [i \in 1..more |-> Queued("launch", 0)]
    BY <1>5 DEF ScaleUp
  <2>2. more \in Nat /\ more + Cardinality(Members) = n
    BY <1>3, <2>1
  <2> HIDE DEF more
  <2>3. /\ tasks' \in Seq(Task) /\ Len(tasks') = more
        /\ \A i \in 1..Len(tasks') : tasks'[i] = [do |-> "launch", vm |-> 0, at |-> "queued"]
    <3>1. Queued("launch", 0) \in Task
      BY <1>3 DEF Queued, Task, Calls
    <3> QED BY <2>1, <2>2, <3>1, IsASeq DEF Queued
  <2>4. /\ TypeOK' /\ PlatformInv' /\ CallInv' /\ SparesWarm' /\ Seen' = Members
        /\ op' = "scale" /\ asked' = {} /\ UNCHANGED <<state, terminated, acks>>
        /\ ~tangled' => strays' = {} /\ ~tangled
    <3>1. /\ goal' \in 0..MaxVMs /\ want' \in 0..MaxVMs /\ wait' \in BOOLEAN
          /\ main' = "mapping"
      BY <1>1, <1>3, <2>1
    <3>2. \A i \in 1..Len(tasks') : tasks'[i].at = "queued" /\ tasks'[i].do = "launch"
      BY <2>3
    <3>3. tasks' \in Seq(Task)
      BY <2>3
    <3> HIDE DEF IInv
    <3> QED BY ONLY IInv, <1>1, <3>1, <3>2, <3>3, Begun
  <2>5. OnceInv'
    <3>1. \A i \in 1..Len(tasks') : tasks'[i].do = "launch"
      BY <2>3
    <3> QED BY <2>1, <2>4, <3>1 DEF IInv, OnceInv
  <2>6. ScaleInv'
    <3>1. Pending' = 1..more
      BY <2>2, <2>3 DEF Pending
    <3>2. Cardinality(Pending') = more
      BY <2>2, <3>1, FS_Interval
    <3>3. ActiveVMs' = ActiveVMs /\ want' = n /\ (upset' = {} => Members = ActiveVMs)
      BY ONLY <1>1, <1>2, <2>4 DEF ActiveVMs
    <3>4. more \in Nat /\ Cardinality(Members) \in Nat
      BY ONLY <1>3, <2>2
    <3>5. upset' = {} => Cardinality(ActiveVMs') + Cardinality(Pending') = want'
      BY ONLY <2>2, <3>2, <3>3, <3>4
    <3>6. \A i \in 1..Len(tasks') : tasks'[i].do = "launch"
      BY <2>3
    <3> QED BY <2>1, <2>4, <3>5, <3>6 DEF ScaleInv
  <2>7. DrainInv'
    BY <2>1, <2>4 DEF DrainInv
  <2> QED BY <2>4, <2>5, <2>6, <2>7 DEF IInv
<1> QED BY <1>4, <1>5

\* The order of a sweep takes every member once.
LEMMA Orders ==
    ASSUME NEW S, S \subseteq VMs, NEW order \in SetToSeqs(S)
    PROVE  /\ order \in Seq(S)
           /\ \A i, j \in 1..Len(order) : order[i] = order[j] => i = j
           /\ \A v \in S : \E i \in 1..Len(order) : order[i] = v
<1> DEFINE n == Cardinality(S)
<1>1. IsFiniteSet(S) /\ n \in Nat
  BY SetsFinite
<1>2. order \in [1..n -> S] /\ \A i, j \in 1..n : i # j => order[i] # order[j]
  BY DEF SetToSeqs
<1> HIDE DEF n
<1>3. order \in Seq(S) /\ Len(order) = n
  BY <1>1, <1>2
<1>4. order \in Surjection(1..n, S)
  <2>1. order \in Injection(1..n, S)
    BY <1>2 DEF Injection, IsInjective
  <2>2. Cardinality(1..n) = n
    BY <1>1, FS_Interval
  <2> QED BY <1>1, <2>1, <2>2, FS_Injection DEF n
<1>5. \A v \in S : \E i \in 1..n : order[i] = v
  BY <1>4 DEF Surjection
<1> QED BY <1>2, <1>3, <1>5

LEMMA SweepStep == ASSUME IInv, Drain \/ SuspendAll \/ ResumeAll PROVE IInv'
<1>1. ASSUME NEW name \in {"drain", "suspend_all", "resume_all"},
             NEW do \in {"terminate", "suspend", "resume"}, name = "drain" => do = "terminate",
             NEW S, S \subseteq Members, name = "drain" => S = Members, Sweep(name, do, S)
      PROVE  IInv'
  <2>1. /\ Begin(name) /\ Look(S) /\ main' = "mapping" /\ ~wait' /\ wait' \in BOOLEAN
        /\ want' \in 0..MaxVMs /\ goal' \in 0..MaxVMs
    <3>1. Begin(name) /\ Look(S) /\ main' = "mapping" /\ wait' = FALSE /\ want' = 0 /\ goal' = 0
      BY <1>1 DEF Sweep
    <3>2. wait' \in BOOLEAN /\ ~wait'
      BY <3>1
    <3>3. want' \in 0..MaxVMs /\ goal' \in 0..MaxVMs
      BY <3>1, BoundsAssumption
    <3> QED BY <3>1, <3>2, <3>3
  <2>2. /\ Members \subseteq VMs /\ ActiveVMs \subseteq Members
        /\ \A v \in Members : v \notin terminated /\ shown[v] # "absent"
    BY <2>1, Listed
  <2> PICK order \in SetToSeqs(S) : tasks' = [i \in 1..Len(order) |-> Queued(do, order[i])]
    BY <1>1 DEF Sweep
  <2>3. /\ order \in Seq(S) /\ Len(order) \in Nat
        /\ \A i \in 1..Len(order) : order[i] \in S /\ order[i] \in VMs
        /\ \A i, j \in 1..Len(order) : order[i] = order[j] => i = j
        /\ \A v \in S : \E i \in 1..Len(order) : order[i] = v
    <3>1. S \subseteq VMs
      BY <1>1, <2>2
    <3>2. order \in Seq(S)
      BY <3>1, Orders
    <3> QED BY <3>1, <3>2, Orders, LenProperties, ElementOfSeq
  <2>4. /\ tasks' \in Seq(Task) /\ Len(tasks') = Len(order)
        /\ \A i \in 1..Len(tasks') : tasks'[i] = [do |-> do, vm |-> order[i], at |-> "queued"]
    <3>1. \A i \in 1..Len(order) : Queued(do, order[i]) \in Task
      BY <1>1, <2>3 DEF Queued, Task, Calls, VMs
    <3> QED BY <2>3, <3>1, IsASeq DEF Queued
  <2>5. \A i \in 1..Len(tasks') : tasks'[i].at = "queued" /\ tasks'[i].do = do /\ tasks'[i].vm = order[i]
                                  /\ tasks'[i].vm \in VMs
    BY <2>3, <2>4
  <2>6. /\ TypeOK' /\ PlatformInv' /\ CallInv' /\ SparesWarm' /\ Seen' = S
        /\ op' = name /\ asked' = {} /\ UNCHANGED <<state, terminated, acks>>
        /\ ~tangled' => strays' = {} /\ ~tangled
    <3>1. tasks' \in Seq(Task)
      BY <2>4
    <3> HIDE DEF IInv
    <3> QED BY ONLY IInv, <1>1, <2>1, <2>5, <3>1, Begun
  <2>7. OnceInv'
    <3>1. \A i \in 1..Len(tasks') : tasks'[i].vm \notin terminated
      BY <1>1, <2>2, <2>3, <2>4, <2>5
    <3>2. \A i, j \in 1..Len(tasks') : tasks'[i].vm = tasks'[j].vm => i = j
      BY <2>3, <2>4, <2>5
    <3> QED BY <2>1, <2>6, <3>1, <3>2 DEF IInv, OnceInv
  <2>8. DrainInv'
    <3>1. CASE name = "drain"
      <4>1. do = "terminate" /\ S = Members
        BY <1>1, <3>1
      <4>2. \A v \in S : \E i \in 1..Len(tasks') : tasks'[i].vm = v /\ tasks'[i].at # "done"
        BY <2>3, <2>4, <2>5
      <4>3. ActiveVMs' \subseteq S
        BY <2>2, <2>6, <4>1 DEF ActiveVMs
      <4> QED BY <2>1, <2>5, <2>6, <3>1, <4>1, <4>2, <4>3 DEF DrainInv
    <3>2. CASE name # "drain"
      BY <2>1, <2>6, <3>2 DEF DrainInv
    <3> QED BY <3>1, <3>2
  <2> QED BY <2>6, <2>7, <2>8 DEF IInv, ScaleInv
<1>2. CASE Drain
  BY <1>1, <1>2 DEF Drain
<1>3. CASE SuspendAll
  <2>1. {v \in Members : shown[v] = "RUNNING"} \subseteq Members
    OBVIOUS
  <2> QED BY <1>1, <1>3, <2>1 DEF SuspendAll
<1>4. CASE ResumeAll
  <2>1. {v \in Members : shown[v] = "SUSPENDED"} \subseteq Members
    OBVIOUS
  <2> QED BY <1>1, <1>4, <2>1 DEF ResumeAll
<1> QED BY <1>2, <1>3, <1>4

LEMMA ReapStep == ASSUME IInv, NEW last \in VMs, Reap(last) PROVE IInv'
<1> DEFINE old == {v \in Members : v <= last}
<1>1. /\ Begin("reap") /\ want' = 0 /\ goal' = Cardinality(old) /\ Look(old)
      /\ tasks' = <<>> /\ main' = "stepping" /\ wait' \in BOOLEAN /\ ~wait'
  BY DEF Reap
<1>2. old \subseteq Members /\ Members \subseteq VMs /\ \A v \in Members : v \notin terminated
  BY <1>1, Listed
<1> HIDE DEF old
<1>3. /\ goal' \in 0..MaxVMs /\ want' \in 0..MaxVMs /\ tasks' \in Seq(Task) /\ Len(tasks') = 0
  <2>1. Cardinality(old) \in 0..MaxVMs
    BY <1>2, SetsFinite
  <2> QED BY <1>1, <2>1, BoundsAssumption
<1>4. /\ TypeOK' /\ PlatformInv' /\ CallInv' /\ SparesWarm' /\ Seen' = old
      /\ op' = "reap" /\ asked' = {} /\ UNCHANGED <<state, terminated, acks>>
      /\ ~tangled' => strays' = {} /\ ~tangled
  BY ONLY IInv, <1>1, <1>2, <1>3, Begun
<1>5. OnceInv'
  BY <1>1, <1>2, <1>3, <1>4 DEF IInv, OnceInv, Left, Seen
<1>6. ScaleInv' /\ DrainInv'
  BY <1>1, <1>4 DEF ScaleInv, DrainInv
<1> QED BY <1>4, <1>5, <1>6 DEF IInv

LEMMA OperationStep == ASSUME IInv, Operation PROVE IInv'
BY ScaleStep, SweepStep, ReapStep DEF Operation

-----------------------------------------------------------------------------
(* One call after the other. *)

LEMMA TurnTaken == ASSUME NEW v \in NextInTurn PROVE v \in Left /\ v \in VMs
BY DEF NextInTurn, Coldest, Left

LEMMA TerminateStep == ASSUME IInv, NEW v \in VMs, Terminate(v) PROVE IInv'
<1>1. /\ main = "stepping" /\ Cardinality(asked) < goal /\ v \in NextInTurn
      /\ CallSucceeds("terminate", v) /\ asked' = asked \union {v}
      /\ UNCHANGED <<main, op, want, wait, seen, goal, tasks, strays, ops, turns, upset, tangled>>
  BY DEF Terminate, request, history
<1>2. v \in Left
  BY <1>1, TurnTaken
<1>3. /\ Kept /\ failures' = failures
      /\ ActiveVMs' = ActiveVMs \ {v}
      /\ terminated' = terminated \union {v} /\ acks' = [acks EXCEPT ![v] = @ + 1]
  <2>1. v \in Target("terminate", v) /\ "terminate" \in Calls
    BY DEF Target, Calls
  <2> QED BY <1>1, <2>1, Succeeded DEF IInv
<1>4. TypeOK'
  <2>1. Cardinality(asked') <= goal
    <3>1. IsFiniteSet(asked) /\ Cardinality(asked) \in Nat /\ goal \in Nat
      BY SetsFinite DEF IInv, TypeOK
    <3>2. Cardinality(asked \union {v}) <= Cardinality(asked) + 1
          /\ Cardinality(asked \union {v}) \in Nat
      BY <3>1, FS_AddElement
    <3> QED BY <1>1, <3>1, <3>2
  <2> QED BY <1>1, <1>3, <2>1 DEF IInv, TypeOK, Kept
<1>5. CallInv'
  BY <1>1 DEF IInv, CallInv
<1>6. OnceInv'
  <2> SUFFICES ASSUME ~tangled PROVE OnceInv'
    BY <1>1 DEF OnceInv
  <2>1. tasks = <<>> /\ strays = {}
    BY <1>1 DEF IInv, CallInv
  <2>2. v \notin terminated
    BY <1>1, <1>2 DEF IInv, OnceInv
  <2>3. acks[v] = 0
    BY <2>2 DEF IInv, TypeOK, PlatformInv
  <2>4. \A u \in VMs : acks'[u] <= 1
    BY <1>3, <2>3 DEF IInv, TypeOK, OnceInv
  <2>5. \A u \in Left' : u \notin terminated'
    BY <1>1, <1>3 DEF IInv, OnceInv, Left
  <2>6. Len(tasks') = 0
    BY <1>1, <2>1
  <2> QED BY <1>1, <2>1, <2>4, <2>5, <2>6 DEF OnceInv
<1>7. ScaleInv'
  <2>1. Seen' = Seen /\ v \in Seen
    BY <1>1, <1>2 DEF Seen, Left
  <2> QED BY <1>1, <1>3, <2>1 DEF IInv, ScaleInv
<1>8. DrainInv'
  BY <1>1 DEF IInv, DrainInv
<1>9. SparesWarm'
  <2> SUFFICES ASSUME op = "scale", NEW a \in asked', NEW u \in Left', seen[a] # "SUSPENDED"
               PROVE  seen[u] # "SUSPENDED" /\ u < a
    BY <1>1 DEF SparesWarm
  <2>1. u \in Left /\ u # v
    BY <1>1 DEF Left
  <2>2. CASE a \in asked
    BY <2>1, <2>2 DEF IInv, SparesWarm
  <2>3. CASE a = v
    <3>1. v \in Coldest(Left)
      BY <1>1 DEF NextInTurn
    <3>2. u \in Nat /\ v \in Nat
      BY <2>1 DEF Left, VMs
    <3> QED BY <2>1, <2>3, <3>1, <3>2 DEF Coldest
  <2> QED BY <1>1, <2>2, <2>3
<1> QED BY <1>3, <1>4, <1>5, <1>6, <1>7, <1>8, <1>9 DEF IInv, Kept

\* A call that raises ends the operation, whatever it did.
LEMMA RaisesStep == ASSUME IInv, NEW v \in VMs, TerminateRaises(v) PROVE IInv'
<1>1. /\ main = "stepping" /\ v \in NextInTurn /\ main' = "raised" /\ CallFails("terminate", v)
      /\ UNCHANGED <<op, want, wait, seen, goal, asked, tasks, strays, ops, turns, upset, tangled>>
  BY DEF TerminateRaises, request, history
<1>2. Kept /\ failures' \in 0..MaxFailures /\ UNCHANGED <<terminated, acks>>
  BY <1>1, Failed DEF IInv, Calls
<1>3. TypeOK'
  BY <1>1, <1>2 DEF IInv, TypeOK, Kept, Free
<1>4. tasks = <<>> /\ Len(tasks) = 0
  BY <1>1 DEF IInv, CallInv
<1>5. CallInv' /\ OnceInv'
  BY <1>1, <1>2, <1>4 DEF IInv, CallInv, OnceInv
<1>6. ScaleInv' /\ DrainInv' /\ SparesWarm'
  BY <1>1, <1>4 DEF IInv, ScaleInv, Seen, DrainInv, SparesWarm, Left
<1> QED BY <1>2, <1>3, <1>5, <1>6 DEF IInv, Kept

LEMMA StepsDoneStep == ASSUME IInv, StepsDone PROVE IInv'
<1>1. /\ main = "stepping" /\ Cardinality(asked) = goal /\ main' = "returned"
      /\ UNCHANGED <<state, shown, terminated, op, want, wait, seen, goal, asked, tasks, strays, ops,
                     failures, acks, turns, upset, tangled>>
  BY DEF StepsDone, platform, request, history
<1>2. TypeOK' /\ PlatformInv'
  BY <1>1 DEF IInv, TypeOK, PlatformInv, Free
<1>3. tasks = <<>> /\ Len(tasks) = 0
  BY <1>1 DEF IInv, CallInv
<1>4. CallInv' /\ OnceInv'
  BY <1>1, <1>3 DEF IInv, CallInv, OnceInv
<1>5. ScaleInv'
  <2> SUFFICES ASSUME op = "scale", upset = {} PROVE Cardinality(ActiveVMs) = want
    BY <1>1, <1>3 DEF IInv, ScaleInv, Seen, ActiveVMs
  <2>1. ActiveVMs = Seen \ asked /\ Cardinality(Seen) = want + goal /\ asked \subseteq Seen
    BY <1>1 DEF IInv, ScaleInv
  <2>2. IsFiniteSet(Seen) /\ Cardinality(Seen) \in Nat /\ want \in Nat /\ goal \in Nat
    BY SetsFinite DEF Seen, IInv, TypeOK
  <2>3. Seen \cap asked = asked
    BY <2>1
  <2>4. Cardinality(Seen \ asked) = Cardinality(Seen) - Cardinality(asked)
    BY <2>2, <2>3, FS_Difference
  <2> QED BY <1>1, <2>1, <2>2, <2>4
<1>6. DrainInv' /\ SparesWarm'
  BY <1>1 DEF IInv, DrainInv, SparesWarm, Left
<1> QED BY <1>2, <1>4, <1>5, <1>6 DEF IInv

-----------------------------------------------------------------------------
(* The calls of the pool. *)

\* A call moves on in the pool: it starts, or has an outcome.
LEMMA TaskMoved ==
    ASSUME IInv, NEW i \in 1..Len(tasks), NEW label \in {"running", "done", "failed"},
           NEW v \in VMs,
           \/ tasks' = [tasks EXCEPT ![i].at = label]
           \/ tasks' = [tasks EXCEPT ![i].at = label, ![i].vm = v]
    PROVE  /\ tasks' \in Seq(Task) /\ Len(tasks') = Len(tasks) /\ Len(tasks) \in Nat
           /\ tasks'[i].do = tasks[i].do /\ tasks'[i].at = label
           /\ tasks'[i].vm \in {tasks[i].vm, v}
           /\ tasks' = [tasks EXCEPT ![i].at = label] => tasks'[i].vm = tasks[i].vm
           /\ \A j \in 1..Len(tasks) : j # i => tasks'[j] = tasks[j]
<1>1. tasks \in Seq(Task) /\ Len(tasks) \in Nat /\ tasks[i] \in Task
  BY LenProperties, ElementOfSeq DEF IInv, TypeOK
<1> DEFINE old == tasks[i]
           new1 == [old EXCEPT !.at = label]
           new2 == [old EXCEPT !.at = label, !.vm = v]
<1>2. /\ new1 \in Task /\ new1.do = old.do /\ new1.at = label /\ new1.vm = old.vm
      /\ new2 \in Task /\ new2.do = old.do /\ new2.at = label /\ new2.vm = v
  <2>1. old \in Task /\ v \in 0..MaxVMs
    BY <1>1 DEF VMs
  <2> HIDE DEF old
  <2> QED BY <2>1 DEF Task
<1>3. CASE tasks' = [tasks EXCEPT ![i].at = label]
  <2>1. tasks' = [tasks EXCEPT ![i] = new1]
    BY <1>3
  <2> HIDE DEF new1, new2
  <2> QED BY <1>1, <1>2, <2>1, ExceptSeq
<1>4. CASE tasks' = [tasks EXCEPT ![i].at = label, ![i].vm = v] /\ tasks' # [tasks EXCEPT ![i].at = label]
  <2>1. tasks' = [tasks EXCEPT ![i] = new2]
    BY <1>4
  <2>2. /\ tasks' \in Seq(Task) /\ Len(tasks') = Len(tasks) /\ tasks'[i] = new2
        /\ \A j \in 1..Len(tasks) : j # i => tasks'[j] = tasks[j]
    <3> HIDE DEF new1, new2
    <3> QED BY <1>1, <1>2, <2>1, ExceptSeq
  <2>3. tasks' # [tasks EXCEPT ![i].at = label]
    BY <1>4
  <2> HIDE DEF new1, new2
  <2> QED BY ONLY <1>1, <1>2, <2>2, <2>3
<1> QED BY <1>3, <1>4

\* Calls run while the client maps, and then nothing else runs unless calls of an
\* earlier operation do.
LEMMA Runs ==
    ASSUME IInv, NEW i \in 1..Len(tasks), tasks[i].at \in {"queued", "running", "failed"}
    PROVE  /\ main = "mapping" /\ (strays # {} => "strays" \in upset /\ tangled)
           /\ tasks[i].do \in Calls /\ tasks[i].vm \in 0..MaxVMs
           /\ tasks[i].do # "launch" => tasks[i].vm \in VMs
<1>1. tasks[i] \in Task
  BY ElementOfSeq DEF IInv, TypeOK
<1>2. main = "mapping"
  <2>1. Len(<<>>) = 0
    OBVIOUS
  <2> QED BY <2>1 DEF IInv, CallInv, TypeOK
<1> QED BY <1>1, <1>2 DEF IInv, CallInv, Task

LEMMA StartsStep == ASSUME IInv, NEW i \in 1..MaxVMs, TaskStarts(i) PROVE IInv'
<1>1. /\ i \in 1..Len(tasks) /\ tasks[i].at = "queued" /\ main = "mapping"
      /\ tasks' = [tasks EXCEPT ![i].at = "running"] /\ i \in VMs
      /\ UNCHANGED <<state, shown, terminated, main, op, want, wait, seen, goal, asked, strays, ops,
                     failures, acks, turns, upset, tangled>>
  BY DEF TaskStarts, At, platform, request, history, VMs
<1>2. /\ tasks' \in Seq(Task) /\ Len(tasks') = Len(tasks)
      /\ \A j \in 1..Len(tasks) : /\ tasks'[j].do = tasks[j].do /\ tasks'[j].vm = tasks[j].vm
                                  /\ j # i => tasks'[j] = tasks[j]
                                  /\ j = i => tasks'[j].at = "running"
  BY <1>1, TaskMoved
<1>3. Pending' = Pending /\ At("failed")' = At("failed")
  BY <1>1, <1>2 DEF Pending, At
<1>4. TypeOK' /\ PlatformInv'
  BY <1>1, <1>2 DEF IInv, TypeOK, PlatformInv
<1>5. CallInv'
  BY <1>1, <1>2 DEF IInv, CallInv
<1>6. OnceInv'
  BY <1>1, <1>2, <1>3 DEF IInv, OnceInv, Left
<1>7. ScaleInv'
  BY <1>1, <1>2, <1>3 DEF IInv, ScaleInv, Seen, ActiveVMs
<1>8. DrainInv' /\ SparesWarm'
  BY <1>1, <1>2 DEF IInv, DrainInv, SparesWarm, Seen, Left, ActiveVMs
<1> QED BY <1>4, <1>5, <1>6, <1>7, <1>8 DEF IInv

LEMMA SucceedsStep == ASSUME IInv, NEW i \in 1..MaxVMs, TaskSucceeds(i) PROVE IInv'
<1>0. /\ i \in 1..Len(tasks) /\ tasks[i].at = "running"
      /\ UNCHANGED <<main, op, want, wait, seen, goal, asked, strays, ops, turns, upset, tangled>>
  BY DEF TaskSucceeds, At, request, history
<1> DEFINE do == tasks[i].do
<1>1. /\ main = "mapping" /\ (strays # {} => "strays" \in upset /\ tangled)
      /\ do \in Calls /\ (do # "launch" => tasks[i].vm \in VMs)
  BY <1>0, Runs
<1> PICK v \in Target(do, tasks[i].vm) :
        CallSucceeds(do, v) /\ tasks' = [tasks EXCEPT ![i].at = "done", ![i].vm = v]
  BY DEF TaskSucceeds
<1>2. /\ v \in VMs /\ (do # "launch" => v = tasks[i].vm) /\ Kept /\ failures' = failures
      /\ do # "terminate" => UNCHANGED <<terminated, acks>>
      /\ do = "launch" => v \notin ActiveVMs /\ ActiveVMs' = ActiveVMs \union {v}
      /\ do = "terminate" =>
          /\ state'[v] = "TERMINATED" /\ ActiveVMs' = ActiveVMs \ {v}
          /\ terminated' = terminated \union {v} /\ acks' = [acks EXCEPT ![v] = @ + 1]
  <2> HIDE DEF do
  <2> QED BY <1>1, Succeeded DEF IInv
<1>3. /\ tasks' \in Seq(Task) /\ Len(tasks') = Len(tasks)
      /\ tasks'[i].do = do /\ tasks'[i].at = "done" /\ tasks'[i].vm \in VMs
      /\ do # "launch" => tasks'[i].vm = tasks[i].vm
      /\ \A j \in 1..Len(tasks) : j # i => tasks'[j] = tasks[j]
  <2>1. tasks'[i].vm \in {tasks[i].vm, v} /\ (tasks' = [tasks EXCEPT ![i].at = "done"] => do = do)
    BY <1>0, <1>2, TaskMoved
  <2>2. tasks[i] \in Task
    BY <1>0, ElementOfSeq DEF IInv, TypeOK
  <2>3. tasks'[i].vm = v
    BY <1>0, <2>2 DEF Task
  <2> QED BY <1>0, <1>2, <2>3, TaskMoved
<1> HIDE DEF do
<1>4. TypeOK'
  BY <1>0, <1>2, <1>3 DEF IInv, TypeOK, Kept
<1>5. CallInv'
  BY <1>0, <1>1, <1>3 DEF IInv, CallInv, do
<1>6. OnceInv'
  <2> SUFFICES ASSUME ~tangled PROVE OnceInv'
    BY <1>0 DEF OnceInv
  <2>1. strays = {} /\ strays' = {} /\ main' = "mapping"
    BY <1>0, <1>1
  <2>2. \A j, k \in 1..Len(tasks') :
            tasks'[j].do = "terminate" /\ tasks'[k].do = "terminate" /\ tasks'[j].vm = tasks'[k].vm => j = k
    BY <1>0, <1>3 DEF IInv, OnceInv, do
  <2>3. CASE do = "terminate"
    <3>1. v = tasks[i].vm /\ v \notin terminated /\ acks[v] = 0
      BY <1>0, <1>2, <2>3 DEF IInv, OnceInv, Pending, PlatformInv, TypeOK, do
    <3>2. \A u \in VMs : acks'[u] <= 1
      BY <1>2, <2>3, <3>1 DEF IInv, TypeOK, OnceInv
    <3>3. ASSUME NEW j \in 1..Len(tasks'), tasks'[j].do = "terminate", j \in Pending'
          PROVE  tasks'[j].vm \notin terminated'
      <4>1. j # i /\ tasks'[j] = tasks[j] /\ j \in Pending
        BY <1>3, <3>3 DEF Pending
      <4> QED BY <1>0, <1>2, <1>3, <2>3, <3>1, <3>3, <4>1 DEF IInv, OnceInv, do
    <3> QED BY <2>1, <2>2, <3>2, <3>3 DEF OnceInv
  <2>4. CASE do # "terminate"
    <3>1. \A j \in 1..Len(tasks') :
              tasks'[j].do = "terminate" /\ j \in Pending' => tasks'[j].vm \notin terminated'
      BY <1>2, <1>3, <2>4 DEF IInv, OnceInv, Pending
    <3> QED BY <1>2, <2>1, <2>2, <2>4, <3>1 DEF IInv, OnceInv
  <2> QED BY <2>3, <2>4
<1>7. ScaleInv'
  <2> SUFFICES ASSUME op = "scale" PROVE ScaleInv'
    BY <1>0 DEF ScaleInv
  <2>1. do = "launch" /\ \A j \in 1..Len(tasks') : tasks'[j].do = "launch"
    BY <1>0, <1>3 DEF IInv, ScaleInv, do
  <2>2. ASSUME upset = {}, At("failed")' = {}
        PROVE  Cardinality(ActiveVMs') + Cardinality(Pending') = want
    <3>1. At("failed") = {}
      BY <1>0, <1>3, <2>2 DEF At
    <3>2. Cardinality(ActiveVMs) + Cardinality(Pending) = want
      BY <1>1, <2>2, <3>1 DEF IInv, ScaleInv
    <3>3. Pending' = Pending \ {i} /\ i \in Pending
      BY <1>0, <1>3 DEF Pending
    <3>4. Len(tasks) \in Nat
      BY LenProperties DEF IInv, TypeOK
    <3>5. IsFiniteSet(Pending) /\ Cardinality(Pending) \in Nat
      <4>1. IsFiniteSet(1..Len(tasks)) /\ Pending \subseteq 1..Len(tasks)
        BY <3>4, FS_Interval DEF Pending
      <4> QED BY <4>1, FS_Subset, FS_CardinalityType
    <3>6. Cardinality(Pending') = Cardinality(Pending) - 1
      BY <3>3, <3>5, FS_RemoveElement
    <3>7. IsFiniteSet(ActiveVMs) /\ Cardinality(ActiveVMs) \in Nat
      BY SetsFinite DEF ActiveVMs
    <3>8. Cardinality(ActiveVMs') = Cardinality(ActiveVMs) + 1
      BY <1>2, <2>1, <3>7, FS_AddElement
    <3> QED BY <3>2, <3>5, <3>6, <3>7, <3>8
  <2> QED BY <1>0, <1>1, <2>1, <2>2 DEF IInv, ScaleInv, Seen
<1>8. DrainInv'
  <2>1. CASE op = "drain"
    <3>1. do = "terminate" /\ \A j \in 1..Len(tasks') : tasks'[j].do = "terminate"
      BY <1>0, <1>1, <1>3, <2>1 DEF IInv, DrainInv, do
    <3>2. ASSUME NEW u \in Seen
          PROVE  state'[u] = "TERMINATED" \/
                     \E j \in 1..Len(tasks') : tasks'[j].vm = u /\ tasks'[j].at # "done"
      <4>1. CASE state[u] = "TERMINATED"
        BY <1>2, <4>1 DEF Kept, Seen
      <4>2. ASSUME NEW j \in 1..Len(tasks), tasks[j].vm = u, tasks[j].at # "done"
            PROVE  state'[u] = "TERMINATED" \/ (tasks'[j].vm = u /\ tasks'[j].at # "done")
        BY <1>2, <1>3, <3>1, <4>2
      <4> QED BY <1>1, <1>3, <2>1, <4>1, <4>2 DEF IInv, DrainInv
    <3>3. upset = {} => ActiveVMs' \subseteq Seen
      BY <1>1, <1>2, <2>1, <3>1 DEF IInv, DrainInv
    <3>4. Seen' = Seen
      BY <1>0 DEF Seen
    <3> QED BY <1>0, <1>1, <2>1, <3>1, <3>2, <3>3, <3>4 DEF IInv, DrainInv
  <2>2. CASE op # "drain"
    BY <1>0, <2>2 DEF IInv, DrainInv
  <2> QED BY <2>1, <2>2
<1>9. SparesWarm'
  BY <1>0 DEF IInv, SparesWarm, Left
<1> QED BY <1>2, <1>4, <1>5, <1>6, <1>7, <1>8, <1>9 DEF IInv, Kept

LEMMA FailsStep == ASSUME IInv, NEW i \in 1..MaxVMs, TaskFails(i) PROVE IInv'
<1>0. /\ i \in 1..Len(tasks) /\ tasks[i].at = "running" /\ i \in VMs
      /\ tasks' = [tasks EXCEPT ![i].at = "failed"] /\ CallFails(tasks[i].do, tasks[i].vm)
      /\ UNCHANGED <<main, op, want, wait, seen, goal, asked, strays, ops, turns, upset, tangled>>
  BY DEF TaskFails, At, request, history, VMs
<1>1. /\ main = "mapping" /\ (strays # {} => "strays" \in upset /\ tangled)
      /\ tasks[i].do \in Calls /\ (tasks[i].do # "launch" => tasks[i].vm \in VMs)
  BY <1>0, Runs
<1>2. /\ Kept /\ failures' \in 0..MaxFailures /\ UNCHANGED <<terminated, acks>>
      /\ tasks[i].do # "launch" => ActiveVMs' \subseteq ActiveVMs
  BY <1>0, <1>1, Failed DEF IInv
<1>3. /\ tasks' \in Seq(Task) /\ Len(tasks') = Len(tasks)
      /\ \A j \in 1..Len(tasks) : /\ tasks'[j].do = tasks[j].do /\ tasks'[j].vm = tasks[j].vm
                                  /\ j # i => tasks'[j] = tasks[j]
                                  /\ j = i => tasks'[j].at = "failed"
  BY <1>0, TaskMoved
<1>4. TypeOK'
  BY <1>0, <1>2, <1>3 DEF IInv, TypeOK, Kept
<1>5. CallInv'
  BY <1>0, <1>1, <1>3 DEF IInv, CallInv
<1>6. OnceInv'
  BY <1>0, <1>1, <1>2, <1>3 DEF IInv, OnceInv, Pending
<1>7. ScaleInv'
  <2>1. i \in At("failed")'
    BY <1>0, <1>3 DEF At
  <2> QED BY <1>0, <1>1, <1>3, <2>1 DEF IInv, ScaleInv, Seen
<1>8. DrainInv'
  <2>1. CASE op = "drain"
    <3>1. /\ tasks[i].do = "terminate" /\ \A j \in 1..Len(tasks') : tasks'[j].do = "terminate"
      BY <1>0, <1>1, <1>3, <2>1 DEF IInv, DrainInv
    <3>2. \A j \in 1..Len(tasks) : tasks[j].at # "done" => tasks'[j].at # "done"
      BY <1>3
    <3>3. Seen' = Seen /\ \A u \in Seen : state[u] = "TERMINATED" => state'[u] = "TERMINATED"
      BY <1>0, <1>2 DEF Seen, Kept
    <3> QED BY <1>0, <1>1, <1>2, <1>3, <2>1, <3>1, <3>2, <3>3 DEF IInv, DrainInv
  <2>2. CASE op # "drain"
    BY <1>0, <2>2 DEF IInv, DrainInv
  <2> QED BY <2>1, <2>2
<1>9. SparesWarm'
  BY <1>0 DEF IInv, SparesWarm, Left
<1> QED BY <1>2, <1>4, <1>5, <1>6, <1>7, <1>8, <1>9 DEF IInv, Kept

-----------------------------------------------------------------------------
(* The map is over, and the calls it leaves behind. *)

LEMMA MapReturnsStep == ASSUME IInv, MapReturns PROVE IInv'
<1>0. /\ main = "mapping" /\ At("done") = 1..Len(tasks)
      /\ \/ main' = "waiting" /\ wait /\ tasks' = tasks
         \/ main' = "returned" /\ tasks' = <<>>
      /\ UNCHANGED <<state, shown, terminated, op, want, wait, seen, goal, asked, strays, ops, failures,
                     acks, turns, upset, tangled>>
  <2>1. /\ main = "mapping" /\ At("done") = 1..Len(tasks)
        /\ UNCHANGED <<platform, terminated, request, asked, strays, ops, failures, acks, history>>
    BY DEF MapReturns
  <2>2. UNCHANGED <<state, shown, terminated, op, want, wait, seen, goal, asked, strays, ops, failures,
                    acks, turns, upset, tangled>>
    BY ONLY <2>1 DEF platform, request, history
  <2>3. CASE wait
    BY <2>1, <2>2, <2>3 DEF MapReturns
  <2>4. CASE ~wait
    BY <2>1, <2>2, <2>4 DEF MapReturns
  <2> QED BY <2>3, <2>4
<1>1. (\A i \in 1..Len(tasks) : tasks[i].at = "done") /\ (strays # {} => "strays" \in upset /\ tangled)
  BY <1>0 DEF At, IInv, CallInv
<1>2. Pending = {} /\ At("failed") = {}
  BY <1>1 DEF Pending, At
<1>3. tasks' \in Seq(Task) /\ (tasks' = <<>> => Len(tasks') = 0)
  <2>1. tasks \in Seq(Task) /\ (tasks = <<>> => Len(tasks) = 0)
    BY DEF IInv, TypeOK
  <2>2. <<>> \in Seq(Task) /\ Len(<<>>) = 0
    OBVIOUS
  <2>3. tasks' = tasks \/ tasks' = <<>>
    BY <1>0
  <2>4. CASE tasks' = tasks
    BY <2>1, <2>4
  <2>5. CASE tasks' = <<>>
    BY <2>2, <2>5
  <2> QED BY <2>3, <2>4, <2>5
<1>4. TypeOK' /\ PlatformInv'
  BY <1>0, <1>3 DEF IInv, TypeOK, PlatformInv, Free
<1>5. CallInv'
  BY <1>0, <1>1, <1>3 DEF IInv, CallInv
<1>6. OnceInv'
  BY <1>0, <1>3 DEF IInv, OnceInv, Pending
<1>7. ScaleInv'
  <2>1. op = "scale" /\ upset = {} => Cardinality(ActiveVMs) = want
    <3>1. Cardinality(Pending) = 0
      BY <1>2, FS_EmptySet
    <3>2. Cardinality(ActiveVMs) \in Nat
      BY SetsFinite DEF ActiveVMs
    <3> QED BY <1>0, <1>2, <3>1, <3>2 DEF IInv, ScaleInv
  <2>2. \A i \in 1..Len(tasks') : op = "scale" => tasks'[i].do = "launch"
    BY <1>0, <1>3 DEF IInv, ScaleInv
  <2>3. op = "scale" => asked' \subseteq Seen'
    BY <1>0 DEF IInv, ScaleInv, Seen
  <2>4. ActiveVMs' = ActiveVMs
    BY <1>0 DEF ActiveVMs
  <2> QED BY <1>0, <2>1, <2>2, <2>3, <2>4 DEF ScaleInv
<1>8. DrainInv'
  BY <1>0, <1>1 DEF IInv, DrainInv, Seen, ActiveVMs
<1>9. SparesWarm'
  BY <1>0 DEF IInv, SparesWarm, Left
<1> QED BY <1>4, <1>5, <1>6, <1>7, <1>8, <1>9 DEF IInv

LEMMA MapRaisesStep == ASSUME IInv, MapRaises PROVE IInv'
<1>0. /\ main = "mapping" /\ main' = "raised" /\ tasks' = <<>> /\ strays' = strays \union Abandoned
      /\ UNCHANGED <<state, shown, terminated, op, want, wait, seen, goal, asked, ops, failures,
                     acks, turns, upset, tangled>>
  BY DEF MapRaises, platform, request, history
<1>1. tasks' \in Seq(Task) /\ Len(tasks') = 0
  BY <1>0
<1>2. \A c \in Abandoned : \E i \in 1..Len(tasks) :
          /\ tasks[i].at = "running" /\ tasks[i] \in Task
          /\ c = [run |-> ops, place |-> i, do |-> tasks[i].do, vm |-> tasks[i].vm]
  <2>1. \A i \in 1..Len(tasks) : tasks[i] \in Task
    BY ElementOfSeq DEF IInv, TypeOK
  <2> QED BY <2>1 DEF Abandoned, At
<1>3. Abandoned \subseteq Stray /\ \A c \in Abandoned : c.do # "launch" => c.vm \in VMs
  <2> SUFFICES ASSUME NEW c \in Abandoned PROVE c \in Stray /\ (c.do # "launch" => c.vm \in VMs)
    OBVIOUS
  <2> PICK i \in 1..Len(tasks) :
          /\ tasks[i].at = "running" /\ tasks[i] \in Task
          /\ c = [run |-> ops, place |-> i, do |-> tasks[i].do, vm |-> tasks[i].vm]
    BY <1>2
  <2>1. Len(tasks) \in Nat /\ ops \in 0..MaxOps /\ i \in Nat
    BY LenProperties DEF IInv, TypeOK
  <2> QED BY <2>1 DEF Stray, Task, IInv, CallInv
<1>4. TypeOK' /\ PlatformInv'
  BY <1>0, <1>1, <1>3 DEF IInv, TypeOK, PlatformInv, Free
<1>5. CallInv'
  BY <1>0, <1>1, <1>3 DEF IInv, CallInv
<1>6. OnceInv'
  <2> SUFFICES ASSUME ~tangled PROVE OnceInv'
    BY <1>0 DEF OnceInv
  <2>1. strays' = Abandoned
    BY <1>0 DEF IInv, CallInv
  <2>2. ASSUME NEW c \in Abandoned, c.do = "terminate"
        PROVE  /\ c.vm \notin terminated
               /\ \A d \in Abandoned : d.do = "terminate" /\ d.vm = c.vm => c = d
    <3> PICK i \in 1..Len(tasks) :
            /\ tasks[i].at = "running"
            /\ c = [run |-> ops, place |-> i, do |-> tasks[i].do, vm |-> tasks[i].vm]
      BY <1>2
    <3>1. c.vm \notin terminated
      BY <2>2 DEF IInv, OnceInv, Pending
    <3>2. ASSUME NEW d \in Abandoned, d.do = "terminate", d.vm = c.vm PROVE c = d
      <4> PICK j \in 1..Len(tasks) : d = [run |-> ops, place |-> j, do |-> tasks[j].do, vm |-> tasks[j].vm]
        BY <1>2
      <4>1. tasks[i].do = "terminate" /\ tasks[j].do = "terminate" /\ tasks[i].vm = tasks[j].vm
        BY <2>2, <3>2
      <4>2. i = j
        BY <4>1 DEF IInv, OnceInv
      <4> QED BY <4>2
    <3> QED BY <3>1, <3>2
  <2> QED BY <1>0, <1>1, <2>1, <2>2 DEF IInv, OnceInv
<1>7. ScaleInv' /\ DrainInv'
  BY <1>0, <1>1 DEF IInv, ScaleInv, DrainInv, Seen
<1>8. SparesWarm'
  BY <1>0 DEF IInv, SparesWarm, Left
<1> QED BY <1>4, <1>5, <1>6, <1>7, <1>8 DEF IInv

\* A call left running touches the result of an operation that knows of it only.
LEMMA StrayStep == ASSUME IInv, NEW c \in strays, StrayEnds(c) PROVE IInv'
<1>0. /\ strays' = strays \ {c}
      /\ UNCHANGED <<main, op, want, wait, seen, goal, asked, tasks, ops, turns, upset, tangled>>
  BY DEF StrayEnds, request, history
<1>1. /\ main = "raised" \/ ("strays" \in upset /\ tangled)
      /\ c.do \in Calls /\ (c.do # "launch" => c.vm \in VMs)
  BY DEF IInv, CallInv, TypeOK, Stray
<1>2. /\ Kept /\ failures' \in 0..MaxFailures
      /\ \/ UNCHANGED <<terminated, acks>>
         \/ /\ c.do = "terminate" /\ terminated' = terminated \union {c.vm}
            /\ acks' = [acks EXCEPT ![c.vm] = @ + 1]
  <2>1. CASE CallFails(c.do, c.vm)
    BY <1>1, <2>1, Failed DEF IInv
  <2>2. ASSUME NEW v \in Target(c.do, c.vm), CallSucceeds(c.do, v)
        PROVE  /\ Kept /\ failures' = failures
               /\ \/ UNCHANGED <<terminated, acks>>
                  \/ /\ c.do = "terminate" /\ terminated' = terminated \union {c.vm}
                     /\ acks' = [acks EXCEPT ![c.vm] = @ + 1]
    BY <1>1, <2>2, Succeeded DEF IInv
  <2> QED BY <2>1, <2>2 DEF StrayEnds, IInv, TypeOK
<1>3. TypeOK'
  BY <1>0, <1>2 DEF IInv, TypeOK, Kept
<1>4. CallInv'
  BY <1>0 DEF IInv, CallInv
<1>5. OnceInv'
  <2> SUFFICES ASSUME ~tangled PROVE OnceInv'
    BY <1>0 DEF OnceInv
  <2>1. main = "raised" /\ tasks = <<>> /\ Len(tasks) = 0
    BY <1>1 DEF IInv, CallInv
  <2>2. CASE UNCHANGED <<terminated, acks>>
    BY <1>0, <2>1, <2>2 DEF IInv, OnceInv
  <2>3. CASE /\ c.do = "terminate" /\ terminated' = terminated \union {c.vm}
             /\ acks' = [acks EXCEPT ![c.vm] = @ + 1]
    <3>1. c.vm \in VMs /\ c.vm \notin terminated /\ acks[c.vm] = 0
      BY <1>1, <2>3 DEF IInv, OnceInv, PlatformInv, TypeOK
    <3>2. \A u \in VMs : acks'[u] <= 1
      BY <2>3, <3>1 DEF IInv, OnceInv, TypeOK
    <3>3. \A d \in strays' : d.do = "terminate" =>
              /\ d.vm \notin terminated'
              /\ \A e \in strays' : e.do = "terminate" /\ e.vm = d.vm => d = e
      BY <1>0, <2>3 DEF IInv, OnceInv
    <3> QED BY <1>0, <2>1, <3>2, <3>3 DEF OnceInv
  <2> QED BY <1>2, <2>2, <2>3
<1>6. ScaleInv'
  BY <1>0, <1>1 DEF IInv, ScaleInv, Seen
<1>7. DrainInv'
  BY <1>0, <1>1, <1>2 DEF IInv, DrainInv, Seen, Kept
<1>8. SparesWarm'
  BY <1>0 DEF IInv, SparesWarm, Left
<1> QED BY <1>2, <1>3, <1>4, <1>5, <1>6, <1>7, <1>8 DEF IInv, Kept

LEMMA WaitingStep == ASSUME IInv, Waiting PROVE IInv'
<1>0. /\ main = "waiting" /\ op = "scale"
      /\ UNCHANGED <<state, shown, terminated, op, want, wait, seen, goal, asked, strays, ops, failures,
                     acks, turns, upset, tangled>>
  BY DEF Waiting, SeenRunning, WaitRaises, WaitDone, platform, request, history, IInv, DrainInv
<1>1. /\ \A i \in 1..Len(tasks) : tasks[i].at = "done" /\ tasks[i].vm \in VMs /\ tasks[i].do = "launch"
      /\ tasks \in Seq(Task)
  BY <1>0 DEF IInv, CallInv, ScaleInv, TypeOK
<1>2. /\ main' \in {"waiting", "raised", "returned"} /\ tasks' \in Seq(Task)
      /\ main' # "waiting" => tasks' = <<>>
      /\ \A i \in 1..Len(tasks') : tasks'[i].at = "done" /\ tasks'[i].vm \in VMs /\ tasks'[i].do = "launch"
  <2>1. CASE SeenRunning
    <3>1. /\ main' = "waiting" /\ tasks' = Tail(tasks) /\ tasks # <<>>
      BY <1>0, <2>1 DEF SeenRunning
    <3>2. /\ tasks' \in Seq(Task) /\ Len(tasks') = Len(tasks) - 1 /\ Len(tasks) \in Nat
          /\ \A i \in 1..Len(tasks') : tasks'[i] = tasks[i + 1]
      BY <1>1, <3>1, HeadTailProperties, LenProperties
    <3>3. \A i \in 1..Len(tasks') : i + 1 \in 1..Len(tasks)
      BY <3>2
    <3> QED BY <1>1, <3>1, <3>2, <3>3
  <2>2. CASE WaitRaises \/ WaitDone
    <3>1. main' \in {"raised", "returned"} /\ tasks' = <<>>
      BY <2>2 DEF WaitRaises, WaitDone
    <3> QED BY <3>1
  <2> QED BY <2>1, <2>2 DEF Waiting
<1>3. (strays # {} => "strays" \in upset /\ tangled)
  BY <1>0 DEF IInv, CallInv
<1>4. TypeOK' /\ PlatformInv'
  BY <1>0, <1>2 DEF IInv, TypeOK, PlatformInv, Free
<1>5. CallInv'
  BY <1>0, <1>2, <1>3 DEF IInv, CallInv
<1>6. OnceInv'
  BY <1>0, <1>2 DEF IInv, OnceInv
<1>7. ScaleInv' /\ DrainInv'
  BY <1>0, <1>2 DEF IInv, ScaleInv, DrainInv, Seen, ActiveVMs
<1>8. SparesWarm'
  BY <1>0 DEF IInv, SparesWarm, Left
<1> QED BY <1>4, <1>5, <1>6, <1>7, <1>8 DEF IInv

-----------------------------------------------------------------------------
\* The invariant survives every operation, failing call and change the platform
\* makes by itself.
THEOREM Inductive == Spec => []IInv
<1>1. ASSUME IInv, [Next]_vars PROVE IInv'
  <2>1. CASE UNCHANGED vars
    <3>1. TypeOK' /\ PlatformInv' /\ CallInv'
      BY <1>1, <2>1
         DEF vars, platform, request, history, IInv, TypeOK, PlatformInv, CallInv
    <3>2. OnceInv' /\ ScaleInv' /\ DrainInv' /\ SparesWarm'
      BY <1>1, <2>1
         DEF vars, platform, request, history, IInv, OnceInv, ScaleInv, DrainInv, SparesWarm, Pending,
             Left, Seen, At, ActiveVMs
    <3> QED BY <3>1, <3>2 DEF IInv
  <2>2. CASE Stepping
    BY <1>1, <2>2, StepsDoneStep, TerminateStep, RaisesStep DEF Stepping
  <2>3. CASE Mapping \/ AStrayEnds
    BY <1>1, <2>3, MapReturnsStep, MapRaisesStep, StrayStep DEF Mapping, AStrayEnds
  <2>4. ASSUME NEW i \in 1..MaxVMs, PoolTask(i) PROVE IInv'
    BY <1>1, <2>4, StartsStep, SucceedsStep, FailsStep DEF PoolTask
  <2> QED BY <1>1, <2>1, <2>2, <2>3, <2>4, OperationStep, WaitingStep, PlatformStep DEF Next
<1> QED BY InitInv, <1>1, PTL DEF Spec

\* A microVM the fleet no longer counts is really terminated.
THEOREM ForgottenAreDeadHolds == Spec => []ForgottenAreDead
<1>1. ASSUME IInv PROVE ForgottenAreDead
  BY <1>1 DEF IInv, TypeOK, PlatformInv, ForgottenAreDead
<1> QED BY Inductive, <1>1, PTL

\* No microVM is terminated twice, however long the listing goes on showing it.
THEOREM TerminatedOnceHolds == Spec => []TerminatedOnce
<1>1. ASSUME IInv PROVE TerminatedOnce
  BY <1>1 DEF IInv, OnceInv, TerminatedOnce
<1> QED BY Inductive, <1>1, PTL

\* An operation that returns has done what it was asked for.
THEOREM ReturnsExactHolds == Spec => []ReturnsExact
<1>1. ASSUME IInv PROVE ReturnsExact
  <2> SUFFICES ASSUME main = "returned"
               PROVE  /\ op = "scale" /\ upset = {} => Cardinality(ActiveVMs) = want
                      /\ op = "drain" /\ upset = {} => ActiveVMs = {}
                      /\ \A v \in VMs : op = "drain" /\ seen[v] # "absent" => state[v] = "TERMINATED"
    BY DEF ReturnsExact
  <2>1. op = "scale" /\ upset = {} => Cardinality(ActiveVMs) = want
    BY <1>1 DEF IInv, ScaleInv
  <2>2. ASSUME op = "drain" PROVE \A v \in Seen : state[v] = "TERMINATED"
    BY <1>1, <2>2 DEF IInv, DrainInv
  <2>3. ASSUME op = "drain", upset = {} PROVE ActiveVMs = {}
    BY <1>1, <2>2, <2>3 DEF IInv, DrainInv, ActiveVMs, Active
  <2> QED BY <2>1, <2>2, <2>3 DEF Seen
<1> QED BY Inductive, <1>1, PTL

\* What a scale-down terminates is colder than what it leaves.
THEOREM SparesWarmHolds == Spec => []SparesWarm
<1>1. IInv => SparesWarm
  BY DEF IInv
<1> QED BY Inductive, <1>1, PTL
=============================================================================
