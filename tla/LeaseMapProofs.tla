--------------------------- MODULE LeaseMapProofs ---------------------------
(***************************************************************************)
(* Proofs about LeaseMap, for any number of shards and relaunches, any     *)
(* policies and quotas, and any number of stops and failures.              *)
(***************************************************************************)
EXTENDS LeaseMap, FiniteSetTheorems, TLAPS

\* How far one lease has come: callback before launch, launch before microVM,
\* microVM before teardown.
LeaseInv(l) ==
    /\ callback[l] = "none" => launch[l] = "none"
    /\ launch[l] = "none" => l \notin sent /\ vm[l] = "none" /\ body[l] = "none" /\ teardown[l] = "none"
    /\ body[l] = "launch" => launch[l] = "started"
    /\ body[l] = "terminate" => launch[l] = "launched" /\ Settled(l) /\ teardown[l] = "none"
    /\ launch[l] = "launched" => vm[l] # "none"
    /\ vm[l] # "none" => l \notin sent
    /\ teardown[l] # "none" => launch[l] = "launched" /\ Settled(l)
    /\ teardown[l] = "done" => vm[l] \in {"ending", "gone"}

EveryLease == \A l \in Leases : LeaseInv(l)

\* An attempt follows only those that were torn down with a retryable outcome.
Chain ==
    \A s \in Shards : \A a, b \in Attempts :
        a < b /\ callback[s, b] # "none" => teardown[s, a] = "done" /\ Retryable(<<s, a>>)

\* What an outcome says of the shard's attempts.
OutcomeInv(s) ==
    /\ outcome[s] # "none" => s \in Begun
    /\ outcome[s] \in {"done", "failed", "timed_out"} =>
           \A a \in Attempts : callback[s, a] # "none" => teardown[s, a] = "done"
    /\ outcome[s] \in {"failed", "timed_out"} => \A a \in Attempts : callback[s, a] # "success"
    /\ outcome[s] = "raised" => \E a \in Attempts :
           IsLast(<<s, a>>) /\ "failed" \in {launch[s, a], teardown[s, a]}

EveryShard == \A s \in Shards : OutcomeInv(s)

\* Nothing begins before the plan is accepted and approved, and it is the plan
\* the approver saw.
PlanInv ==
    /\ (\E l \in Leases : callback[l] # "none") => Fanning
    /\ gate # "none" => plan # NoPlan /\ ~plan.rejected /\ plan.needsApproval /\ call.approver
    /\ shown # NoPlan => shown = plan
    /\ gate = "granted" => shown # NoPlan
    /\ final # "none" => gate # "open"
    /\ final = "done" => \A s \in Shards : outcome[s] # "none"
    /\ plan # NoPlan => plan = PlanFanout(NumShards, Baseline, call.policy, quota)

IInv == TypeOK /\ EveryLease /\ Chain /\ EveryShard /\ PlanInv

-----------------------------------------------------------------------------
LEMMA Shapes ==
    /\ 0 \in Attempts /\ Attempts \subseteq Nat /\ Shards \subseteq Nat
    /\ \A l \in Leases : l[1] \in Shards /\ l[2] \in Attempts /\ l = <<l[1], l[2]>>
    /\ \A s \in Shards, a \in Attempts : <<s, a>> \in Leases /\ <<s, a>>[1] = s /\ <<s, a>>[2] = a
BY ShardsAssumption DEF Shards, Attempts, Leases

\* A relaunch makes an attempt the shard has not had.
LEMMA NextAttempt ==
    ASSUME NEW l \in Leases, Relaunch(l)
    PROVE  /\ <<l[1], l[2] + 1>> \in Leases /\ l[2] + 1 \in Attempts
           /\ callback[l[1], l[2] + 1] = "none"
<1>1. l[2] + 1 \in Attempts /\ l[2] + 1 > l[2]
  BY Shapes, ShardsAssumption DEF Relaunch, Attempts
<1>2. <<l[1], l[2] + 1>> \in Leases
  BY <1>1, Shapes
<1>3. \A a \in Attempts : a > l[2] => callback[l[1], a] = "none"
  BY DEF Relaunch, IsLast
<1> QED BY <1>1, <1>2, <1>3

\* Whole-number division, as fanout_limit uses it.
LEMMA Division ==
    ASSUME NEW q \in Nat, NEW b \in Nat \ {0}
    PROVE  q \div b \in Nat /\ b * (q \div b) <= q
<1>1. q \div b \in Nat /\ q = b * (q \div b) + (q % b) /\ q % b \in 0..(b - 1)
  OBVIOUS
<1>2. \A n \in Nat : b * n \in Nat
  OBVIOUS
<1> QED BY <1>1, <1>2

LEMMA PlanType ==
    ASSUME NEW p \in Policy, NEW q \in Quota
    PROVE  PlanFanout(NumShards, Baseline, p, q) \in Plan
<1>1. ByMemory(Baseline, q) \in Ceilings
  BY Division, ShardsAssumption DEF Quota, ByMemory, Ceilings
<1>2. FanoutLimit(Baseline, p, q) \in Int
  BY <1>1, LimitsAssumption DEF FanoutLimit, Ceilings, Policy
<1>3. Concurrency(NumShards, Baseline, p, q) \in Nat
  BY <1>2, ShardsAssumption DEF Concurrency, Greater, Lesser
<1>4. Rejected(NumShards, Baseline, p, q) \in BOOLEAN /\ NeedsApproval(NumShards, Baseline, p) \in BOOLEAN
  BY DEF Rejected, NeedsApproval, Exceeds
<1> QED BY <1>3, <1>4 DEF PlanFanout, Plan

\* An accepted plan, and one lease at least, fits the memory quota.
THEOREM PlanFits ==
    ASSUME NEW p \in Policy, NEW q \in Nat, ~Rejected(NumShards, Baseline, p, q)
    PROVE  Greater(1, Concurrency(NumShards, Baseline, p, q)) * Baseline <= q
<1> DEFINE m == q \div Baseline
           c == Greater(1, Concurrency(NumShards, Baseline, p, q))
<1>1. m \in Nat /\ Baseline * m <= q
  BY Division, ShardsAssumption
<1>2. ByMemory(Baseline, q) = m
  BY NoneAssumption DEF ByMemory
<1>3. m >= 1
  BY <1>1, <1>2 DEF Rejected
<1>4. FanoutLimit(Baseline, p, q) \in Int /\ FanoutLimit(Baseline, p, q) <= m
  BY <1>1, <1>2, NoneAssumption DEF FanoutLimit, Policy, Ceilings
<1>5. c \in Nat /\ c <= m
  BY <1>1, <1>3, <1>4, ShardsAssumption DEF Concurrency, Greater, Lesser
<1>6. \A i, j \in Nat : i <= j => i * Baseline <= Baseline * j /\ i * Baseline \in Nat
  BY ShardsAssumption
<1>7. c * Baseline <= Baseline * m /\ c * Baseline \in Nat /\ Baseline * m \in Nat
  BY <1>1, <1>5, <1>6, ShardsAssumption
<1> HIDE DEF m, c
<1> QED BY <1>1, <1>7 DEF c

-----------------------------------------------------------------------------
LEMMA InitInv == Init => IInv
<1> SUFFICES ASSUME Init PROVE IInv
  OBVIOUS
<1>1. TypeOK
  BY BoundsAssumption DEF Init, TypeOK, Quota, NoPlan
<1>2. EveryLease
  BY DEF Init, EveryLease, LeaseInv
<1>3. Chain
  BY Shapes DEF Init, Chain
<1>4. EveryShard
  BY DEF Init, EveryShard, OutcomeInv
<1>5. PlanInv
  BY DEF Init, PlanInv, NoPlan
<1> QED BY <1>1, <1>2, <1>3, <1>4, <1>5 DEF IInv

-----------------------------------------------------------------------------
\* TypeOK is preserved.
LEMMA TypeStep == TypeOK /\ [Next]_vars => TypeOK'
<1> SUFFICES ASSUME TypeOK, [Next]_vars PROVE TypeOK'
  OBVIOUS
<1> USE DEF TypeOK
<1>1. CASE PlanStep
  <2>1. quota' \in Quotas /\ plan' \in Plan
    BY <1>1, PlanType, InputsAssumption DEF PlanStep
  <2> QED BY <1>1, <2>1, InputsAssumption DEF PlanStep, world, bounds, Quota
<1>2. CASE OpenGate \/ Submit \/ Decline \/ MapEnds \/ GateSettles
  BY <1>2 DEF OpenGate, Submit, Decline, MapEnds, GateSettles, Running, Mapping, Finals, NoPlan, checkpoints, world, bounds, history
<1>3. CASE Stop
  <2>1. crashes' \in 0..MaxCrashes
    BY <1>3, BoundsAssumption DEF Stop
  <2>2. body' \in [Leases -> {"none", "launch", "terminate"}] /\ up' \in BOOLEAN
    BY <1>3 DEF Stop
  <2> QED BY <1>3, <2>1, <2>2 DEF Stop, checkpoints, world, history
<1>8. CASE Restart
  BY <1>8 DEF Restart, checkpoints, world, bounds, history
<1>4. ASSUME NEW s \in Shards, StartShard(s) PROVE TypeOK'
  BY <1>4, Shapes DEF StartShard, world, bounds, history
<1>5. ASSUME NEW l \in Leases, LeaseStep(l) PROVE TypeOK'
  <2>1. CASE LaunchStarts(l) \/ LaunchReturns(l) \/ LaunchInterrupted(l) \/ TerminateStarts(l) \/ TerminateReturns(l)
    BY <2>1 DEF LaunchStarts, LaunchReturns, LaunchInterrupted, TerminateStarts, TerminateReturns, checkpoints, world, bounds, history
  <2>2. CASE LaunchFails(l) \/ TerminateFails(l)
    BY <2>2, BoundsAssumption DEF LaunchFails, TerminateFails, world, history
  <2>3. CASE Relaunch(l)
    <3>1. <<l[1], l[2] + 1>> \in Leases
      BY <2>3, NextAttempt
    <3> QED BY <2>3, <3>1 DEF Relaunch, world, bounds, history
  <2>4. CASE ShardReturns(l) \/ ShardRaises(l)
    <3>1. /\ l[1] \in Shards
          /\ \/ outcome' = [outcome EXCEPT ![l[1]] = "done"]
             \/ outcome' = [outcome EXCEPT ![l[1]] = "failed"]
             \/ outcome' = [outcome EXCEPT ![l[1]] = "timed_out"]
             \/ outcome' = [outcome EXCEPT ![l[1]] = "raised"]
      BY <2>4, Shapes DEF ShardReturns, ShardRaises
    <3>2. outcome' \in [Shards -> {"none", "done", "failed", "timed_out", "raised"}]
      BY <3>1
    <3> QED BY <2>4, <3>2 DEF ShardReturns, ShardRaises, world, bounds, history
  <2> QED BY <1>5, <2>1, <2>2, <2>3, <2>4 DEF LeaseStep
<1>6. ASSUME NEW l \in Leases, WorldStep(l) PROVE TypeOK'
  <2>1. CASE RunAccepted(l)
    BY <2>1 DEF RunAccepted, checkpoints, bounds, history
  <2>2. CASE VMEnds(l)
    BY <2>2 DEF VMEnds, Answers, bounds, history
  <2>3. ASSUME NEW answer \in Answers, VMAnswers(l, answer) PROVE TypeOK'
    BY <2>3 DEF VMAnswers, world, bounds, history
  <2>4. ASSUME NEW how \in Timeouts, CallbackExpires(l, how) PROVE TypeOK'
    BY <2>4 DEF CallbackExpires, world, bounds, history
  <2>5. CASE VMEnding(l)
    BY <2>5 DEF VMEnding, checkpoints, bounds, history
  <2> QED BY <1>6, <2>1, <2>2, <2>3, <2>4, <2>5 DEF WorldStep
<1>7. CASE UNCHANGED vars
  BY <1>7 DEF vars, checkpoints, world, bounds, history
<1> QED BY <1>1, <1>2, <1>3, <1>4, <1>5, <1>6, <1>7, <1>8 DEF Next

-----------------------------------------------------------------------------
\* EveryLease is preserved.
LEMMA EveryLeaseStep == TypeOK /\ EveryLease /\ [Next]_vars => EveryLease'
<1> SUFFICES ASSUME TypeOK, EveryLease, [Next]_vars, NEW k \in Leases PROVE LeaseInv(k)'
  BY DEF EveryLease
<1>0. LeaseInv(k)
  BY DEF EveryLease
<1> USE DEF LeaseInv, Settled
<1>1. CASE PlanStep \/ OpenGate \/ Submit \/ Decline \/ MapEnds \/ GateSettles \/ Restart
  BY <1>0, <1>1 DEF PlanStep, OpenGate, Submit, Decline, MapEnds, GateSettles, Restart, checkpoints, world
<1>2. CASE Stop
  BY <1>0, <1>2 DEF Stop, checkpoints, world
<1>3. ASSUME NEW s \in Shards, StartShard(s) PROVE LeaseInv(k)'
  <2>1. CASE k = <<s, 0>>
    <3>1. callback[k] = "none"
      BY <1>3, <2>1 DEF StartShard, Begun
    <3> QED BY <1>0, <1>3, <2>1, <3>1 DEF StartShard, TypeOK, world
  <2>2. CASE k # <<s, 0>>
    BY <1>0, <1>3, <2>2 DEF StartShard, TypeOK, world
  <2> QED BY <2>1, <2>2
<1>4. ASSUME NEW l \in Leases, LeaseStep(l) PROVE LeaseInv(k)'
  <2>1. CASE LaunchStarts(l)
    BY <1>0, <2>1 DEF LaunchStarts, TypeOK
  <2>2. CASE LaunchReturns(l)
    BY <1>0, <2>2 DEF LaunchReturns, TypeOK, world
  <2>3. CASE LaunchFails(l)
    BY <1>0, <2>3 DEF LaunchFails, TypeOK, world
  <2>4. CASE LaunchInterrupted(l)
    BY <1>0, <2>4 DEF LaunchInterrupted, TypeOK, world
  <2>5. CASE TerminateStarts(l)
    BY <1>0, <2>5 DEF TerminateStarts, TypeOK, checkpoints, world
  <2>6. CASE TerminateReturns(l)
    BY <1>0, <2>6 DEF TerminateReturns, TypeOK, world
  <2>7. CASE TerminateFails(l)
    BY <1>0, <2>7 DEF TerminateFails, TypeOK, world
  <2>8. CASE Relaunch(l)
    <3>1. callback[l[1], l[2] + 1] = "none"
      BY <2>8, NextAttempt
    <3>2. CASE k = <<l[1], l[2] + 1>>
      BY <1>0, <2>8, <3>1, <3>2 DEF Relaunch, TypeOK, world
    <3>3. CASE k # <<l[1], l[2] + 1>>
      BY <1>0, <2>8, <3>3 DEF Relaunch, TypeOK, world
    <3> QED BY <3>2, <3>3
  <2>9. CASE ShardReturns(l) \/ ShardRaises(l)
    BY <1>0, <2>9 DEF ShardReturns, ShardRaises, world
  <2> QED BY <1>4, <2>1, <2>2, <2>3, <2>4, <2>5, <2>6, <2>7, <2>8, <2>9 DEF LeaseStep
<1>5. ASSUME NEW l \in Leases, WorldStep(l) PROVE LeaseInv(k)'
  <2>1. CASE RunAccepted(l)
    BY <1>0, <2>1 DEF RunAccepted, TypeOK, checkpoints
  <2>2. CASE VMEnds(l)
    BY <1>0, <2>2 DEF VMEnds, TypeOK, Answers
  <2>3. ASSUME NEW answer \in Answers, VMAnswers(l, answer) PROVE LeaseInv(k)'
    BY <1>0, <2>3 DEF VMAnswers, TypeOK, Answers, world
  <2>4. ASSUME NEW how \in Timeouts, CallbackExpires(l, how) PROVE LeaseInv(k)'
    BY <1>0, <2>4, InputsAssumption DEF CallbackExpires, TypeOK, world
  <2>5. CASE VMEnding(l)
    BY <1>0, <2>5 DEF VMEnding, TypeOK, checkpoints
  <2> QED BY <1>5, <2>1, <2>2, <2>3, <2>4, <2>5 DEF WorldStep
<1>6. CASE UNCHANGED vars
  BY <1>0, <1>6 DEF vars, checkpoints, world
<1> QED BY <1>1, <1>2, <1>3, <1>4, <1>5, <1>6 DEF Next

-----------------------------------------------------------------------------
\* What a step never takes back.
LEMMA Steady ==
    ASSUME TypeOK, EveryLease, [Next]_vars, NEW k \in Leases
    PROVE  /\ Settled(k) => callback'[k] = callback[k]
           /\ callback[k] # "none" => callback'[k] # "none"
           /\ teardown[k] # "none" => teardown'[k] = teardown[k]
           /\ launch[k] = "failed" => launch'[k] = "failed"
<1> DEFINE Goal == /\ Settled(k) => callback'[k] = callback[k]
                   /\ callback[k] # "none" => callback'[k] # "none"
                   /\ teardown[k] # "none" => teardown'[k] = teardown[k]
                   /\ launch[k] = "failed" => launch'[k] = "failed"
<1>0. LeaseInv(k)
  BY DEF EveryLease
<1> USE DEF LeaseInv
<1>1. CASE PlanStep \/ OpenGate \/ Submit \/ Decline \/ MapEnds \/ GateSettles \/ Restart \/ Stop
  BY <1>1 DEF PlanStep, OpenGate, Submit, Decline, MapEnds, GateSettles, Restart, Stop, checkpoints
<1>2. ASSUME NEW s \in Shards, StartShard(s) PROVE Goal
  <2>1. callback[s, 0] = "none" /\ <<s, 0>> \in Leases
    BY <1>2, Shapes DEF StartShard, Begun
  <2> QED BY <1>2, <2>1, InputsAssumption DEF StartShard, TypeOK, Settled, Answers
<1>3. ASSUME NEW l \in Leases, LeaseStep(l) PROVE Goal
  <2>1. CASE LaunchStarts(l) \/ LaunchReturns(l) \/ LaunchFails(l) \/ LaunchInterrupted(l)
    BY <1>0, <2>1 DEF LaunchStarts, LaunchReturns, LaunchFails, LaunchInterrupted, TypeOK
  <2>2. CASE TerminateStarts(l) \/ TerminateReturns(l) \/ TerminateFails(l)
    BY <1>0, <2>2 DEF TerminateStarts, TerminateReturns, TerminateFails, TypeOK, checkpoints
  <2>3. CASE Relaunch(l)
    <3>1. callback[l[1], l[2] + 1] = "none"
      BY <2>3, NextAttempt
    <3> QED BY <2>3, <3>1, InputsAssumption DEF Relaunch, TypeOK, Settled, Answers
  <2>4. CASE ShardReturns(l) \/ ShardRaises(l)
    BY <2>4 DEF ShardReturns, ShardRaises
  <2> QED BY <1>3, <2>1, <2>2, <2>3, <2>4 DEF LeaseStep
<1>4. ASSUME NEW l \in Leases, WorldStep(l) PROVE Goal
  <2> USE InputsAssumption DEF TypeOK, Settled, Answers
  <2>1. CASE RunAccepted(l)
    BY <2>1 DEF RunAccepted, checkpoints
  <2>2. CASE VMEnds(l)
    BY <2>2 DEF VMEnds
  <2>3. ASSUME NEW answer \in Answers, VMAnswers(l, answer) PROVE Goal
    BY <2>3 DEF VMAnswers
  <2>4. ASSUME NEW how \in Timeouts, CallbackExpires(l, how) PROVE Goal
    BY <2>4 DEF CallbackExpires
  <2>5. CASE VMEnding(l)
    BY <2>5 DEF VMEnding, checkpoints
  <2> QED BY <1>4, <2>1, <2>2, <2>3, <2>4, <2>5 DEF WorldStep
<1>5. CASE UNCHANGED vars
  BY <1>5 DEF vars, checkpoints
<1> QED BY <1>1, <1>2, <1>3, <1>4, <1>5 DEF Next

\* Only a shard's start and a relaunch make a callback.
LEMMA Births ==
    ASSUME TypeOK, [Next]_vars, NEW k \in Leases, callback[k] = "none", callback'[k] # "none"
    PROVE  \/ StartShard(k[1]) /\ k[2] = 0
           \/ \E l \in Leases : Relaunch(l) /\ k = <<l[1], l[2] + 1>>
<1> DEFINE Goal == \/ StartShard(k[1]) /\ k[2] = 0
                   \/ \E l \in Leases : Relaunch(l) /\ k = <<l[1], l[2] + 1>>
<1>1. CASE PlanStep \/ OpenGate \/ Submit \/ Decline \/ MapEnds \/ GateSettles \/ Restart \/ Stop
  BY <1>1 DEF PlanStep, OpenGate, Submit, Decline, MapEnds, GateSettles, Restart, Stop, checkpoints
<1>2. ASSUME NEW s \in Shards, StartShard(s) PROVE Goal
  <2>1. k = <<s, 0>>
    BY <1>2 DEF StartShard, TypeOK
  <2>2. k[1] = s /\ k[2] = 0
    BY <2>1
  <2> QED BY <1>2, <2>2
<1>3. ASSUME NEW l \in Leases, LeaseStep(l) PROVE Goal
  <2>1. CASE LaunchStarts(l) \/ LaunchReturns(l) \/ LaunchFails(l) \/ LaunchInterrupted(l)
    BY <2>1 DEF LaunchStarts, LaunchReturns, LaunchFails, LaunchInterrupted
  <2>2. CASE TerminateStarts(l) \/ TerminateReturns(l) \/ TerminateFails(l)
    BY <2>2 DEF TerminateStarts, TerminateReturns, TerminateFails, checkpoints
  <2>3. CASE Relaunch(l)
    <3>1. k = <<l[1], l[2] + 1>>
      BY <2>3 DEF Relaunch, TypeOK
    <3> QED BY <2>3, <3>1
  <2>4. CASE ShardReturns(l) \/ ShardRaises(l)
    BY <2>4 DEF ShardReturns, ShardRaises
  <2> QED BY <1>3, <2>1, <2>2, <2>3, <2>4 DEF LeaseStep
<1>4. ASSUME NEW l \in Leases, WorldStep(l) PROVE Goal
  <2>1. CASE RunAccepted(l)
    BY <2>1 DEF RunAccepted, checkpoints
  <2>2. CASE VMEnds(l)
    BY <2>2 DEF VMEnds, TypeOK
  <2>3. ASSUME NEW answer \in Answers, VMAnswers(l, answer) PROVE Goal
    BY <2>3 DEF VMAnswers, TypeOK
  <2>4. ASSUME NEW how \in Timeouts, CallbackExpires(l, how) PROVE Goal
    BY <2>4 DEF CallbackExpires, TypeOK
  <2>5. CASE VMEnding(l)
    BY <2>5 DEF VMEnding, TypeOK, checkpoints
  <2> QED BY <1>4, <2>1, <2>2, <2>3, <2>4, <2>5 DEF WorldStep
<1>5. CASE UNCHANGED vars
  BY <1>5 DEF vars, checkpoints
<1> QED BY <1>1, <1>2, <1>3, <1>4, <1>5 DEF Next

\* Only the end of its item gives a shard an outcome.
LEMMA Endings ==
    ASSUME [Next]_vars, TypeOK, NEW s \in Shards, outcome'[s] # outcome[s]
    PROVE  \E l \in Leases : l[1] = s /\ (ShardReturns(l) \/ ShardRaises(l))
<1> DEFINE Goal == \E l \in Leases : l[1] = s /\ (ShardReturns(l) \/ ShardRaises(l))
<1>1. CASE PlanStep \/ OpenGate \/ Submit \/ Decline \/ MapEnds \/ GateSettles \/ Restart \/ Stop
  BY <1>1 DEF PlanStep, OpenGate, Submit, Decline, MapEnds, GateSettles, Restart, Stop, checkpoints
<1>2. ASSUME NEW t \in Shards, StartShard(t) PROVE Goal
  BY <1>2 DEF StartShard
<1>3. ASSUME NEW l \in Leases, LeaseStep(l) PROVE Goal
  <2>1. CASE LaunchStarts(l) \/ LaunchReturns(l) \/ LaunchFails(l) \/ LaunchInterrupted(l) \/ Relaunch(l)
    BY <2>1 DEF LaunchStarts, LaunchReturns, LaunchFails, LaunchInterrupted, Relaunch
  <2>2. CASE TerminateStarts(l) \/ TerminateReturns(l) \/ TerminateFails(l)
    BY <2>2 DEF TerminateStarts, TerminateReturns, TerminateFails, checkpoints
  <2>3. CASE ShardReturns(l)
    <3>1. l[1] = s
      BY <2>3 DEF ShardReturns, TypeOK
    <3> QED BY <2>3, <3>1
  <2>4. CASE ShardRaises(l)
    <3>1. l[1] = s
      BY <2>4 DEF ShardRaises, TypeOK
    <3> QED BY <2>4, <3>1
  <2> QED BY <1>3, <2>1, <2>2, <2>3, <2>4 DEF LeaseStep
<1>4. ASSUME NEW l \in Leases, WorldStep(l) PROVE Goal
  BY <1>4 DEF WorldStep, RunAccepted, VMEnding, VMEnds, VMAnswers, CallbackExpires, checkpoints
<1>5. CASE UNCHANGED vars
  BY <1>5 DEF vars, checkpoints
<1> QED BY <1>1, <1>2, <1>3, <1>4, <1>5 DEF Next

-----------------------------------------------------------------------------
LEMMA Positive == \A n \in Nat : n = 0 \/ 0 < n
OBVIOUS

LEMMA Before == \A i, j \in Nat : i < j => j # 0 /\ \A n \in Nat : j = n + 1 => i = n \/ i < n
OBVIOUS

\* Chain is preserved.
LEMMA ChainStep == TypeOK /\ EveryLease /\ Chain /\ [Next]_vars => Chain'
<1> SUFFICES ASSUME TypeOK, EveryLease, Chain, [Next]_vars,
                    NEW s \in Shards, NEW a \in Attempts, NEW b \in Attempts, a < b, callback'[s, b] # "none"
             PROVE  (teardown[s, a] = "done" /\ Retryable(<<s, a>>))'
  BY DEF Chain
<1>0. a \in Nat /\ b \in Nat
  BY Shapes
<1>1. <<s, a>> \in Leases /\ <<s, b>> \in Leases
  BY Shapes
<1>2. teardown[s, a] = "done" /\ Retryable(<<s, a>>)
  <2>1. CASE callback[s, b] # "none"
    BY <2>1 DEF Chain
  <2>2. ASSUME NEW l \in Leases, Relaunch(l), <<s, b>> = <<l[1], l[2] + 1>>
        PROVE  teardown[s, a] = "done" /\ Retryable(<<s, a>>)
    <3> DEFINE n == l[2]
    <3>1. l = <<s, n>> /\ n \in Attempts /\ n \in Nat /\ b = n + 1
      BY <2>2, Shapes
    <3>2. callback[s, n] # "none" /\ teardown[s, n] = "done" /\ Retryable(<<s, n>>)
      BY <2>2, <3>1 DEF Relaunch, IsLast
    <3> HIDE DEF n
    <3>3. CASE a = n
      BY <3>2, <3>3
    <3>4. CASE a < n
      BY <3>1, <3>2, <3>4 DEF Chain
    <3>5. a = n \/ a < n
      BY <1>0, <3>1, Before
    <3> QED BY <3>3, <3>4, <3>5
  <2>3. ASSUME callback[s, b] = "none" PROVE \E l \in Leases : Relaunch(l) /\ <<s, b>> = <<l[1], l[2] + 1>>
    <3>1. b # 0
      BY <1>0, Before
    <3>2. <<s, b>>[2] = b
      OBVIOUS
    <3> QED BY <1>1, <2>3, <3>1, <3>2, Births
  <2> QED BY <2>1, <2>2, <2>3
<1>3. Settled(<<s, a>>) /\ teardown[<<s, a>>] # "none"
  BY <1>2, InputsAssumption DEF Retryable, Settled, Answers
<1>4. callback'[<<s, a>>] = callback[<<s, a>>] /\ teardown'[<<s, a>>] = teardown[<<s, a>>]
  BY <1>1, <1>3, Steady
<1> QED BY <1>2, <1>4 DEF Retryable

\* A shard that has an outcome gets no other attempt.
LEMMA NoMoreAttempts ==
    ASSUME TypeOK, EveryShard, [Next]_vars,
           NEW s \in Shards, outcome[s] # "none", NEW a \in Attempts, callback[s, a] = "none"
    PROVE  callback'[s, a] = "none"
<1> SUFFICES ASSUME callback'[s, a] # "none" PROVE FALSE
  OBVIOUS
<1>1. ~StartShard(s)
  BY DEF EveryShard, OutcomeInv, StartShard
<1>2. ASSUME NEW l \in Leases, Relaunch(l), <<s, a>> = <<l[1], l[2] + 1>> PROVE FALSE
  <2>1. l[1] = s
    BY <1>2
  <2> QED BY <1>2, <2>1 DEF Relaunch
<1>3. <<s, a>> \in Leases /\ <<s, a>>[1] = s
  BY Shapes
<1> QED BY <1>1, <1>2, <1>3, Births

\* EveryShard is preserved.
LEMMA EveryShardStep == TypeOK /\ EveryLease /\ Chain /\ EveryShard /\ [Next]_vars => EveryShard'
<1> SUFFICES ASSUME TypeOK, EveryLease, Chain, EveryShard, [Next]_vars, NEW s \in Shards
             PROVE  OutcomeInv(s)'
  BY DEF EveryShard
<1>0. OutcomeInv(s)
  BY DEF EveryShard
<1>1. CASE outcome'[s] = outcome[s]
  <2>1. (outcome[s] # "none" => s \in Begun)'
    BY <1>0, <1>1, Steady, Shapes DEF OutcomeInv, Begun
  <2>2. ASSUME outcome[s] \in {"done", "failed", "timed_out"}, NEW a \in Attempts, callback'[s, a] # "none"
        PROVE  teardown'[s, a] = "done" /\ callback'[s, a] = callback[s, a]
    <3>1. callback[s, a] # "none"
      BY <2>2, NoMoreAttempts
    <3>2. teardown[<<s, a>>] = "done"
      BY <1>0, <2>2, <3>1 DEF OutcomeInv
    <3>3. <<s, a>> \in Leases /\ Settled(<<s, a>>)
      BY <3>2, Shapes DEF EveryLease, LeaseInv
    <3> QED BY <3>2, <3>3, Steady
  <2>3. ASSUME outcome[s] = "raised"
        PROVE  \E a \in Attempts : IsLast(<<s, a>>)' /\ "failed" \in {launch'[s, a], teardown'[s, a]}
    <3>1. PICK a \in Attempts : IsLast(<<s, a>>) /\ "failed" \in {launch[s, a], teardown[s, a]}
      BY <1>0, <2>3 DEF OutcomeInv
    <3>2. <<s, a>> \in Leases /\ <<s, a>>[1] = s /\ <<s, a>>[2] = a
      BY Shapes
    <3>3. "failed" \in {launch'[<<s, a>>], teardown'[<<s, a>>]} /\ callback'[<<s, a>>] # "none"
      BY <3>1, <3>2, Steady DEF IsLast
    <3>4. \A b \in Attempts : b > a => callback'[s, b] = "none"
      BY <2>3, <3>1, <3>2, NoMoreAttempts DEF IsLast
    <3>5. IsLast(<<s, a>>)'
      BY <3>2, <3>3, <3>4 DEF IsLast
    <3> QED BY <3>3, <3>5
  <2> QED BY <1>0, <1>1, <2>1, <2>2, <2>3 DEF OutcomeInv
<1>2. ASSUME NEW l \in Leases, l[1] = s, ShardReturns(l) PROVE OutcomeInv(s)'
  <2>1. callback' = callback /\ teardown' = teardown /\ launch' = launch /\ l = <<s, l[2]>> /\ l[2] \in Attempts
    BY <1>2, Shapes DEF ShardReturns
  <2>2. callback[s, l[2]] # "none" /\ \A a \in Attempts : a > l[2] => callback[s, a] = "none"
    BY <1>2, <2>1 DEF ShardReturns, IsLast
  <2>3. \A a \in Attempts : a < l[2] => teardown[s, a] = "done" /\ Retryable(<<s, a>>)
    BY <2>1, <2>2 DEF Chain
  <2>4. \A a \in Attempts : a < l[2] \/ a = l[2] \/ a > l[2]
    BY <2>1, Shapes
  <2>5. \A a \in Attempts : callback[s, a] # "none" => teardown[s, a] = "done"
    BY <1>2, <2>1, <2>2, <2>3, <2>4 DEF ShardReturns
  <2>6. s \in Begun
    <3>1. 0 < l[2] => callback[s, 0] # "none"
      BY <2>3, InputsAssumption, Shapes DEF Retryable
    <3>2. l[2] = 0 \/ 0 < l[2]
      BY <2>1, Shapes
    <3>3. callback[s, 0] # "none"
      BY <2>2, <3>1, <3>2
    <3> QED BY <3>3 DEF Begun
  <2>7. outcome'[s] = (CASE callback[l] = "success" -> "done" [] callback[l] \in Timeouts -> "timed_out" [] OTHER -> "failed")
    BY <1>2 DEF ShardReturns, TypeOK
  <2>8. outcome'[s] \in {"failed", "timed_out"} => \A a \in Attempts : callback[s, a] # "success"
    <3>0. callback[s, l[2]] = callback[l]
      BY <2>1
    <3>1. callback[l] = "success" => outcome'[s] = "done"
      BY <2>7, InputsAssumption
    <3>2. \A a \in Attempts : a < l[2] => callback[s, a] # "success"
      BY <2>3, InputsAssumption DEF Retryable
    <3> QED BY <2>2, <2>4, <3>0, <3>1, <3>2
  <2>9. outcome'[s] # "raised"
    BY <2>7
  <2> QED BY <2>1, <2>5, <2>6, <2>8, <2>9 DEF OutcomeInv, Begun
<1>3. ASSUME NEW l \in Leases, l[1] = s, ShardRaises(l) PROVE OutcomeInv(s)'
  <2>1. callback' = callback /\ teardown' = teardown /\ launch' = launch /\ l = <<s, l[2]>> /\ l[2] \in Attempts
    BY <1>3, Shapes DEF ShardRaises
  <2>2. IsLast(<<s, l[2]>>) /\ "failed" \in {launch[s, l[2]], teardown[s, l[2]]}
    BY <1>3, <2>1 DEF ShardRaises
  <2>3. outcome'[s] = "raised"
    BY <1>3 DEF ShardRaises, TypeOK
  <2>4. s \in Begun
    <3>1. callback[s, l[2]] # "none"
      BY <2>2 DEF IsLast
    <3>2. 0 < l[2] => callback[s, 0] # "none"
      BY <2>1, <3>1, InputsAssumption, Shapes DEF Chain, Retryable
    <3>3. l[2] = 0 \/ 0 < l[2]
      BY <2>1, Shapes
    <3>4. callback[s, 0] # "none"
      BY <3>1, <3>2, <3>3
    <3> QED BY <3>4 DEF Begun
  <2> QED BY <2>1, <2>2, <2>3, <2>4 DEF OutcomeInv, Begun, IsLast
<1> QED BY <1>1, <1>2, <1>3, Endings

-----------------------------------------------------------------------------
\* Only lease_map itself, and who answers for the approval, touch the plan, the
\* approval and the result.
LEMMA PlanKept ==
    ASSUME [Next]_vars
    PROVE  \/ PlanStep \/ OpenGate \/ Submit \/ Decline \/ MapEnds \/ GateSettles
           \/ UNCHANGED <<call, plan, gate, final, quota, shown>>
<1> DEFINE Kept == UNCHANGED <<call, plan, gate, final, quota, shown>>
<1>1. Stop \/ Restart => Kept
  BY DEF Stop, Restart, checkpoints, history
<1>2. ASSUME NEW s \in Shards, StartShard(s) PROVE Kept
  BY <1>2 DEF StartShard, history
<1>3. ASSUME NEW l \in Leases, LeaseStep(l) PROVE Kept
  <2>1. CASE LaunchStarts(l) \/ LaunchReturns(l) \/ LaunchFails(l) \/ LaunchInterrupted(l)
    BY <2>1 DEF LaunchStarts, LaunchReturns, LaunchFails, LaunchInterrupted, history
  <2>2. CASE TerminateStarts(l) \/ TerminateReturns(l) \/ TerminateFails(l)
    BY <2>2 DEF TerminateStarts, TerminateReturns, TerminateFails, checkpoints, history
  <2>3. CASE Relaunch(l) \/ ShardReturns(l) \/ ShardRaises(l)
    BY <2>3 DEF Relaunch, ShardReturns, ShardRaises, history
  <2> QED BY <1>3, <2>1, <2>2, <2>3 DEF LeaseStep
<1>4. ASSUME NEW l \in Leases, WorldStep(l) PROVE Kept
  BY <1>4 DEF WorldStep, RunAccepted, VMEnding, VMEnds, VMAnswers, CallbackExpires, checkpoints, history
<1>5. UNCHANGED vars => Kept
  BY DEF vars, checkpoints, history
<1> QED BY <1>1, <1>2, <1>3, <1>4, <1>5 DEF Next

\* What was settled before the map stays settled.
LEMMA FanningStays == Fanning /\ [Next]_vars => Fanning'
<1> SUFFICES ASSUME Fanning, [Next]_vars PROVE Fanning'
  OBVIOUS
<1>1. CASE PlanStep \/ OpenGate \/ Submit \/ Decline \/ MapEnds \/ GateSettles
  BY <1>1 DEF Fanning, PlanStep, OpenGate, Submit, Decline, MapEnds, GateSettles, checkpoints
<1>2. CASE UNCHANGED <<call, plan, gate, final, quota, shown>>
  BY <1>2 DEF Fanning
<1> QED BY <1>1, <1>2, PlanKept

\* PlanInv is preserved.
LEMMA PlanInvStep == TypeOK /\ EveryLease /\ EveryShard /\ PlanInv /\ [Next]_vars => PlanInv'
<1> SUFFICES ASSUME TypeOK, EveryLease, EveryShard, PlanInv, [Next]_vars PROVE PlanInv'
  OBVIOUS
<1>1. ASSUME NEW l \in Leases, callback'[l] # "none" PROVE Fanning'
  <2>1. CASE callback[l] # "none"
    BY <2>1, FanningStays DEF PlanInv
  <2>2. ASSUME NEW s \in Shards, StartShard(s) PROVE Fanning'
    BY <2>2, FanningStays DEF StartShard, Mapping, Fanning
  <2>3. ASSUME NEW k \in Leases, Relaunch(k) PROVE Fanning'
    BY <2>3, FanningStays DEF Relaunch, IsLast, PlanInv
  <2>4. callback[l] = "none" => StartShard(l[1]) \/ \E k \in Leases : Relaunch(k)
    BY <1>1, Births
  <2>5. l[1] \in Shards
    BY Shapes
  <2> QED BY <2>1, <2>2, <2>3, <2>4, <2>5
<1>2. (gate # "none" => plan # NoPlan /\ ~plan.rejected /\ plan.needsApproval /\ call.approver)'
  <2>1. CASE PlanStep \/ OpenGate \/ Submit \/ Decline \/ MapEnds \/ GateSettles
    BY <2>1 DEF PlanInv, PlanStep, OpenGate, Submit, Decline, MapEnds, GateSettles, checkpoints
  <2> QED BY <2>1, PlanKept DEF PlanInv
<1>3. (shown # NoPlan => shown = plan)' /\ (gate = "granted" => shown # NoPlan)'
  <2>1. CASE PlanStep \/ OpenGate \/ Submit \/ Decline \/ MapEnds \/ GateSettles
    BY <2>1 DEF PlanInv, PlanStep, OpenGate, Submit, Decline, MapEnds, GateSettles, checkpoints, history
  <2> QED BY <2>1, PlanKept DEF PlanInv
<1>4. (final # "none" => gate # "open")'
  <2>1. CASE PlanStep \/ OpenGate \/ Submit \/ Decline \/ MapEnds \/ GateSettles
    BY <2>1 DEF PlanInv, PlanStep, OpenGate, Submit, Decline, MapEnds, GateSettles, Mapping, Running, checkpoints
  <2> QED BY <2>1, PlanKept DEF PlanInv
<1>5. (plan # NoPlan => plan = PlanFanout(NumShards, Baseline, call.policy, quota))'
  <2>1. CASE PlanStep
    BY <2>1 DEF PlanStep
  <2>2. CASE OpenGate \/ Submit \/ Decline \/ MapEnds \/ GateSettles
    BY <2>2 DEF PlanInv, OpenGate, Submit, Decline, MapEnds, GateSettles, checkpoints, history
  <2> QED BY <2>1, <2>2, PlanKept DEF PlanInv
<1>6. ASSUME final' = "done", NEW s \in Shards PROVE outcome'[s] # "none"
  <2>1. CASE MapEnds
    BY <2>1 DEF MapEnds
  <2>2. CASE final = "done"
    <3>1. outcome[s] # "none"
      BY <2>2 DEF PlanInv
    <3>2. outcome'[s] = outcome[s]
      BY <2>2, Endings DEF ShardReturns, ShardRaises, Running
    <3> QED BY <3>1, <3>2
  <2>3. CASE PlanStep \/ OpenGate \/ Submit \/ Decline \/ GateSettles
    BY <1>6, <2>2, <2>3 DEF PlanStep, OpenGate, Submit, Decline, GateSettles, checkpoints
  <2> QED BY <1>6, <2>1, <2>2, <2>3, PlanKept
<1> QED BY <1>1, <1>2, <1>3, <1>4, <1>5, <1>6 DEF PlanInv

\* IInv holds in every state of every behaviour.
THEOREM Inductive == Spec => []IInv
<1>1. IInv /\ [Next]_vars => IInv'
  BY TypeStep, EveryLeaseStep, ChainStep, EveryShardStep, PlanInvStep DEF IInv
<1> QED BY InitInv, <1>1, PTL DEF Spec

-----------------------------------------------------------------------------
\* Every variable stays in its domain: what a restart reads back is what was
\* checkpointed.
THEOREM TypeCorrect == Spec => []TypeOK
BY Inductive, PTL DEF IInv

\* Nothing is launched before the plan was accepted and approved, and the plan
\* that is run is the plan the approver was shown.
THEOREM ApprovedIsRunHolds == Spec => []ApprovedIsRun
<1>1. IInv => ApprovedIsRun
  <2> SUFFICES ASSUME IInv, NEW l \in Leases, vm[l] # "none"
               PROVE  plan # NoPlan /\ ~plan.rejected /\ (plan.needsApproval => gate = "granted" /\ shown = plan)
    BY DEF ApprovedIsRun
  <2>1. callback[l] # "none"
    BY DEF IInv, EveryLease, LeaseInv
  <2> QED BY <2>1 DEF IInv, PlanInv, Fanning
<1> QED BY Inductive, <1>1, PTL

\* A lease that has a successor is torn down: the termination of its microVM has
\* been answered.
THEOREM RelaunchAfterTerminationHolds == Spec => []RelaunchAfterTermination
<1>1. IInv => RelaunchAfterTermination
  <2> SUFFICES ASSUME IInv, NEW l \in Leases, l[2] > 0, callback[l] # "none"
               PROVE  vm[l[1], l[2] - 1] \in {"ending", "gone"} /\ teardown[l[1], l[2] - 1] = "done"
    BY DEF RelaunchAfterTermination
  <2> DEFINE before == l[2] - 1
  <2>1. before \in Attempts /\ before < l[2] /\ l[1] \in Shards /\ l[2] \in Attempts
    BY Shapes, ShardsAssumption DEF Attempts
  <2>2. callback[l[1], l[2]] # "none"
    BY Shapes
  <2> HIDE DEF before
  <2>3. teardown[l[1], before] = "done" /\ <<l[1], before>> \in Leases
    BY <2>1, <2>2, Shapes DEF IInv, Chain
  <2>4. vm[l[1], before] \in {"ending", "gone"}
    BY <2>3 DEF IInv, EveryLease, LeaseInv
  <2> QED BY <2>3, <2>4 DEF before
<1> QED BY Inductive, <1>1, PTL

\* When lease_map has returned, whatever may still run belongs to a shard that
\* is reported as an error.
THEOREM StraysAreReportedHolds == Spec => []StraysAreReported
<1>1. IInv => StraysAreReported
  <2> SUFFICES ASSUME IInv, final = "done", NEW l \in Leases, vm[l] = "up" \/ l \in sent, outcome[l[1]] # "raised"
               PROVE  FALSE
    BY DEF StraysAreReported
  <2>1. outcome[l[1]] \in {"done", "failed", "timed_out"} /\ l[1] \in Shards /\ l[2] \in Attempts
    BY Shapes DEF IInv, TypeOK, PlanInv
  <2>2. callback[l] # "none"
    BY DEF IInv, EveryLease, LeaseInv
  <2>3. callback[l[1], l[2]] # "none"
    BY <2>2, Shapes
  <2>4. teardown[l[1], l[2]] = "done"
    BY <2>1, <2>3 DEF IInv, EveryShard, OutcomeInv
  <2>5. teardown[l] = "done"
    BY <2>4, Shapes
  <2> QED BY <2>5 DEF IInv, EveryLease, LeaseInv
<1> QED BY Inductive, <1>1, PTL

\* A success is the shard's last attempt and its outcome, unless a step around
\* it failed.
THEOREM SuccessIsKeptHolds == Spec => []SuccessIsKept
<1>1. IInv => SuccessIsKept
  <2> SUFFICES ASSUME IInv, NEW l \in Leases, callback[l] = "success"
               PROVE  IsLast(l) /\ (outcome[l[1]] \in {"none", "done"} \/ "failed" \in {launch[l], teardown[l]})
    BY DEF SuccessIsKept
  <2> DEFINE s == l[1]
             n == l[2]
  <2>1. s \in Shards /\ n \in Attempts /\ n \in Nat /\ l = <<s, n>>
    BY Shapes
  <2>2. callback[s, n] = "success" /\ ~Retryable(<<s, n>>)
    BY <2>1, InputsAssumption DEF Retryable
  <2>3. \A a \in Attempts : a > n => callback[s, a] = "none"
    <3>1. ASSUME NEW a \in Attempts, a > n, callback[s, a] # "none" PROVE FALSE
      BY <2>1, <2>2, <3>1, Shapes DEF IInv, Chain
    <3> QED BY <3>1
  <2>4. IsLast(l)
    BY <2>1, <2>2, <2>3 DEF IsLast
  <2>5. outcome[s] \in {"none", "done", "raised"}
    <3>1. outcome[s] \in {"none", "done", "failed", "timed_out", "raised"}
      BY <2>1 DEF IInv, TypeOK
    <3>2. OutcomeInv(s)
      BY <2>1 DEF IInv, EveryShard
    <3>3. outcome[s] \notin {"failed", "timed_out"}
      BY <2>1, <2>2, <3>2 DEF OutcomeInv
    <3> HIDE DEF s, n
    <3> QED BY <3>1, <3>3
  <2>6. CASE outcome[s] = "raised"
    <3>1. PICK a \in Attempts : IsLast(<<s, a>>) /\ "failed" \in {launch[s, a], teardown[s, a]}
      BY <2>1, <2>6 DEF IInv, EveryShard, OutcomeInv
    <3>2. callback[s, a] # "none" /\ \A b \in Attempts : b > a => callback[s, b] = "none"
      BY <3>1 DEF IsLast
    <3>3. a \in Nat
      BY Shapes
    <3>4. ~(a > n) /\ ~(n > a)
      BY <2>1, <2>2, <2>3, <3>2
    <3>5. a = n
      BY <2>1, <3>3, <3>4
    <3> QED BY <2>1, <2>4, <3>1, <3>5
  <2> QED BY <2>4, <2>5, <2>6
<1> QED BY Inductive, <1>1, PTL

-----------------------------------------------------------------------------
\* What a step may do to the shards that are in hand.
LEMMA Moves ==
    ASSUME IInv, [Next]_vars
    PROVE  \/ PlanStep \/ OpenGate \/ Submit \/ Decline \/ MapEnds \/ GateSettles
           \/ /\ UNCHANGED <<call, plan, gate, final>>
              /\ \/ \E s \in Shards : StartShard(s)
                 \/ \E l \in Leases : ShardReturns(l) \/ ShardRaises(l)
                 \/ Begun' = Begun /\ outcome' = outcome
<1> SUFFICES ASSUME \A s \in Shards : ~StartShard(s),
                    \A l \in Leases : ~ShardReturns(l) /\ ~ShardRaises(l)
             PROVE  Begun' = Begun /\ outcome' = outcome
  BY PlanKept
<1>0. TypeOK /\ TypeOK' /\ EveryLease
  BY TypeStep DEF IInv
<1>1. \A s \in Shards : outcome'[s] = outcome[s]
  BY <1>0, Endings
<1>2. outcome' = outcome
  BY <1>0, <1>1 DEF TypeOK
<1>3. ASSUME NEW s \in Shards PROVE callback'[s, 0] # "none" <=> callback[s, 0] # "none"
  <2>1. <<s, 0>> \in Leases /\ <<s, 0>>[1] = s
    BY Shapes
  <2>2. ASSUME NEW l \in Leases, Relaunch(l), <<s, 0>> = <<l[1], l[2] + 1>> PROVE FALSE
    <3>1. l[2] + 1 = 0 /\ l[2] \in Nat
      BY <2>2, Shapes
    <3> QED BY <3>1
  <2> QED BY <1>0, <2>1, <2>2, Births, Steady
<1> QED BY <1>2, <1>3 DEF Begun

\* An attempt of a shard that has begun is in hand until the shard has its outcome.
LEMMA InHand ==
    ASSUME IInv, NEW l \in Leases, callback[l] # "none", outcome[l[1]] = "none"
    PROVE  l[1] \in Open
<1> DEFINE s == l[1]
           n == l[2]
<1>1. s \in Shards /\ n \in Attempts /\ n \in Nat /\ callback[s, n] # "none"
  BY Shapes
<1> HIDE DEF s, n
<1>2. 0 < n => callback[s, 0] # "none"
  BY <1>1, InputsAssumption, Shapes DEF IInv, Chain, Retryable
<1>3. n = 0 \/ 0 < n
  BY <1>1, Positive
<1>4. callback[s, 0] # "none"
  BY <1>1, <1>2, <1>3
<1>5. s \in Begun
  BY <1>1, <1>4 DEF Begun
<1> QED BY <1>5 DEF Open, s

LEMMA WidthType == TypeOK /\ plan # NoPlan => Width \in Nat \ {0} /\ Width <= Greater(1, plan.concurrency)
<1> SUFFICES ASSUME TypeOK, plan # NoPlan PROVE Width \in Nat \ {0} /\ Width <= Greater(1, plan.concurrency)
  OBVIOUS
<1>1. plan.concurrency \in Nat /\ call.cap \in Ceilings
  BY InputsAssumption DEF TypeOK, Plan
<1> QED BY <1>1 DEF Width, Greater, Lesser, Ceilings

LEMMA WidthAfter == TypeOK' /\ plan' # NoPlan => Width' \in Nat \ {0}
<1> SUFFICES ASSUME TypeOK', plan' # NoPlan PROVE Width' \in Nat \ {0}
  OBVIOUS
<1>1. plan'.concurrency \in Nat /\ call'.cap \in Ceilings
  BY InputsAssumption DEF TypeOK, Plan
<1> QED BY <1>1 DEF Width, Greater, Lesser, Ceilings

\* One step of lease_map is one step of the fan-out it promises, or none.
LEMMA PromiseStep ==
    ASSUME IInv, [Next]_vars
    PROVE  [Promise!Next]_(Promise!vars)
<1> DEFINE Settled_ == {s \in Shards : outcome[s] # "none"}
           W == IF Fanning THEN Width ELSE 0
<1>0. TypeOK /\ TypeOK' /\ PlanInv /\ EveryShard /\ EveryLease
  BY TypeStep DEF IInv
<1>1. CASE PlanStep
  <2>1. final = "none" /\ final' = "none" /\ ~Fanning /\ Open' = Open /\ outcome' = outcome /\ plan' # NoPlan
    <3>1. PlanFanout(NumShards, Baseline, call.policy, quota') \in Plan
      BY <1>0, <1>1, PlanType, InputsAssumption DEF PlanStep, TypeOK
    <3>2. plan' # NoPlan
      BY <1>1, <3>1, NoPlanAssumption DEF PlanStep, NoPlan
    <3> QED BY <1>1, <3>2 DEF PlanStep, Running, Fanning, Open, Begun
  <2>2. CASE Fanning'
    <3>1. Width' \in Nat \ {0}
      BY <1>0, <2>1, WidthAfter
    <3>2. Promise!Admit
      BY <2>1, <2>2, <3>1 DEF Promise!Admit, Phase
    <3> QED BY <3>2 DEF Promise!Next
  <2>3. CASE ~Fanning'
    BY <2>1, <2>3 DEF Promise!vars, Phase
  <2> QED BY <2>2, <2>3
<1>2. CASE GateSettles
  <2>1. final = "none" /\ final' = "none" /\ ~Fanning /\ Open' = Open /\ outcome' = outcome /\ plan' # NoPlan
    BY <1>0, <1>2 DEF GateSettles, PlanInv, TypeOK, Fanning, Open, Begun, Finals
  <2>2. CASE Fanning'
    <3>1. Width' \in Nat \ {0}
      BY <1>0, <2>1, WidthAfter
    <3>2. Promise!Admit
      BY <2>1, <2>2, <3>1 DEF Promise!Admit, Phase
    <3> QED BY <3>2 DEF Promise!Next
  <2>3. CASE ~Fanning'
    BY <2>1, <2>3 DEF Promise!vars, Phase
  <2> QED BY <2>2, <2>3
<1>3. CASE OpenGate \/ Submit
  BY <1>3 DEF OpenGate, Submit, checkpoints, Promise!vars, Phase, Fanning, Width, Open, Begun
<1>4. CASE Decline
  <2>1. ~Fanning /\ final = "none" /\ final' # "none"
    BY <1>0, <1>4 DEF Decline, Running, PlanInv, Fanning
  <2>2. ~Fanning' /\ Open' = Open /\ outcome' = outcome
    BY <1>4, <2>1 DEF Decline, Fanning, Open, Begun
  <2>3. Promise!Refuse
    BY <2>1, <2>2 DEF Promise!Refuse, Phase
  <2> QED BY <2>3 DEF Promise!Next
<1>5. CASE MapEnds
  <2>1. Fanning /\ Fanning' /\ final = "none" /\ final' # "none" /\ Open' = Open /\ outcome' = outcome /\ Width' = Width
    BY <1>5 DEF MapEnds, Mapping, Running, Fanning, Open, Begun, Width
  <2>2. \A s \in Shards : outcome[s] # "none"
    BY <1>5 DEF MapEnds
  <2>3. Promise!Finish
    BY <2>1, <2>2 DEF Promise!Finish, Phase
  <2> QED BY <2>3 DEF Promise!Next
<1>6. ASSUME UNCHANGED <<call, plan, gate, final>> PROVE Phase' = Phase /\ Width' = Width /\ Fanning' = Fanning
  BY <1>6 DEF Phase, Width, Fanning
<1>7. ASSUME NEW s \in Shards, StartShard(s) PROVE Promise!Begin(s)
  <2>1. UNCHANGED <<call, plan, gate, final>> /\ outcome' = outcome
    BY <1>7 DEF StartShard
  <2>2. Fanning /\ final = "none" /\ Cardinality(Open) < Width /\ s \notin Begun
    BY <1>7 DEF StartShard, Mapping, Running, Fanning
  <2>3. Begun' = Begun \union {s}
    <3>1. \A t \in Shards : <<t, 0>> \in Leases /\ (<<t, 0>> = <<s, 0>> <=> t = s)
      BY Shapes
    <3>2. \A t \in Shards : callback'[t, 0] = IF t = s THEN "open" ELSE callback[t, 0]
      BY <1>0, <1>7, <3>1 DEF StartShard, TypeOK
    <3> QED BY <3>2 DEF Begun
  <2>4. outcome[s] = "none"
    BY <1>0, <2>2 DEF EveryShard, OutcomeInv
  <2>5. Open' = Open \union {s}
    BY <2>1, <2>3, <2>4 DEF Open
  <2>6. s \notin Open \union Settled_
    BY <2>2, <2>4 DEF Open
  <2>7. Phase' = Phase /\ Width' = Width /\ Fanning' = Fanning /\ Phase = "fanning"
    BY <1>6, <2>1, <2>2 DEF Phase
  <2>8. Settled_' = Settled_ /\ W' = W /\ W = Width
    BY <2>1, <2>2, <2>7
  <2>9. Promise!Cardinality(Open) = Cardinality(Open)
    BY DEF Promise!Cardinality, Cardinality, Promise!IsFiniteSet, IsFiniteSet
  <2>10. Promise!Cardinality(Open) < W
    BY <2>2, <2>8, <2>9, Zenon
  <2> QED BY <2>5, <2>6, <2>7, <2>8, <2>10, Zenon DEF Promise!Begin
<1>8. ASSUME NEW l \in Leases, ShardReturns(l) \/ ShardRaises(l) PROVE Promise!Settle(l[1])
  <2> DEFINE s == l[1]
  <2>1. UNCHANGED <<call, plan, gate, final>> /\ callback' = callback /\ final = "none"
    BY <1>8 DEF ShardReturns, ShardRaises, Running
  <2>2. callback[l] # "none" /\ outcome[s] = "none"
    BY <1>8 DEF ShardReturns, ShardRaises, IsLast
  <2>3. s \in Open /\ Fanning /\ s \in Shards
    BY <1>0, <2>2, InHand, Shapes DEF PlanInv
  <2>4. outcome'[s] # "none" /\ \A t \in Shards : t # s => outcome'[t] = outcome[t]
    BY <1>0, <1>8, <2>3 DEF ShardReturns, ShardRaises, TypeOK
  <2> HIDE DEF s
  <2>5. Open' = Open \ {s} /\ Settled_' = Settled_ \union {s}
    BY <2>1, <2>3, <2>4 DEF Open, Begun
  <2>6. Promise!Settle(s)
    BY <1>6, <2>1, <2>3, <2>5 DEF Promise!Settle, Phase
  <2> QED BY <2>6 DEF s
<1>9. ASSUME UNCHANGED <<call, plan, gate, final>>, Begun' = Begun, outcome' = outcome PROVE UNCHANGED Promise!vars
  BY <1>6, <1>9 DEF Promise!vars, Open
<1>10. \A l \in Leases : l[1] \in Shards
  BY Shapes
<1> QED BY <1>1, <1>2, <1>3, <1>4, <1>5, <1>7, <1>8, <1>9, <1>10, Moves DEF Promise!Next

\* lease_map keeps the promise of a fan-out: restarts, steps and callbacks are
\* invisible to its caller.
THEOREM KeepsFanoutPromiseHolds == Spec => KeepsFanoutPromise
<1>1. Init => Promise!Init
  <2> SUFFICES ASSUME Init PROVE Promise!Init
    OBVIOUS
  <2>1. ~Fanning /\ Phase = "planning"
    BY DEF Init, Phase, Fanning, NoPlan
  <2>2. Begun = {} /\ \A s \in Shards : outcome[s] = "none"
    BY Shapes DEF Init, Begun
  <2> QED BY <2>1, <2>2 DEF Promise!Init, Open
<1>2. IInv /\ [Next]_vars => [Promise!Next]_(Promise!vars)
  BY PromiseStep
<1> QED BY <1>1, <1>2, Inductive, PTL DEF Spec, KeepsFanoutPromise, Promise!Spec

-----------------------------------------------------------------------------
\* No more shards are in hand than the plan allows.
WidthInv == Fanning => Cardinality(Open) <= Width

LEMMA OpenFinite == IsFiniteSet(Open) /\ Cardinality(Open) \in Nat
<1>1. IsFiniteSet(Shards)
  BY FS_Interval, ShardsAssumption DEF Shards
<1>2. Open \in SUBSET Shards
  BY DEF Open, Begun
<1>3. IsFiniteSet(Open)
  BY <1>1, <1>2, FS_Subset
<1> QED BY <1>3, FS_CardinalityType

LEMMA NothingInHand == ASSUME IInv, ~Fanning PROVE Open = {}
<1>1. ASSUME NEW s \in Begun PROVE FALSE
  <2>1. <<s, 0>> \in Leases /\ callback[<<s, 0>>] # "none"
    BY <1>1, Shapes DEF Begun
  <2> QED BY <2>1 DEF IInv, PlanInv
<1> QED BY <1>1 DEF Open

LEMMA WidthInvStep == IInv /\ WidthInv /\ [Next]_vars => WidthInv'
<1> SUFFICES ASSUME IInv, WidthInv, [Next]_vars, Fanning' PROVE Cardinality(Open') <= Width'
  BY DEF WidthInv
<1>0. TypeOK /\ TypeOK' /\ PlanInv /\ EveryShard
  BY TypeStep DEF IInv
<1>1. Width' \in Nat \ {0}
  BY <1>0, WidthAfter DEF Fanning
<1>2. CASE ~Fanning
  <2>1. Open = {}
    BY <1>2, NothingInHand
  <2>2. PlanStep \/ GateSettles
    BY <1>2, Moves DEF Fanning, OpenGate, Submit, Decline, MapEnds, Mapping, checkpoints
  <2>3. Open' = Open
    BY <2>2 DEF PlanStep, GateSettles, Open, Begun
  <2>4. Cardinality(Open') = 0
    BY <2>1, <2>3, FS_EmptySet
  <2> QED BY <1>1, <2>4
<1>3. CASE Fanning
  <2>1. Width' = Width
    BY <1>3, Moves DEF Fanning, PlanStep, OpenGate, Submit, Decline, MapEnds, GateSettles, checkpoints, Width
  <2>2. Cardinality(Open) <= Width /\ Width \in Nat
    BY <1>0, <1>3, WidthType DEF WidthInv, Fanning
  <2>3. CASE Open' = Open
    BY <2>1, <2>2, <2>3
  <2>4. ASSUME NEW s \in Shards, StartShard(s) PROVE Cardinality(Open') <= Width'
    <3>1. Cardinality(Open) < Width /\ s \notin Open
      BY <2>4 DEF StartShard, Open
    <3>2. Open' = Open \union {s}
      <4>1. \A t \in Shards : <<t, 0>> \in Leases /\ (<<t, 0>> = <<s, 0>> <=> t = s)
        BY Shapes
      <4>2. \A t \in Shards : callback'[t, 0] = IF t = s THEN "open" ELSE callback[t, 0]
        BY <1>0, <2>4, <4>1 DEF StartShard, TypeOK
      <4>3. Begun' = Begun \union {s}
        BY <4>2 DEF Begun
      <4>4. outcome' = outcome /\ outcome[s] = "none"
        BY <1>0, <2>4 DEF StartShard, EveryShard, OutcomeInv
      <4> QED BY <4>3, <4>4 DEF Open
    <3>3. Cardinality(Open') = Cardinality(Open) + 1
      BY <3>1, <3>2, OpenFinite, FS_AddElement
    <3> QED BY <2>1, <2>2, <3>1, <3>3, OpenFinite
  <2>5. ASSUME NEW l \in Leases, ShardReturns(l) \/ ShardRaises(l) PROVE Cardinality(Open') <= Width'
    <3>1. callback' = callback /\ \A t \in Shards : outcome'[t] = "none" => outcome[t] = "none"
      BY <1>0, <2>5 DEF ShardReturns, ShardRaises, TypeOK
    <3>2. Open' \in SUBSET Open
      BY <3>1 DEF Open, Begun
    <3>3. IsFiniteSet(Open') /\ Cardinality(Open') <= Cardinality(Open)
      BY <3>2, OpenFinite, FS_Subset
    <3>4. Cardinality(Open') \in Nat
      BY <3>3, FS_CardinalityType
    <3> QED BY <2>1, <2>2, <3>3, <3>4, OpenFinite
  <2>6. PlanStep \/ OpenGate \/ Submit \/ Decline \/ MapEnds \/ GateSettles => Open' = Open
    BY DEF PlanStep, OpenGate, Submit, Decline, MapEnds, GateSettles, checkpoints, Open, Begun
  <2>7. Begun' = Begun /\ outcome' = outcome => Open' = Open
    BY DEF Open
  <2> QED BY <2>3, <2>4, <2>5, <2>6, <2>7, Moves
<1> QED BY <1>2, <1>3

\* Every attended microVM stands for a shard in hand of its own.
LEMMA AttendedFits ==
    ASSUME IInv
    PROVE  IsFiniteSet(Attended) /\ Cardinality(Attended) <= Cardinality(Open)
<1> DEFINE f == [l \in Attended |-> l[1]]
<1>0. TypeOK /\ EveryLease /\ Chain /\ EveryShard
  BY DEF IInv
<1>1. ASSUME NEW l \in Attended
      PROVE  /\ l \in Leases /\ l[1] \in Shards /\ l[2] \in Attempts /\ l[2] \in Nat /\ l = <<l[1], l[2]>>
             /\ callback[l[1], l[2]] # "none" /\ teardown[l[1], l[2]] # "done" /\ l[1] \in Open
  <2>1. l \in Leases /\ vm[l] = "up" /\ outcome[l[1]] # "raised"
    BY DEF Attended
  <2>2. l[1] \in Shards /\ l[2] \in Attempts /\ l[2] \in Nat /\ l = <<l[1], l[2]>>
    BY <2>1, Shapes
  <2>3. callback[l] # "none" /\ teardown[l] # "done"
    BY <1>0, <2>1 DEF EveryLease, LeaseInv
  <2>4. callback[l[1], l[2]] # "none" /\ teardown[l[1], l[2]] # "done"
    BY <2>2, <2>3
  <2>5. outcome[l[1]] \notin {"done", "failed", "timed_out"}
    BY <1>0, <2>2, <2>4 DEF EveryShard, OutcomeInv
  <2>6. outcome[l[1]] = "none"
    BY <1>0, <2>1, <2>2, <2>5 DEF TypeOK
  <2> QED BY <2>1, <2>2, <2>3, <2>4, <2>6, InHand
<1>2. ASSUME NEW k \in Attended, NEW l \in Attended, k[1] = l[1] PROVE k = l
  <2> DEFINE s == k[1]
             a == k[2]
             b == l[2]
  <2>1. /\ s \in Shards /\ a \in Attempts /\ b \in Attempts
        /\ callback[s, a] # "none" /\ teardown[s, a] # "done"
        /\ callback[s, b] # "none" /\ teardown[s, b] # "done"
    BY <1>1, <1>2
  <2> HIDE DEF s, a, b
  <2>2. ~(a < b) /\ ~(b < a)
    BY <1>0, <2>1 DEF Chain
  <2>3. ~(k[2] < l[2]) /\ ~(l[2] < k[2])
    BY <2>2 DEF a, b
  <2>4. k[2] \in Nat /\ l[2] \in Nat
    BY <1>1
  <2>5. k[2] = l[2]
    BY <2>3, <2>4
  <2>6. k = <<k[1], k[2]>> /\ l = <<l[1], l[2]>>
    BY <1>1
  <2> QED BY <1>2, <2>5, <2>6
<1>3. f \in Injection(Attended, Open)
  BY <1>1, <1>2 DEF Injection, IsInjective
<1> HIDE DEF f
<1> QED BY <1>3, OpenFinite, FS_Injection

\* No more microVMs are attended than the plan's concurrency, and together they
\* fit the memory quota it was made for.
THEOREM UnderThePlanHolds == Spec => []UnderThePlan
<1>1. Init => WidthInv
  BY DEF Init, WidthInv, Fanning
<1>2. IInv /\ WidthInv => UnderThePlan
  <2> SUFFICES ASSUME IInv, WidthInv PROVE UnderThePlan
    OBVIOUS
  <2> DEFINE n == Cardinality(Attended)
  <2>0. TypeOK /\ PlanInv
    BY DEF IInv
  <2>1. n \in Nat /\ n <= Cardinality(Open) /\ Cardinality(Open) \in Nat
    BY AttendedFits, OpenFinite, FS_CardinalityType
  <2>2. CASE ~Fanning
    <3>1. n = 0
      BY <2>1, <2>2, NothingInHand, FS_EmptySet
    <3>2. plan # NoPlan => n <= Width
      BY <2>0, <3>1, WidthType
    <3>3. quota # None => n * Baseline <= quota
      BY <2>0, <3>1, ShardsAssumption DEF TypeOK, Quota
    <3> QED BY <3>2, <3>3 DEF UnderThePlan
  <2>3. CASE Fanning
    <3>1. plan # NoPlan /\ ~plan.rejected /\ plan = PlanFanout(NumShards, Baseline, call.policy, quota)
      BY <2>0, <2>3 DEF Fanning, PlanInv
    <3>2. Width \in Nat /\ Width <= Greater(1, plan.concurrency)
      BY <2>0, <3>1, WidthType
    <3>3. n <= Width
      BY <2>1, <2>3, <3>2 DEF WidthInv
    <3>4. ASSUME quota # None PROVE n * Baseline <= quota
      <4> DEFINE c == Greater(1, Concurrency(NumShards, Baseline, call.policy, quota))
      <4>1. call.policy \in Policy /\ quota \in Nat
        BY <2>0, <3>4, InputsAssumption DEF TypeOK, Quota
      <4>2. ~Rejected(NumShards, Baseline, call.policy, quota) /\ c = Greater(1, plan.concurrency)
        BY <3>1 DEF PlanFanout
      <4>3. c * Baseline <= quota
        BY <4>1, <4>2, PlanFits
      <4>4. c \in Nat
        BY <2>0, <3>1, <4>2 DEF TypeOK, Plan, Greater
      <4> HIDE DEF c, n
      <4>5. n <= c
        BY <2>1, <3>2, <3>3, <4>2, <4>4
      <4>6. \A i, j, b \in Nat : i <= j => i * b <= j * b /\ i * b \in Nat /\ j * b \in Nat
        OBVIOUS
      <4>7. n * Baseline <= c * Baseline /\ n * Baseline \in Nat /\ c * Baseline \in Nat
        BY <2>1, <4>4, <4>5, <4>6, ShardsAssumption
      <4> QED BY <4>1, <4>3, <4>7
    <3> QED BY <3>3, <3>4 DEF UnderThePlan
  <2> QED BY <2>2, <2>3
<1>3. Spec => []WidthInv
  BY <1>1, Inductive, WidthInvStep, PTL DEF Spec
<1> QED BY <1>2, <1>3, Inductive, PTL
=============================================================================
