------------------------------ MODULE LeaseMap ------------------------------
(***************************************************************************)
(* lease_map (src/microvm/integrations/durable.py): a Lambda durable       *)
(* function that sizes a fan-out, has it approved when it is dear, and     *)
(* runs one lease per shard, each relaunched while its outcome is          *)
(* retryable.                                                              *)
(*                                                                         *)
(* The function may stop between any two steps (a crash, or a suspension   *)
(* while nothing can go on) and is run again from the top: what the        *)
(* durable SDK has checkpointed it reads back, everything else is lost.    *)
(* So the control of a shard is a function of its checkpoints, and the     *)
(* only volatile state is which step bodies are executing.  The SDK, the   *)
(* platform and the microVMs are external: a microVM answers its callback  *)
(* at most once, as LeasePromise says.                                     *)
(***************************************************************************)
EXTENDS LeasePlan, FiniteSets

CONSTANTS
    NumShards,      \* len(tasks)
    MaxRelaunches,
    Baseline,       \* baseline_mib
    Calls,          \* the policy, max_concurrency and approve() a caller passes
    Quotas,         \* what Service Quotas may answer
    Timeouts,       \* the timeouts of a callback that are told apart
    MaxCrashes,     \* bound: times the function is stopped
    MaxFailures     \* bound: steps that fail

ASSUME ShardsAssumption == NumShards \in Nat /\ MaxRelaunches \in Nat /\ Baseline \in Nat \ {0}
ASSUME InputsAssumption ==
    /\ Calls \subseteq [policy : Policy, cap : Ceilings, approver : BOOLEAN]
    /\ Quotas \subseteq Quota
    /\ Timeouts \subseteq {"expired", "silent"}   \* the budget ran out; a heartbeat did not come
ASSUME NoPlanAssumption == None \notin Plan
ASSUME BoundsAssumption == MaxCrashes \in Nat /\ MaxFailures \in Nat

Shards   == 1..NumShards
Attempts == 0..MaxRelaunches
Leases   == Shards \X Attempts

VARIABLES
    call,       \* what the caller passed
    \* checkpoints
    plan,       \* what the plan step returned
    gate,       \* the approval callback
    callback,   \* each lease's callback
    launch,     \* each lease's launch step
    teardown,   \* each lease's terminate step
    outcome,    \* what each shard's item returned or raised
    final,      \* what lease_map returned
    \* volatile
    up,         \* the function is running
    body,       \* the step body executing for a lease
    \* the world
    sent,       \* RunMicrovm requests on their way, by lease (the client token)
    vm,         \* the microVM of each lease
    crashes, failures,
    quota,      \* history: the memory quota the plan was made for
    shown       \* history: the plan the approver was shown

checkpoints == <<plan, gate, callback, launch, teardown, outcome, final>>
world       == <<sent, vm>>
bounds      == <<crashes, failures>>
history     == <<quota, shown>>
vars == <<call, checkpoints, up, body, world, bounds, history>>

Answers == {"success", "retryable", "fatal"}
Finals  == {"rejected", "approval_required", "denied", "done"}
NoPlan  == None

TypeOK ==
    /\ call \in Calls /\ quota \in Quota
    /\ plan \in Plan \union {NoPlan} /\ shown \in Plan \union {NoPlan}
    /\ gate \in {"none", "open", "granted", "refused", "expired"}
    /\ callback \in [Leases -> {"none", "open"} \union Answers \union Timeouts]
    /\ launch \in [Leases -> {"none", "started", "launched", "failed"}]
    /\ teardown \in [Leases -> {"none", "done", "failed"}]
    /\ outcome \in [Shards -> {"none", "done", "failed", "timed_out", "raised"}]
    /\ final \in Finals \union {"none"}
    /\ up \in BOOLEAN
    /\ body \in [Leases -> {"none", "launch", "terminate"}]
    /\ sent \subseteq Leases
    /\ vm \in [Leases -> {"none", "up", "ending", "gone"}]
    /\ crashes \in 0..MaxCrashes /\ failures \in 0..MaxFailures

Init ==
    /\ call \in Calls /\ quota = None
    /\ plan = NoPlan /\ shown = NoPlan /\ gate = "none"
    /\ callback = [l \in Leases |-> "none"]
    /\ launch = [l \in Leases |-> "none"]
    /\ teardown = [l \in Leases |-> "none"]
    /\ outcome = [s \in Shards |-> "none"]
    /\ final = "none"
    /\ up = TRUE
    /\ body = [l \in Leases |-> "none"]
    /\ sent = {}
    /\ vm = [l \in Leases |-> "none"]
    /\ crashes = 0 /\ failures = 0

Running == up /\ final = "none"

-----------------------------------------------------------------------------
(* lease_map: plan, approval, map. *)

\* The plan step, by the quota this run of the function has read.  It changes
\* nothing else, so that a stop in the middle of it leaves nothing behind.
PlanStep ==
    /\ Running /\ plan = NoPlan
    /\ quota' \in Quotas
    /\ plan' = PlanFanout(NumShards, Baseline, call.policy, quota')
    /\ UNCHANGED <<call, gate, callback, launch, teardown, outcome, final, up, body, world, bounds, shown>>

\* wait_for_callback creates the callback and then calls the submitter, again
\* when the function stopped in between.
OpenGate ==
    /\ Running /\ plan # NoPlan /\ gate = "none"
    /\ ~plan.rejected /\ plan.needsApproval /\ call.approver
    /\ gate' = "open"
    /\ UNCHANGED <<call, plan, callback, launch, teardown, outcome, final, up, body, world, bounds, history>>

Submit ==
    /\ Running /\ gate = "open" /\ shown = NoPlan
    /\ shown' = plan
    /\ UNCHANGED <<call, checkpoints, up, body, world, bounds, quota>>

\* lease_map comes back without having launched anything.
Decline ==
    /\ Running /\ plan # NoPlan
    /\ \/ plan.rejected /\ final' = "rejected"
       \/ ~plan.rejected /\ plan.needsApproval /\ ~call.approver /\ final' = "approval_required"
       \/ gate \in {"refused", "expired"} /\ final' = "denied"
    /\ UNCHANGED <<call, plan, gate, callback, launch, teardown, outcome, up, body, world, bounds, history>>

\* Mutant: the map begins while the approval is awaited.
MappingEarly == Running /\ plan # NoPlan /\ ~plan.rejected

\* Past the plan and the approval, in context.map.
Mapping == Running /\ plan # NoPlan /\ ~plan.rejected /\ (~plan.needsApproval \/ gate = "granted")

\* max_concurrency of the map; int(plan.get("concurrency") or 1) takes 0 for 1.
Width ==
    LET planned == Greater(1, plan.concurrency)
    IN  IF call.cap = None THEN planned ELSE Greater(1, Lesser(planned, call.cap))

Begun == {s \in Shards : callback[s, 0] # "none"}

\* Mutant: an item that waits for its callback gives its place away.
OpenBusy == {s \in Begun : outcome[s] = "none" /\ \E a \in Attempts : body[s, a] # "none"}

Open == {s \in Begun : outcome[s] = "none"}

\* Items are started in order, and an item holds its place until it returns,
\* the time it waits for its callback included.
StartShard(s) ==
    /\ Mapping /\ s \notin Begun
    /\ \A t \in 1..(s - 1) : t \in Begun
    /\ Cardinality(Open) < Width
    /\ callback' = [callback EXCEPT ![<<s, 0>>] = "open"]
    /\ UNCHANGED <<call, plan, gate, launch, teardown, outcome, final, up, body, world, bounds, history>>

\* Mutant: items that raise are waited for as if they were still to return.
MapEndsReturned ==
    /\ Mapping /\ \A s \in Shards : outcome[s] \notin {"none", "raised"}
    /\ final' = "done"
    /\ UNCHANGED <<call, plan, gate, callback, launch, teardown, outcome, up, body, world, bounds, history>>

\* all_completed: the map waits for every item, the ones that raised included.
MapEnds ==
    /\ Mapping /\ \A s \in Shards : outcome[s] # "none"
    /\ final' = "done"
    /\ UNCHANGED <<call, plan, gate, callback, launch, teardown, outcome, up, body, world, bounds, history>>

-----------------------------------------------------------------------------
(* lease_microvm: callback, launch, wait, terminate. *)

\* The step is checkpointed as started before its body runs, for it must run
\* at most once.
LaunchStarts(l) ==
    /\ Running /\ callback[l] # "none" /\ launch[l] = "none"
    /\ launch' = [launch EXCEPT ![l] = "started"]
    /\ body' = [body EXCEPT ![l] = "launch"]
    /\ sent' = sent \union {l}
    /\ UNCHANGED <<call, plan, gate, callback, teardown, outcome, final, up, vm, bounds, history>>

LaunchReturns(l) ==
    /\ up /\ body[l] = "launch" /\ vm[l] # "none"
    /\ launch' = [launch EXCEPT ![l] = "launched"]
    /\ body' = [body EXCEPT ![l] = "none"]
    /\ UNCHANGED <<call, plan, gate, callback, teardown, outcome, final, up, world, bounds, history>>

\* RunMicrovm was refused, or its answer never came: the request may still be
\* carried out.  RetryPresets.none(): the step is not tried again.
LaunchFails(l) ==
    /\ up /\ body[l] = "launch" /\ failures < MaxFailures
    /\ launch' = [launch EXCEPT ![l] = "failed"]
    /\ body' = [body EXCEPT ![l] = "none"]
    /\ failures' = failures + 1
    /\ UNCHANGED <<call, plan, gate, callback, teardown, outcome, final, up, world, crashes, history>>

\* Run again, the function finds the step started and not completed: it was
\* interrupted, and it fails without running a second time.
LaunchInterrupted(l) ==
    /\ Running /\ launch[l] = "started" /\ body[l] = "none"
    /\ launch' = [launch EXCEPT ![l] = "failed"]
    /\ UNCHANGED <<call, plan, gate, callback, teardown, outcome, final, up, body, world, bounds, history>>

Settled(l) == callback[l] \in Answers \union Timeouts

\* callback.result() returned or raised; every way out terminates the microVM.
\* The step may run again after a stop.
TerminateStarts(l) ==
    /\ Running /\ launch[l] = "launched" /\ Settled(l) /\ teardown[l] = "none" /\ body[l] = "none"
    /\ body' = [body EXCEPT ![l] = "terminate"]
    /\ UNCHANGED <<call, checkpoints, up, world, bounds, history>>

\* TerminateMicrovm has answered, or that there is no such microVM any more.
\* The microVM may still be ending.
TerminateReturns(l) ==
    /\ up /\ body[l] = "terminate" /\ vm[l] \in {"ending", "gone"}
    /\ teardown' = [teardown EXCEPT ![l] = "done"]
    /\ body' = [body EXCEPT ![l] = "none"]
    /\ UNCHANGED <<call, plan, gate, callback, launch, outcome, final, up, world, bounds, history>>

TerminateFails(l) ==
    /\ up /\ body[l] = "terminate" /\ failures < MaxFailures
    /\ teardown' = [teardown EXCEPT ![l] = "failed"]
    /\ body' = [body EXCEPT ![l] = "none"]
    /\ failures' = failures + 1
    /\ UNCHANGED <<call, plan, gate, callback, launch, outcome, final, up, world, crashes, history>>

-----------------------------------------------------------------------------
(* lease_with_relaunch. *)

\* The attempt a shard is at.
IsLast(l) == callback[l] # "none" /\ \A a \in Attempts : a > l[2] => callback[l[1], a] = "none"

\* Mutant: what is not fatal is tried again.
RetryableUnlessFatal(l) == callback[l] # "fatal"

Retryable(l) == callback[l] \in {"retryable"} \union Timeouts

\* Mutant: the branch of a timeout does not terminate.
RelaunchBesideOld(l) ==
    /\ Running /\ IsLast(l) /\ outcome[l[1]] = "none"
    /\ teardown[l] = "done" \/ (launch[l] = "launched" /\ callback[l] \in Timeouts)
    /\ Retryable(l) /\ l[2] < MaxRelaunches
    /\ callback' = [callback EXCEPT ![<<l[1], l[2] + 1>>] = "open"]
    /\ UNCHANGED <<call, plan, gate, launch, teardown, outcome, final, up, body, world, bounds, history>>

Relaunch(l) ==
    /\ Running /\ IsLast(l) /\ outcome[l[1]] = "none"
    /\ teardown[l] = "done" /\ Retryable(l) /\ l[2] < MaxRelaunches
    /\ callback' = [callback EXCEPT ![<<l[1], l[2] + 1>>] = "open"]
    /\ UNCHANGED <<call, plan, gate, launch, teardown, outcome, final, up, body, world, bounds, history>>

\* Mutant: the branch of a success does not terminate.
ShardReturnsAtOnce(l) ==
    /\ Running /\ IsLast(l) /\ outcome[l[1]] = "none"
    /\ callback[l] = "success" /\ launch[l] = "launched"
    /\ outcome' = [outcome EXCEPT ![l[1]] = "done"]
    /\ UNCHANGED <<call, plan, gate, callback, launch, teardown, final, up, body, world, bounds, history>>

ShardReturns(l) ==
    /\ Running /\ IsLast(l) /\ outcome[l[1]] = "none"
    /\ teardown[l] = "done" /\ (Retryable(l) => l[2] = MaxRelaunches)
    /\ outcome' = [outcome EXCEPT ![l[1]] =
           CASE callback[l] = "success" -> "done"
             [] callback[l] \in Timeouts -> "timed_out"
             [] OTHER -> "failed"]
    /\ UNCHANGED <<call, plan, gate, callback, launch, teardown, final, up, body, world, bounds, history>>

\* A step that failed is not caught on the way out of the item.
ShardRaises(l) ==
    /\ Running /\ IsLast(l) /\ outcome[l[1]] = "none"
    /\ launch[l] = "failed" \/ teardown[l] = "failed"
    /\ outcome' = [outcome EXCEPT ![l[1]] = "raised"]
    /\ UNCHANGED <<call, plan, gate, callback, launch, teardown, final, up, body, world, bounds, history>>

-----------------------------------------------------------------------------
(* The SDK and the world. *)

Stop ==
    /\ up /\ final = "none" /\ crashes < MaxCrashes
    /\ up' = FALSE /\ body' = [l \in Leases |-> "none"]
    /\ crashes' = crashes + 1
    /\ UNCHANGED <<call, checkpoints, world, failures, history>>

\* Mutant: the plan is made outside a step, again on every run.
RestartPlansAgain ==
    /\ ~up
    /\ up' = TRUE
    /\ quota' \in Quotas
    /\ plan' = IF plan = NoPlan THEN NoPlan ELSE PlanFanout(NumShards, Baseline, call.policy, quota')
    /\ UNCHANGED <<call, gate, callback, launch, teardown, outcome, final, body, world, bounds, shown>>

\* A new process: nothing but the checkpoints is left.
Restart ==
    /\ ~up
    /\ up' = TRUE
    /\ UNCHANGED <<call, checkpoints, body, world, bounds, history>>

GateSettles ==
    /\ gate = "open"
    /\ \/ shown # NoPlan /\ gate' \in {"granted", "refused"}
       \/ gate' = "expired"
    /\ UNCHANGED <<call, plan, callback, launch, teardown, outcome, final, up, body, world, bounds, history>>

\* A request that is repeated finds the microVM by its client token.
RunAccepted(l) ==
    /\ l \in sent
    /\ sent' = sent \ {l}
    /\ vm' = [vm EXCEPT ![l] = IF @ = "none" THEN "up" ELSE @]
    /\ UNCHANGED <<call, checkpoints, up, body, bounds, history>>

VMAnswers(l, answer) ==
    /\ vm[l] \in {"up", "ending"} /\ callback[l] = "open"
    /\ callback' = [callback EXCEPT ![l] = answer]
    /\ UNCHANGED <<call, plan, gate, launch, teardown, outcome, final, up, body, world, bounds, history>>

\* TerminateMicrovm is accepted, or the platform ends the microVM, idle or at
\* its longest duration.  It works on through its /terminate hook.
VMEnding(l) ==
    /\ vm[l] = "up"
    /\ vm' = [vm EXCEPT ![l] = "ending"]
    /\ UNCHANGED <<call, checkpoints, up, body, sent, bounds, history>>

\* The microVM is gone, after that hook or because it broke.  What the hook says
\* may still be heard, and is retryable.
VMEnds(l) ==
    /\ vm[l] \in {"up", "ending"}
    /\ vm' = [vm EXCEPT ![l] = "gone"]
    /\ \/ callback' = callback
       \/ callback[l] = "open" /\ callback' = [callback EXCEPT ![l] = "retryable"]
    /\ UNCHANGED <<call, plan, gate, launch, teardown, outcome, final, up, body, sent, bounds, history>>

\* The budget of a microVM that works and beats to its end, or no heartbeat.
CallbackExpires(l, how) ==
    /\ callback[l] = "open" /\ (how = "expired" => vm[l] = "up")
    /\ callback' = [callback EXCEPT ![l] = how]
    /\ UNCHANGED <<call, plan, gate, launch, teardown, outcome, final, up, body, world, bounds, history>>

-----------------------------------------------------------------------------
LeaseStep(l) ==
    \/ LaunchStarts(l) \/ LaunchReturns(l) \/ LaunchFails(l) \/ LaunchInterrupted(l)
    \/ TerminateStarts(l) \/ TerminateReturns(l) \/ TerminateFails(l)
    \/ Relaunch(l) \/ ShardReturns(l) \/ ShardRaises(l)

WorldStep(l) ==
    \/ RunAccepted(l) \/ VMEnding(l) \/ VMEnds(l)
    \/ \E answer \in Answers : VMAnswers(l, answer)
    \/ \E how \in Timeouts : CallbackExpires(l, how)

Next ==
    \/ PlanStep \/ OpenGate \/ Submit \/ Decline \/ MapEnds
    \/ \E s \in Shards : StartShard(s)
    \/ \E l \in Leases : LeaseStep(l) \/ WorldStep(l)
    \/ Stop \/ Restart \/ GateSettles

Spec == Init /\ [][Next]_vars

\* What goes on without anyone's help: the function's own steps while it runs,
\* a restart, timeouts, and calls that are carried out.
Control(l) ==
    \/ LaunchStarts(l) \/ LaunchReturns(l) \/ LaunchInterrupted(l)
    \/ TerminateStarts(l) \/ TerminateReturns(l)
    \/ Relaunch(l) \/ ShardReturns(l) \/ ShardRaises(l)

Fairness ==
    /\ WF_vars(PlanStep) /\ WF_vars(OpenGate) /\ WF_vars(Submit) /\ WF_vars(Decline) /\ WF_vars(MapEnds)
    /\ WF_vars(\E s \in Shards : StartShard(s))
    /\ WF_vars(Restart) /\ WF_vars(GateSettles)
    /\ \A l \in Leases :
        /\ WF_vars(Control(l))
        /\ WF_vars(RunAccepted(l))
        /\ WF_vars(body[l] = "terminate" /\ VMEnding(l))
        /\ WF_vars(\E how \in Timeouts : CallbackExpires(l, how))

FairSpec == Spec /\ Fairness

-----------------------------------------------------------------------------
(* Properties. *)

\* MicroVMs that nobody has told to end, of shards the map still answers for; one
\* of a shard that raised is a stray, reported in "errors" and bounded by its
\* longest duration.
Attended == {l \in Leases : vm[l] = "up" /\ outcome[l[1]] # "raised"}

\* However often the function is stopped and run again, no more attended microVMs
\* are at work than the plan allows at a time, and they fit the memory quota the
\* plan was made for (lease_map's concurrency, plan_fanout's limit).  One that has
\* been told to end does not count: see LaunchesFitMemory.
UnderThePlan ==
    /\ plan # NoPlan => Cardinality(Attended) <= Width
    /\ quota # None => Cardinality(Attended) * Baseline <= quota

\* No microVM exists before the plan was accepted and, where it must be, was
\* approved; and what the approver was shown is what is run, although a
\* restart reads other quotas (plan_dict: "keeps the fields lease_map reads
\* back after a replay").
ApprovedIsRun ==
    (\E l \in Leases : vm[l] # "none") =>
        plan # NoPlan /\ ~plan.rejected /\ (plan.needsApproval => gate = "granted" /\ shown = plan)

\* A shard is relaunched only when the termination of its microVM has been
\* answered: in every branch, and through stops, the attempt before is at least
\* ending when the next is made (lease_with_relaunch after lease_microvm).
RelaunchAfterTermination ==
    \A l \in Leases : l[2] > 0 /\ callback[l] # "none" =>
        vm[l[1], l[2] - 1] \in {"ending", "gone"} /\ teardown[l[1], l[2] - 1] = "done"

\* When lease_map returns, a microVM that nobody has told to end, or that may yet
\* start, is one of a shard the result reports as an error: none leaks in silence.
StraysAreReported ==
    final = "done" => \A l \in Leases : vm[l] = "up" \/ l \in sent => outcome[l[1]] = "raised"

\* A success the VM delivered is the shard's outcome unless a step around it
\* failed: it is neither relaunched nor reported as anything else.
SuccessIsKept ==
    \A l \in Leases : callback[l] = "success" =>
        /\ IsLast(l)
        /\ outcome[l[1]] \in {"none", "done"} \/ "failed" \in {launch[l], teardown[l]}

\* lease_map comes back, whatever stops it and whoever does not answer.
MapSettles == <>(final # "none")

\* lease_map as the fan-out it promises its caller: restarts, steps and
\* callbacks are invisible.
Fanning == plan # NoPlan /\ ~plan.rejected /\ (~plan.needsApproval \/ gate = "granted")
Phase   == CASE final # "none" -> "over" [] final = "none" /\ Fanning -> "fanning" [] OTHER -> "planning"

Promise == INSTANCE FanoutPromise WITH
    phase   <- Phase,
    width   <- IF Fanning THEN Width ELSE 0,
    active  <- Open,
    settled <- {s \in Shards : outcome[s] # "none"}

KeepsFanoutPromise == Promise!Spec

\* docs/integrations.md:102 and 106: the plane owns "how many can run at once on
\* this account", and that is "the applied memory quota divided by the baseline".
\* What is asked for, at work or still ending, and so holds memory or is about to,
\* fits that quota.
LaunchesFitMemory ==
    quota # None =>
        Cardinality({l \in Leases : l \in sent \/ vm[l] \in {"up", "ending"}}) * Baseline <= quota

\* durable.py:5-6: "a replay after a crash gets the same VM back".  Where no call
\* has failed, a launch step that a stop interrupted does not fail beside the
\* microVM it launched.
ReplayGetsTheSameVM == \A l \in Leases : failures = 0 /\ vm[l] # "none" => launch[l] # "failed"

\* LeasePolicy (lease.py:93-94): "the platform-owned ceilings a fan-out must
\* stay under".  A microVM whose callback ran out of budget has had all of it;
\* together they stay under max_vm_seconds.
CeilingKept ==
    ~Exceeds(call.policy.budget * Cardinality({l \in Leases : callback[l] = "expired"}), call.policy.maxVmSeconds)
=============================================================================
