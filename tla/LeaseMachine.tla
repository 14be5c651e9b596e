---------------------------- MODULE LeaseMachine ----------------------------
(***************************************************************************)
(* The Step Functions machine that lease_state_machine generates           *)
(* (src/microvm/integrations/stepfunctions.py): an approval, a Map with    *)
(* one lease per shard, and the states of a lease.  A machine for one      *)
(* lease is the Map of one shard.                                          *)
(*                                                                         *)
(* at[s] is the state a shard's item is in.  Choice, Pass and Fail states  *)
(* take no time and are part of the step that enters them.  Time is in     *)
(* ticks, for the machine compares the ages of microVMs.  Step Functions,  *)
(* the platform and the microVMs are external.                             *)
(***************************************************************************)
EXTENDS Integers, FiniteSets

CONSTANTS
    NumShards,
    Machines,          \* FanoutSpecs and the arrays they are run on
    Budget, Slack,     \* the policy, in ticks
    LongestDuration,   \* MAX_DURATION_SECONDS, in ticks
    MaxAttempts,       \* retries of a throttled launch
    MaxFailures        \* bound: calls that fail for another reason

Shards == 1..NumShards

ASSUME NumbersAssumption ==
    /\ {NumShards, Slack, MaxAttempts, MaxFailures} \subseteq Nat
    /\ {Budget, LongestDuration} \subseteq Nat \ {0}
ASSUME MachinesAssumption ==
    Machines \subseteq [shards : 0..NumShards, maxConcurrency : Nat \ {0}, approval : BOOLEAN, threshold : Nat]

VARIABLES
    machine,    \* how this machine was generated, and its input
    exec,       \* the execution: its own state
    at,         \* the state of each shard's item
    cause,      \* what lease_error says of the microVM
    attempts,   \* retries of a shard's launch
    stale,      \* what a shard's TerminateStale has still to terminate
    token,      \* each shard's task token
    elapsed,    \* ticks its task has taken so far, 0 when it has ended
    sent,       \* RunMicrovm requests on their way
    vm, age,    \* each shard's microVM
    failures,
    refused     \* history: shards whose own terminate call failed

tokens == <<token, elapsed>>
vms    == <<sent, vm, age>>
vars == <<machine, exec, at, cause, attempts, stale, tokens, vms, failures, refused>>

MaxDuration == IF Budget + Slack < LongestDuration THEN Budget + Slack ELSE LongestDuration

Items   == 1..machine.shards
Ends    == {"done", "failed", "denied"}
Working == {"Lease", "Backoff", "Terminate", "TerminateFailed", "Reap", "TerminateStale"}

TypeOK ==
    /\ machine \in Machines
    /\ exec \in {"Gate", "RequestApproval", "Fanout"} \union Ends
    /\ at \in [Shards -> {"none", "ShardDone", "Failed", "Stopped"} \union Working]
    /\ cause \in [Shards -> {"none", "named", "cut", "bare"}]
    /\ attempts \in [Shards -> 0..MaxAttempts]
    /\ stale \in [Shards -> SUBSET Shards]
    /\ token \in [Shards -> {"none", "open", "closed"}]
    /\ elapsed \in [Shards -> 0..Budget]
    /\ sent \subseteq Shards /\ refused \subseteq Shards
    /\ vm \in [Shards -> {"none", "up", "ending", "gone"}]
    /\ age \in [Shards -> 0..(MaxDuration + 1)]
    /\ failures \in 0..MaxFailures

Init ==
    /\ machine \in Machines
    /\ exec = IF machine.approval THEN "Gate" ELSE "Fanout"
    /\ at = [s \in Shards |-> "none"] /\ cause = [s \in Shards |-> "none"]
    /\ attempts = [s \in Shards |-> 0] /\ stale = [s \in Shards |-> {}]
    /\ token = [s \in Shards |-> "none"] /\ elapsed = [s \in Shards |-> 0]
    /\ sent = {} /\ vm = [s \in Shards |-> "none"] /\ age = [s \in Shards |-> 0]
    /\ failures = 0 /\ refused = {}

-----------------------------------------------------------------------------
(* The outer machine. *)

Gate ==
    /\ exec = "Gate"
    /\ exec' = IF machine.shards > machine.threshold THEN "RequestApproval" ELSE "Fanout"
    /\ UNCHANGED <<machine, at, cause, attempts, stale, tokens, vms, failures, refused>>

\* The approver's answer, a publish that failed, or the end of the wait.
Approval ==
    /\ exec = "RequestApproval"
    /\ exec' \in {"Fanout", "denied"}
    /\ UNCHANGED <<machine, at, cause, attempts, stale, tokens, vms, failures, refused>>

Busy == {s \in Items : at[s] \in Working}

\* The launch call goes out with a token of its own.
EnterLease(s) ==
    /\ at' = [at EXCEPT ![s] = "Lease"]
    /\ token' = [token EXCEPT ![s] = "open"] /\ elapsed' = [elapsed EXCEPT ![s] = 0]
    /\ sent' = sent \union {s}
    /\ UNCHANGED <<machine, exec, cause, stale, vm, age, failures, refused>>

StartShard(s) ==
    /\ exec = "Fanout" /\ s \in Items /\ at[s] = "none"
    /\ \A t \in 1..(s - 1) : at[t] # "none"
    /\ Cardinality(Busy) < machine.maxConcurrency
    /\ EnterLease(s) /\ UNCHANGED attempts

MapDone ==
    /\ exec = "Fanout" /\ \A s \in Items : at[s] = "ShardDone"
    /\ exec' = "done"
    /\ UNCHANGED <<machine, at, cause, attempts, stale, tokens, vms, failures, refused>>

\* Mutant: a Map that tolerates failures goes on with the others.
ItemFailsTolerated(s) ==
    /\ at' = [at EXCEPT ![s] = "Failed"]
    /\ exec' = IF \A t \in Items \ {s} : at[t] \in {"ShardDone", "Failed"} THEN "failed" ELSE exec
    /\ stale' = [stale EXCEPT ![s] = {}] /\ UNCHANGED tokens

\* The Map has no Catch and tolerates no failure: the first item that fails
\* fails it, the execution with it, and every other item is stopped where it is.
ItemFails(s) ==
    /\ exec' = "failed"
    /\ at' = [t \in Shards |->
           CASE t = s -> "Failed"
             [] t # s /\ at[t] \in Working -> "Stopped"
             [] OTHER -> at[t]]
    /\ token' = [t \in Shards |-> IF token[t] = "open" THEN "closed" ELSE token[t]]
    /\ elapsed' = [t \in Shards |-> 0]
    /\ stale' = [t \in Shards |-> {}]

-----------------------------------------------------------------------------
(* The states of a lease. *)

\* Mutant: OnLeaseError goes by its default.
CaughtByDefault(s, c) ==
    /\ cause' = [cause EXCEPT ![s] = c]
    /\ token' = [token EXCEPT ![s] = "closed"] /\ elapsed' = [elapsed EXCEPT ![s] = 0]
    /\ at' = [at EXCEPT ![s] = "Reap"]
    /\ UNCHANGED <<machine, exec, stale, refused>>

\* Catch of the lease task and OnLeaseError: only a cause that names the
\* microVM leads past TerminateFailed.
Caught(s, c) ==
    /\ cause' = [cause EXCEPT ![s] = c]
    /\ token' = [token EXCEPT ![s] = "closed"] /\ elapsed' = [elapsed EXCEPT ![s] = 0]
    /\ at' = [at EXCEPT ![s] = IF c = "bare" THEN "Reap" ELSE "TerminateFailed"]
    /\ UNCHANGED <<machine, exec, stale, refused>>

\* A throttled launch is retried, with another token, until the attempts are used up.
Throttled(s) ==
    /\ at[s] = "Lease" /\ s \in sent
    /\ sent' = sent \ {s}
    /\ \/ /\ attempts[s] < MaxAttempts
          /\ attempts' = [attempts EXCEPT ![s] = @ + 1]
          /\ at' = [at EXCEPT ![s] = "Backoff"]
          /\ token' = [token EXCEPT ![s] = "closed"] /\ elapsed' = [elapsed EXCEPT ![s] = 0]
          /\ UNCHANGED <<machine, exec, cause, stale, refused>>
       \/ /\ attempts[s] = MaxAttempts
          /\ Caught(s, "bare") /\ UNCHANGED attempts
    /\ UNCHANGED <<vm, age, failures>>

Retry(s) ==
    /\ at[s] = "Backoff"
    /\ EnterLease(s) /\ UNCHANGED attempts

LaunchRefused(s) ==
    /\ at[s] = "Lease" /\ s \in sent /\ failures < MaxFailures
    /\ sent' = sent \ {s} /\ failures' = failures + 1
    /\ Caught(s, "bare")
    /\ UNCHANGED <<attempts, vm, age>>

\* Mutant: the task has its HeartbeatSeconds and no TimeoutSeconds.
TimesOutUnbeaten(s) ==
    /\ at[s] = "Lease" /\ vm[s] # "up"
    /\ Caught(s, "bare")
    /\ UNCHANGED <<attempts, vms, failures>>

\* TimeoutSeconds is the budget; HeartbeatSeconds may end the wait before that.
\* The request may still be on its way.
TimesOut(s) ==
    /\ at[s] = "Lease"
    /\ Caught(s, "bare")
    /\ UNCHANGED <<attempts, vms, failures>>

Answering(s) == token[s] = "open" /\ vm[s] \in {"up", "ending"}

Succeeds(s) ==
    /\ Answering(s)
    /\ at' = [at EXCEPT ![s] = "Terminate"]
    /\ token' = [token EXCEPT ![s] = "closed"] /\ elapsed' = [elapsed EXCEPT ![s] = 0]
    /\ UNCHANGED <<machine, exec, cause, attempts, stale, vms, failures, refused>>

\* The payload names the microVM first; a long one is cut and can no longer be
\* parsed.
Fails(s) ==
    /\ Answering(s)
    /\ \E c \in {"named", "cut"} : Caught(s, c)
    /\ UNCHANGED <<attempts, vms, failures>>

\* TerminateMicrovm has been answered: the microVM works on through its
\* /terminate hook.
ToldToEnd(t) == vm' = [vm EXCEPT ![t] = IF @ = "up" THEN "ending" ELSE @]

\* Mutant: every error of Terminate leads to ShardDone.
TerminateLeniently(s) ==
    /\ at[s] = "Terminate"
    /\ \/ ToldToEnd(s) /\ UNCHANGED <<failures, refused>>
       \/ failures < MaxFailures /\ failures' = failures + 1 /\ UNCHANGED <<vm, refused>>
    /\ at' = [at EXCEPT ![s] = "ShardDone"]
    /\ UNCHANGED <<machine, exec, cause, attempts, stale, tokens, sent, age>>

\* A microVM that is gone already is as good; any other error fails the item.
Terminate(s) ==
    /\ at[s] = "Terminate"
    /\ \/ /\ ToldToEnd(s)
          /\ at' = [at EXCEPT ![s] = "ShardDone"]
          /\ UNCHANGED <<exec, tokens, stale, failures, refused>>
       \/ /\ failures < MaxFailures
          /\ failures' = failures + 1 /\ refused' = refused \union {s}
          /\ ItemFails(s) /\ UNCHANGED vm
    /\ UNCHANGED <<machine, cause, attempts, sent, age>>

\* Every error leads to Reap, $parse of a cause that was cut included.
TerminateFailed(s) ==
    /\ at[s] = "TerminateFailed"
    /\ \/ cause[s] = "named" /\ ToldToEnd(s) /\ UNCHANGED <<failures, refused>>
       \/ cause[s] = "cut" /\ UNCHANGED <<vm, failures, refused>>
       \/ /\ cause[s] = "named" /\ failures < MaxFailures
          /\ failures' = failures + 1 /\ refused' = refused \union {s} /\ UNCHANGED vm
    /\ at' = [at EXCEPT ![s] = "Reap"]
    /\ UNCHANGED <<machine, exec, cause, attempts, stale, tokens, sent, age>>

\* Mutant: the age is compared with the slack alone.
StaleBySlack == {t \in Shards : vm[t] = "up" /\ age[t] > Slack}

\* Items of TerminateStale: what outlived MaximumDurationInSeconds.
Stale == {t \in Shards : vm[t] = "up" /\ age[t] > MaxDuration}

Reap(s) ==
    /\ at[s] = "Reap"
    /\ \/ /\ at' = [at EXCEPT ![s] = "TerminateStale"] /\ stale' = [stale EXCEPT ![s] = Stale]
          /\ UNCHANGED <<exec, tokens, failures>>
       \/ /\ failures < MaxFailures /\ failures' = failures + 1
          /\ ItemFails(s)
    /\ UNCHANGED <<machine, cause, attempts, vms, refused>>

TerminateOne(s) ==
    /\ at[s] = "TerminateStale"
    /\ \E t \in stale[s] :
        \/ /\ ToldToEnd(t) /\ stale' = [stale EXCEPT ![s] = @ \ {t}]
           /\ UNCHANGED <<exec, at, tokens, failures>>
        \/ /\ failures < MaxFailures /\ failures' = failures + 1
           /\ ItemFails(s) /\ UNCHANGED vm
    /\ UNCHANGED <<machine, cause, attempts, sent, age, refused>>

LeaseFailed(s) ==
    /\ at[s] = "TerminateStale" /\ stale[s] = {}
    /\ ItemFails(s)
    /\ UNCHANGED <<machine, cause, attempts, vms, failures, refused>>

-----------------------------------------------------------------------------
(* The platform and the clock. *)

RunAccepted(s) ==
    /\ s \in sent
    /\ sent' = sent \ {s} /\ vm' = [vm EXCEPT ![s] = "up"]
    /\ UNCHANGED <<machine, exec, at, cause, attempts, stale, tokens, age, failures, refused>>

\* The platform begins to end a microVM at its longest duration or a little later,
\* or before it.
VMEnding(s) ==
    /\ vm[s] = "up" /\ ToldToEnd(s)
    /\ UNCHANGED <<machine, exec, at, cause, attempts, stale, tokens, sent, age, failures, refused>>

\* It is gone; what its /terminate hook said may still be heard.
VMEnds(s) ==
    /\ vm[s] \in {"up", "ending"}
    /\ vm' = [vm EXCEPT ![s] = "gone"]
    /\ \/ UNCHANGED <<machine, exec, at, cause, stale, tokens, refused>>
       \/ token[s] = "open" /\ Caught(s, "named")
    /\ UNCHANGED <<attempts, sent, age, failures>>

\* A task that has used up its budget is timed out before time goes on.
Tick ==
    /\ exec = "Fanout"
    /\ \A s \in Shards : at[s] = "Lease" => elapsed[s] < Budget
    /\ \E s \in Shards : at[s] = "Lease" \/ vm[s] = "up"
    /\ elapsed' = [s \in Shards |-> IF at[s] = "Lease" THEN elapsed[s] + 1 ELSE elapsed[s]]
    /\ age' = [s \in Shards |-> IF vm[s] = "up" /\ age[s] <= MaxDuration THEN age[s] + 1 ELSE age[s]]
    /\ UNCHANGED <<machine, exec, at, cause, attempts, stale, token, sent, vm, failures, refused>>

-----------------------------------------------------------------------------
ItemStep(s) ==
    \/ StartShard(s) \/ Retry(s) \/ Terminate(s) \/ TerminateFailed(s)
    \/ Reap(s) \/ TerminateOne(s) \/ LeaseFailed(s)

WorldStep(s) ==
    \/ Throttled(s) \/ LaunchRefused(s) \/ TimesOut(s)
    \/ Succeeds(s) \/ Fails(s) \/ RunAccepted(s) \/ VMEnding(s) \/ VMEnds(s)

Next ==
    \/ Gate \/ Approval \/ MapDone \/ Tick
    \/ \E s \in Shards : ItemStep(s) \/ WorldStep(s)

Spec == Init /\ [][Next]_vars

\* Step Functions takes the machine's steps and keeps its timeouts; nobody else
\* is relied on.
Fairness ==
    /\ WF_vars(Gate) /\ WF_vars(Approval) /\ WF_vars(MapDone) /\ WF_vars(Tick)
    /\ \A s \in Shards : WF_vars(ItemStep(s)) /\ WF_vars(elapsed[s] = Budget /\ TimesOut(s))

FairSpec == Spec /\ Fairness

-----------------------------------------------------------------------------
(* Properties. *)

\* Counting the microVMs of shards that failed or were stopped, and the launches
\* nobody waits for any more, a Map never has more of them at work than its
\* MaxConcurrency ("the plane's honest number", FanoutSpec): no shard is started
\* in the place of one whose microVM has not been told to end.  One that has may
\* still be ending.
WithinConcurrency ==
    /\ TypeOK
    /\ Cardinality({s \in Shards : vm[s] = "up"} \union sent) <= machine.maxConcurrency

\* TerminateStale goes by age and image only, but what it picks is never a microVM
\* whose lease is still waited for: LeasePolicy.max_duration covers the budget,
\* unless the budget is longer than a microVM may live.
LiveAreNotStale ==
    Budget <= LongestDuration => \A s \in Shards : \A t \in stale[s] : token[t] # "open"

\* When the execution is over, a microVM that nobody has told to end, or that may
\* yet start, timed out, failed with a cause that does not tell its name, could not
\* be terminated, or was stopped with the Map; a machine that succeeds leaves none.
StraysAreExcused ==
    exec \in Ends => \A s \in Shards : vm[s] = "up" \/ s \in sent =>
        /\ exec = "failed"
        /\ at[s] = "Stopped" \/ cause[s] \in {"bare", "cut"} \/ s \in refused

\* Every execution ends, whoever does not answer.
ExecutionEnds == <>(exec \in Ends)
=============================================================================
