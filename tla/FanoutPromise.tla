---------------------------- MODULE FanoutPromise ----------------------------
(***************************************************************************)
(* What a fan-out promises its caller, without callbacks, steps or         *)
(* restarts: a width is settled before anything starts or nothing ever     *)
(* starts, no more shards than that are in hand at a time, a shard is      *)
(* settled once, and the fan-out ends when every shard is.                 *)
(***************************************************************************)
EXTENDS Naturals, FiniteSets

CONSTANT Shards

VARIABLES
    phase,     \* "planning", "fanning", "over"
    width,     \* 0 until it is settled
    active, settled

vars == <<phase, width, active, settled>>

Init == phase = "planning" /\ width = 0 /\ active = {} /\ settled = {}

Admit ==
    /\ phase = "planning"
    /\ phase' = "fanning" /\ width' \in Nat \ {0}
    /\ UNCHANGED <<active, settled>>

Refuse ==
    /\ phase = "planning"
    /\ phase' = "over"
    /\ UNCHANGED <<width, active, settled>>

Begin(s) ==
    /\ phase = "fanning"
    /\ s \notin active \union settled /\ Cardinality(active) < width
    /\ active' = active \union {s}
    /\ UNCHANGED <<phase, width, settled>>

Settle(s) ==
    /\ phase = "fanning" /\ s \in active
    /\ active' = active \ {s} /\ settled' = settled \union {s}
    /\ UNCHANGED <<phase, width>>

Finish ==
    /\ phase = "fanning" /\ settled = Shards
    /\ phase' = "over"
    /\ UNCHANGED <<width, active, settled>>

Next == Admit \/ Refuse \/ Finish \/ (\E s \in Shards : Begin(s) \/ Settle(s))

Spec == Init /\ [][Next]_vars
=============================================================================
