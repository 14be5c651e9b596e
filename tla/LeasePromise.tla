---------------------------- MODULE LeasePromise ----------------------------
(***************************************************************************)
(* What a lease promises its orchestrator, without threads, locks or       *)
(* requests: the lease is decided once, the orchestrator hears nothing but *)
(* that decision, and a microVM calls a lease lost only when the           *)
(* orchestrator really has stopped waiting.                                *)
(***************************************************************************)
CONSTANTS
    Verdicts,    \* the ways a lease can end that are told to the orchestrator
    Silent,      \* the ways it can end that never are
    Undecided

VARIABLES
    verdict,   \* the lease's one outcome
    heard,     \* the outcomes the orchestrator was told
    closed,    \* the orchestrator no longer waits
    lost       \* the microVM believes so

vars == <<verdict, heard, closed, lost>>

Init == verdict = Undecided /\ heard = {} /\ closed = FALSE /\ lost = FALSE

Decide(o) ==
    /\ verdict = Undecided
    /\ verdict' = o
    /\ UNCHANGED <<heard, closed, lost>>

Hear ==
    /\ verdict \in Verdicts
    /\ heard' = {verdict} /\ closed' = TRUE
    /\ UNCHANGED <<verdict, lost>>

Close ==
    /\ closed' = TRUE
    /\ UNCHANGED <<verdict, heard, lost>>

Learn ==
    /\ closed
    /\ lost' = TRUE
    /\ UNCHANGED <<verdict, heard, closed>>

Next == (\E o \in Verdicts \union Silent : Decide(o)) \/ Hear \/ Close \/ Learn

Spec == Init /\ [][Next]_vars
=============================================================================
