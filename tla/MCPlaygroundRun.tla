-------------------------- MODULE MCPlaygroundRun --------------------------
(***************************************************************************)
(* The instance of PlaygroundRun for TLC: one request to any handler, a    *)
(* second one that reads through what is kept between requests, and one    *)
(* that switches the session under them.                                   *)
(***************************************************************************)
EXTENDS PlaygroundRun

CONSTANTS any, reader

MCOffered(a) == IF a = any THEN Tasks ELSE GetVmJob \union GetFleetJobs

=============================================================================
