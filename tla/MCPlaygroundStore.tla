------------------------- MODULE MCPlaygroundStore --------------------------
(***************************************************************************)
(* The instances of PlaygroundStore for TLC: one job and the thread that   *)
(* answers requests save at the same time, or the job and the main thread  *)
(* as it stops, and a second process reads back what they left.            *)
(***************************************************************************)
EXTENDS PlaygroundStore

\* Nothing but SettingsSurvive looks at dryRun, and no step depends on it: where that
\* is not checked, the sessions that switch it have a twin that does not.  Traced
\* calls and changes of the settings come to two.
TwoChanges == dryRun = DryFlag /\ traceSeq + settings <= 2

=============================================================================
