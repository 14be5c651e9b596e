---------------------------- MODULE MCTelemetry -----------------------------
(***************************************************************************)
(* The instance of Telemetry for TLC: a ring of two lines and a tail of    *)
(* one, so that three lines between two polls overrun the ring and two     *)
(* lines before the first answer outrun the tail.                          *)
(***************************************************************************)
EXTENDS Telemetry

=============================================================================
