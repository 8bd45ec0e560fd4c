------------------------------ MODULE MCLogging ------------------------------
(* Logging for TLC: no zone, and one eight hours east of UTC.              *)
EXTENDS Logging

MCZones == {NoZone, [valid |-> TRUE, data |-> FixedZone(28800)]}

\* Two seconds before the end of a 29th of February.
MCBoot == 951868797

=============================================================================
