--------------------------- MODULE MCUptimeReport ---------------------------
(* Instances of UptimeReport for TLC. *)
EXTENDS UptimeReport
=============================================================================
