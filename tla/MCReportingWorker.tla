------------------------- MODULE MCReportingWorker -------------------------
(* Instances of ReportingWorker for TLC. *)
EXTENDS ReportingWorker
=============================================================================
