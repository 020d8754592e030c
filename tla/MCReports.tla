------------------------------- MODULE MCReports -------------------------------
(* Instances of Reports for TLC. *)
EXTENDS Reports
-------------------------------------------------------------------------------
(* What the code does not do (see the README) *)

\* The stats are posted whatever the other report does to the process: both rows are
\* due after a restart, and the panic can come first each time.
StatsReported ==
    status["REPORT_STATS"] = "PENDING" ~> (channel = "enabled" => "stats" \in posted)
===============================================================================
