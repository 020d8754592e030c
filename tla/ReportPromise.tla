----------------------------- MODULE ReportPromise -----------------------------
(* What can be seen of the reports of a round, and what is promised of it. *)

VARIABLES
    status,  \* the row of each report, if there is one
    posted   \* the messages that were posted: to the admin, to the channel, the stats

\* A REPORT_MATCHES job that SUCCEEDED has reached the admin and the channel,
\* though two goroutines report failures in one variable that neither locks:
\* "Send message to channel and admin concurrently" (job_report_matches.go:114).
ReportedToBoth == status["REPORT_MATCHES"] = "SUCCEEDED" => {"admin", "channel"} \subseteq posted
===============================================================================
