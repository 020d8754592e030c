-------------------------------- MODULE Reports --------------------------------
(***************************************************************************)
(* The two reports of a round: REPORT_MATCHES, five minutes after the draw, *)
(* is posted to the admin and to the channel by two helper goroutines that  *)
(* share the variable multiErr without a lock, and REPORT_STATS, before the *)
(* next round, to the channel. The helper that writes to the admin reads    *)
(* the conversation it failed to open, so the process panics.               *)
(***************************************************************************)
EXTENDS JobTypes, ReportPromise

CONSTANTS
    Goroutines, \* the goroutines of the worker
    MaxFaults   \* bound on passing errors of Slack and the database, crashes

ASSUME ReportsAssumption == MaxFaults \in Nat

Reports == {"REPORT_MATCHES", "REPORT_STATS"}

VARIABLES
    up,      \* whether the process runs
    due,     \* the reports whose ExecAt is reached
    inviter, \* whether Slack opens conversations with the admin of the channel
    channel, \* the channel: enabled, left by the bot, or deleted
    swept,   \* the rows that DELETE_CHANNEL has locked to cancel them
    run,     \* the open transaction of each goroutine, with the helpers it waits for
    faults   \* how many faults there have been

vars == <<up, due, status, inviter, channel, swept, run, posted, faults>>
env == <<due, inviter, channel>>

Messages == {"admin", "channel", "stats"}

\* err: multiErr. Two goroutines that write it at a time can leave the type of
\* one error with the value of the other.
Run == [job: Reports \cup {"none"},
        pc: {"idle", "exec", "cancel", "wait", "done"},
        admin: {"off", "open", "post"}, group: {"off", "post"},
        err: {"nil", "error", "torn"}]
NoRun == [job |-> "none", pc |-> "idle", admin |-> "off", group |-> "off", err |-> "nil"]

TypeOK ==
    /\ up \in BOOLEAN
    /\ due \in SUBSET Reports
    /\ status \in [Reports -> {"none", "PENDING", "SUCCEEDED", "CANCELED"}]
    /\ inviter \in BOOLEAN
    /\ channel \in {"enabled", "left", "deleted"}
    /\ swept \in SUBSET Reports
    /\ run \in [Goroutines -> Run]
    /\ posted \in SUBSET Messages
    /\ faults \in 0..MaxFaults
-------------------------------------------------------------------------------
(* Helpers *)

Taken(j) == \E g \in Goroutines : run[g].job = j

\* GetNextJob: an unlocked row that is due, the higher priority first.
Available == {j \in due : status[j] = "PENDING" /\ ~Taken(j) /\ j \notin swept}
IsNext(j) == j \in Available /\ \A k \in Available : Priority(k) <= Priority(j)

Fault == faults < MaxFaults /\ faults' = faults + 1

\* Mutant of ErrAfter: the last helper to end overwrites multiErr.
ErrAfterLast(e, ok) == {IF ok THEN "nil" ELSE "error"}

\* What multiErr can be when a helper's request ended: it is only written on error.
ErrAfter(e, ok) ==
    IF ok THEN {e} ELSE IF e = "nil" THEN {"error"} ELSE {"error", "torn"}

\* The process ends; the database rolls back every open transaction.
Ends == up' = FALSE /\ swept' = {} /\ run' = [g \in Goroutines |-> NoRun]

\* Mutant of Rollback: a report that failed is given up.
RollbackGivesUp(g) ==
    /\ run' = [run EXCEPT ![g] = NoRun]
    /\ status' = [status EXCEPT ![run[g].job] = "CANCELED"]
    /\ UNCHANGED <<up, swept, posted, env>>

\* A row is left PENDING and unlocked for the next attempt.
Rollback(g) == run' = [run EXCEPT ![g] = NoRun] /\ UNCHANGED <<up, status, swept, posted, env>>
-------------------------------------------------------------------------------
(* Slack, the clock and the process *)

\* CREATE_ROUND commits the row of REPORT_STATS, CREATE_MATCHES that of REPORT_MATCHES.
Queue(j) ==
    /\ up /\ channel # "deleted" /\ status[j] = "none"
    /\ status' = [status EXCEPT ![j] = "PENDING"]
    /\ UNCHANGED <<up, swept, run, posted, faults, env>>

Due(j) ==
    /\ status[j] # "none" /\ j \notin due /\ due' = due \cup {j}
    /\ UNCHANGED <<up, status, inviter, channel, swept, run, posted, faults>>

\* The admin's account is deactivated.
InviterLeaves ==
    /\ inviter /\ inviter' = FALSE
    /\ UNCHANGED <<up, due, status, channel, swept, run, posted, faults>>

\* The bot is removed from the Slack channel, which ends posting to it ...
BotRemoved ==
    /\ channel = "enabled" /\ channel' = "left"
    /\ UNCHANGED <<up, due, status, inviter, swept, run, posted, faults>>

\* ... and DELETE_CHANNEL (see Channels) cancels the rows that are PENDING. Those
\* nobody runs it has locked while it waits for the others, 300 ms at most, ...
Sweep ==
    /\ up /\ channel = "left"
    /\ swept' = {j \in Reports : status[j] = "PENDING" /\ ~Taken(j)}
    /\ UNCHANGED <<up, status, run, posted, faults, env>>

SweepGivesUp ==
    /\ swept # {} /\ \E j \in Reports : Taken(j)
    /\ swept' = {}
    /\ UNCHANGED <<up, status, run, posted, faults, env>>

\* ... and the channel is deleted. Rows that were committed during its wait are
\* not seen: they stay PENDING.
ChannelDeleted ==
    /\ up /\ channel = "left" /\ channel' = "deleted"
    /\ \A j \in Reports : ~Taken(j)
    /\ \E unseen \in SUBSET {j \in Reports : status[j] = "none"} :
          status' = [j \in Reports |-> CASE status[j] = "PENDING" -> "CANCELED"
                                         [] j \in unseen -> "PENDING"
                                         [] OTHER -> status[j]]
    /\ swept' = {}
    /\ UNCHANGED <<up, due, inviter, run, posted, faults>>

Start == ~up /\ up' = TRUE /\ UNCHANGED <<status, swept, run, posted, faults, env>>
Crash == up /\ Ends /\ Fault /\ UNCHANGED <<status, posted, env>>
-------------------------------------------------------------------------------
(* The worker *)

TakeJob(g) ==
    /\ up /\ run[g].pc = "idle"
    /\ \E j \in Reports :
          /\ IsNext(j)
          /\ run' = [run EXCEPT ![g] = [NoRun EXCEPT
                        !.job = j, !.pc = IF channel = "deleted" THEN "cancel" ELSE "exec"]]
    /\ UNCHANGED <<up, status, swept, posted, faults, env>>

\* The channel is gone: the row is saved as CANCELED.
Cancel(g) ==
    /\ run[g].pc = "cancel"
    /\ status' = [status EXCEPT ![run[g].job] = "CANCELED"]
    /\ run' = [run EXCEPT ![g] = NoRun]
    /\ UNCHANGED <<up, swept, posted, faults, env>>

Commit(g) ==
    /\ run[g].pc = "done"
    /\ status' = [status EXCEPT ![run[g].job] = "SUCCEEDED"]
    /\ run' = [run EXCEPT ![g] = NoRun]
    /\ UNCHANGED <<up, swept, posted, faults, env>>

\* A query fails, or the commit: the post has been made all the same.
Fail(g) == run[g].pc \in {"exec", "cancel", "done"} /\ Fault /\ Rollback(g)
-------------------------------------------------------------------------------
(* REPORT_STATS *)

\* ReportStats counts the matches and posts; the bot may not be in the channel.
ReportStats(g) ==
    /\ run[g].pc = "exec" /\ run[g].job = "REPORT_STATS"
    /\ \/ /\ channel = "enabled"
          /\ posted' = posted \cup {"stats"}
          /\ run' = [run EXCEPT ![g].pc = "done"]
          /\ UNCHANGED <<up, status, swept, env>>
       \/ channel # "enabled" /\ Rollback(g)
    /\ UNCHANGED faults
-------------------------------------------------------------------------------
(* REPORT_MATCHES *)

\* ReportMatches reads the channel and the counts, then starts both helpers.
ReportMatches(g) ==
    /\ run[g].pc = "exec" /\ run[g].job = "REPORT_MATCHES"
    /\ run' = [run EXCEPT ![g].pc = "wait", ![g].admin = "open", ![g].group = "post"]
    /\ UNCHANGED <<up, status, swept, posted, faults, env>>

\* The first helper opens a conversation with the admin. If it cannot, response
\* is nil and response.ID panics, which nothing recovers.
OpenConversation(g) ==
    /\ run[g].admin = "open"
    /\ \/ inviter /\ run' = [run EXCEPT ![g].admin = "post"] /\ UNCHANGED <<up, swept, faults>>
       \/ ~inviter /\ Ends /\ UNCHANGED faults
       \/ Ends /\ Fault
    /\ UNCHANGED <<status, posted, env>>

\* It posts there ...
PostToAdmin(g) ==
    /\ run[g].admin = "post"
    /\ \E ok \in BOOLEAN, e \in {"nil", "error", "torn"} :
          /\ e \in ErrAfter(run[g].err, ok)
          /\ run' = [run EXCEPT ![g].admin = "off", ![g].err = e]
          /\ posted' = IF ok THEN posted \cup {"admin"} ELSE posted
          /\ IF ok THEN inviter /\ UNCHANGED faults
             ELSE IF inviter THEN Fault ELSE UNCHANGED faults
    /\ UNCHANGED <<up, status, swept, env>>

\* ... and the second one to the channel.
PostToChannel(g) ==
    /\ run[g].group = "post"
    /\ \E ok \in BOOLEAN, e \in {"nil", "error", "torn"} :
          /\ e \in ErrAfter(run[g].err, ok)
          /\ run' = [run EXCEPT ![g].group = "off", ![g].err = e]
          /\ posted' = IF ok THEN posted \cup {"channel"} ELSE posted
          /\ IF ok THEN channel = "enabled" /\ UNCHANGED faults
             ELSE IF channel = "enabled" THEN Fault ELSE UNCHANGED faults
    /\ UNCHANGED <<up, status, swept, env>>

\* wg.Wait: the job ends as multiErr says. An error made of two can panic.
HelpersEnded(g) ==
    /\ run[g].pc = "wait" /\ run[g].admin = "off" /\ run[g].group = "off"
    /\ \/ /\ run[g].err = "nil"
          /\ run' = [run EXCEPT ![g].pc = "done"]
          /\ UNCHANGED <<up, status, swept, posted, env>>
       \/ run[g].err # "nil" /\ Rollback(g)
       \/ run[g].err = "torn" /\ Ends /\ UNCHANGED <<status, posted, env>>
    /\ UNCHANGED faults
-------------------------------------------------------------------------------
Init ==
    /\ up = TRUE /\ due = {} /\ status = [j \in Reports |-> "none"]
    /\ inviter = TRUE /\ channel = "enabled"
    /\ run = [g \in Goroutines |-> NoRun]
    /\ swept = {} /\ posted = {} /\ faults = 0

Step(g) ==
    \/ TakeJob(g) \/ Cancel(g) \/ Commit(g) \/ ReportStats(g) \/ ReportMatches(g)
    \/ OpenConversation(g) \/ PostToAdmin(g) \/ PostToChannel(g) \/ HelpersEnded(g)

Next ==
    \/ \E j \in Reports : Queue(j) \/ Due(j)
    \/ InviterLeaves \/ BotRemoved \/ Sweep \/ SweepGivesUp \/ ChannelDeleted
    \/ Start \/ Crash
    \/ \E g \in Goroutines : Step(g) \/ Fail(g)

Spec == Init /\ [][Next]_vars

\* Time passes, the process is restarted and its goroutines go on.
FairSpec ==
    /\ Spec
    /\ \A j \in Reports : WF_vars(Due(j))
    /\ WF_vars(Start)
    /\ \A g \in Goroutines : WF_vars(Step(g))
-------------------------------------------------------------------------------
(* Properties, with ReportedToBoth of ReportPromise *)

\* Both reports of a round are posted and done at last, however the requests of their
\* retries fail and whatever multiErr holds, as long as the bot stays in the channel
\* and the admin can be written to: without the admin the process panics, after every
\* restart, and the stats may never be posted either (StatsReported in MCReports).
Reachable == channel = "enabled" /\ inviter
ReportsSent ==
    /\ status["REPORT_STATS"] = "PENDING" ~>
           (Reachable => status["REPORT_STATS"] = "SUCCEEDED" /\ "stats" \in posted)
    /\ status["REPORT_MATCHES"] = "PENDING" ~>
           (Reachable => status["REPORT_MATCHES"] = "SUCCEEDED" /\ {"admin", "channel"} \subseteq posted)
===============================================================================
