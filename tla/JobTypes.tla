------------------------------- MODULE JobTypes -------------------------------
(***************************************************************************)
(* The catalogue of background jobs of chat-roulette: for every job type   *)
(* its priority in the queue, whether the worker requires the job's Slack  *)
(* channel to exist, which jobs its function queues, which rows of the     *)
(* jobs table its function cancels, and how its function treats errors.    *)
(* Everything here is constant; JobQueue is the state machine.             *)
(***************************************************************************)
EXTENDS Naturals

\* The job types (the reserved JobTypeUnknown is never queued).
JobTypes ==
    {"ADD_CHANNEL", "GREET_ADMIN", "UPDATE_CHANNEL", "DELETE_CHANNEL",
     "SYNC_CHANNELS", "ADD_MEMBER", "UPDATE_MEMBER", "GREET_MEMBER",
     "DELETE_MEMBER", "SYNC_MEMBERS", "CREATE_ROUND", "END_ROUND",
     "CREATE_MATCHES", "REPORT_MATCHES", "CREATE_MATCH", "UPDATE_MATCH",
     "CREATE_PAIR", "NOTIFY_PAIR", "KICKOFF_PAIR", "NOTIFY_MEMBER",
     "CHECK_PAIR", "REPORT_STATS", "MARK_INACTIVE", "BLOCK_MEMBER",
     "UNBLOCK_MEMBER"}

Highest  == 10
High     == 8
Standard == 5
Low      == 3
Lowest   == 1

\* The priority the Queue...Job function of each type passes to QueueJob.
Priority(t) ==
    CASE t \in {"ADD_CHANNEL", "DELETE_CHANNEL", "SYNC_CHANNELS"} -> Highest
      [] t \in {"UPDATE_CHANNEL", "GREET_ADMIN", "ADD_MEMBER", "DELETE_MEMBER",
                "UPDATE_MEMBER", "SYNC_MEMBERS", "UPDATE_MATCH",
                "MARK_INACTIVE", "BLOCK_MEMBER", "UNBLOCK_MEMBER"} -> High
      [] t \in {"CREATE_MATCHES", "CREATE_MATCH", "KICKOFF_PAIR",
                "REPORT_STATS"} -> Low
      [] t = "REPORT_MATCHES" -> Lowest
      [] OTHER -> Standard

\* Types whose Queue...Job function sets ExecAt; all others are due at once.
Deferred ==
    {"CREATE_ROUND", "END_ROUND", "REPORT_STATS", "CHECK_PAIR",
     "MARK_INACTIVE", "KICKOFF_PAIR", "CREATE_MATCH", "REPORT_MATCHES"}

\* JobRequiresSlackChannel: the worker looks the channel up before the job.
RequiresSlackChannel(t) ==
    t \notin {"SYNC_CHANNELS", "ADD_CHANNEL", "GREET_ADMIN", "UPDATE_MATCH",
              "BLOCK_MEMBER", "UNBLOCK_MEMBER"}

\* Types whose parameters have no channel_id: no sweep by channel sees them.
NoChannelID == {"SYNC_CHANNELS", "UPDATE_MATCH", "BLOCK_MEMBER", "UNBLOCK_MEMBER"}

\* The types a job function queues through its own transaction. Which of them
\* it queues depends on the data, so the model takes any subset.
Queues(t) ==
    CASE t = "SYNC_CHANNELS"  -> {"GREET_ADMIN", "DELETE_CHANNEL", "SYNC_MEMBERS"}
      [] t = "ADD_CHANNEL"    -> {"CREATE_ROUND", "SYNC_MEMBERS"}
      [] t = "UPDATE_CHANNEL" -> {"CREATE_ROUND"}
      [] t = "SYNC_MEMBERS"   -> {"ADD_MEMBER", "DELETE_MEMBER"}
      [] t = "ADD_MEMBER"     -> {"GREET_MEMBER"}
      [] t = "CREATE_ROUND"   -> {"DELETE_CHANNEL", "END_ROUND", "REPORT_STATS",
                                  "CREATE_ROUND", "SYNC_MEMBERS", "CREATE_MATCHES"}
      [] t = "CREATE_MATCHES" -> {"NOTIFY_MEMBER", "CREATE_PAIR", "REPORT_MATCHES"}
      [] t = "CREATE_MATCH"   -> {"CREATE_PAIR"}
      [] t = "CREATE_PAIR"    -> {"NOTIFY_PAIR"}
      [] t = "NOTIFY_PAIR"    -> {"KICKOFF_PAIR", "CHECK_PAIR", "MARK_INACTIVE"}
      [] OTHER -> {}

\* The types a job function cancels for its channel while they are uncompleted.
Sweeps(t) ==
    CASE t = "DELETE_CHANNEL" -> JobTypes \ NoChannelID
      [] t = "UPDATE_CHANNEL" -> {"CREATE_ROUND"}
      [] OTHER -> {}

\* Types that check their parameters and return ErrJobParamsFailedValidation.
Validated == {"BLOCK_MEMBER", "UNBLOCK_MEMBER"}

\* Types whose function can return nil although a statement failed: an error
\* that is deliberately ignored, or errors.Wrap applied to a nil error.
SwallowsErrors ==
    {"SYNC_CHANNELS", "ADD_CHANNEL", "ADD_MEMBER", "CREATE_ROUND",
     "CREATE_MATCHES", "CREATE_PAIR", "KICKOFF_PAIR", "BLOCK_MEMBER"}

\* Types queued by the HTTP handlers and by main at startup.
HandlerTypes ==
    {"SYNC_CHANNELS", "GREET_ADMIN", "ADD_CHANNEL", "UPDATE_CHANNEL",
     "ADD_MEMBER", "DELETE_MEMBER", "UPDATE_MEMBER", "CREATE_MATCH",
     "UPDATE_MATCH", "BLOCK_MEMBER", "UNBLOCK_MEMBER"}
===============================================================================
