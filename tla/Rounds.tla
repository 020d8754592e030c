-------------------------------- MODULE Rounds --------------------------------
(***************************************************************************)
(* The rounds of one Slack channel: ADD_CHANNEL starts a chain of          *)
(* CREATE_ROUND jobs, each of which starts a round, queues the END_ROUND   *)
(* of that round and the next CREATE_ROUND; UPDATE_CHANNEL replaces the    *)
(* pending CREATE_ROUND, DELETE_CHANNEL ends everything. Every query names *)
(* the channel, so channels do not affect each other.                      *)
(*                                                                         *)
(* Jobs run on several goroutines, each in a READ COMMITTED transaction:   *)
(* run[g] is what the transaction of g will write when it commits. What    *)
(* the worker does around a job function is in JobQueue. REPORT_STATS and  *)
(* SYNC_MEMBERS rows are not kept: they touch none of this state. A tick   *)
(* of the clock stands for hours, a job takes seconds: the clock stands    *)
(* still while jobs run.                                                   *)
(***************************************************************************)
EXTENDS JobTypes, Tables, Sequences

CONSTANTS
    Goroutines, Nobody,
    Interval,    \* ticks between two rounds
    EndBefore,   \* ticks between END_ROUND and the next round (the 4 hours)
    Prompt,      \* no tick passes while a job is due: the worker keeps up
    Rescheduling,  \* the dates admins choose in the settings page
    Membership,  \* whether the bot is removed from and invited to the channel
    Faults,      \* a subset of {"error", "shutdown"}
    MaxTime,     \* bound on the clock
    MaxRequests, \* bound on the PENDING jobs handlers asked for
    MaxJobs,     \* bound on all PENDING jobs when one is requested or interrupted
    MaxRounds    \* bound on the rounds table

ASSUME RoundsAssumption ==
    /\ Nobody \notin Goroutines
    /\ Interval \in Nat /\ EndBefore \in Nat /\ EndBefore < Interval
    /\ Prompt \in BOOLEAN /\ Membership \in BOOLEAN
    /\ Rescheduling \in {"never", "later", "any"}
    /\ Faults \subseteq {"error", "shutdown"}
    /\ MaxTime \in Nat /\ MaxRequests \in Nat /\ MaxJobs \in Nat /\ MaxRounds \in Nat

VARIABLES
    exists,     \* whether the channels table has the channel
    nextRound,  \* its next_round column
    rounds,     \* its rows of the rounds table, by id
    jobs,       \* its PENDING rows of the jobs table, by created_at
    run,        \* the open transaction of each goroutine
    inSlack,    \* whether the bot is a member of the Slack channel
    now

vars == <<exists, nextRound, rounds, jobs, run, inSlack, now>>
table == <<exists, nextRound, rounds>>

RoundJobs == {"ADD_CHANNEL", "UPDATE_CHANNEL", "DELETE_CHANNEL", "CREATE_ROUND", "END_ROUND"}

\* A row: taker runs it, the sweeps of cancel matched it.
Job == [type: RoundJobs, due: Nat, next: Nat,
        taker: Goroutines \cup {Nobody}, cancel: SUBSET Goroutines]
NewRow == {j \in Job : j.taker = Nobody /\ j.cancel = {}}

\* matchings: how many CREATE_MATCHES jobs were queued for the round, up to 2.
Round == [ended: BOOLEAN, at: Nat, matchings: 0..2]

\* starts: inserts a round; found: a round found to be new; matching: queues
\* CREATE_MATCHES for it; ends: the rounds it ends; chan, next: what it writes
\* to the channel's row; adds: the other rows it queues.
Run == [pc: {"idle", "exec", "start", "next", "updated", "sweep", "delete", "done"},
        starts: BOOLEAN, found: Nat, matching: BOOLEAN, ends: SUBSET Nat,
        chan: {"keep", "add", "update", "delete"}, next: Nat, adds: Seq(NewRow)]
NoRun == [pc |-> "idle", starts |-> FALSE, found |-> 0, matching |-> FALSE, ends |-> {},
          chan |-> "keep", next |-> 0, adds |-> <<>>]

TypeOK ==
    /\ exists \in BOOLEAN /\ inSlack \in BOOLEAN
    /\ nextRound \in Nat /\ now \in Nat
    /\ rounds \in Seq(Round)
    /\ jobs \in Seq(Job)
    /\ run \in [Goroutines -> Run]
-------------------------------------------------------------------------------
(* Helpers *)

Pending == {jobs[k] : k \in DOMAIN jobs}
Active == {k \in DOMAIN rounds : ~rounds[k].ended}
Busy(g) == run[g].pc # "idle"
JobOf(g) == CHOOSE j \in Pending : j.taker = g
Runs(g, t) == Busy(g) /\ JobOf(g).type = t

\* The row lock of j, as g sees it: another goroutine runs it or cancelled it.
LockedFor(g, j) ==
    \/ j.taker \notin {g, Nobody}
    \/ \E h \in j.cancel \ {g} : run[h].pc \in {"delete", "done"}

\* GetNextJob: the due, unlocked row of the highest priority, the oldest first.
Available == {k \in DOMAIN jobs : jobs[k].due <= now /\ ~LockedFor(Nobody, jobs[k])}
NextJob == CHOOSE k \in Available : \A m \in Available \ {k} :
    \/ Priority(jobs[k].type) > Priority(jobs[m].type)
    \/ Priority(jobs[k].type) = Priority(jobs[m].type) /\ k < m

\* Row locks on the channel: an uncommitted INSERT, UPDATE or DELETE excludes
\* the others; the foreign key of an inserted round only excludes a DELETE.
ChannelFree(g) == \A h \in Goroutines \ {g} : run[h].chan = "keep"
Unreferenced(g) == \A h \in Goroutines \ {g} : ~run[h].starts

NewJob(t, due, next) ==
    [type |-> t, due |-> due, next |-> next, taker |-> Nobody, cancel |-> {}]

\* Mutant of CreateRoundJob: due an interval too early.
CreateRoundJobEarlier(next) == NewJob("CREATE_ROUND", next - Interval - 1, next)

CreateRoundJob(next) == NewJob("CREATE_ROUND", next, next)

EndRoundJob(next) == NewJob("END_ROUND", IF next < EndBefore THEN 0 ELSE next - EndBefore, next)

\* The rows, none of them locked by g any more.
Unlocked(g, j) == [j EXCEPT !.taker = IF @ = g THEN Nobody ELSE @, !.cancel = @ \ {g}]
Released(g, q) == [k \in DOMAIN q |-> Unlocked(g, q[k])]

\* g goes on with its transaction.
Continue(g, r) ==
    /\ run' = [run EXCEPT ![g] = r]
    /\ UNCHANGED <<table, inSlack, now>>
-------------------------------------------------------------------------------
(* Requests: the HTTP handlers, Slack, and SYNC_CHANNELS at startup *)

Requests == {k \in DOMAIN jobs : jobs[k].type \notin {"CREATE_ROUND", "END_ROUND"}}
Request(t, next) ==
    /\ Cardinality(Requests) < MaxRequests /\ Len(jobs) <= MaxJobs
    /\ jobs' = Append(jobs, NewJob(t, 0, next))
    /\ UNCHANGED <<table, run, inSlack, now>>

\* The admin answers GREET_ADMIN: UpsertChannelSettings.
AdminEnables(next) == inSlack /\ now <= next /\ Request("ADD_CHANNEL", next)

\* The admin saves the settings page: updateChannelHandler.
AdminReschedules(next) ==
    /\ exists
    /\ \/ Rescheduling = "any" /\ now <= next
       \/ Rescheduling = "later" /\ nextRound + Interval <= next
    /\ Request("UPDATE_CHANNEL", next)

\* SYNC_CHANNELS finds the channel in the database but not in Slack.
SyncChannels == exists /\ ~inSlack /\ Request("DELETE_CHANNEL", 0)

BotMoves ==
    /\ Membership
    /\ inSlack' = ~inSlack
    /\ UNCHANGED <<table, jobs, run, now>>

Advance ==
    /\ now < MaxTime
    /\ \A g \in Goroutines : ~Busy(g)
    /\ Prompt => Available = {}
    /\ now' = now + 1
    /\ UNCHANGED <<table, jobs, run, inSlack>>
-------------------------------------------------------------------------------
(* Job functions *)

\* The worker locks the next row; without its channel the job is CANCELED.
TakeJob(g) ==
    /\ ~Busy(g)
    /\ Available # {}
    /\ jobs' = [jobs EXCEPT ![NextJob].taker = g]
    /\ LET runnable == exists \/ ~RequiresSlackChannel(jobs[NextJob].type)
       IN Continue(g, [NoRun EXCEPT !.pc = IF runnable THEN "exec" ELSE "done"])

\* AddChannel: FirstOrCreate of the channel, then the first CREATE_ROUND.
AddChannel(g) ==
    /\ Runs(g, "ADD_CHANNEL") /\ run[g].pc = "exec"
    /\ LET next == JobOf(g).next IN
       \/ exists /\ Continue(g, [run[g] EXCEPT !.pc = "done"])
       \/ /\ ~exists /\ ChannelFree(g)
          /\ Continue(g, [run[g] EXCEPT !.pc = "done", !.chan = "add", !.next = next,
                                        !.adds = <<CreateRoundJob(next)>>])
    /\ UNCHANGED jobs

\* CreateRound: GetBotUserID and isBotAChannelMember ask Slack.
CheckMembership(g) ==
    /\ Runs(g, "CREATE_ROUND") /\ run[g].pc = "exec"
    /\ IF inSlack
       THEN Continue(g, [run[g] EXCEPT !.pc = "start"])
       ELSE Continue(g, [run[g] EXCEPT !.pc = "done", !.adds = <<NewJob("DELETE_CHANNEL", 0, 0)>>])
    /\ UNCHANGED jobs

\* CreateRound: FirstOrCreate finds an active round, which counts as a new one
\* when it is less than a second old, or inserts a round.
StartRound(g) ==
    /\ run[g].pc = "start"
    /\ \/ Active # {} /\ Continue(g, [run[g] EXCEPT !.pc = "done"])
       \/ \E k \in Active :
             /\ \A m \in Active : k <= m
             /\ rounds[k].at = now
             /\ Continue(g, [run[g] EXCEPT !.pc = "next", !.found = k])
       \/ /\ Active = {} /\ exists /\ Len(rounds) < MaxRounds
          /\ \A h \in Goroutines : run[h].chan # "delete"
          /\ Continue(g, [run[g] EXCEPT !.pc = "next", !.starts = TRUE])
    /\ UNCHANGED jobs

\* CreateRound: next_round is updated, END_ROUND and CREATE_ROUND are queued.
ScheduleNext(g) ==
    /\ run[g].pc = "next"
    /\ ChannelFree(g)
    /\ LET next == JobOf(g).next + Interval IN
          Continue(g, [run[g] EXCEPT !.pc = "done", !.chan = "update", !.next = next,
                                     !.adds = <<EndRoundJob(next), CreateRoundJob(next)>>,
                                     !.matching = TRUE])
    /\ UNCHANGED jobs

EndRound(g) ==
    /\ Runs(g, "END_ROUND") /\ run[g].pc = "exec"
    /\ Continue(g, [run[g] EXCEPT !.pc = "done", !.ends = Active])
    /\ UNCHANGED jobs

\* UpdateChannel: the settings first ...
UpdateChannel(g) ==
    /\ Runs(g, "UPDATE_CHANNEL") /\ run[g].pc = "exec"
    /\ ChannelFree(g)
    /\ Continue(g, [run[g] EXCEPT !.pc = "updated", !.chan = "update", !.next = JobOf(g).next])
    /\ UNCHANGED jobs

\* Mutant of BeginSweep: UPDATE_CHANNEL cancels nothing.
BeginSweepDeleting(g) ==
    /\ \/ Runs(g, "UPDATE_CHANNEL") /\ run[g].pc = "updated"
       \/ Runs(g, "DELETE_CHANNEL") /\ run[g].pc = "exec"
    /\ jobs' = IF Runs(g, "UPDATE_CHANNEL") THEN jobs
               ELSE [k \in DOMAIN jobs |-> [jobs[k] EXCEPT !.cancel = @ \cup {g}]]
    /\ Continue(g, [run[g] EXCEPT !.pc = "sweep"])

\* Mutant of BeginSweep: it cancels the jobs of every type.
BeginSweepAll(g) ==
    /\ \/ Runs(g, "UPDATE_CHANNEL") /\ run[g].pc = "updated"
       \/ Runs(g, "DELETE_CHANNEL") /\ run[g].pc = "exec"
    /\ jobs' = [k \in DOMAIN jobs |-> [jobs[k] EXCEPT !.cancel = @ \cup {g}]]
    /\ Continue(g, [run[g] EXCEPT !.pc = "sweep"])

\* ... then the pending CREATE_ROUND rows are cancelled; DeleteChannel cancels
\* every row. The rows are those visible when the UPDATE starts.
BeginSweep(g) ==
    /\ \/ Runs(g, "UPDATE_CHANNEL") /\ run[g].pc = "updated"
       \/ Runs(g, "DELETE_CHANNEL") /\ run[g].pc = "exec"
    /\ LET types == IF Runs(g, "DELETE_CHANNEL") THEN RoundJobs ELSE {"CREATE_ROUND"} IN
          jobs' = [k \in DOMAIN jobs |->
                      IF jobs[k].type \in types
                      THEN [jobs[k] EXCEPT !.cancel = @ \cup {g}] ELSE jobs[k]]
    /\ Continue(g, [run[g] EXCEPT !.pc = "sweep"])

\* The UPDATE ends when it could lock the rows that still exist; UpdateChannel
\* queues the new CREATE_ROUND.
EndSweep(g) ==
    /\ run[g].pc = "sweep"
    /\ \A j \in Pending : g \in j.cancel => ~LockedFor(g, j)
    /\ IF Runs(g, "UPDATE_CHANNEL")
       THEN Continue(g, [run[g] EXCEPT !.pc = "done", !.adds = <<CreateRoundJob(JobOf(g).next)>>])
       ELSE Continue(g, [run[g] EXCEPT !.pc = "delete"])
    /\ UNCHANGED jobs

DeleteChannel(g) ==
    /\ run[g].pc = "delete"
    /\ ChannelFree(g) /\ Unreferenced(g)
    /\ Continue(g, [run[g] EXCEPT !.pc = "done", !.chan = "delete"])
    /\ UNCHANGED jobs
-------------------------------------------------------------------------------
(* The end of a transaction *)

\* What the writes r make of the rows of the rounds table, and the row they insert.
RoundsWritten(r) ==
    [k \in DOMAIN rounds |->
        [rounds[k] EXCEPT !.ended = @ \/ k \in r.ends,
                          !.matchings = IF k = r.found /\ r.matching /\ @ < 2
                                        THEN @ + 1 ELSE @]]
RoundInserted(r) == [ended |-> FALSE, at |-> now, matchings |-> IF r.matching THEN 1 ELSE 0]
RoundsAfter(r) ==
    CASE r.chan = "delete" -> <<>>
      [] r.chan # "delete" /\ r.starts -> Append(RoundsWritten(r), RoundInserted(r))
      [] OTHER -> RoundsWritten(r)

\* The rows that stay PENDING when g commits: not those it cancelled, and its own
\* only without the Save.
Kept(g, saved) ==
    {k \in DOMAIN jobs : g \notin jobs[k].cancel /\ (saved => jobs[k].taker # g)}

\* g commits the writes r.
Finish(g, r, saved) ==
    /\ exists' = CASE r.chan = "add" -> TRUE [] r.chan = "delete" -> FALSE [] OTHER -> exists
    /\ nextRound' = IF r.chan = "add" \/ (r.chan = "update" /\ exists) THEN r.next ELSE nextRound
    /\ rounds' = RoundsAfter(r)
    /\ jobs' = Released(g, Where(jobs, Kept(g, saved))) \o r.adds
    /\ run' = [run EXCEPT ![g] = NoRun]
    /\ UNCHANGED <<inSlack, now>>

Commit(g) == run[g].pc = "done" /\ Finish(g, run[g], TRUE)

\* A shutdown cancelled the context before the Save.
CommitUnsaved(g) ==
    /\ "shutdown" \in Faults /\ Len(jobs) <= MaxJobs
    /\ run[g].pc = "done"
    /\ Finish(g, run[g], FALSE)

\* A shutdown cancelled the context after END_ROUND was queued: QueueReportStatsJob
\* fails, and CreateRound returns errors.Wrap(result.Error), which is nil.
CutShort(g) ==
    /\ "shutdown" \in Faults /\ Len(jobs) <= MaxJobs
    /\ run[g].pc = "next"
    /\ ChannelFree(g)
    /\ LET next == JobOf(g).next + Interval IN
          Finish(g, [run[g] EXCEPT !.chan = "update", !.next = next,
                                   !.adds = <<EndRoundJob(next)>>], FALSE)

\* An error, a wait for a lock that is too long, the missing channel of a round:
\* the transaction is rolled back, the row stays PENDING.
Fail(g) ==
    /\ Busy(g)
    /\ \/ "error" \in Faults
       \/ ~exists
       \/ \E h \in Goroutines \ {g} : Busy(h)
    /\ run' = [run EXCEPT ![g] = NoRun]
    /\ jobs' = Released(g, jobs)
    /\ UNCHANGED <<table, inSlack, now>>
-------------------------------------------------------------------------------
Init ==
    /\ exists = FALSE /\ nextRound = 0 /\ rounds = <<>> /\ jobs = <<>>
    /\ run = [g \in Goroutines |-> NoRun]
    /\ inSlack = TRUE
    /\ now = 0

Step(g) ==
    \/ TakeJob(g) \/ AddChannel(g) \/ CheckMembership(g) \/ StartRound(g) \/ ScheduleNext(g)
    \/ EndRound(g) \/ UpdateChannel(g) \/ BeginSweep(g) \/ EndSweep(g) \/ DeleteChannel(g)
    \/ Commit(g) \/ CommitUnsaved(g) \/ CutShort(g) \/ Fail(g)

Next ==
    \/ \E n \in 0..MaxTime : AdminEnables(n) \/ AdminReschedules(n)
    \/ SyncChannels \/ BotMoves \/ Advance
    \/ \E g \in Goroutines : Step(g)

Spec == Init /\ [][Next]_vars
-------------------------------------------------------------------------------
(* Properties *)

\* Whatever the faults, the delays, the changes of the schedule and of the bot's
\* membership, an active round has an END_ROUND to come.
RoundWillEnd == Active # {} => \E j \in Pending : j.type = "END_ROUND"

\* "The bot will pair up members of the Slack channel every round" (README.md:14):
\* while the channel is enabled there is a round to come, or the job that
\* disables the channel.
RoundsGoOn == exists => \E j \in Pending : j.type \in {"CREATE_ROUND", "DELETE_CHANNEL"}
-------------------------------------------------------------------------------
(* Refinement *)

DueDates ==
    LET next == Where(jobs, {k \in DOMAIN jobs : jobs[k].type = "CREATE_ROUND"})
    IN [k \in DOMAIN next |-> next[k].due]

Chain == INSTANCE RoundChain
    WITH dates <- DueDates, shown <- nextRound, history <- rounds, clock <- now

\* While the worker keeps up, and rounds are put off by intervals: the channel
\* has exactly one CREATE_ROUND to come, at the date its settings page shows;
\* "a new chat-roulette round only if the last round has ended"
\* (job_create_round.go:60); each round is drawn once and lasts until the 4
\* hours before the next one. Neither retries nor UPDATE_CHANNEL and END_ROUND
\* running next to CREATE_ROUND start a second chain or lose the first.
ImplementsChain == Chain!Spec
===============================================================================
