-------------------------------- MODULE Channels --------------------------------
(***************************************************************************)
(* How one Slack channel gets into the channels table and out of it: the   *)
(* bot is invited to the Slack channel and removed from it, SYNC_CHANNELS  *)
(* compares Slack with the table, GREET_ADMIN asks the admin, whose answer *)
(* queues ADD_CHANNEL, and DELETE_CHANNEL removes the row and cancels what *)
(* is pending for the channel. Jobs run on several goroutines, each in a   *)
(* READ COMMITTED transaction. Every query names the channel, so channels  *)
(* do not affect each other; SYNC_MEMBERS rows are not kept.               *)
(***************************************************************************)
EXTENDS JobTypes, Tables, Sequences

CONSTANTS
    Goroutines, Nobody,
    MaxMoves,   \* bound on how often the bot is invited or removed
    MaxFaults,  \* bound on errors, lost and repeated events, and crashes
    MaxOpens,   \* bound on how often the admin opens the dialog
    MaxJobs     \* bound on the PENDING jobs when another is asked for

ASSUME ChannelsAssumption ==
    /\ Nobody \notin Goroutines
    /\ MaxMoves \in Nat /\ MaxFaults \in Nat /\ MaxOpens \in Nat /\ MaxJobs \in Nat

VARIABLES
    up,       \* whether the process runs
    inSlack,  \* whether the bot is a member of the Slack channel
    event,    \* Slack's event about that, until it is delivered
    exists,   \* whether the channels table has the channel
    jobs,     \* the PENDING rows of the jobs table, by created_at
    greets,   \* the number of GREET_ADMIN rows of any status; 2 is two or more
    button,   \* whether the admin has a message with the button
    dialog,   \* whether the admin has the dialog open
    run,      \* the open transaction of each goroutine
    count     \* how many moves, faults and opened dialogs there have been

vars == <<up, inSlack, event, exists, jobs, greets, button, dialog, run, count>>
slack == <<inSlack, event>>
admin == <<button, dialog>>
table == <<exists, greets>>

ChannelJobs == {"SYNC_CHANNELS", "GREET_ADMIN", "ADD_CHANNEL", "DELETE_CHANNEL"}
Job == [type: ChannelJobs, taker: Goroutines \cup {Nobody}, cancel: SUBSET Goroutines]

\* listed, known: what SYNC_CHANNELS has read of Slack and of the table.
Run == [pc: {"idle", "exec", "listed", "read", "sweep", "delete", "done"},
        listed: BOOLEAN, known: BOOLEAN, adds: Seq(Job), chan: {"keep", "add", "delete"}]
NoRun == [pc |-> "idle", listed |-> FALSE, known |-> FALSE, adds |-> <<>>, chan |-> "keep"]

TypeOK ==
    /\ up \in BOOLEAN /\ inSlack \in BOOLEAN /\ event \in {"none", "invited", "added"}
    /\ exists \in BOOLEAN /\ greets \in 0..2
    /\ jobs \in Seq(Job)
    /\ button \in BOOLEAN /\ dialog \in BOOLEAN
    /\ run \in [Goroutines -> Run]
    /\ \A g \in Goroutines : run[g].pc # "idle" =>
          \E k \in DOMAIN jobs : jobs[k].taker = g \* the row it has locked
    /\ count \in [moves: 0..MaxMoves, faults: 0..MaxFaults, opens: 0..MaxOpens]
-------------------------------------------------------------------------------
(* Helpers *)

Busy(g) == run[g].pc # "idle"
Pending == {jobs[k] : k \in DOMAIN jobs}
JobOf(g) == CHOOSE j \in Pending : j.taker = g
Runs(g, t) == Busy(g) /\ JobOf(g).type = t
NewJob(t) == [type |-> t, taker |-> Nobody, cancel |-> {}]

\* The row lock of j, as g sees it: another goroutine runs it or cancelled it.
LockedFor(g, j) ==
    \/ j.taker \notin {g, Nobody}
    \/ \E h \in j.cancel \ {g} : run[h].pc \in {"delete", "done"}

\* GetNextJob: the unlocked row of the highest priority, the oldest first.
Available == {k \in DOMAIN jobs : ~LockedFor(Nobody, jobs[k])}
NextJob == CHOOSE k \in Available : \A m \in Available \ {k} :
    \/ Priority(jobs[k].type) > Priority(jobs[m].type)
    \/ Priority(jobs[k].type) = Priority(jobs[m].type) /\ k < m

\* No other transaction has inserted or deleted the channel's row.
ChannelFree(g) == \A h \in Goroutines \ {g} : run[h].chan = "keep"

Greetings(q) == Cardinality({k \in DOMAIN q : q[k].type = "GREET_ADMIN"})

Plus(n) == IF greets + n > 2 THEN 2 ELSE greets + n

Fault == count.faults < MaxFaults /\ count' = [count EXCEPT !.faults = @ + 1]

\* The rows, none of them locked by a goroutine of G any more.
Released(G, q) ==
    [k \in DOMAIN q |-> [q[k] EXCEPT !.taker = IF @ \in G THEN Nobody ELSE @, !.cancel = @ \ G]]

\* The rows that g, when it commits, has neither completed nor cancelled.
Kept(g) == {k \in DOMAIN jobs : g \notin jobs[k].cancel /\ jobs[k].taker # g}

\* A job is queued by a handler or at the start: an INSERT of its own.
Room == Len(jobs) < MaxJobs
Queue(t) ==
    /\ jobs' = Append(jobs, NewJob(t))
    /\ greets' = Plus(IF t = "GREET_ADMIN" THEN 1 ELSE 0)

\* g goes on with its transaction.
Continue(g, r) ==
    /\ run' = [run EXCEPT ![g] = r]
    /\ UNCHANGED <<up, slack, table, admin, count>>
-------------------------------------------------------------------------------
(* Slack and the process *)

\* The bot is invited, with or without the name of the inviter, or removed,
\* which the app is not told. Slack forgets an event the next one overtakes.
BotMoves ==
    /\ count.moves < MaxMoves
    /\ inSlack' = ~inSlack
    /\ event' \in IF inSlack THEN {"none"} ELSE {"invited", "added"}
    /\ count' = [count EXCEPT !.moves = @ + 1]
    /\ UNCHANGED <<up, table, jobs, admin, run>>

\* member_joined_channel: GREET_ADMIN for the inviter, or else SYNC_CHANNELS.
\* Slack can deliver the event again.
Deliver ==
    /\ up /\ event # "none" /\ Room
    /\ Queue(IF event = "invited" THEN "GREET_ADMIN" ELSE "SYNC_CHANNELS")
    /\ \/ event' = "none" /\ UNCHANGED count
       \/ UNCHANGED event /\ Fault
    /\ UNCHANGED <<up, inSlack, exists, admin, run>>

\* The app is down, or answers with an error, until Slack gives up.
EventLost ==
    /\ event # "none" /\ event' = "none"
    /\ Fault
    /\ UNCHANGED <<up, inSlack, table, jobs, admin, run>>

\* Mutant of Start: SYNC_CHANNELS is not queued.
StartQuietly ==
    /\ ~up /\ up' = TRUE
    /\ UNCHANGED <<slack, table, jobs, admin, run, count>>

\* main queues SYNC_CHANNELS, a failure is only logged, and starts the worker.
Start ==
    /\ ~up /\ up' = TRUE
    /\ \/ Queue("SYNC_CHANNELS") /\ UNCHANGED count
       \/ UNCHANGED <<jobs, greets>> /\ Fault
    /\ UNCHANGED <<slack, exists, admin, run>>

\* The process ends; the database rolls back what was open.
Stop(planned) ==
    /\ up /\ up' = FALSE
    /\ IF planned
       THEN UNCHANGED count /\ jobs = <<>> /\ event = "none"
       ELSE Fault
    /\ jobs' = Released(Goroutines, jobs)
    /\ run' = [g \in Goroutines |-> NoRun]
    /\ UNCHANGED <<slack, table, admin>>

\* The next CREATE_ROUND of the channel finds that the bot is not a member
\* (see Rounds, which also has the cases in which there is no next one).
RoundChecks ==
    /\ exists /\ ~inSlack /\ up /\ Room
    /\ \A j \in Pending : j.type # "DELETE_CHANNEL"
    /\ Queue("DELETE_CHANNEL")
    /\ UNCHANGED <<up, slack, exists, admin, run, count>>
-------------------------------------------------------------------------------
(* The admin *)

\* HandleGreetAdminButton opens the dialog; RenderOnboardingChannelView shows
\* its second view, which changes nothing here.
OpenDialog ==
    /\ up /\ button
    /\ count.opens < MaxOpens
    /\ dialog' = TRUE
    /\ count' = [count EXCEPT !.opens = @ + 1]
    /\ UNCHANGED <<up, slack, table, jobs, button, run>>

\* UpsertChannelSettings queues ADD_CHANNEL, then RespondGreetAdminWebhook
\* overwrites the button; if that fails the dialog stays open.
SubmitDialog ==
    /\ up /\ dialog /\ Room
    /\ Queue("ADD_CHANNEL")
    /\ \/ button' = FALSE /\ dialog' = FALSE /\ UNCHANGED count
       \/ UNCHANGED admin /\ Fault
    /\ UNCHANGED <<up, slack, exists, run>>
-------------------------------------------------------------------------------
(* Job functions *)

\* The worker locks the next row; without its channel the job is CANCELED.
TakeJob(g) ==
    /\ up /\ ~Busy(g) /\ Available # {}
    /\ jobs' = [jobs EXCEPT ![NextJob].taker = g]
    /\ LET runnable == exists \/ ~RequiresSlackChannel(jobs[NextJob].type)
       IN Continue(g, [NoRun EXCEPT !.pc = IF runnable THEN "exec" ELSE "done"])

\* SyncChannels asks Slack first, then the channels table.
ListChannels(g) ==
    /\ Runs(g, "SYNC_CHANNELS") /\ run[g].pc = "exec"
    /\ Continue(g, [run[g] EXCEPT !.pc = "listed", !.listed = inSlack])
    /\ UNCHANGED jobs
ReadChannels(g) ==
    /\ run[g].pc = "listed"
    /\ Continue(g, [run[g] EXCEPT !.pc = "read", !.known = exists])
    /\ UNCHANGED jobs

\* Mutant of Reconcile: a channel that is gone from Slack is not deleted.
ReconcileGreeting(g) ==
    /\ run[g].pc = "read"
    /\ LET r == run[g]
           add == IF r.listed /\ ~r.known /\ greets # 1 THEN <<NewJob("GREET_ADMIN")>> ELSE <<>>
       IN Continue(g, [r EXCEPT !.pc = "done", !.adds = add])
    /\ UNCHANGED jobs

\* reconcileChannels: a channel only Slack has is greeted unless one GREET_ADMIN
\* row exists; one only the table has is deleted.
Reconcile(g) ==
    /\ run[g].pc = "read"
    /\ LET r == run[g]
           add == CASE r.listed /\ ~r.known /\ greets # 1 -> <<NewJob("GREET_ADMIN")>>
                    [] ~r.listed /\ r.known -> <<NewJob("DELETE_CHANNEL")>>
                    [] OTHER -> <<>>
       IN Continue(g, [r EXCEPT !.pc = "done", !.adds = add])
    /\ UNCHANGED jobs

\* GreetAdmin posts the message before its transaction commits.
GreetAdmin(g) ==
    /\ Runs(g, "GREET_ADMIN") /\ run[g].pc = "exec"
    /\ button' = TRUE
    /\ run' = [run EXCEPT ![g].pc = "done"]
    /\ UNCHANGED <<up, slack, table, jobs, dialog, count>>

\* AddChannel: FirstOrCreate.
AddChannel(g) ==
    /\ Runs(g, "ADD_CHANNEL") /\ run[g].pc = "exec"
    /\ \/ exists /\ Continue(g, [run[g] EXCEPT !.pc = "done"])
       \/ /\ ~exists /\ ChannelFree(g)
          /\ Continue(g, [run[g] EXCEPT !.pc = "done", !.chan = "add"])
    /\ UNCHANGED jobs

\* DeleteChannel cancels the rows of the channel that it sees when the UPDATE
\* starts; the UPDATE ends when it could lock those that still exist.
BeginSweep(g) ==
    /\ Runs(g, "DELETE_CHANNEL") /\ run[g].pc = "exec"
    /\ jobs' = [k \in DOMAIN jobs |->
                   IF jobs[k].type \in NoChannelID THEN jobs[k]
                   ELSE [jobs[k] EXCEPT !.cancel = @ \cup {g}]]
    /\ Continue(g, [run[g] EXCEPT !.pc = "sweep"])
EndSweep(g) ==
    /\ run[g].pc = "sweep"
    /\ \A j \in Pending : g \in j.cancel => ~LockedFor(g, j)
    /\ Continue(g, [run[g] EXCEPT !.pc = "delete"])
    /\ UNCHANGED jobs

\* ... and deletes the channel.
DeleteChannel(g) ==
    /\ run[g].pc = "delete" /\ ChannelFree(g)
    /\ Continue(g, [run[g] EXCEPT !.pc = "done", !.chan = "delete"])
    /\ UNCHANGED jobs

Commit(g) ==
    /\ run[g].pc = "done"
    /\ exists' = CASE run[g].chan = "add" -> TRUE [] run[g].chan = "delete" -> FALSE
                   [] OTHER -> exists
    /\ jobs' = Where(Released({g}, jobs), Kept(g)) \o run[g].adds
    /\ greets' = Plus(Greetings(run[g].adds))
    /\ run' = [run EXCEPT ![g] = NoRun]
    /\ UNCHANGED <<up, slack, admin, count>>

\* Mutant of Fail: the row locks are not given up.
FailLocked(g) ==
    /\ Busy(g) /\ Fault
    /\ run' = [run EXCEPT ![g] = NoRun]
    /\ UNCHANGED <<up, slack, table, jobs, admin>>

\* The goroutines whose locks g waits for, 300 ms at most.
Awaits(g) ==
    CASE run[g].pc = "sweep" ->
           {h \in Goroutines \ {g} : \E j \in Pending :
               g \in j.cancel /\ (j.taker = h \/ (h \in j.cancel /\ run[h].pc \in {"delete", "done"}))}
      [] run[g].pc = "delete" \/ (Runs(g, "ADD_CHANNEL") /\ run[g].pc = "exec" /\ ~exists) ->
           {h \in Goroutines \ {g} : run[h].chan # "keep"}
      [] OTHER -> {}

\* The transaction is rolled back, the row stays PENDING: a wait for another
\* that is too long, or any other error.
Rollback(g) ==
    /\ run' = [run EXCEPT ![g] = NoRun]
    /\ jobs' = Released({g}, jobs)
    /\ UNCHANGED <<up, slack, table, admin>>
GiveUp(g) == Awaits(g) # {} /\ Rollback(g) /\ UNCHANGED count
Fail(g) == Busy(g) /\ Fault /\ Rollback(g)
-------------------------------------------------------------------------------
Init ==
    /\ up = TRUE /\ inSlack = FALSE /\ event = "none"
    /\ exists = FALSE /\ jobs = <<>> /\ greets = 0
    /\ button = FALSE /\ dialog = FALSE
    /\ run = [g \in Goroutines |-> NoRun]
    /\ count = [moves |-> 0, faults |-> 0, opens |-> 0]

Step(g) ==
    \/ TakeJob(g) \/ ListChannels(g) \/ ReadChannels(g) \/ Reconcile(g) \/ GreetAdmin(g)
    \/ AddChannel(g) \/ BeginSweep(g) \/ EndSweep(g) \/ DeleteChannel(g) \/ Commit(g)

Next ==
    \/ BotMoves \/ Deliver \/ EventLost \/ Start \/ RoundChecks
    \/ \E planned \in BOOLEAN : Stop(planned)
    \/ OpenDialog \/ SubmitDialog
    \/ \E g \in Goroutines : Step(g) \/ GiveUp(g) \/ Fail(g)

Spec == Init /\ [][Next]_vars

GivesUp(g) == GiveUp(g) /\ \E h \in Awaits(g) : Awaits(h) = {}

\* Slack delivers, the worker goes on, and the app is deployed anew now and then.
\* A wait does not end in a timeout for ever, unless the one waited for waits too.
FairSpec ==
    /\ Spec
    /\ WF_vars(Deliver \/ EventLost) /\ WF_vars(Start) /\ SF_vars(Stop(TRUE))
    /\ \A g \in Goroutines : SF_vars(Step(g)) /\ SF_vars(EndSweep(g)) /\ WF_vars(GiveUp(g))
    /\ <>[][~\E g \in Goroutines : GivesUp(g)]_vars
-------------------------------------------------------------------------------
(* Properties *)

\* The admin of a channel that the bot was invited to is asked whether to enable
\* it, even if the event is lost or repeated, the process crashes or jobs fail:
\* "Skip scheduling GREET_ADMIN job if it has already been done"
\* (job_sync_channels.go:64) never skips the first one.
AdminAsked == (inSlack /\ greets = 0) ~> (button \/ dialog \/ exists \/ ~inSlack)

\* When the bot was removed, the channel leaves the table, whatever else is
\* pending, running or being added.
ChannelRemoved == exists /\ ~inSlack ~> ~exists \/ inSlack
===============================================================================
