# Verification of chat-roulette

chat-roulette is a Slack bot that pairs the members of a Slack channel for a
conversation in every round. It is one Go process, a Postgres database and the
Slack API. Everything it does, apart from rendering pages, is a row of the table
`jobs` that a goroutine of the worker executes inside a transaction. What is hard
about it is therefore not in the functions, which the tests of the repository
cover one at a time, but between them: goroutines that execute jobs of the same
channel side by side, jobs that queue and cancel each other's rows, jobs that are
retried after an error, a shutdown or a crash, members and admins who change
things while a round starts.

This directory holds TLA+ modules of that core, TLC configurations that check
them on small instances, and TLAPS proofs of what matters most.

    tlc -workers 2 -config queue_exactly_once.cfg MCJobQueue.tla     a run
    tlapm JobQueueProofs.tla                                          the proofs

## 1. The system

### Components

| Component | Source | State it keeps | Module |
|---|---|---|---|
| Job queue and worker | `internal/worker/worker.go`, `internal/bot/jobs.go`, `internal/database/models/jobs.go`, migration `20221112215810` | table `jobs`; per goroutine an open transaction, its row locks, its context; the run loops and `shutdownCh` | `JobTypes`, `JobQueue`, `JobLedger` |
| Rounds | `job_create_round.go`, `job_end_round.go`, `job_add_channel.go`, `job_update_channel.go`, `job_delete_channel.go` | tables `channels`, `rounds`; the pending jobs of the channel | `Rounds`, `RoundChain` |
| The draw | stored function `GetRandomMatchesV4` (migration `20250906120506`) | local variables of one call, over `members`, `blocked_members`, `pairings` | `Matching` |
| Pairing | `job_create_matches.go`, `job_create_match.go`, `job_create_pair.go`, `job_notify_pair.go`, `job_notify_member.go`, `waiter.go` | tables `matches`, `pairings`; pending jobs | `Pairing` |
| Members | `job_update_member.go`, `job_delete_member.go`, `job_add_member.go`, `job_sync_members.go`, `job_greet_member.go`, `api/v1/member.go`, `api/v1/events.go`, `api/v1/interactions.go` | table `members`; messages and dialogs in Slack | `Membership`; the settings page, `Preferences`; next to the draw, `Pairing` |
| Block list | `job_block_member.go`, `job_unblock_member.go` | table `blocked_members` | `Preferences`; its effect, `Matching`, `Pairing` |
| Channels in Slack | `job_sync_channels.go`, `channels.go`, `job_greet_admin.go` | table `channels`; the rows of GREET_ADMIN; the admin's message and dialog in Slack | `Channels` |
| Life of a pair | `job_kickoff_pair.go`, `job_check_pair.go`, `job_update_match.go`, `job_mark_inactive.go` | `matches.has_met`, `members.is_active`; messages in Slack | `PairLife` |
| Reports | `job_report_matches.go`, `job_report_stats.go` | `multiErr`, shared by two goroutines; messages in Slack | `Reports` |
| Schedule arithmetic | `schedule.go`, `internal/timex` | none | `Calendar` |
| HTTP API | `internal/server/api/v1` | none: it reads and queues jobs | requests of the modules above |
| Start and shutdown | `cmd/chat-roulette/main.go`, `internal/server/server.go` | `shutdownCh` | `JobQueue`, `Channels` |
| App Home, web UI, login, health, configuration, tracing, migrations | | caches and sessions for display | not modelled |

### How they interact

The HTTP handlers (settings pages, Slack events, buttons) and `main` insert rows
into `jobs`, each with one committed INSERT. The worker has `concurrency` run
loops; each tick of a loop starts a goroutine that executes `processJob`: begin a
transaction, `GetNextJob` (due, not completed, by priority and age, `FOR UPDATE
SKIP LOCKED`), execute the job function with that transaction, save the row's new
status, commit. On an error of the job function the transaction is rolled back
and the row, unchanged, is taken again. Job functions queue further jobs through
the same transaction:

    ADD_CHANNEL -> CREATE_ROUND -> CREATE_MATCHES -> CREATE_PAIR -> NOTIFY_PAIR -> KICKOFF_PAIR, CHECK_PAIR, MARK_INACTIVE
                   |-> END_ROUND   |-> NOTIFY_MEMBER, REPORT_MATCHES
                   |-> the next CREATE_ROUND, REPORT_STATS, SYNC_MEMBERS

and `UPDATE_CHANNEL`, `DELETE_CHANNEL` and the check-in buttons cancel rows that are pending.
The tables are READ COMMITTED: each statement sees what was committed when it started.

### What is hard, and what must hold

*The queue.* A row must be executed by one goroutine at a time, its effect must be
committed together with its status, and it must be executed again after every
failure. What makes this delicate: the errors of `Save` and `Commit` are
ignored; a failed statement aborts the transaction but some functions return nil
nevertheless; contexts are cancelled by a shutdown, and `Commit` does not use one;
jobs that cancel other jobs wait for rows that run; the pool of connections
is smaller than the number of goroutines that may be started.

*Rounds.* A channel must have one active round at most, one next round, one draw per
round, and it must go on. `CREATE_ROUND` both ends a turn of the chain and
queues the next; it races with `END_ROUND` of the round before, with
`UPDATE_CHANNEL` that replaces it, with `DELETE_CHANNEL` that cancels it, and with
its own retry.

*The draw.* Pairs must be disjoint and suit both members, everybody must be told, nobody
may be left alone needlessly; the second loop ignores gender preferences, and
settings and blocks change while the function runs.

*Pairing.* Two sources of matches, the draw and `CREATE_MATCH` for members who
complete their onboarding during a round, must not give anyone two partners. Members leave
between the draw, the pairings and the message.

*The life of a pair.* Clicks on buttons are handled in the web server, statement by
statement, while the worker runs the jobs that they cancel; the check-ins
posted in Slack are not rolled back with the jobs that posted them; and at the end
MARK_INACTIVE judges the members by counting those messages.

*Members.* The table must come to agree with Slack, although events are lost, repeated or
out of order and SYNC_MEMBERS compares two moments. The onboarding queues one
job per answer and one that activates the member; none may be missing.

*Preferences.* The last thing a member asked for must win, a block must hold in all
channels of the member, and every request must be carried out: but two requests of a
member are two jobs that may run side by side or change their order by a retry, and a
BLOCK_MEMBER inserts one row per channel, where a duplicate aborts all of them.

*Channels.* A channel the bot was invited to must be offered to its admin, and one it left must
go, although Slack's event is lost or repeated, the process ends at any point, SYNC_CHANNELS
compares two moments, and the admin's answer comes whenever the admin likes.

*Reports.* Two goroutines post the report of a draw and share the variable of their errors
without a lock; an error that is lost would mark an unsent report as done. One
of them panics when it cannot open a conversation, which ends the process with all
other jobs in flight.

The full list of hazards, each at the line where it bites and with the
properties that would catch it, is `hazards` in PROJECT.json.

## 2. The modules

`JobTypes` is used by all the state machines; `JobQueue` implements `JobLedger`;
`Pairing` uses, in one step, what `Matching` shows a draw to return; `Rounds` ends where
`Pairing` begins (its `matchings` are the `CREATE_MATCHES` jobs that start
`Pairing`), and `PairLife` begins with the `NOTIFY_PAIR` that `Pairing` ends with.
`Membership` stands before `Pairing`: its last answer is the `Onboard` of `Pairing`; `Preferences` makes
the blocks and settings that `Pairing` and `Matching` find; `Channels` makes and removes the channel whose
`ADD_CHANNEL` and `DELETE_CHANNEL` are requests of `Rounds`; `Reports` begins with the REPORT_MATCHES
of a draw and the REPORT_STATS of a round. `Rounds` implements `RoundChain`. `Calendar` has the dates. These
state machines do not repeat the worker: a goroutine takes the next row, executes
its function statement by statement, and commits or fails. `MC...` modules hold instances for TLC,
`...Proofs` modules the theorems.

### JobTypes

The 25 job types with what differs between them: the priority passed to
`QueueJob`, whether `ExecAt` is set, `JobRequiresSlackChannel`, which jobs the
function queues and which rows it cancels, whether it can return nil after a
failed statement (`SwallowsErrors`: a deliberate `continue`, or
`errors.Wrap(result.Error, ...)` where the error that was checked is another variable,
and `result.Error` is nil).

### Tables

The pending rows of a table are a sequence in the order of `created_at`. `Where(q, K)` is what is left of the rows `q` when only those at
the positions `K` stay: `SelectSeq`, written without recursion, so that TLAPS can prove what it keeps. `Rounds`, `Pairing`, `PairLife`,
`Preferences`, `Membership` and `Channels` delete rows with it.

### JobQueue

| Variable | Code |
|---|---|
| `status`, `row` | the table `jobs`; `HIDDEN` is a row that an open transaction inserted |
| `channels` | the table `channels`, which the worker looks at before it executes a job |
| `lock` | Postgres row locks of `jobs` |
| `pc`, `job`, `loopOf`, `tx` | where a goroutine is in `processJob`, its row, the run loop whose context it uses, and what its transaction has written |
| `loop`, `closed` | the run loops of `Worker.run` and `shutdownCh` |
| `applied` | history: how often the writes of the row's job were committed |

Actions, in the order of `processJob`: `Tick` (a ticker starts a goroutine whether or
not others have ended), `Begin`/`BeginFails`, `TakeJob`/`NoJob` (`GetNextJob`),
`ChannelMissing`/`Execute`, then the job function (`BeginSweep`, `EndSweep`: the
UPDATE of `DELETE_CHANNEL` and `UPDATE_CHANNEL`, which takes a snapshot, waits
for locked rows and looks at them again; `RunOk`, `RunPartial`, `RunSwallowed`,
`RunInvalid`, `RunError`: the ways it can end), `Save`, `Commit`/`CommitFails`.
`Start`, `Shutdown`, `StopLoop` and `Crash` are the life of the process, `Enqueue` an
HTTP handler. Which jobs a function queues depends on data, so the model lets it queue any
subset of `Queues(type)`.

Faults are an instance's choice: `joberr` (a job function returns an error, nothing
else wrong), `dberr` (a statement, Begin or Commit fails; a failed statement aborts
the transaction), `shutdown`, `crash`. A panic in a job function ends the process
and is a `Crash`.

`JobLedger` is what the queue promises: jobs are queued, and each is completed
once in one step which also shows its effect, the jobs it queues and the jobs it
cancels. `ImplementsLedger` is that `JobQueue` implements it, with `HIDDEN` rows seen as absent.

### Rounds

One channel (no query looks at another). `jobs` is its pending rows in the order of
`created_at`, `run[g]` what the transaction of `g` will write. `CREATE_ROUND` is
`CheckMembership`, `StartRound` (FirstOrCreate, with its "less than a second
old" test), `ScheduleNext`; `UPDATE_CHANNEL` is `UpdateChannel`, `BeginSweep`,
`EndSweep`; `DELETE_CHANNEL` the last two and `DeleteChannel`, the cascade included.
`Commit`, `CommitUnsaved` (a shutdown between the function and `Save`), `CutShort` (a
shutdown in the middle of `CREATE_ROUND`) and `Fail` end a transaction, as JobQueue does.
Row locks on the channel and the foreign key of `rounds` are modelled (`ChannelFree`, `Unreferenced`).
A tick is hours long, a job seconds: the clock stands still while a job runs. `Prompt`
says that it also does while a job is due, that is, the worker is never down or
behind for hours.

`RoundChain` is what rounds promise, without jobs and transactions: one date for the next
round, which the settings page shows; at that date, when the last round is over, a round starts that
is drawn once, and its successor's date is set; a round ends no earlier than `EndBefore` before
its interval is over. `Rounds` implements it (`ImplementsChain`) with `dates` mapped to the due dates of the pending
CREATE_ROUND jobs. That one formula says that there is one chain, one active round, one draw per
round and no round ended early.

### Matching

A step is an iteration of one of the two loops. `seen` is the snapshot the loop's
query took, `profile` and `blocks` are the current tables that the search for a
partner inside the loop reads; `Changes` are the jobs that may commit in between.
The random order is the order of the steps, `ORDER BY` is `Rank`. That a pair has not blocked each other is the `WHERE` of the search,
in one statement: there is nothing to check, and no property says it.

### Pairing

`CREATE_MATCHES` (`WaitOnMemberJobs`, `DrawMatches`), `CREATE_MATCH` (`RefuseMatch`, `FindPartner`,
`CheckPending`), `CREATE_PAIR` (`CreatePair`, which looks up both members, and one `InsertPairing` for each), `NOTIFY_PAIR` (with its `Panic`), and the jobs
that change members (`ChangeMember`), with requests `Onboard`, `UpdateSettings`, `Leave`, `Block`. A round has two
halves, because `CREATE_MATCH` compares with a mid-point, and passes when no job is
due. `Draws` is what `Matching` can return (`Outcomes`, the module of the promise; `MatchingProofs` shows that
the loops keep it when no change commits during them, so `Pairing` draws in one step). Gender and preference are a constant
relation `Refuses`; the search order of `CREATE_MATCH` (by id) is left open.

A transaction ends in `Finish`, which writes what its job function decided, or in `Fail`. A shutdown cancels the context of every statement but not of
`Commit`: `CommitUnsaved` comes before the `Save`, `CutDraw` in the loop of `CREATE_MATCHES` (where a NOTIFY_MEMBER would be queued, and a nil error is
wrapped; an INSERT of a match returns its own error), `CutPair` before either INSERT of `CREATE_PAIR`. `redrawn` holds the rounds whose draw was committed while its row
stays PENDING. An INSERT that meets a pairing of its own match aborts the transaction (`Fails`): the job is executed again and again (`Stuck`), which is let pass
when the clock asks whether anything is due.

### PairLife

| Variable | Code |
|---|---|
| `jobs`, `run` | the pending jobs of one match, the transactions of the goroutines |
| `checks` | the check-ins in the group chat: `is_mid_round`, and whether the answer has replaced the buttons |
| `click` | how far each call of `HandleCheckPairButtons` has come |
| `hasMet`, `inactive` | `matches.has_met`, members whom MARK_INACTIVE has marked |
| `answers`, `settled`, `open` | history: the answers queued, whether an UPDATE has cancelled the check-ins, and how many of them were unanswered then |
| `again` | history: a shutdown has committed NOTIFY_PAIR and left its row PENDING |

`NotifyPair`, `KickoffPair`, `CheckPair`, `UpdateMatch` and `MarkInactive` are the job functions,
with the dates they compute (`MidPoint`). A click is `ClickButton`, `BeginCancel` and
`EndCancel` (the UPDATE with its snapshot, which waits for rows that run for 500 ms at most),
`QueueUpdateMatch`, `Respond`; `HandlerFails` can end it after each. `CheckPair` posts before its
transaction ends, so a `Fail` after it leaves a message behind and the job pending. `CommitUnsaved` is a shutdown between a job function and
`Save`, which leaves the job to be executed again.
Who wrote in the chat is left open. The jobs are executed in this round: a NOTIFY_PAIR that is
later than the next round is left out.

### Membership

One user and one channel. `inSlack` and `events` are Slack; `row` is the user's row
of `members`, reduced to the columns that tell a member who answered from one who did
not. `Deliver`, `Misdeliver` are `slackEventHandler`, `ListMembers` and `Reconcile` SYNC_MEMBERS with
its two lists, `AddMember`, `GreetMember`, `UpdateMember`, `DeleteMember` the job functions,
`OpenDialog`, `SubmitView`, `SubmitCalendly`, `SetMemberIsActive`, `RespondGreetMember` and
`LastViewFails` the views of `slackInteractionHandler`. `AddMember` writes a row that others do
not see before the Commit, but wait for (`Inserted`, `Locked`).
`CommitUnsaved` is a shutdown between the function and `Save`, as in `Rounds`; for an ADD_MEMBER it
may lose the GREET_MEMBER, whose error is not the one that is returned.
`MembershipAssumption` says that the optional views are views, and that no view has the name of one of the last three or of what those
save: a view is told by its name, as `private_metadata` and the callback identifiers tell it in the code.

### Preferences

One user. `settings` and `blocked` are the user's rows of `members` and `blocked_members`, `jobs`
the user's pending BLOCK_MEMBER, UNBLOCK_MEMBER and UPDATE_MEMBER jobs, which have the same
priority. `UpsertMemberBlockList`, `UpsertMemberUnblockList` and `SaveSettings` are the handlers; `Reject`
(validation), `ListChannels`, `InsertRow`, `UnblockMember` and `UpdateMember` the statements of the job functions.
`InsertRow` waits for another transaction's row with the same key; a duplicate aborts the transaction, but the function
returns nil, and `CommitAborted` is the Commit that then rolls back. `CommitUnsaved` is a shutdown between the function and `Save`. `Join` and `Leave` are ADD_MEMBER and DELETE_MEMBER in one step.
`asked`, `wanted` and `excuse` are history: what was last asked for, and whether two jobs
ran side by side or a person was to be blocked twice. `Merge` is GORM's `Updates`, which skips empty fields.

### Channels

One Slack channel. `inSlack` and `event` are Slack, `button` and `dialog` what the admin has on screen, `exists` the row of
`channels`, `greets` how many GREET_ADMIN rows there are of any status, which is what SYNC_CHANNELS counts.
`Deliver` is the event handler, `Start` what `main` queues, `ListChannels`, `ReadChannels` and `Reconcile` the
three reads of SYNC_CHANNELS, `GreetAdmin`, `OpenDialog` and `SubmitDialog` the way to ADD_CHANNEL; `AddChannel`, `BeginSweep`, `EndSweep` and
`DeleteChannel` wait for each other's row locks, and give up after 300 ms (`GiveUp`). `Stop(TRUE)` is a deployment while nothing is to do,
`Stop(FALSE)` a crash. `RoundChecks` is what `CheckMembership` of `Rounds` does to this module.

### Reports

The two rows of one round. A goroutine that executes REPORT_MATCHES has two helpers (`admin`, `group`) whose
requests end in any order; `err` is `multiErr`, an interface value of two words, which two writers can
leave with the type of one error and the value of the other (`torn`): comparing it with nil is safe, using it may panic.
`OpenConversation` without an answer panics: the process ends (`Ends`) with all open transactions. DELETE_CHANNEL is
`Sweep`, `SweepGivesUp` and `ChannelDeleted`. A shutdown before the `Save` writes nothing that is modelled here and is a `Fail` at `done`.
`ReportPromise` holds what can be seen from outside, the rows and the posts, and what is promised of them; it is a module so that the proofs can name it.

### Calendar

Operators on the day of a month, given the lengths of the month and the next: `NextMonth` with
its edge case, `FormatMonthlyOccurrence` (`Occurrence`), `NextWeekday`, `NextChatRouletteRound` and `MidPoint`. The loops of
`NextMonth` over days are closed formulas here; `MCRounds` compares both for all months, and `NextMonth` with the table of
`TestNextMonth`.

## 3. What is checked

Each passing run checks properties that hold; each `violation` run checks one
statement of the documentation that the code does not keep.

| Run | Instance | Shows |
|---|---|---|
| `queue_exactly_once` | 3 rows, 2 goroutines, 1 loop, 1 channel, 5 job types, all faults but shutdown | one holder per row, effect and status together (`ExactlyOnce`), `ImplementsLedger` |
| `queue_liveness` | 2 rows left by earlier processes, 2 goroutines, types that sweep each other and one that fails for ever; errors, shutdowns, crashes | due jobs complete (`DueJobCompletes`), completed rows are final, `SUCCEEDED` implies the effect (`NeverLost`) |
| `rounds_on_time` | 2 goroutines, interval 3, 6 ticks, errors, rescheduling by whole intervals | `Rounds` implements `RoundChain` |
| `rounds_unreliable` | 2 goroutines, interval 2, errors, shutdowns, late execution, any date, changes of membership | an active round has an END_ROUND to come |
| `rounds_outage` (violation) | no faults, the worker may be behind | `RoundsGoOn` fails |
| `matching` | 4 members of 6 kinds, up to 1 block and 1 earlier match, up to 1 commit of settings, a block or its removal during the draw | disjoint pairs; undisturbed, everybody told once, pairs suit, no pair left, and no searcher would rather have somebody left alone |
| `pairing` | 4 members, one a late joiner, 2 events or shutdowns, errors, time-outs | pairings whole or their CREATE_PAIR pending; participants of the draw hear of its outcome, have one partner unless the round is drawn again, with preferences kept |
| `pair_life` | 1 match, 2 goroutines, 1 click at a time, 1 error or shutdown, 2 check-ins posted | answers recorded, no check-in after the pair has settled, a settled pair that wrote stays active |
| `members` | 1 user, 2 goroutines, joins and leaves, 1 onboarding of 3 views, one fault (an error, a lost or repeated event, a shutdown) | the table comes to agree with Slack; members are greeted; active members gave all answers |
| `preferences` | 1 user, 2 channels, 1 other person, 2 forms, 3 requests, 1 move, 1 error or shutdown | the last request wins, a block holds everywhere, requests complete |
| `channels` | 1 channel, 2 goroutines, 3 moves of the bot, 1 fault, 1 dialog | the admin is asked, a channel the bot left goes |
| `reports` | 2 goroutines, 4 faults | SUCCEEDED reports were posted to both; both reports are posted at last |

### Bounds, and why they are enough

*Queue.* Three rows and two goroutines give a job that is run while another
sweeps it or waits for its row, and a third that is queued by one of them.
The two goroutines stand for any two of the worker's: a step of one looks
at the others only through row locks and the size of the pool. `MaxOpenConns = 2`
never makes a goroutine wait with two of them, so waiting for the pool is
not covered by the liveness run. `MaxTime = 1` tells due rows from rows that are due later.
`channels` starts with any set, so one channel is found and not found. `queue_liveness` starts with any rows that
earlier processes left (`RestartSpec`), because two rows are too few to queue many.
The theorems in section 5 have none of these bounds.

*Rounds.* `Interval = 3` and `EndBefore = 1` put the start, the END_ROUND and a
point between them at different ticks; six ticks are two rounds and the start of the third,
`MaxRounds = 4` and `MaxJobs = 3` leave room for more; `RoundChain` has no bounds. `MaxRequests` bounds the
requests pending at a time, not those of a behaviour. `rounds_unreliable` is smaller
because a shutdown can duplicate jobs: one tick, at which the END_ROUND becomes due; the next round is
reached when the admin moves it to that tick or before it.

*Matching.* Four members allow two pairs, a pair and two left alone, and a member
who would rather be in another pair. One block and one earlier match suffice to tell each criterion of
`ORDER BY` and `WHERE` from its absence; one change is what a search can miss. The properties of
a draw nobody disturbs look at the draws without a change (`Undisturbed`); the proofs have any number of members and changes.

*Pairing.* With four members, one of them a late joiner, the draw makes one pair or two and CREATE_MATCH
another; the events are two at most because each is a change that some statement may miss. Shutdowns count as events: two are
a draw, or a pair, that is cut short twice, one is next to a leave or a change of settings.

*Pair.* A day of three ticks puts the five dates that NOTIFY_PAIR computes at the ticks
where their order matters; one fault is a check-in posted twice, a click that fails after any of its statements, or a shutdown; two
have been checked too, without shutdowns; `MaxChecks = 2` is what MARK_INACTIVE distinguishes; a second UPDATE_MATCH is pending
when a click is repeated. One handler at a time: clicks of both members at the same moment
are two handlers, which were tried with one goroutine and one answer, and change nothing.

*Members.* Two moves are a user who joins and leaves, in two events whose order may be changed;
the sync of a round is the only repair when one is lost. `StartRound` waits for the queue to be
empty: rounds are days apart. The three views are two that every member answers and the
one that is optional; location and gender are handled like timezone.

*Preferences.* Three requests are two that contradict each other and a third between or after
them, on two goroutines; two channels let a block exist in one and not in the other; the one move is a channel joined
or left at any moment. Bots, which are skipped like a user without channels, are left out of the instance (`Bots = {}`).

*Channels.* Three moves are invited, removed and invited again, which is what a stale DELETE_CHANNEL or GREET_ADMIN needs;
`greets` counts to two because the code distinguishes one from all others. `MaxJobs` stops handlers and rounds from
queueing while three jobs are pending, never a job.

*Reports.* Four faults fail both posts of an attempt and of its retry, or fewer posts and the process, in any order. Two rows and two goroutines are all
there can be of one round.

Deadlock is checked for the queue and the rounds, where something can always
happen until the bounded clock stops. `CHECK_DEADLOCK FALSE` is used for
`Matching`, a function that returns, for `Pairing`, `Preferences`, `Channels` and `Reports`, where rounds, requests and events run
out, and for `PairLife`, which ends with its round.

### Fairness

`queue_liveness` needs it (`Fairness` in `JobQueue`), and `members`, `preferences`, `channels` and `reports`. In the first: weak fairness of `Start`, `Advance`,
`StopLoop` and of a `Tick` of each loop: the process is restarted by its supervisor, time passes, and
a `time.Ticker` ticks. Weak fairness of `ProcessJob(g)`: every statement of a goroutine runs
under a context with a deadline, so it returns. Strong fairness of `RunOk`, `BeginSweep` and
`EndSweep` for each row that is not of a type in `Poison`: errors of the database
and of Slack are transient, so that a job that is executed again and again succeeds at
some time. This is an assumption on the environment, not on the worker; types in `Poison` do without it. And from some time on no wait for a row lock ends in a time-out while the holder of the
lock is not waiting itself, nor is the process stopped: else a DELETE_CHANNEL could find one of its channel's rows in execution, and
time out, each time. Two jobs that wait for each other may time out.
The run shows that no wait for a row lock and no failing job of a lower priority
makes a due job wait for ever. A job that fails for ever does keep jobs of its own or a lower priority waiting.

In `members`: weak fairness of the delivery of an event that Slack has not lost, of the next
round, and of the steps of each goroutine. Nothing is assumed of the user; that
moves and faults end is a bound of the model, and what `Converges` is about: once they
have ended, one round repairs the table.

In `preferences`: weak fairness of the worker's steps; errors and moves are bounded. In `channels`: events are delivered or
given up by Slack, the process is started after it ended, goroutines go on (a time-out of a wait is a last resort),
waits do not end in time-outs for ever, as above, and the app is deployed anew now and then (`SF_vars(Stop(TRUE))`): SYNC_CHANNELS, the
only repair of a lost event, is queued at the start of the process alone. In `reports`: time passes, the process is restarted, and
its goroutines go on; nothing is assumed of how the panic of one report falls on the other, and `ReportsSent` promises nothing once the admin cannot be written to.

### Mutants

Next to a definition there may be a second one with its name and a suffix, with the comment
`Mutant of ...`. It is a plausible bug in the code that the definition models,
and makes the property named with it in PROJECT.json fail: it shows what the property is worth.

## 4. Where the code does not do what it says

Found while modelling; the first is a run. The others were found with the
same modules; a run with the constants given, and otherwise those of the run named, shows each of
them in a few steps.

| Statement | Code | Property, instance |
|---|---|---|
| "The bot will pair up members of the Slack channel every round" (README.md:14) | When the worker was down over END_ROUND and CREATE_ROUND, two goroutines run them side by side; CREATE_ROUND finds the active round and returns nil without queueing its successor (job_create_round.go:79). No round ever starts again. | `RoundsGoOn`, run `rounds_outage` |
| "CreateMatches creates matches between active participants for a round" (job_create_matches.go:29) | A shutdown after the draw and before `Save`, or in the loop over the draw, where `errors.Wrap` of a nil error is returned (line 77), commits the draw and leaves the row PENDING: the round is drawn once more, and members get two partners. | `NobodyDrawnTwice` of `MCPairing`, `pairing` |
| "CreatePair creates a pairing between 2 matched participants" (job_create_pair.go:24) | A shutdown between the two INSERTs returns `errors.Wrap(result.Error, ...)`, which is nil (line 68), and half a pairing is committed. Every retry meets the pairing that is there, which aborts its transaction, and returns nil: CREATE_PAIR stays pending for ever, and the pair is never introduced. After a shutdown before `Save` it stays pending as well, but the NOTIFY_PAIR was queued. | `NoHalfPairing` of `MCPairing`, `pairing` |
| CREATE_MATCH matches with a user "who did not get matched during this round" (job_create_match.go:115) | It looks at the pairings of the partner, not at those of the participant, who is active, and can be in the draw, ten minutes before; and not at matches between CREATE_PAIR and its commit. | `OnePartner` without its conditions on `late`, `pairing` |
| "There must be more than half of the time remaining in the round" (job_create_match.go:58) | The current round's start is read from the channel's first CREATE_ROUND (`First` orders by id), so from the second round on everybody is refused. | `RefusedInSecondHalf`, `pairing` with `MaxRounds = 2` |
| README.md:14, as above | An admin who moves the next round to before the END_ROUND of the active one ends the chain in the same way. | `RoundsGoOn`, `rounds_outage` with `Prompt = TRUE`, `Rescheduling = "any"` |
| README.md:14, as above | A shutdown between END_ROUND and the next CREATE_ROUND in CreateRound commits the round without its successor, because `errors.Wrap` of a nil error is nil (job_create_round.go:130). | `RoundsGoOn`, `rounds_outage` with `Prompt = TRUE`, `Faults = {"shutdown"}` |
| "Start a new chat-roulette round only if the last round has ended" (job_create_round.go:60) | The jobs that a running CREATE_ROUND inserts escape the sweep of DELETE_CHANNEL; when the channel is enabled again, it has two chains. | `Cardinality(Active) <= 1` in `Rounds`, `rounds_outage` with `Prompt = TRUE`, `Membership = TRUE`, `MaxTime = 4` |
| "Within a transaction: query for available jobs, get an exclusive lock on the job, and work on it" (worker.go:141) | A shutdown between the job function and `Save` commits the writes without the status; the job is executed again. | `ExactlyOnce`, `queue_exactly_once` with `Faults = {"shutdown"}` |
| "concurrency is the number of jobs to process at a time" (worker.go:45) | Each tick starts a goroutine, whether or not the earlier ones have ended. | `ConcurrencyBound` of `MCJobQueue`, `queue_exactly_once` with `Faults = {}` |
| "preferring new matches over repeat matches from previous rounds" (migration 20250906120506, line 12) | So does the member who searches. The one who is found may have met that member before while a better partner is left alone. | `FoundContent` of `MCMatching`, `matching` |
| "To maximize the number of matches" (migration 20250906120506, line 14) | The draw is greedy and never reconsiders a pair. | `AsManyAsPossible` of `MCMatching`, `matching` with `MaxChanges = 0` |
| "prevent being matched with specific participants" (README.md:21) | CREATE_MATCH does not look at `blocked_members` (job_create_match.go:127). | seen in `FindPartner` |
| "or only match with the same gender" (README.md:21) | CREATE_MATCH looks at the participant's preference, not at the partner's. | `PreferencesKept` without its condition on `late`, `pairing` with `LateJoiners = {b}` |
| waits for "all pending member modification jobs" (waiter.go:15) | The list of types has UPDATE_MATCH instead of UPDATE_MEMBER (waiter.go:27). | `MemberJobsDone` of `MCPairing`, `pairing` with `Events = {"update"}` |
| "NotifyPair notifies a pair of chat-roulette participants" (job_notify_pair.go:43) | `participants[1]` panics when a member has left, in a goroutine without recover: the process ends, and again after each restart. | `NeverPanics` of `MCPairing`, `pairing` with `Events = {"leave"}` |
| CREATE_PAIR "failed to retrieved member IDs" (job_create_pair.go:50) | The error is nil when a member is missing, the job SUCCEEDS, the other member hears nothing. | `NobodyForgotten` of `MCPairing`, `pairing` with `Events = {"leave"}` |
| members are marked "if they have not sent any messages in the group chat or responded to the CHECK_PAIR job(s)" (job_mark_inactive.go:117) | Messages are counted, not answers: check-ins that a retry posted twice, or whose buttons stayed because the handler failed after it had queued the answer, make two unanswered ones. | `RecordedIsSpared` of `MCPairLife`, `pair_life` |
| "Cancel the end of round check-in since the pair already met" (job_check_pair.go:173) | A shutdown between NOTIFY_PAIR and `Save` commits its check-ins and leaves the row PENDING; executed again, it introduces the pair once more and queues them anew, after an answer has cancelled the first ones. | `NeverAskedAgain` of `MCPairLife`, `pair_life` |
| AddMember "begins the onboarding process" (job_add_member.go:23) | After a shutdown, `errors.Wrap(result.Error, ...)` of a nil error commits the member without its GREET_MEMBER, and the retry finds a row that is no longer new. | `Greeted` without its condition on `faults`, `members` |
| "Dont error if the member is already blocked by this user" (job_block_member.go:114) | The duplicate has aborted the transaction: the function returns nil, the Commit rolls back, and BLOCK_MEMBER stays pending and is executed again for ever, at a high priority. So does a block made once, after a shutdown between the function and `Save`, as the block is committed and its row is not. | `RequestsComplete` without `excuse.repeat`, `preferences` |
| "scheduling a background job will ensure it is reliably executed" (job_block_member.go:210) | Two goroutines take a BLOCK_MEMBER and an UNBLOCK_MEMBER of the same person, or two UPDATE_MEMBER jobs, side by side; the older one can commit last. | `LastWordCounts` without its condition on `overlap`, `preferences` |
| "Skip scheduling GREET_ADMIN job if it has already been done" (job_sync_channels.go:64) | One GREET_ADMIN row of any status and any time counts: when the bot is removed and invited again and the event is lost, or a late DELETE_CHANNEL has cancelled the new greeting, the admin is never asked again. With two rows or more, each start of the process greets anew. | `AdminAsked` without `greets = 0`, `channels` |
| "Send message to channel and admin concurrently" (job_report_matches.go:114) | A conversation that cannot be opened panics (`response` is nil), which ends the process, again after every restart while the admin cannot be reached: the loops start together and take both due rows at the same tick, so that the stats may never be posted either. | `StatsReported` of `MCReports`, `reports` |
| "On the *%s* of every month" (schedule.go:36) | After a fifth Friday, a month that has four gets its round in the month after; and a fourth Friday in a month of five is announced as the last. | `OccurrenceKept` of `RoundsProofs`, its last part |

Also seen there: a block is not applied to channels the user joins later, and leaving and rejoining a channel
forgets the blocks in it (`since` in `Preferences`); an empty Calendly link on the settings page never clears the old one (`Merge`); posts of
a report are repeated when the other one fails.

## 5. What is proved

All proofs are of the specifications as TLC runs them (`Reports` and `Channels` as instances in another module), for every value of the
constants that satisfies the `ASSUME` of the module (any number of goroutines, rows, loops,
channels or members, any bound, any set of faults unless a theorem says otherwise).

### JobQueueProofs

| Theorem | States | Needs |
|---|---|---|
| `TypesOK` | `Spec => []TypeOK` | |
| `ExclusiveJobs` | `Spec => []OneHolder`: no row is worked on by two goroutines | |
| `LocksReleased` | `Spec => []NoLeak` | |
| `CompletionIsFinal` | `Spec => CompletedIsFinal` | |
| `SuccessTookEffect` | `Spec => []NeverLost` | |
| `JobsRunExactlyOnce` | `Spec => []ExactlyOnce` | no shutdown |
| `QueueImplementsLedger` | `Spec => ImplementsLedger` | no shutdown |

`OneHolder` is not inductive: that the row of a working goroutine is pending says nothing about the
rows other goroutines have cancelled but not committed. The invariant is `Ownership`:
`TypeOK`, `HoldsRow` (a working goroutine holds the lock of its row, which is
pending), `HoldsCancelled` (after its sweep, a goroutine holds the locks of the rows it will cancel,
which are pending, and before it there are none) and `NoLeak`. A lock has one owner, so nobody can take,
sweep or complete the row of another goroutine; this gives `OneHolder`, and `CompletedIsFinal`
because `Commit` changes only rows the goroutine holds.

`Effects` adds to it what ties a status to its effect: `NeverCancelled` (a goroutine whose context
is cancelled exists only after a shutdown: a crash ends the goroutines with their
loops) and `Recorded` (a transaction that reaches the Commit without being aborted
has saved its status, unless its context was cancelled). Then `Commit` writes
status and effect together, which is both `ExactlyOnce` and, with `HIDDEN` rows
seen as absent, a step of the ledger; every other step is a `Queue`, or a stutter.
The theorem fails without its assumption: see the shutdown in section 4.

### MatchingProofs

| Theorem | States | Needs |
|---|---|---|
| `TypesOK` | `Spec => []TypeOK` | |
| `NobodyDrawnTwice` | `Spec => []OnePartnerEach` | |
| `OnlySuitablePairs` | `Spec => []PairsSuitable` | |
| `EverybodyIsTold` | `Spec => []EveryoneOnce` | |
| `NoPairIsMissed` | `Spec => []NoPairLeft` | |
| `NobodyEnvied` | `Spec => []SearchersContent` | |
| `ReturnsAnOutcome` | `Spec => []OutcomeReturned` |  |

The invariants are `Disjoint` (pairs are disjoint and all of their members are used) and
`Drawing`, which says `Undisturbed => Draw`: as long as nobody's settings or blocks have changed. `Draw` adds `Loops` (who is visited, used, paired or alone in each loop; in the second loop
nobody who has the preference is unused), `AllSuitable`, and `Left` (who is used is paired or alone,
and whoever would have suited a member left alone is paired). They say why the second loop may ignore
genders: the first loop marks everybody who has the preference as used, those
left alone included. `BestTaken` adds that a pair was the best choice of the one who searched, at its time, among those who are not yet paired; who is
left alone was one of them. `FirstContent` says that of two pairs the one drawn first envies nobody in the other, as both of its members were still to be had. Nothing of the kind holds of who was
found. `OutcomeReturned` says that the function returns one of the `Outcomes` of the settings and blocks
it found, which is what `Pairing` assumes of it. The last five properties, too, say `Undisturbed =>`: once somebody's settings or blocks have changed during the
draw they do not hold, as a member who sets the preference during the first loop is paired
by the second.

### RoundsProofs

| Theorem | States | Needs |
|---|---|---|
| `TypesOK` | `Spec => []TypeOK` | |
| `RoundsEnd` | `Spec => []RoundWillEnd`: an active round has its END_ROUND to come | |
| `RoundsImplementChain` | `OnTime /\ Spec => ImplementsChain` | `OnTime` |
| `MonthlyGap`, `OccurrenceKept`, `RoundsApart`, `WeekdayFound`, `CheckInsInOrder` | the dates of `Calendar`, for months of any length | |

*Rounds end.* `RoundWillEnd` is not inductive: that an END_ROUND is pending does not say that the transaction which is about to complete it ends
the round, nor that nobody has cancelled it. `Inv` adds that the transaction which runs it ends every active round (`EndCovered`),
that only a DELETE_CHANNEL, which deletes the round too, cancels it, and nobody else runs a row that is cancelled
(`SweepsHeld`), and that a round is inserted with its END_ROUND in one transaction (`StartsHeld`). It holds with
all faults, late execution, any rescheduling and while the bot is removed and added.

*Rounds implement their chain.* `OnTime` names the instances of which `RoundChain` is promised, and none of its parts can be left out: with a clock that
passes while jobs are due (`~Prompt`), a date before the end of the active round (`Rescheduling = "any"`), or a shutdown in CREATE_ROUND, the chain ends, and with
changes of membership there can be two (section 4); and `EndBefore > 0` keeps END_ROUND and the next CREATE_ROUND from being due at the
same tick. `Chained` is the invariant: every row is on time (`RowsOnTime`: CREATE_ROUND is due on the date that is shown, END_ROUND an
`EndBefore` earlier than the interval of its round is over), there is one CREATE_ROUND, one END_ROUND and one active round at most (`OneChain`), an open transaction holds
what its job has written so far (`Writes`), one transaction at most has updated the channel (`ChannelLock`), and
UPDATE_CHANNEL has seen every CREATE_ROUND that there is (`Swept`), as it alone cancels (`Sweeping`). Then a Commit is a step of `RoundChain` or
shows nothing, and every other step but the clock's shows nothing. That the due dates of the pending CREATE_ROUND jobs are the one date shown
(`DatesAreShown`) is what makes the mapping work.

*Dates.* The rounds of a monthly channel are four or five weeks apart; the first three occurrences of a weekday stay what they are, the last stays
the last, but for the fifth that is missing; it is a week at least to the next round, so that jobs due four hours before it are in the
future; the mid-point, whose hour is that of the end, is after the start of the round and a day before its end, if two days are left.

### PairingProofs

| Theorem | States | Needs |
|---|---|---|
| `TypesOK` | `Spec => []TypeOK` | |
| `NobodyGetsTwo` | `Spec => []OnePartner` | |
| `PairsAreWhole` | `Spec => []PairingsWhole` | |
| `OutcomeIsTold` | `Spec => []Informed` | |
| `PreferencesRespected` | `Spec => []PreferencesKept` | |

One invariant carries all of them, under shutdowns at any moment. `DrawnOnce`: while a CREATE_MATCHES is pending it is the only one, and its round has no drawn match yet or is in `redrawn`, because a round
passes only when no job is due. `ParamsOK`: jobs refer to matches that exist. `Decisions`: what a transaction decided before it commits,
its pairs, a participant's match, the pairings of a match, is still right, whatever commits in between. `MatchesOK`: drawn matches of a round are disjoint, and suit their members.
`Informed` is inductive with these: a match has a job until it has an outcome, in the same transaction in which the job before it
completes. `PairingsWhole` needs that a CREATE_PAIR which ends has inserted both pairings or none, because a member was missing (`Decisions`), and that one which
meets a pairing of its own never ends. So a match is forgotten by no fault, but one whose CREATE_PAIR is stuck is never introduced, and `Informed` counts its pending row. The outcome of the draw is any set of `Draws`, as `ReturnsAnOutcome` justifies; everything else is for all members, goroutines, rounds, faults and events.
`PairingAssumption` says that there are finitely many members and that nobody refuses themselves, which the query of the draw excludes (`id != `).

### PairLifeProofs

| Theorem | States | Needs |
|---|---|---|
| `TypesOK` | `Spec => []TypeOK` | |
| `AnswersAreRecorded` | `Spec => []AnswersRecorded` | |
| `NobodyIsAskedAgain` | `Spec => NotAskedAgain` | |
| `SettledPairIsSpared` | `Spec => SettledIsSpared` | |

That no CHECK_PAIR is pending once the pair has settled (`NoneLeft`) needs two facts about the moment at which the UPDATE of a handler
ends. It has matched every CHECK_PAIR that is pending (`Clicks`), those that ran when it began included, because it waits for
them; and none comes later, because only NOTIFY_PAIR queues check-ins, which is over when there is one to click on (`Introduced`: it is the only row,
and nothing is posted), unless a shutdown has left it to be run again (`again`). Check-ins are only ever answered after that, so at most one stays unanswered if one at most was (`FewOpen`), which
is what MARK_INACTIVE counts. An answer is in the table or in an UPDATE_MATCH whose flag is an answer (`Answered`), and an open transaction has queued and
marked nothing before its job function did (`Transactions`). The theorems hold for any number of clicks at the same time, where the run has one.

The last part of the module is about `Reports`, used as the instance `R` with the variables of `ReportPromise` and others of its own:

| Theorem | States | Needs |
|---|---|---|
| `ReportsTypesOK` | `R!Spec => []R!TypeOK` | |
| `SuccessReachedBoth` | `R!Spec => []ReportedToBoth` | |

The invariant `Reporting` says, of each goroutine that executes REPORT_MATCHES, that a helper which has ended has posted or left
`multiErr` other than nil: an error is only written, never cleared, and a torn one is not nil either. So whoever finds nil after
`wg.Wait` has both posts behind it, of this execution or an earlier one.

### PreferencesProofs

| Theorem | States | Needs |
|---|---|---|
| `TypesOK` | `Spec => []TypeOK` | |
| `LastWordsCount` | `Spec => []LastWordCounts` | |
| `EveryChannelIsBlocked` | `Spec => BlockedEverywhere` | |

`Decisions` ties an open transaction to its row: a BLOCK_MEMBER that reaches its end has inserted, or still has to insert, a row for each
channel the user has been in since (`since`), and nothing else. This is `BlockedEverywhere`, which holds whatever runs side by side.
`LastWordCounts` says nothing of jobs that ran side by side (`overlap`, see section 4). Without them only the oldest row is ever locked, so
that rows complete in their order, and `InOrder` is inductive: the last row about a person is what was asked last; when there is
none, the table is. A job that a shutdown committed without its status is the oldest row still, and is executed again before any other. `PreferencesAssumption` keeps names apart: a channel is no person, and `None`, no row, is neither one of them nor a setting. (`"none"` is an empty link.)

### MembershipProofs

| Theorem | States | Needs |
|---|---|---|
| `TypesOK` | `Spec => []TypeOK` | |
| `MembersAreGreeted` | `Spec => []Greeted` | |
| `AnswersAreKept` | `Spec => []NoAnswerLost` | |
| `ChannelTypesOK` | `C!Spec => []C!TypeOK` | |

`NoAnswerLost` speaks of the moment at which no UPDATE_MEMBER is pending, and is not inductive. `Answered` says the same of every moment: once an answer
was asked for, it is in the row or its UPDATE_MEMBER is pending, and that row leaves the table only in the transaction that writes the columns.
What was asked before the view on the screen is answered in this sense, and everything is before `active` is asked for; an optional view may be passed over, a mandatory one may not.
For a member who never left, this needs the row to be there when the UPDATE runs, which `Invited` gives: who can be asked has been
greeted, and who was greeted has a row, or had one. `Decisions` ties an open transaction to its job (only an ADD_MEMBER inserts, and it queues the greeting with the row), and `OneWriter`
says that one transaction at most has written the row, as the others wait for it. With it, a GREET_MEMBER is in the same Commit as the row, which is `Greeted`; after a
shutdown in the middle of ADD_MEMBER it need not be (`CommitUnsaved`), which `Greeted` excludes. `AnswersAreKept` holds with shutdowns. The theorems hold for any list of
views, any number of joins and leaves, goroutines and faults; a view may fail after its answer was queued and be submitted again.

The last part is about `Channels`, used as the instance `C` with the constants of `Membership` and variables of its own.
`TypeOK` of `Channels` says more than types: a goroutine that is not idle has its row still. DELETE_CHANNEL completes rows of other jobs, so this needs
`Enrolling`: each transaction has locked one row, rows that a transaction will insert are locked by nobody, and what a
DELETE_CHANNEL has cancelled is run by nobody else once its UPDATE has ended (`CancelsHeld`), for it waits for the rows that run and nobody takes a row that it has locked.

### TableProofs

Lemmas of `RoundsProofs`, `PairingProofs`, `PairLifeProofs`, `PreferencesProofs` and `MembershipProofs`: what `Where` keeps of a table (`WhereKeeps`, `RowsOfTable`), that each transaction has locked one row
however rows are locked, released, queued, deleted and committed (`LockTaken`, `LockReleased`, `LocksKept`, `UnlockedDeleted`, `UnlockedReplaced`, `LockCommitted`), and that one of the
due jobs is first in line (`FirstInLine`).

### Only model-checked

Every invariant of the runs, and every action property, is proved. All liveness under fairness (`DueJobCompletes`, `Converges`, `RequestsComplete`, `AdminAsked`,
`ChannelRemoved`, `ReportsSent`) is out of reach of the prover. That the code's loops over the days of a month compute the closed formulas of `Calendar` is an
induction over data, and is compared by TLC for all months.

## 6. What is not modelled, and why

- *App Home, web UI, login, health checks*: they read; no job depends on them. The history page has a
  data race of its own (`errCount` in history.go:165), which decides between an error page and a page without names.
- *What the reports say*: counts, and texts. A round without pairs makes the percentage NaN, which the template does not show.
- *Texts, templates, tracing, logging, encryption of columns, configuration*: data
  that no property tells apart. `concurrency` and `MaxOpenConns` are constants.
- *Running the migrations*: done before the worker starts.
- *Slack*: external. A call succeeds, fails (an error of the job function), or
  answers what it is asked. Of what was posted, `PairLife` keeps the check-ins and `Membership`
  the greetings, `Channels` the admin's message and `Reports` the reports; other messages that a retry posts again are not seen.
- *Postgres*: external. Row locks, READ COMMITTED snapshots, aborted
  transactions and foreign keys are modelled where the code depends on them; a deadlock that
  Postgres detects is an error of one of the statements, as is a time-out.
- *Ends of a transaction*: a row whose parameters have no channel (the FAILED branch at worker.go:180-199), as no function queues one. `Channels` has no shutdown between a function and `Save`; errors and crashes are its faults.
- *One process*: two processes at once, as during a rolling deployment, are more
  goroutines and loops of the same model, except that they shut down apart.

## 7. Plan

An abstract specification of a pair's life (introduced, asked, settled or not, judged) which
`PairLife` implements.
