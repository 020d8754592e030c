------------------------------- MODULE JobQueue -------------------------------
(***************************************************************************)
(* The background job queue: the jobs table of Postgres and the worker of  *)
(* internal/worker that executes its rows.                                 *)
(*                                                                         *)
(* Every run loop of the worker starts a goroutine per tick (processJob).  *)
(* A goroutine opens a transaction, locks the next row with FOR UPDATE     *)
(* SKIP LOCKED, runs the job function inside that transaction, saves the   *)
(* row's status and commits. Until the commit, rows the job function       *)
(* inserts are HIDDEN and locked by g, and the rows it cancels and the     *)
(* channel it adds or deletes are kept in tx[g]. The context a goroutine   *)
(* uses is cancelled when its run loop stops; Begin and Commit do not use  *)
(* it, the statements in between do.                                       *)
(***************************************************************************)
EXTENDS JobTypes, FiniteSets

CONSTANTS
    Ids,            \* the rows the jobs table can hold (bound on the table)
    Goroutines,     \* the processJob goroutines alive at a time (bound)
    Loops,          \* the run loops: the worker's concurrency setting
    Channels,       \* Slack channels
    Types,          \* the job types of the instance
    MaxOpenConns,   \* size of the connection pool
    MaxTime,        \* bound on the clock
    Faults,         \* the faults that can occur, a subset of FaultKinds
    Poison,         \* job types whose functions may keep failing for ever
    NoGoroutine, NoId, NoLoop, NoChannel

FaultKinds == {"joberr", "dberr", "shutdown", "crash"}

ASSUME QueueAssumption ==
    /\ Types \subseteq JobTypes
    /\ MaxOpenConns \in Nat
    /\ MaxTime \in Nat
    /\ Faults \subseteq FaultKinds
    /\ Poison \subseteq JobTypes
    /\ NoGoroutine \notin Goroutines
    /\ NoId \notin Ids
    /\ NoLoop \notin Loops
    /\ NoChannel \notin Channels

VARIABLES
    status,     \* status of each row, "ABSENT" when it does not exist
    row,        \* contents of each row: type, channel, created_at, exec_at
    channels,   \* rows of the channels table
    lock,       \* row locks: the goroutine whose transaction holds the row
    pc, job, loopOf, tx,   \* per goroutine
    loop,       \* "running" or "stopped", per run loop
    closed,     \* whether shutdownCh is closed (or the process is not up)
    now,
    applied     \* how often the writes of the row's job were committed (0..2)

vars == <<status, row, channels, lock, pc, job, loopOf, tx, loop, closed, now, applied>>
tableVars  == <<status, row, channels, applied>>
processVars == <<loop, closed>>

Terminal == {"CANCELED", "FAILED", "SUCCEEDED"}
Status   == {"ABSENT", "HIDDEN", "PENDING"} \cup Terminal
Row == [type: JobTypes, chan: Channels \cup {NoChannel}, at: Nat, due: Nat]
BlankRow == [type |-> "SYNC_CHANNELS", chan |-> NoChannel, at |-> 0, due |-> 0]
PCs == {"idle", "spawned", "begun", "locked", "exec", "sweep", "swept", "save", "commit"}
Tx == [cancels: SUBSET Ids, chan: {"keep", "add", "delete"},
       outcome: Terminal, aborted: BOOLEAN, saved: BOOLEAN]
EmptyTx == [cancels |-> {}, chan |-> "keep", outcome |-> "SUCCEEDED",
            aborted |-> FALSE, saved |-> FALSE]

TypeOK ==
    /\ status \in [Ids -> Status]
    /\ row \in [Ids -> Row]
    /\ channels \subseteq Channels
    /\ lock \in [Ids -> Goroutines \cup {NoGoroutine}]
    /\ pc \in [Goroutines -> PCs]
    /\ job \in [Goroutines -> Ids \cup {NoId}]
    /\ loopOf \in [Goroutines -> Loops \cup {NoLoop}]
    /\ tx \in [Goroutines -> Tx]
    /\ loop \in [Loops -> {"running", "stopped"}]
    /\ closed \in BOOLEAN
    /\ now \in Nat
    /\ applied \in [Ids -> 0..2]

-------------------------------------------------------------------------------
(* Helpers *)

Working(g) == pc[g] \in {"locked", "exec", "sweep", "swept", "save", "commit"}
InTx(g)    == Working(g) \/ pc[g] = "begun"

\* The run loop of g has observed the closed channel and cancelled its context.
Cancelled(g) == loop[loopOf[g]] = "stopped"

\* A statement can fail in the database, which aborts the transaction; so does
\* a context that is cancelled while the statement runs.
CanAbort(g) == "dberr" \in Faults \/ Cancelled(g)

\* Mutant of Available: no FOR UPDATE SKIP LOCKED.
AvailableUnlocked == {i \in Ids : status[i] = "PENDING" /\ row[i].due <= now}

\* Mutant of Available: is_completed is not looked at.
AvailableCompleted ==
    {i \in Ids : status[i] \in {"PENDING"} \cup Terminal /\ row[i].due <= now /\ lock[i] = NoGoroutine}

\* GetNextJob: due, uncompleted, unlocked; by priority, then by created_at.
Available == {i \in Ids : status[i] = "PENDING" /\ row[i].due <= now /\ lock[i] = NoGoroutine}

\* Mutant of Precedes: ORDER BY created_at alone.
PrecedesByAge(i, j) == row[i].at <= row[j].at

Precedes(i, j) ==
    \/ Priority(row[i].type) > Priority(row[j].type)
    \/ Priority(row[i].type) = Priority(row[j].type) /\ row[i].at <= row[j].at
NextJobs == {i \in Available : \A j \in Available : Precedes(i, j)}

\* The rows the UPDATE of a sweeping job function matches.
SweepTargets(i) ==
    {j \in Ids : /\ status[j] = "PENDING"
                 /\ row[j].type \in Sweeps(row[i].type)
                 /\ row[j].chan = row[i].chan}

\* Mutant of NewRow: exec_at is a tick early.
NewRowEarly(t, c, due) ==
    [type |-> t, chan |-> IF t \in NoChannelID THEN NoChannel ELSE c, at |-> now, due |-> due - 1]

\* A row as it is inserted; types without a channel_id have no channel.
NewRow(t, c, due) ==
    [type |-> t, chan |-> IF t \in NoChannelID THEN NoChannel ELSE c, at |-> now, due |-> due]

DueTimes(t) == IF t \in Deferred THEN {now, now + 1} ELSE {now}

\* The rows for the types of S: those of D are due later, the others at once.
NewRows(S, D, c) == {NewRow(t, c, IF t \in D THEN now + 1 ELSE now) : t \in S}

\* The ways to give the new rows R ids that are not in use.
Placements(R) ==
    UNION {{f \in [N -> R] : /\ \A r \in R : \E n \in N : f[n] = r
                             /\ \A m, n \in N : f[m] = f[n] => m = n} :
              N \in SUBSET {i \in Ids : status[i] = "ABSENT"}}

\* The rows the open transaction of g inserted.
Inserted(g) == {i \in Ids : status[i] = "HIDDEN" /\ lock[i] = g}

\* g ends and its row locks are given up.
Ends(g) ==
    /\ pc' = [pc EXCEPT ![g] = "idle"]
    /\ job' = [job EXCEPT ![g] = NoId]
    /\ loopOf' = [loopOf EXCEPT ![g] = NoLoop]
    /\ tx' = [tx EXCEPT ![g] = EmptyTx]
    /\ lock' = [i \in Ids |-> IF lock[i] = g THEN NoGoroutine ELSE lock[i]]

\* tx.Rollback(): nothing of the transaction remains.
Rollback(g) ==
    /\ Ends(g)
    /\ status' = [i \in Ids |-> IF i \in Inserted(g) THEN "ABSENT" ELSE status[i]]
    /\ row' = [i \in Ids |-> IF i \in Inserted(g) THEN BlankRow ELSE row[i]]
    /\ UNCHANGED <<channels, applied, processVars, now>>
-------------------------------------------------------------------------------
(* The table's other writers *)

\* main queues SYNC_CHANNELS (a failure is only logged) and starts the loops.
Start ==
    /\ closed
    /\ \A l \in Loops : loop[l] = "stopped"
    /\ \A g \in Goroutines : pc[g] = "idle"
    /\ closed' = FALSE
    /\ loop' = [l \in Loops |-> "running"]
    /\ \/ UNCHANGED <<status, row>>
       \/ /\ "SYNC_CHANNELS" \in Types
          /\ \E i \in Ids :
                /\ status[i] = "ABSENT"
                /\ status' = [status EXCEPT ![i] = "PENDING"]
                /\ row' = [row EXCEPT ![i] = NewRow("SYNC_CHANNELS", NoChannel, now)]
    /\ UNCHANGED <<channels, lock, pc, job, loopOf, tx, now, applied>>

\* A handler queues a job: one INSERT, committed by itself.
Enqueue(t, c) ==
    /\ ~closed
    /\ \E i \in Ids, due \in DueTimes(t) :
          /\ status[i] = "ABSENT"
          /\ status' = [status EXCEPT ![i] = "PENDING"]
          /\ row' = [row EXCEPT ![i] = NewRow(t, c, due)]
    /\ UNCHANGED <<channels, lock, pc, job, loopOf, tx, loop, closed, now, applied>>

Advance ==
    /\ now < MaxTime
    /\ now' = now + 1
    /\ UNCHANGED <<status, row, channels, lock, pc, job, loopOf, tx, loop, closed, applied>>
-------------------------------------------------------------------------------
(* The worker *)

\* A tick of run loop l starts a goroutine, whatever the others are doing.
Tick(g, l) ==
    /\ loop[l] = "running"
    /\ pc[g] = "idle"
    /\ pc' = [pc EXCEPT ![g] = "spawned"]
    /\ loopOf' = [loopOf EXCEPT ![g] = l]
    /\ UNCHANGED <<tableVars, lock, job, tx, processVars, now>>

\* w.db.Begin() waits for a connection of the pool, with no deadline.
Begin(g) ==
    /\ pc[g] = "spawned"
    /\ Cardinality({h \in Goroutines : InTx(h)}) < MaxOpenConns
    /\ pc' = [pc EXCEPT ![g] = "begun"]
    /\ UNCHANGED <<tableVars, lock, job, loopOf, tx, processVars, now>>

BeginFails(g) ==
    /\ pc[g] = "spawned"
    /\ "dberr" \in Faults
    /\ Rollback(g)

TakeJob(g) ==
    /\ pc[g] = "begun"
    /\ ~Cancelled(g)
    /\ \E i \in NextJobs :
          /\ lock' = [lock EXCEPT ![i] = g]
          /\ job' = [job EXCEPT ![g] = i]
    /\ pc' = [pc EXCEPT ![g] = "locked"]
    /\ UNCHANGED <<tableVars, loopOf, tx, processVars, now>>

\* No row, or the query failed: Rollback and return.
NoJob(g) ==
    /\ pc[g] = "begun"
    /\ Available = {} \/ Cancelled(g) \/ "dberr" \in Faults
    /\ Rollback(g)

\* The channel of the job does not exist: the row is to be CANCELED.
ChannelMissing(g) ==
    /\ pc[g] = "locked"
    /\ ~Cancelled(g)
    /\ RequiresSlackChannel(row[job[g]].type)
    /\ row[job[g]].chan \notin channels
    /\ pc' = [pc EXCEPT ![g] = "save"]
    /\ tx' = [tx EXCEPT ![g].outcome = "CANCELED"]
    /\ UNCHANGED <<tableVars, lock, job, loopOf, processVars, now>>

\* The job is executed: no check needed, the channel exists, or the check
\* itself failed, which is not looked at; a statement that a cancelled context
\* kept from being sent leaves the transaction usable.
Execute(g) ==
    /\ pc[g] = "locked"
    /\ LET checked == RequiresSlackChannel(row[job[g]].type) IN
       \/ /\ ~checked \/ Cancelled(g) \/ row[job[g]].chan \in channels
          /\ UNCHANGED tx
       \/ /\ checked /\ CanAbort(g)
          /\ tx' = [tx EXCEPT ![g].aborted = TRUE]
    /\ pc' = [pc EXCEPT ![g] = "exec"]
    /\ UNCHANGED <<tableVars, lock, job, loopOf, processVars, now>>

\* The UPDATE that cancels the channel's rows takes its snapshot here ...
BeginSweep(g) ==
    /\ pc[g] = "exec"
    /\ Sweeps(row[job[g]].type) # {}
    /\ ~Cancelled(g) /\ ~tx[g].aborted
    /\ tx' = [tx EXCEPT ![g].cancels = SweepTargets(job[g])]
    /\ pc' = [pc EXCEPT ![g] = "sweep"]
    /\ UNCHANGED <<tableVars, lock, job, loopOf, processVars, now>>

\* Mutant of EndSweep: the rows are not looked at again after the wait.
EndSweepStale(g) ==
    /\ pc[g] = "sweep"
    /\ \A i \in tx[g].cancels : lock[i] \in {g, NoGoroutine}
    /\ lock' = [i \in Ids |-> IF i \in tx[g].cancels THEN g ELSE lock[i]]
    /\ pc' = [pc EXCEPT ![g] = "swept"]
    /\ UNCHANGED <<tableVars, job, loopOf, tx, processVars, now>>

\* ... and waits for the rows other transactions hold; rows they completed
\* no longer match. A wait that is too long ends in RunError.
EndSweep(g) ==
    /\ pc[g] = "sweep"
    /\ \A i \in tx[g].cancels : lock[i] \in {g, NoGoroutine}
    /\ LET hit == {i \in tx[g].cancels : status[i] = "PENDING"} IN
          /\ tx' = [tx EXCEPT ![g].cancels = hit]
          /\ lock' = [i \in Ids |-> IF i \in hit THEN g ELSE lock[i]]
    /\ pc' = [pc EXCEPT ![g] = "swept"]
    /\ UNCHANGED <<tableVars, job, loopOf, processVars, now>>

\* The job function is ready to make the rest of its writes.
Ready(g) ==
    \/ pc[g] = "swept"
    \/ pc[g] = "exec" /\ Sweeps(row[job[g]].type) = {}

ChannelWrite(t) == CASE t = "ADD_CHANNEL"    -> "add"
                     [] t = "DELETE_CHANNEL" -> "delete"
                     [] OTHER                -> "keep"

\* SYNC_CHANNELS, whose row names no channel, queues jobs for a channel it found.
ChildChannels(c) == IF c = NoChannel THEN Channels ELSE {c}

\* The writes of the job function: its channel, and the jobs it queues.
Writes(g) ==
    LET i == job[g] IN
    /\ \E S \in SUBSET (Queues(row[i].type) \cap Types) :
       \E D \in SUBSET (S \cap Deferred) :
       \E c \in ChildChannels(row[i].chan) :
       \E f \in Placements(NewRows(S, D, c)) :
          /\ status' = [n \in Ids |-> IF n \in DOMAIN f THEN "HIDDEN" ELSE status[n]]
          /\ row' = [n \in Ids |-> IF n \in DOMAIN f THEN f[n] ELSE row[n]]
          /\ lock' = [n \in Ids |-> IF n \in DOMAIN f THEN g ELSE lock[n]]
    /\ tx' = [tx EXCEPT ![g].chan = ChannelWrite(row[i].type)]
    /\ pc' = [pc EXCEPT ![g] = "save"]
    /\ UNCHANGED <<channels, applied, job, loopOf, processVars, now>>

\* The job function returns nil and every statement of it succeeded.
RunOk(g) ==
    /\ Ready(g)
    /\ ~Cancelled(g) /\ ~tx[g].aborted
    /\ Writes(g)

\* It returns nil after a statement the cancelled context kept from being
\* sent: what it wrote before remains in the transaction.
RunPartial(g) ==
    /\ Ready(g)
    /\ Cancelled(g) /\ ~tx[g].aborted
    /\ row[job[g]].type \in SwallowsErrors
    /\ Writes(g)

\* It returns nil although a statement failed and aborted the transaction.
RunSwallowed(g) ==
    /\ Ready(g)
    /\ tx[g].aborted \/ CanAbort(g)
    /\ row[job[g]].type \in SwallowsErrors
    /\ tx' = [tx EXCEPT ![g].aborted = TRUE]
    /\ pc' = [pc EXCEPT ![g] = "save"]
    /\ UNCHANGED <<tableVars, lock, job, loopOf, processVars, now>>

\* The parameters fail validation before anything is written.
RunInvalid(g) ==
    /\ pc[g] = "exec"
    /\ row[job[g]].type \in Validated
    /\ tx' = [tx EXCEPT ![g].outcome = "FAILED"]
    /\ pc' = [pc EXCEPT ![g] = "save"]
    /\ UNCHANGED <<tableVars, lock, job, loopOf, processVars, now>>

\* Any other error: Rollback, the row stays PENDING and is taken again.
RunError(g) ==
    /\ pc[g] \in {"exec", "sweep", "swept"}
    /\ \/ Cancelled(g)
       \/ tx[g].aborted
       \/ Faults \cap {"joberr", "dberr"} # {}
       \/ pc[g] = "sweep" /\ \E i \in tx[g].cancels : lock[i] \notin {g, NoGoroutine}
    /\ Rollback(g)

\* Mutant of Save: the status is not saved.
SaveForgotten(g) ==
    /\ pc[g] = "save"
    /\ pc' = [pc EXCEPT ![g] = "commit"]
    /\ UNCHANGED <<tableVars, lock, job, loopOf, tx, processVars, now>>

\* Mutant of Save: w.db saves it, outside the transaction.
SaveOutside(g) ==
    /\ pc[g] = "save"
    /\ status' = [status EXCEPT ![job[g]] = tx[g].outcome]
    /\ pc' = [pc EXCEPT ![g] = "commit"]
    /\ UNCHANGED <<row, channels, applied, lock, job, loopOf, tx, processVars, now>>

\* tx.WithContext(ctx).Save(&job), whose error is not looked at.
Save(g) ==
    /\ pc[g] = "save"
    /\ \/ /\ ~Cancelled(g) /\ ~tx[g].aborted
          /\ tx' = [tx EXCEPT ![g].saved = TRUE]
       \/ /\ Cancelled(g) \/ tx[g].aborted
          /\ UNCHANGED tx
       \/ /\ CanAbort(g)
          /\ tx' = [tx EXCEPT ![g].aborted = TRUE]
    /\ pc' = [pc EXCEPT ![g] = "commit"]
    /\ UNCHANGED <<tableVars, lock, job, loopOf, processVars, now>>
-------------------------------------------------------------------------------
\* tx.Commit() of a transaction no statement of which failed. A row the job
\* function cancelled is CANCELED, but the job's own row gets the saved status.
Commit(g) ==
    /\ pc[g] = "commit"
    /\ ~tx[g].aborted
    /\ LET i == job[g]
           t == tx[g]
       IN
       /\ status' = [n \in Ids |->
             IF n \in Inserted(g) THEN "PENDING"
             ELSE IF n = i /\ t.saved THEN t.outcome
             ELSE IF n \in t.cancels THEN "CANCELED"
             ELSE status[n]]
       /\ channels' = CASE t.chan = "add"    -> channels \cup ({row[i].chan} \ {NoChannel})
                        [] t.chan = "delete" -> channels \ {row[i].chan}
                        [] OTHER             -> channels
       /\ applied' = IF t.outcome = "SUCCEEDED" /\ applied[i] < 2
                     THEN [applied EXCEPT ![i] = @ + 1] ELSE applied
    /\ Ends(g)
    /\ UNCHANGED <<row, processVars, now>>

\* The Commit of an aborted transaction rolls back, whatever Save did; any
\* Commit can fail.
CommitFails(g) ==
    /\ pc[g] = "commit"
    /\ tx[g].aborted \/ "dberr" \in Faults
    /\ Rollback(g)
-------------------------------------------------------------------------------
(* Shutdown and crash *)

\* main closes shutdownCh after a signal; the HTTP server has stopped before.
Shutdown ==
    /\ "shutdown" \in Faults
    /\ ~closed
    /\ closed' = TRUE
    /\ UNCHANGED <<tableVars, lock, pc, job, loopOf, tx, loop, now>>

\* A run loop observes the closed channel; it may have ticked since.
StopLoop(l) ==
    /\ closed
    /\ loop[l] = "running"
    /\ loop' = [loop EXCEPT ![l] = "stopped"]
    /\ UNCHANGED <<tableVars, lock, pc, job, loopOf, tx, closed, now>>

\* The process dies (a panic in a job function ends it too): Postgres rolls
\* every open transaction back.
Crash ==
    /\ "crash" \in Faults
    /\ \E l \in Loops : loop[l] = "running"
    /\ closed' = TRUE
    /\ loop' = [l \in Loops |-> "stopped"]
    /\ pc' = [g \in Goroutines |-> "idle"]
    /\ job' = [g \in Goroutines |-> NoId]
    /\ loopOf' = [g \in Goroutines |-> NoLoop]
    /\ tx' = [g \in Goroutines |-> EmptyTx]
    /\ lock' = [i \in Ids |-> NoGoroutine]
    /\ status' = [i \in Ids |-> IF status[i] = "HIDDEN" THEN "ABSENT" ELSE status[i]]
    /\ row' = [i \in Ids |-> IF status[i] = "HIDDEN" THEN BlankRow ELSE row[i]]
    /\ UNCHANGED <<channels, applied, now>>
-------------------------------------------------------------------------------
Init ==
    /\ status = [i \in Ids |-> "ABSENT"]
    /\ row = [i \in Ids |-> BlankRow]
    /\ channels \in SUBSET Channels
    /\ lock = [i \in Ids |-> NoGoroutine]
    /\ pc = [g \in Goroutines |-> "idle"]
    /\ job = [g \in Goroutines |-> NoId]
    /\ loopOf = [g \in Goroutines |-> NoLoop]
    /\ tx = [g \in Goroutines |-> EmptyTx]
    /\ loop = [l \in Loops |-> "stopped"]
    /\ closed = TRUE
    /\ now = 0
    /\ applied = [i \in Ids |-> 0]

ProcessJob(g) ==
    \/ Begin(g) \/ BeginFails(g) \/ TakeJob(g) \/ NoJob(g)
    \/ ChannelMissing(g) \/ Execute(g) \/ BeginSweep(g) \/ EndSweep(g)
    \/ RunOk(g) \/ RunPartial(g) \/ RunSwallowed(g) \/ RunInvalid(g) \/ RunError(g)
    \/ Save(g) \/ Commit(g) \/ CommitFails(g)

Next ==
    \/ Start
    \/ \E t \in HandlerTypes \cap Types, c \in Channels : Enqueue(t, c)
    \/ Advance
    \/ \E g \in Goroutines, l \in Loops : Tick(g, l)
    \/ \E g \in Goroutines : ProcessJob(g)
    \/ Shutdown
    \/ \E l \in Loops : StopLoop(l)
    \/ Crash

Spec == Init /\ [][Next]_vars

\* Goroutines, the ticker and the clock go on, statements return (their contexts
\* have deadlines), every execution ends, the process is not stopped for ever, a
\* sweep is not for ever kept waiting until its timeout by a job that is not
\* waiting too, and the errors of a job that is not poison are transient: executed again and again,
\* it succeeds.
Executing(g, i) == job[g] = i /\ row[i].type \notin Poison

\* The sweep of g gives up on rows whose holder is not waiting itself.
Waits(g) == pc[g] = "sweep" /\ \E i \in tx[g].cancels : lock[i] \notin {g, NoGoroutine}
GivesUp(g) ==
    /\ Waits(g) /\ \E i \in tx[g].cancels : lock[i] # NoGoroutine /\ ~Waits(lock[i])
    /\ RunError(g)

Fairness ==
    /\ WF_vars(Start) /\ WF_vars(Advance)
    /\ \A l \in Loops : WF_vars(StopLoop(l)) /\ WF_vars(\E g \in Goroutines : Tick(g, l))
    /\ \A g \in Goroutines : WF_vars(ProcessJob(g))
    /\ \A i \in Ids :
          /\ SF_vars(\E g \in Goroutines : Executing(g, i) /\ RunOk(g))
          /\ SF_vars(\E g \in Goroutines : Executing(g, i) /\ BeginSweep(g))
          /\ SF_vars(\E g \in Goroutines : Executing(g, i) /\ EndSweep(g))
    /\ <>[][~(Shutdown \/ Crash \/ \E g \in Goroutines : GivesUp(g))]_vars

FairSpec == Spec /\ Fairness
-------------------------------------------------------------------------------
(* Properties *)

\* A goroutine that works on a job holds its row, which is still PENDING, and
\* nobody else does: GetNextJob with FOR UPDATE SKIP LOCKED never hands a row
\* to two goroutines, and a sweep never completes a row that is being run.
OneHolder ==
    \A g \in Goroutines : Working(g) =>
        /\ job[g] \in Ids
        /\ lock[job[g]] = g
        /\ status[job[g]] = "PENDING"
        /\ \A h \in Goroutines \ {g} : Working(h) => job[h] # job[g]

\* Every row lock is on an uncompleted row and belongs to an open transaction
\* that will release it, and exactly the rows inserted by open transactions are invisible: no path
\* through processJob ends without the Rollback or the Commit.
NoLeak ==
    \A i \in Ids :
        /\ lock[i] # NoGoroutine => Working(lock[i]) /\ status[i] \in {"PENDING", "HIDDEN"}
        /\ status[i] = "HIDDEN" => lock[i] # NoGoroutine /\ pc[lock[i]] \in {"save", "commit"}

\* A job's writes are committed once if it SUCCEEDED and never otherwise: the
\* status is saved in the transaction of the job, "Within a transaction: query
\* for available jobs, get an exclusive lock on the job, and work on it".
ExactlyOnce ==
    \A i \in Ids : applied[i] = IF status[i] = "SUCCEEDED" THEN 1 ELSE 0

\* Whatever the faults, a row only says SUCCEEDED when the writes of its job
\* were committed: a transaction whose statements or Commit failed, a sweep of
\* other jobs or a crash never leaves the status without the effect.
NeverLost ==
    \A i \in Ids : status[i] = "SUCCEEDED" => applied[i] >= 1

\* A completed row is never completed differently or run again, in spite of
\* the sweeps of DELETE_CHANNEL and UPDATE_CHANNEL and of the late Save.
CompletedIsFinal ==
    [][\A i \in Ids : status[i] \in Terminal => status'[i] = status[i]]_vars

\* A due job is eventually completed: errors, retries, sweeps that wait for each
\* other and jobs that keep failing only hold up jobs of their own priority or
\* less ("scheduling a background job will ensure it is reliably executed").
DueJobCompletes ==
    \A i \in Ids :
        (/\ status[i] = "PENDING" /\ row[i].due <= now
         /\ \A p \in Poison : Priority(row[i].type) > Priority(p)) ~> status[i] \in Terminal
-------------------------------------------------------------------------------
(* Refinement *)

\* The table as every other transaction sees it: rows of open transactions do
\* not exist yet.
Visible == [i \in Ids |-> IF status[i] = "HIDDEN" THEN "ABSENT" ELSE status[i]]

Ledger == INSTANCE JobLedger WITH ledger <- Visible, runs <- applied

\* Without a shutdown the workers, their transactions, crashes and errors
\* included, implement the ledger.
ImplementsLedger == Ledger!Spec
===============================================================================
