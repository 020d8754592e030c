------------------------------ MODULE Membership -------------------------------
(***************************************************************************)
(* How one user becomes a member of an enrolled channel, and ceases to be  *)
(* one. Slack's events, and a SYNC_MEMBERS in each round, queue ADD_MEMBER *)
(* and DELETE_MEMBER jobs. A new member is greeted with a button that opens*)
(* the onboarding, a series of views: each answer is queued as an          *)
(* UPDATE_MEMBER, and so is, after the last one, the switch to active.     *)
(*                                                                         *)
(* Jobs run on several goroutines, each in a READ COMMITTED transaction    *)
(* that run[g] sums up. The handlers of events and views run in the web    *)
(* server and insert each of their jobs by itself.                         *)
(***************************************************************************)
EXTENDS JobTypes, Tables, Sequences

CONSTANTS
    Goroutines, Nobody,
    Steps,       \* the views that ask for an answer, in order
    Optional,    \* those of them that only a channel in hybrid mode shows
    Faults,      \* a subset of {"error", "event", "shutdown"}
    MaxFaults,   \* bound on what goes wrong
    MaxMoves,    \* bound on the times the user joins or leaves the channel
    MaxOpens,    \* bound on the times the user opens the onboarding
    MaxJobs      \* bound on the jobs pending when a view adds one

ASSUME MembershipAssumption ==
    /\ Nobody \notin Goroutines
    /\ Steps \in Seq(STRING) /\ Optional \subseteq {Steps[k] : k \in DOMAIN Steps}
    /\ \A k \in DOMAIN Steps : Steps[k] \notin {"calendly", "activate", "respond", "active"}
    /\ Faults \subseteq {"error", "event", "shutdown"}
    /\ MaxFaults \in Nat /\ MaxMoves \in Nat /\ MaxOpens \in Nat /\ MaxJobs \in Nat

VARIABLES
    inSlack,    \* the user is in the Slack channel
    events,     \* Slack's events that have not been delivered
    row,        \* the user's row in the members table, or NoRow
    jobs,       \* the PENDING rows of the jobs table, by created_at
    run,        \* the open transaction of each goroutine
    buttons,    \* the greetings whose button has not been replaced
    view,       \* the view the user opened last and can submit, 0 if none
    left,       \* history: a DELETE_MEMBER has removed the user's row
    moves, opens,
    faults      \* what has gone wrong

vars == <<inSlack, events, row, jobs, run, buttons, view, left, moves, opens, faults>>
slack == <<inSlack, events, moves>>
dialog == <<buttons, view, opens>>

\* The views after the steps stand for the parts of the handler of the last one,
\* which asks for a Calendly link. The first view only explains; it is left out.
Views == Steps \o <<"calendly", "activate", "respond">>
Answers == {Steps[k] : k \in DOMAIN Steps} \cup {"calendly", "active"}
Mandatory == {Steps[k] : k \in DOMAIN Steps} \ Optional

MemberJobs == {"ADD_MEMBER", "DELETE_MEMBER", "UPDATE_MEMBER", "GREET_MEMBER", "SYNC_MEMBERS"}

\* sets: the column an UPDATE_MEMBER sets.
Job == [type: MemberJobs, sets: Answers \cup {"none"}, taker: Goroutines \cup {Nobody}]

\* columns: those set among the mandatory ones and is_active; greeted: history, the
\* greeting was posted.
Row == [exists: BOOLEAN, columns: SUBSET (Mandatory \cup {"active"}), greeted: BOOLEAN]
NoRow == [exists |-> FALSE, columns |-> {}, greeted |-> FALSE]

\* writes: to the row of the member; adds: the types of the jobs to insert.
Run == [pc: {"idle", "exec", "listed", "done"}, listed: BOOLEAN,
        writes: {"nothing", "insert", "update", "delete"}, adds: Seq(MemberJobs)]
NoRun == [pc |-> "idle", listed |-> FALSE, writes |-> "nothing", adds |-> <<>>]

TypeOK ==
    /\ inSlack \in BOOLEAN /\ events \in Seq({"joined", "left"})
    /\ row \in Row /\ (~row.exists => row = NoRow)
    /\ jobs \in Seq(Job)
    /\ run \in [Goroutines -> Run]
    /\ buttons \in Nat /\ view \in 0..Len(Views) /\ left \in BOOLEAN
    /\ moves \in 0..MaxMoves /\ opens \in 0..MaxOpens /\ faults \subseteq Faults
-------------------------------------------------------------------------------
(* Helpers *)

Pending == {jobs[k] : k \in DOMAIN jobs}
Busy(g) == run[g].pc # "idle"
JobOf(g) == CHOOSE j \in Pending : j.taker = g
Runs(g, t) == run[g].pc = "exec" /\ JobOf(g).type = t

\* GetNextJob: the unlocked row of the highest priority, the oldest first.
Available == {k \in DOMAIN jobs : jobs[k].taker = Nobody}
NextJob == CHOOSE k \in Available : \A m \in Available \ {k} :
    \/ Priority(jobs[k].type) > Priority(jobs[m].type)
    \/ Priority(jobs[k].type) = Priority(jobs[m].type) /\ k < m

NewJob(t, sets) == [type |-> t, sets |-> sets, taker |-> Nobody]
NewJobs(types) == [k \in DOMAIN types |-> NewJob(types[k], "none")]
Others(g) == {k \in DOMAIN jobs : jobs[k].taker # g}
Released(g) == [k \in DOMAIN jobs |-> [jobs[k] EXCEPT !.taker = IF @ = g THEN Nobody ELSE @]]

\* Another transaction has written the row, or inserted it.
Locked(g) == \E h \in Goroutines \ {g} : run[h].writes \in {"update", "delete"}
Inserted(g) == \E h \in Goroutines \ {g} : run[h].writes = "insert"

\* What goes wrong, each kind once and at most MaxFaults of them.
Fault(kind) ==
    /\ kind \in Faults \ faults /\ Cardinality(faults) < MaxFaults
    /\ faults' = faults \cup {kind}

\* g goes on with its transaction.
Continue(g, r) ==
    /\ run' = [run EXCEPT ![g] = r]
    /\ UNCHANGED <<slack, row, jobs, view, opens, left, faults>>
-------------------------------------------------------------------------------
(* The channel in Slack *)

Move ==
    /\ moves < MaxMoves
    /\ moves' = moves + 1
    /\ inSlack' = ~inSlack
    /\ events' = Append(events, IF inSlack THEN "left" ELSE "joined")
    /\ UNCHANGED <<row, jobs, run, dialog, left, faults>>

EventJob(e) == NewJob(IF e = "joined" THEN "ADD_MEMBER" ELSE "DELETE_MEMBER", "none")
Without(k) == SubSeq(events, 1, k - 1) \o SubSeq(events, k + 1, Len(events))

\* slackEventHandler queues a job for the event, in whatever order they arrive.
Deliver(k) ==
    /\ jobs' = Append(jobs, EventJob(events[k]))
    /\ events' = Without(k)
    /\ UNCHANGED <<inSlack, moves, row, run, dialog, left, faults>>

\* An event is lost (a failed lookup of the channel is answered with a 200, and Slack
\* gives up after three attempts), or one that was handled is delivered again.
Misdeliver(k) ==
    /\ Fault("event")
    /\ \/ events' = Without(k) /\ UNCHANGED jobs
       \/ jobs' = Append(jobs, EventJob(events[k])) /\ UNCHANGED events
    /\ UNCHANGED <<inSlack, moves, row, run, dialog, left>>

\* CREATE_ROUND queues a SYNC_MEMBERS in each round; rounds are days apart, so that
\* no job is left from the one before.
StartRound ==
    /\ jobs = <<>>
    /\ jobs' = Append(jobs, NewJob("SYNC_MEMBERS", "none"))
    /\ UNCHANGED <<slack, row, run, dialog, left, faults>>
-------------------------------------------------------------------------------
(* Job functions *)

TakeJob(g) ==
    /\ ~Busy(g) /\ Available # {}
    /\ jobs' = [jobs EXCEPT ![NextJob].taker = g]
    /\ run' = [run EXCEPT ![g].pc = "exec"]
    /\ UNCHANGED <<slack, row, dialog, left, faults>>

\* SyncMembers lists the members in Slack ...
ListMembers(g) ==
    /\ Runs(g, "SYNC_MEMBERS")
    /\ Continue(g, [run[g] EXCEPT !.pc = "listed", !.listed = inSlack])
    /\ UNCHANGED buttons

\* Mutant of Reconcile: only members that are missing are looked for.
ReconcileMissing(g) ==
    /\ run[g].pc = "listed"
    /\ Continue(g, [run[g] EXCEPT !.pc = "done", !.adds =
           IF run[g].listed /\ ~row.exists THEN <<"ADD_MEMBER">> ELSE <<>>])
    /\ UNCHANGED buttons

\* ... then those in the database, and reconciles the two lists.
Reconcile(g) ==
    /\ run[g].pc = "listed"
    /\ Continue(g, [run[g] EXCEPT !.pc = "done", !.adds =
           CASE run[g].listed /\ ~row.exists -> <<"ADD_MEMBER">>
             [] ~run[g].listed /\ row.exists -> <<"DELETE_MEMBER">>
             [] OTHER -> <<>>])
    /\ UNCHANGED buttons

\* Mutant of AddMember: a row that is there is greeted instead of a new one.
AddMemberUngreeted(g) ==
    /\ Runs(g, "ADD_MEMBER") /\ ~Inserted(g)
    /\ Continue(g, [run[g] EXCEPT !.pc = "done",
           !.writes = IF row.exists THEN "nothing" ELSE "insert",
           !.adds = IF row.exists THEN <<"GREET_MEMBER">> ELSE <<>>])
    /\ UNCHANGED buttons

\* AddMember: FirstOrCreate, which waits for a row that another transaction inserts,
\* and fails; then the greeting of a member whose row is new, or less than a second
\* old, which is left open here.
AddMember(g) ==
    /\ Runs(g, "ADD_MEMBER")
    /\ \/ /\ ~row.exists /\ ~Inserted(g)
          /\ Continue(g, [run[g] EXCEPT !.pc = "done", !.writes = "insert", !.adds = <<"GREET_MEMBER">>])
       \/ /\ row.exists
          /\ \E adds \in {<<>>, <<"GREET_MEMBER">>} :
                Continue(g, [run[g] EXCEPT !.pc = "done", !.adds = adds])
    /\ UNCHANGED buttons

GreetMember(g) ==
    /\ Runs(g, "GREET_MEMBER")
    /\ buttons' = buttons + 1
    /\ Continue(g, [run[g] EXCEPT !.pc = "done"])

\* DeleteMember and UpdateMember write the row that they see, if any.
DeleteMember(g) ==
    /\ Runs(g, "DELETE_MEMBER") /\ ~Locked(g)
    /\ Continue(g, [run[g] EXCEPT !.pc = "done", !.writes = IF row.exists THEN "delete" ELSE "nothing"])
    /\ UNCHANGED buttons

UpdateMember(g) ==
    /\ Runs(g, "UPDATE_MEMBER") /\ ~Locked(g)
    /\ Continue(g, [run[g] EXCEPT !.pc = "done", !.writes = IF row.exists THEN "update" ELSE "nothing"])
    /\ UNCHANGED buttons

\* What g has written takes effect.
Write(g) ==
    LET j == JobOf(g) IN
    /\ row' = CASE run[g].writes = "insert" -> [NoRow EXCEPT !.exists = TRUE]
                [] run[g].writes = "update" -> [row EXCEPT !.columns = @ \cup ({j.sets} \cap (Mandatory \cup {"active"}))]
                [] run[g].writes = "delete" -> NoRow
                [] j.type = "GREET_MEMBER" /\ row.exists -> [row EXCEPT !.greeted = TRUE]
                [] OTHER -> row
    /\ left' = (left \/ run[g].writes = "delete")
    /\ run' = [run EXCEPT ![g] = NoRun]
    /\ UNCHANGED <<slack, dialog>>

Commit(g) ==
    /\ run[g].pc = "done"
    /\ Write(g)
    /\ jobs' = Where(jobs, Others(g)) \o NewJobs(run[g].adds)
    /\ UNCHANGED faults

\* An error, or a wait for another transaction that is too long: a rollback.
Fail(g) ==
    /\ \/ Busy(g) /\ Fault("error")
       \/ /\ \/ (Runs(g, "UPDATE_MEMBER") \/ Runs(g, "DELETE_MEMBER")) /\ Locked(g)
             \/ Runs(g, "ADD_MEMBER") /\ ~row.exists /\ Inserted(g)
          /\ UNCHANGED faults
    /\ jobs' = Released(g)
    /\ run' = [run EXCEPT ![g] = NoRun]
    /\ UNCHANGED <<slack, row, dialog, left>>

\* A shutdown cancels the contexts: AddMember wraps a nil error when it cannot
\* queue the GREET_MEMBER, and the Commit is not preceded by the new status.
CommitUnsaved(g) ==
    /\ run[g].pc = "done" /\ Fault("shutdown")
    /\ Write(g)
    /\ \E adds \in {run[g].adds} \cup (IF JobOf(g).type = "ADD_MEMBER" THEN {<<>>} ELSE {}) :
          jobs' = Released(g) \o NewJobs(adds)

-------------------------------------------------------------------------------
(* The onboarding *)

\* HandleGreetMemberButton opens the first view, in place of one that was left open.
OpenDialog ==
    /\ buttons > 0 /\ opens < MaxOpens
    /\ view' = 1 /\ opens' = opens + 1
    /\ UNCHANGED <<slack, row, jobs, run, buttons, left, faults>>

\* The view that follows; the timezone view skips the connection mode unless the
\* channel is hybrid at the time.
Follows(v) == {w \in {v + 1, v + 2} : w = v + 1 \/ Views[v + 1] \in Optional}

Queue(answer) ==
    /\ Len(jobs) < MaxJobs
    /\ jobs' = Append(jobs, NewJob("UPDATE_MEMBER", answer))
    /\ UNCHANGED <<slack, row, run, buttons, opens, left>>

\* Mutant of SubmitView: an answer that could not be queued is not reported.
SubmitViewAnyway ==
    /\ view \in DOMAIN Steps
    /\ view' \in Follows(view)
    /\ \/ Queue(Views[view]) /\ UNCHANGED faults
       \/ Fault("error") /\ UNCHANGED <<slack, row, jobs, run, buttons, opens, left>>

\* slackInteractionHandler: Upsert... queues the answer, Render... is the answer
\* to the request; after an error the user still has the view.
SubmitView ==
    /\ view \in DOMAIN Steps /\ Queue(Views[view])
    /\ \/ view' \in Follows(view) /\ UNCHANGED faults
       \/ Fault("error") /\ UNCHANGED view

\* The last view: the link if there is one ...
SubmitCalendly ==
    /\ view > 0 /\ Views[view] = "calendly"
    /\ view' = view + 1
    /\ \/ Queue("calendly")
       \/ UNCHANGED <<slack, row, jobs, run, buttons, opens, left>>
    /\ UNCHANGED faults

\* ... SetMemberIsActive (the CREATE_MATCH that is queued next is in Pairing) ...
SetMemberIsActive ==
    /\ view > 0 /\ Views[view] = "activate"
    /\ Queue("active")
    /\ view' = view + 1
    /\ UNCHANGED faults

\* Mutant of RespondGreetMember: the dialog is not closed.
RespondGreetMemberOpen ==
    /\ view > 0 /\ Views[view] = "respond"
    /\ buttons' = buttons - 1
    /\ UNCHANGED <<slack, row, jobs, run, view, opens, left, faults>>

\* ... and RespondGreetMemberWebhook: the button goes, the dialog is closed.
RespondGreetMember ==
    /\ view > 0 /\ Views[view] = "respond"
    /\ buttons' = buttons - 1 /\ view' = 0
    /\ UNCHANGED <<slack, row, jobs, run, opens, left, faults>>

\* An error on the way: the user still has the last view.
LastViewFails ==
    /\ view > 0 /\ Views[view] \in {"activate", "respond"}
    /\ Fault("error")
    /\ view' = Len(Views) - 2
    /\ UNCHANGED <<slack, row, jobs, run, buttons, opens, left>>
-------------------------------------------------------------------------------
Init ==
    /\ inSlack = FALSE /\ events = <<>> /\ row = NoRow /\ jobs = <<>>
    /\ run = [g \in Goroutines |-> NoRun]
    /\ buttons = 0 /\ view = 0 /\ left = FALSE
    /\ moves = 0 /\ opens = 0 /\ faults = {}

Work(g) ==
    \/ TakeJob(g) \/ ListMembers(g) \/ Reconcile(g) \/ AddMember(g)
    \/ GreetMember(g) \/ DeleteMember(g) \/ UpdateMember(g) \/ Commit(g)

Next ==
    \/ Move \/ StartRound
    \/ \E k \in DOMAIN events : Deliver(k) \/ Misdeliver(k)
    \/ \E g \in Goroutines : Work(g) \/ Fail(g) \/ CommitUnsaved(g)
    \/ OpenDialog \/ SubmitView \/ SubmitCalendly
    \/ SetMemberIsActive \/ RespondGreetMember \/ LastViewFails

\* Events that Slack does not lose arrive, goroutines go on, rounds follow rounds.
Fairness ==
    /\ WF_vars(\E k \in DOMAIN events : Deliver(k))
    /\ WF_vars(StartRound)
    /\ \A g \in Goroutines : WF_vars(Work(g))

Spec == Init /\ [][Next]_vars
FairSpec == Spec /\ Fairness
-------------------------------------------------------------------------------
(* Properties *)

\* "SyncMembers ensures that there is no discrepancy between the members of Slack
\* channels in the database and in Slack" (job_sync_members.go:21): when the user
\* joins and leaves no more, the table agrees with Slack for good, although events
\* were lost, repeated or out of order and a sync has mixed two moments.
Converges == <>[](row.exists = inSlack)

\* AddMember "begins the onboarding process" (job_add_member.go:23): a member in
\* the table has been greeted or will be, without a shutdown.
Greeted == row.exists /\ "shutdown" \notin faults => row.greeted \/ \E j \in Pending : j.type = "GREET_MEMBER"

\* "a new member [is] active in the database after they have completed the
\* onboarding flow" (job_greet_member.go:568): of a member whose row was never
\* deleted, no mandatory answer is missing when the UPDATE_MEMBER jobs are done.
NoAnswerLost ==
    "active" \in row.columns /\ ~left /\ (\A j \in Pending : j.type # "UPDATE_MEMBER")
        => Mandatory \subseteq row.columns
===============================================================================
