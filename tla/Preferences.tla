------------------------------ MODULE Preferences ------------------------------
(***************************************************************************)
(* What one user asks for: whom not to be matched with, and the settings   *)
(* of the page of each channel. Every selected member becomes a            *)
(* BLOCK_MEMBER or UNBLOCK_MEMBER job, every saved page an UPDATE_MEMBER   *)
(* job; they have the same priority, and run on several goroutines, each   *)
(* in a READ COMMITTED transaction. A block is a row of blocked_members    *)
(* per channel of the user. That the user joins and leaves channels is     *)
(* Membership; here ADD_MEMBER and DELETE_MEMBER are one step each.        *)
(***************************************************************************)
EXTENDS Naturals, Sequences, FiniteSets, Tables

CONSTANTS
    Channels,
    People,      \* the others a user can select
    Self, Bots,  \* the user and bots can be selected, too
    Forms,       \* the settings the user can save
    Goroutines, Nobody, None,
    MaxRequests, \* bound on the jobs queued
    MaxMoves,    \* bound on the channels joined and left
    MaxFaults    \* bound on transient errors and shutdowns

Targets == People \cup {Self} \cup Bots

\* Settings the page sends: with or without a Calendly link.
Settings == [active: BOOLEAN, link: {"none", "link"}]

ASSUME PreferencesAssumption ==
    /\ Nobody \notin Goroutines /\ None \notin Targets \cup Channels \cup Settings
    /\ Self \notin People \cup Bots /\ People \cap Bots = {} /\ Targets \cap Channels = {}
    /\ Forms \subseteq Settings
    /\ MaxRequests \in Nat /\ MaxMoves \in Nat /\ MaxFaults \in Nat

VARIABLES
    settings,   \* the user's rows of the members table, None where there is none
    blocked,    \* the user's rows of blocked_members
    jobs,       \* the user's PENDING rows of the jobs table, by created_at
    run,        \* the open transaction of each goroutine
    count,      \* how many requests, moves and faults there have been
    asked,      \* what was last asked about each target, in which channels
    wanted,     \* the settings last saved for each channel
    excuse      \* whether jobs ran side by side, or somebody is to be blocked twice

vars == <<settings, blocked, jobs, run, count, asked, wanted, excuse>>

Row == Channels \X Targets

\* since: the channels the user has been in since the job was queued.
Job == [type: {"BLOCK_MEMBER", "UNBLOCK_MEMBER", "UPDATE_MEMBER"},
        about: Targets \cup Channels, settings: Settings \cup {None},
        since: SUBSET Channels, taker: Goroutines \cup {Nobody}]

\* todo: the channels left to insert a row for; adds, dels: uncommitted rows.
Run == [pc: {"idle", "exec", "insert", "done"}, outcome: {"SUCCEEDED", "FAILED"},
        todo: SUBSET Channels, adds: SUBSET Row, dels: SUBSET Row,
        update: Channels \cup {None}, aborted: BOOLEAN]
NoRun == [pc |-> "idle", outcome |-> "SUCCEEDED", todo |-> {}, adds |-> {}, dels |-> {},
          update |-> None, aborted |-> FALSE]

TypeOK ==
    /\ settings \in [Channels -> Settings \cup {None}]
    /\ blocked \subseteq {r \in Row : settings[r[1]] # None}  \* the foreign key
    /\ jobs \in Seq(Job)
    /\ run \in [Goroutines -> Run]
    /\ count \in [requests: 0..MaxRequests, moves: 0..MaxMoves, faults: 0..MaxFaults]
    /\ asked \in [Targets -> [last: {"none", "BLOCK_MEMBER", "UNBLOCK_MEMBER"}, since: SUBSET Channels]]
    /\ wanted \in [Channels -> Settings \cup {None}]
    /\ excuse \in [overlap: BOOLEAN, repeat: BOOLEAN]
-------------------------------------------------------------------------------
(* Helpers *)

MemberOf == {c \in Channels : settings[c] # None}
Busy(g) == run[g].pc # "idle"
JobOf(g) == jobs[CHOOSE k \in DOMAIN jobs : jobs[k].taker = g]
Runs(g, t) == Busy(g) /\ JobOf(g).type = t

Available == {k \in DOMAIN jobs : jobs[k].taker = Nobody}

\* Mutant of NextJob: the youngest row.
NextJobYoungest == CHOOSE k \in Available : \A m \in Available : k >= m

\* GetNextJob: the oldest row that is not locked.
NextJob == CHOOSE k \in Available : \A m \in Available : k <= m

\* The rows of the jobs table but for the one that g has locked.
Others(g) == {k \in DOMAIN jobs : jobs[k].taker # g}

\* The rows an open transaction of another goroutine inserted or deleted.
LockedRows(g) == UNION {run[h].adds \cup run[h].dels : h \in Goroutines \ {g}}

Queue(t, x, s) ==
    /\ count.requests < MaxRequests
    /\ jobs' = Append(jobs, [type |-> t, about |-> x, settings |-> s,
                            since |-> MemberOf, taker |-> Nobody])
    /\ count' = [count EXCEPT !.requests = @ + 1]

\* The rows, none of them locked by g any more.
Released(g) == [k \in DOMAIN jobs |-> [jobs[k] EXCEPT !.taker = IF @ = g THEN Nobody ELSE @]]

\* g goes on with its transaction.
Continue(g, r) ==
    /\ run' = [run EXCEPT ![g] = r]
    /\ UNCHANGED <<settings, blocked, jobs, count, asked, wanted, excuse>>
-------------------------------------------------------------------------------
(* The user and the HTTP handlers *)

\* A modal was submitted: an INSERT for each selected member. If one fails, those
\* before it stay queued, and the user can select anybody again.
QueueSelected(t, m) ==
    /\ Queue(t, m, None)
    /\ asked' = [asked EXCEPT ![m] = [last |-> t, since |-> MemberOf]]
    /\ excuse' = [excuse EXCEPT !.repeat =
                     @ \/ (t = "BLOCK_MEMBER" /\ asked[m].last = "BLOCK_MEMBER")]
    /\ UNCHANGED <<settings, blocked, run, wanted>>
UpsertMemberBlockList(m) == QueueSelected("BLOCK_MEMBER", m)
UpsertMemberUnblockList(m) == QueueSelected("UNBLOCK_MEMBER", m)

\* updateMemberHandler: the page of a channel is saved.
SaveSettings(c) ==
    /\ c \in MemberOf
    /\ \E s \in Forms :
          /\ Queue("UPDATE_MEMBER", c, s)
          /\ wanted' = [wanted EXCEPT ![c] = s]
    /\ UNCHANGED <<settings, blocked, run, asked, excuse>>

\* ADD_MEMBER inserts the members row.
Join(c) ==
    /\ c \notin MemberOf /\ count.moves < MaxMoves
    /\ settings' = [settings EXCEPT ![c] = [active |-> FALSE, link |-> "none"]]
    /\ count' = [count EXCEPT !.moves = @ + 1]
    /\ UNCHANGED <<blocked, jobs, run, asked, wanted, excuse>>

\* Mutant of Leave: the blocks stay.
LeaveBlocks(c) ==
    /\ c \in MemberOf /\ count.moves < MaxMoves
    /\ \A g \in Goroutines : run[g].update # c
    /\ settings' = [settings EXCEPT ![c] = None]
    /\ count' = [count EXCEPT !.moves = @ + 1]
    /\ asked' = [m \in Targets |-> [asked[m] EXCEPT !.since = @ \ {c}]]
    /\ wanted' = [wanted EXCEPT ![c] = None]
    /\ jobs' = [k \in DOMAIN jobs |-> [jobs[k] EXCEPT !.since = @ \ {c}]]
    /\ UNCHANGED <<blocked, run, excuse>>

\* DELETE_MEMBER deletes it, once no transaction has it locked, with the rows
\* that refer to it.
Leave(c) ==
    /\ c \in MemberOf /\ count.moves < MaxMoves
    /\ \A g \in Goroutines :
          /\ run[g].update # c
          /\ \A r \in run[g].adds \cup run[g].dels : r[1] # c
    /\ settings' = [settings EXCEPT ![c] = None]
    /\ blocked' = {r \in blocked : r[1] # c}
    /\ count' = [count EXCEPT !.moves = @ + 1]
    /\ asked' = [m \in Targets |-> [asked[m] EXCEPT !.since = @ \ {c}]]
    /\ wanted' = [wanted EXCEPT ![c] = None]
    /\ jobs' = [k \in DOMAIN jobs |-> [jobs[k] EXCEPT !.since = @ \ {c}]]
    /\ UNCHANGED <<run, excuse>>
-------------------------------------------------------------------------------
(* Job functions *)

TakeJob(g) ==
    /\ ~Busy(g) /\ Available # {}
    /\ jobs' = [jobs EXCEPT ![NextJob].taker = g]
    /\ run' = [run EXCEPT ![g] = [NoRun EXCEPT !.pc = "exec"]]
    /\ excuse' = [excuse EXCEPT !.overlap = @ \/ \E h \in Goroutines : Busy(h)]
    /\ UNCHANGED <<settings, blocked, count, asked, wanted>>

\* Validate: users cannot block or unblock themselves.
Reject(g) ==
    /\ Busy(g) /\ run[g].pc = "exec"
    /\ JobOf(g).about = Self
    /\ Continue(g, [run[g] EXCEPT !.pc = "done", !.outcome = "FAILED"])

\* BlockMember: bots are skipped, then the channels of the user are listed.
ListChannels(g) ==
    /\ Runs(g, "BLOCK_MEMBER") /\ run[g].pc = "exec"
    /\ JobOf(g).about # Self
    /\ IF JobOf(g).about \in Bots \/ MemberOf = {}
       THEN Continue(g, [run[g] EXCEPT !.pc = "done"])
       ELSE Continue(g, [run[g] EXCEPT !.pc = "insert", !.todo = MemberOf])

\* Mutant of InsertRow: the duplicate does not abort the transaction.
InsertRowOrReturn(g) ==
    /\ run[g].pc = "insert"
    /\ \E c \in run[g].todo :
          LET r == <<c, JobOf(g).about>> IN
          /\ c \in MemberOf /\ r \notin LockedRows(g)
          /\ IF r \in blocked
             THEN Continue(g, [run[g] EXCEPT !.pc = "done"])
             ELSE Continue(g, [run[g] EXCEPT !.adds = @ \cup {r}, !.todo = @ \ {c},
                                !.pc = IF run[g].todo = {c} THEN "done" ELSE "insert"])

\* BlockMember inserts a row; it waits for a transaction that inserted or deleted
\* the same one. A duplicate aborts the transaction, and the function returns nil.
InsertRow(g) ==
    /\ run[g].pc = "insert"
    /\ \E c \in run[g].todo :
          LET r == <<c, JobOf(g).about>> IN
          /\ c \in MemberOf /\ r \notin LockedRows(g)
          /\ IF r \in blocked
             THEN Continue(g, [run[g] EXCEPT !.pc = "done", !.aborted = TRUE])
             ELSE Continue(g, [run[g] EXCEPT !.adds = @ \cup {r}, !.todo = @ \ {c},
                                !.pc = IF run[g].todo = {c} THEN "done" ELSE "insert"])

\* UnblockMember deletes the rows it sees, in all channels.
UnblockMember(g) ==
    /\ Runs(g, "UNBLOCK_MEMBER") /\ run[g].pc = "exec"
    /\ JobOf(g).about # Self
    /\ LET rows == {r \in blocked : r[2] = JobOf(g).about} IN
          /\ rows \cap LockedRows(g) = {}
          /\ Continue(g, [run[g] EXCEPT !.pc = "done", !.dels = rows])

\* UpdateMember updates the user's row of the channel, if there is one.
UpdateMember(g) ==
    /\ Runs(g, "UPDATE_MEMBER") /\ run[g].pc = "exec"
    /\ LET c == JobOf(g).about IN
          /\ \A h \in Goroutines : run[h].update # c
          /\ Continue(g, [run[g] EXCEPT !.pc = "done",
                                        !.update = IF c \in MemberOf THEN c ELSE None])

\* Updates(member) writes the fields that are not empty.
Merge(old, new) == [active |-> new.active, link |-> IF new.link = "none" THEN old.link ELSE new.link]

\* What g has written becomes visible.
Write(g) ==
    /\ run[g].pc = "done" /\ ~run[g].aborted
    /\ LET r == run[g] IN
       /\ blocked' = (blocked \cup r.adds) \ r.dels
       /\ settings' = IF r.update = None THEN settings
                      ELSE [settings EXCEPT ![r.update] = Merge(@, JobOf(g).settings)]
    /\ run' = [run EXCEPT ![g] = NoRun]
    /\ UNCHANGED <<asked, wanted>>

\* The worker saves the status and commits.
Commit(g) ==
    /\ Write(g)
    /\ jobs' = Where(jobs, Others(g))
    /\ UNCHANGED <<count, excuse>>

\* A shutdown comes before the Save, which fails with the context; the Commit, which
\* has none, succeeds. If rows were inserted, the retry will meet them.
CommitUnsaved(g) ==
    /\ Write(g) /\ count.faults < MaxFaults
    /\ jobs' = Released(g)
    /\ count' = [count EXCEPT !.faults = @ + 1]
    /\ excuse' = [excuse EXCEPT !.repeat = @ \/ run[g].adds # {}]

\* Mutant of Rollback: the row stays locked.
RollbackKeepsLock(g) ==
    /\ run' = [run EXCEPT ![g] = NoRun]
    /\ UNCHANGED <<settings, blocked, jobs, asked, wanted, excuse>>

\* The transaction is rolled back, the row stays PENDING.
Rollback(g) ==
    /\ run' = [run EXCEPT ![g] = NoRun]
    /\ jobs' = Released(g)
    /\ UNCHANGED <<settings, blocked, asked, wanted, excuse>>

\* The Commit of an aborted transaction rolls back; so does an execution whose
\* row refers to a member who has left, or waits too long for another.
CommitAborted(g) == run[g].aborted /\ Rollback(g) /\ UNCHANGED count
GiveUp(g) ==
    /\ Busy(g) /\ run[g].pc # "done"
    /\ \/ run[g].pc = "insert" /\ run[g].todo \ MemberOf # {}
       \/ \E h \in Goroutines \ {g} : Busy(h)
    /\ Rollback(g) /\ UNCHANGED count

\* Any other error.
Fail(g) ==
    /\ Busy(g) /\ count.faults < MaxFaults
    /\ Rollback(g)
    /\ count' = [count EXCEPT !.faults = @ + 1]
-------------------------------------------------------------------------------
Init ==
    /\ settings \in [Channels -> {None, [active |-> TRUE, link |-> "none"]}]
    /\ blocked = {} /\ jobs = <<>>
    /\ run = [g \in Goroutines |-> NoRun]
    /\ count = [requests |-> 0, moves |-> 0, faults |-> 0]
    /\ asked = [m \in Targets |-> [last |-> "none", since |-> {}]]
    /\ wanted = [c \in Channels |-> None]
    /\ excuse = [overlap |-> FALSE, repeat |-> FALSE]

Step(g) ==
    \/ TakeJob(g) \/ Reject(g) \/ ListChannels(g) \/ InsertRow(g) \/ UnblockMember(g)
    \/ UpdateMember(g) \/ Commit(g) \/ CommitAborted(g) \/ GiveUp(g)

Next ==
    \/ \E m \in Targets : UpsertMemberBlockList(m) \/ UpsertMemberUnblockList(m)
    \/ \E c \in Channels : SaveSettings(c) \/ Join(c) \/ Leave(c)
    \/ \E g \in Goroutines : Step(g) \/ CommitUnsaved(g) \/ Fail(g)

Spec == Init /\ [][Next]_vars

\* The worker goes on.
FairSpec == Spec /\ \A g \in Goroutines : WF_vars(Step(g))
-------------------------------------------------------------------------------
(* Properties *)

Pending(x) == \E k \in DOMAIN jobs : jobs[k].about = x

\* While jobs do not run side by side, the last word counts, in spite of
\* errors, shutdowns, retries and modals half of which was queued: when nothing about a
\* person is pending, he or she is blocked, in every channel the user has been
\* in since, exactly if that was asked last; and so for the settings.
LastWordCounts ==
    ~excuse.overlap =>
        /\ \A m \in People, c \in Channels :
              ~Pending(m) /\ c \in asked[m].since =>
                  (<<c, m>> \in blocked <=> asked[m].last = "BLOCK_MEMBER")
        /\ \A c \in Channels : ~Pending(c) /\ wanted[c] # None =>
              /\ settings[c].active = wanted[c].active
              /\ wanted[c].link # "none" => settings[c].link = wanted[c].link

\* A BLOCK_MEMBER that completes has blocked the person in every channel of the
\* user that it listed, whatever runs next to it and even if there was a block
\* in one of them before.
BlockedEverywhere ==
    [][\A g \in Goroutines :
          /\ Runs(g, "BLOCK_MEMBER") /\ JobOf(g).about \in People
          /\ Len(jobs') < Len(jobs) /\ run'[g].pc = "idle"
          => \A c \in JobOf(g).since : <<c, JobOf(g).about>> \in blocked']_vars

\* "scheduling a background job will ensure it is reliably executed"
\* (job_block_member.go:210): all requests are carried out, unless somebody was
\* to be blocked again, by the user or because a shutdown kept the job of a block
\* that was committed, or jobs ran side by side and changed their order.
RequestsComplete ==
    (jobs # <<>> ~> jobs = <<>> \/ excuse.repeat \/ excuse.overlap)
===============================================================================
