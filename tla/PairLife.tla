------------------------------- MODULE PairLife -------------------------------
(***************************************************************************)
(* What happens to one match from NOTIFY_PAIR to the end of its round. The *)
(* bot introduces the pair in a group chat, asks twice, with buttons,      *)
(* whether they met (CHECK_PAIR), records the answers (UPDATE_MATCH), and  *)
(* at the end marks members inactive who stayed silent (MARK_INACTIVE).    *)
(*                                                                         *)
(* Jobs run on several goroutines, each in a transaction that run[g] sums  *)
(* up; a message in Slack cannot be rolled back. The handlers of clicks run *)
(* in the web server, next to the jobs, and commit each statement by itself:*)
(* the UPDATE that cancels check-ins waits for the rows that run.           *)
(***************************************************************************)
EXTENDS JobTypes, Sequences, FiniteSets, Tables

CONSTANTS
    Members,     \* the two members of the match
    Goroutines, Nobody,
    Handlers,    \* the clicks that are handled at the same time
    Day,         \* ticks of a day; the match is drawn on day 0
    NextRound,   \* the tick at which the next round starts
    MaxFaults,   \* bound on the jobs and handlers that fail or are shut down
    MaxChecks,   \* bound on the check-ins posted, repetitions included
    MaxAnswers   \* bound on the UPDATE_MATCH jobs pending

ASSUME PairLifeAssumption ==
    /\ Nobody \notin Goroutines
    /\ Day \in Nat /\ Day >= 1
    /\ NextRound \in Nat /\ NextRound > Day
    /\ MaxFaults \in Nat /\ MaxChecks \in Nat /\ MaxAnswers \in Nat

VARIABLES
    jobs,       \* the PENDING rows of the match, by created_at
    run,        \* the open transaction of each goroutine
    click,      \* what each handler of clicks does
    hasMet,     \* the has_met column of the match
    inactive,   \* members marked inactive
    checks,     \* the check-ins posted in the group chat
    answers,    \* history: the answers that were queued
    settled,    \* history: an answer has cancelled the check-ins,
    open,       \* history: and this many were without an answer by then
    again,      \* history: NOTIFY_PAIR was committed, and its row was not saved
    faults,
    now

vars == <<jobs, run, click, hasMet, inactive, checks, answers, settled, open, again, faults, now>>
history == <<answers, settled, open, again>>

PairJobs == {"NOTIFY_PAIR", "KICKOFF_PAIR", "CHECK_PAIR", "MARK_INACTIVE", "UPDATE_MATCH"}

\* flag: is_mid_round of CHECK_PAIR, has_met of UPDATE_MATCH. cancel: the
\* handlers whose UPDATE matched the row.
Job == [type: PairJobs, flag: BOOLEAN, due: Nat,
        taker: Goroutines \cup {Nobody}, cancel: SUBSET Handlers]
Check == [mid: BOOLEAN, answered: BOOLEAN]

\* adds: the rows to insert; senders: the members who wrote in the chat;
\* marks: the members to mark.
Run == [pc: {"idle", "exec", "done"}, adds: Seq(Job), senders: SUBSET Members, marks: SUBSET Members]
NoRun == [pc |-> "idle", adds |-> <<>>, senders |-> {}, marks |-> {}]

\* check, met: the button.
Click == [pc: {"idle", "clicked", "cancelling", "cancelled", "queued"}, check: Nat, met: BOOLEAN]
NoClick == [pc |-> "idle", check |-> 0, met |-> FALSE]

Busy(g) == run[g].pc # "idle"

\* A goroutine with a transaction, and no other, has locked one row.
TypeOK ==
    /\ jobs \in Seq(Job)
    /\ run \in [Goroutines -> Run]
    /\ click \in [Handlers -> Click]
    /\ hasMet \in BOOLEAN /\ settled \in BOOLEAN /\ open \in Nat /\ again \in BOOLEAN
    /\ inactive \subseteq Members
    /\ checks \in Seq(Check)
    /\ answers \subseteq BOOLEAN
    /\ now \in Nat /\ faults \in Nat
    /\ \A g \in Goroutines :
          Cardinality({k \in DOMAIN jobs : jobs[k].taker = g}) = IF Busy(g) THEN 1 ELSE 0
-------------------------------------------------------------------------------
(* Helpers *)

Pending == {jobs[k] : k \in DOMAIN jobs}
JobOf(g) == CHOOSE j \in Pending : j.taker = g
Runs(g, t) == run[g].pc = "exec" /\ JobOf(g).type = t
Others(g) == {k \in DOMAIN jobs : jobs[k].taker # g}
Released(g) == [k \in DOMAIN jobs |-> [jobs[k] EXCEPT !.taker = IF @ = g THEN Nobody ELSE @]]

\* GetNextJob: the due, unlocked row of the highest priority, the oldest first.
Available == {k \in DOMAIN jobs : jobs[k].due <= now /\ jobs[k].taker = Nobody}
NextJob == CHOOSE k \in Available : \A m \in Available \ {k} :
    \/ Priority(jobs[k].type) > Priority(jobs[m].type)
    \/ Priority(jobs[k].type) = Priority(jobs[m].type) /\ k < m

NewJob(t, flag, due) ==
    [type |-> t, flag |-> flag, due |-> due, taker |-> Nobody, cancel |-> {}]

\* The day in the middle, at the time of day of t2.
MidPoint(t1, t2) == LET mid == (t1 + t2) \div 2 IN (mid - (mid % Day)) + (t2 % Day)

\* Another transaction has updated the row of the match.
MatchLocked(g) ==
    \E h \in Goroutines \ {g} : run[h].pc = "done" /\ JobOf(h).type = "UPDATE_MATCH"

Unanswered == {k \in DOMAIN checks : ~checks[k].answered}

\* g goes on with its transaction.
Continue(g, r) ==
    /\ run' = [run EXCEPT ![g] = r]
    /\ UNCHANGED <<jobs, click, hasMet, inactive, history, faults, now>>
-------------------------------------------------------------------------------
(* Job functions *)

Advance ==
    /\ now < NextRound
    /\ now' = now + 1
    /\ UNCHANGED <<jobs, run, click, hasMet, inactive, checks, history, faults>>

TakeJob(g) ==
    /\ ~Busy(g) /\ Available # {}
    /\ jobs' = [jobs EXCEPT ![NextJob].taker = g]
    /\ run' = [run EXCEPT ![g].pc = "exec"]
    /\ UNCHANGED <<click, hasMet, inactive, checks, history, faults, now>>

\* NotifyPair: the introduction, then the jobs for the rest of the round: the
\* check-ins in the middle and 18 hours before its end, MARK_INACTIVE 1 hour before.
NotifyPair(g) ==
    /\ Runs(g, "NOTIFY_PAIR")
    /\ Continue(g, [run[g] EXCEPT !.pc = "done", !.adds =
           <<NewJob("KICKOFF_PAIR", FALSE, now + Day),
             NewJob("CHECK_PAIR", TRUE, MidPoint(now, NextRound)),
             NewJob("CHECK_PAIR", FALSE, NextRound - (3 * Day) \div 4),
             NewJob("MARK_INACTIVE", FALSE, NextRound - 1)>>])
    /\ UNCHANGED checks

\* KickoffPair shares an icebreaker, which changes nothing here.
KickoffPair(g) ==
    /\ Runs(g, "KICKOFF_PAIR")
    /\ Continue(g, [run[g] EXCEPT !.pc = "done"])
    /\ UNCHANGED checks

CheckPair(g) ==
    /\ Runs(g, "CHECK_PAIR") /\ Len(checks) < MaxChecks
    /\ checks' = Append(checks, [mid |-> JobOf(g).flag, answered |-> FALSE])
    /\ Continue(g, [run[g] EXCEPT !.pc = "done"])

UpdateMatch(g) ==
    /\ Runs(g, "UPDATE_MATCH") /\ ~MatchLocked(g)
    /\ Continue(g, [run[g] EXCEPT !.pc = "done"])
    /\ UNCHANGED checks

\* MarkInactive reads the history of the chat: the members who wrote, any of them,
\* and how many messages ask "Did you get a chance to connect".
MarkInactive(g) ==
    /\ Runs(g, "MARK_INACTIVE")
    /\ \E senders \in SUBSET Members :
          LET kept == IF Cardinality(Unanswered) < 2 THEN senders ELSE {} IN
              Continue(g, [run[g] EXCEPT !.pc = "done", !.senders = senders,
                                         !.marks = Members \ kept])
    /\ UNCHANGED checks

\* What fails, at most MaxFaults times.
Fault == faults < MaxFaults /\ faults' = faults + 1

\* The writes of g are committed.
Write(g) ==
    /\ run[g].pc = "done"
    /\ hasMet' = IF JobOf(g).type = "UPDATE_MATCH" THEN JobOf(g).flag ELSE hasMet
    /\ inactive' = inactive \cup run[g].marks
    /\ run' = [run EXCEPT ![g] = NoRun]
    /\ UNCHANGED <<click, checks, answers, settled, open, now>>

Commit(g) ==
    /\ Write(g)
    /\ jobs' = Where(jobs, Others(g)) \o run[g].adds
    /\ UNCHANGED <<again, faults>>

\* A shutdown cancels the context before the row is saved; the Commit needs no
\* context, so that the row stays PENDING though the job has been done.
CommitUnsaved(g) ==
    /\ Write(g) /\ Fault
    /\ jobs' = Released(g) \o run[g].adds
    /\ again' = (again \/ JobOf(g).type = "NOTIFY_PAIR")

\* Mutant of Fail: a job that failed is given up.
FailGivesUp(g) ==
    /\ Busy(g) /\ Fault
    /\ jobs' = Where(jobs, Others(g))
    /\ run' = [run EXCEPT ![g] = NoRun]
    /\ UNCHANGED <<click, hasMet, inactive, checks, history, now>>

\* Mutant of Fail: the row stays locked.
FailKeepsLock(g) ==
    /\ Busy(g) /\ Fault
    /\ run' = [run EXCEPT ![g] = NoRun]
    /\ UNCHANGED <<jobs, click, hasMet, inactive, checks, history, now>>

\* An error before or after the message was posted, or a wait for the row of the
\* match that is too long: the transaction is rolled back, the row stays PENDING.
Fail(g) ==
    /\ \/ Busy(g) /\ Fault
       \/ Runs(g, "UPDATE_MATCH") /\ MatchLocked(g) /\ UNCHANGED faults
    /\ jobs' = Released(g)
    /\ run' = [run EXCEPT ![g] = NoRun]
    /\ UNCHANGED <<click, hasMet, inactive, checks, history, now>>
-------------------------------------------------------------------------------
(* Clicks: HandleCheckPairButtons *)

\* The handler of h goes on.
Handle(h, c) ==
    /\ click' = [click EXCEPT ![h] = c]
    /\ UNCHANGED <<run, hasMet, inactive, now>>

\* h clicks a button of check-in k, as long as it is shown.
ClickButton(h, k, met) ==
    /\ click[h].pc = "idle" /\ k \in Unanswered
    /\ Handle(h, [pc |-> "clicked", check |-> k, met |-> met])
    /\ UNCHANGED <<jobs, checks, history, faults>>

\* Mutant of BeginCancel: only the check-in at the end of the round is matched.
BeginCancelEnd(h) ==
    /\ click[h].pc = "clicked" /\ click[h].met /\ checks[click[h].check].mid
    /\ jobs' = [k \in DOMAIN jobs |->
                   IF jobs[k].type = "CHECK_PAIR" /\ ~jobs[k].flag
                   THEN [jobs[k] EXCEPT !.cancel = @ \cup {h}] ELSE jobs[k]]
    /\ Handle(h, [click[h] EXCEPT !.pc = "cancelling"])
    /\ UNCHANGED <<checks, history, faults>>

\* A pair that has met by the middle of the round is not asked again: the UPDATE
\* that cancels the check-ins takes its snapshot ...
BeginCancel(h) ==
    /\ click[h].pc = "clicked" /\ click[h].met /\ checks[click[h].check].mid
    /\ jobs' = [k \in DOMAIN jobs |->
                   IF jobs[k].type = "CHECK_PAIR" THEN [jobs[k] EXCEPT !.cancel = @ \cup {h}]
                   ELSE jobs[k]]
    /\ Handle(h, [click[h] EXCEPT !.pc = "cancelling"])
    /\ UNCHANGED <<checks, history, faults>>

\* Mutant of EndCancel: the UPDATE skips the locked rows.
EndCancelSkipLocked(h) ==
    /\ click[h].pc = "cancelling"
    /\ jobs' = Where(jobs, {k \in DOMAIN jobs : h \notin jobs[k].cancel \/ jobs[k].taker # Nobody})
    /\ settled' = TRUE /\ open' = Cardinality(Unanswered)
    /\ Handle(h, [click[h] EXCEPT !.pc = "cancelled"])
    /\ UNCHANGED <<checks, answers, again, faults>>

\* ... and ends, by itself, when no goroutine runs one of the rows.
EndCancel(h) ==
    /\ click[h].pc = "cancelling"
    /\ \A j \in Pending : h \in j.cancel => j.taker = Nobody
    /\ jobs' = Where(jobs, {k \in DOMAIN jobs : h \notin jobs[k].cancel})
    /\ settled' = TRUE /\ open' = Cardinality(Unanswered)
    /\ Handle(h, [click[h] EXCEPT !.pc = "cancelled"])
    /\ UNCHANGED <<checks, answers, again, faults>>

QueueUpdateMatch(h) ==
    /\ \/ click[h].pc = "cancelled"
       \/ click[h].pc = "clicked" /\ ~(click[h].met /\ checks[click[h].check].mid)
    /\ Cardinality({k \in DOMAIN jobs : jobs[k].type = "UPDATE_MATCH"}) < MaxAnswers
    /\ jobs' = Append(jobs, NewJob("UPDATE_MATCH", click[h].met, now))
    /\ answers' = answers \cup {click[h].met}
    /\ Handle(h, [click[h] EXCEPT !.pc = "queued"])
    /\ UNCHANGED <<checks, settled, open, again, faults>>

\* The answer replaces the message and its buttons.
Respond(h) ==
    /\ click[h].pc = "queued"
    /\ checks' = [checks EXCEPT ![click[h].check].answered = TRUE]
    /\ Handle(h, NoClick)
    /\ UNCHANGED <<jobs, history, faults>>

\* A statement or the request to Slack fails, or the UPDATE waits for more than
\* 500 milliseconds: what was committed before remains, and so do the buttons.
HandlerFails(h) ==
    /\ \/ click[h].pc \in {"clicked", "cancelled", "queued"} /\ Fault
       \/ click[h].pc = "cancelling" /\ UNCHANGED faults
    /\ jobs' = [k \in DOMAIN jobs |-> [jobs[k] EXCEPT !.cancel = @ \ {h}]]
    /\ Handle(h, NoClick)
    /\ UNCHANGED <<checks, history>>
-------------------------------------------------------------------------------
Init ==
    /\ jobs = <<NewJob("NOTIFY_PAIR", FALSE, 0)>>
    /\ run = [g \in Goroutines |-> NoRun]
    /\ click = [h \in Handlers |-> NoClick]
    /\ hasMet = FALSE /\ inactive = {}
    /\ checks = <<>>
    /\ answers = {} /\ settled = FALSE /\ open = 0 /\ again = FALSE
    /\ faults = 0 /\ now = 0

Step(g) ==
    \/ TakeJob(g) \/ NotifyPair(g) \/ KickoffPair(g) \/ CheckPair(g)
    \/ UpdateMatch(g) \/ MarkInactive(g) \/ Commit(g) \/ CommitUnsaved(g) \/ Fail(g)

Answer(h) ==
    \/ \E k \in DOMAIN checks, met \in BOOLEAN : ClickButton(h, k, met)
    \/ BeginCancel(h) \/ EndCancel(h) \/ QueueUpdateMatch(h) \/ Respond(h) \/ HandlerFails(h)

Next ==
    \/ Advance
    \/ \E g \in Goroutines : Step(g)
    \/ \E h \in Handlers : Answer(h)

Spec == Init /\ [][Next]_vars
-------------------------------------------------------------------------------
(* Properties *)

\* "Cancel the end of round check-in since the pair already met"
\* (job_check_pair.go:173): once the handler has cancelled the check-ins, no
\* goroutine posts one, though some were running, or were to be retried, meanwhile;
\* unless a shutdown has left NOTIFY_PAIR, which queues them, to be run once more.
NotAskedAgain == [][settled /\ ~again => Len(checks') = Len(checks)]_vars

\* has_met is an answer that was given, and no answer is lost: when all of the
\* UPDATE_MATCH jobs are completed, it says that the pair met if all answers do.
AnswersRecorded ==
    /\ hasMet => TRUE \in answers
    /\ answers = {TRUE} => hasMet \/ \E j \in Pending : j.type = "UPDATE_MATCH"

\* Members "who responded to the CHECK_PAIR job(s)" are not marked inactive if they
\* wrote (job_mark_inactive.go:117). It holds of a pair whose check-ins were
\* cancelled while one at most was without an answer, however many a retry had
\* posted twice by then, and even if that answer never replaced the buttons.
Spares(g) == run'[g].marks \cap run'[g].senders = {}
SettledIsSpared ==
    [][settled /\ ~again /\ open < 2 => \A g \in Goroutines : run'[g] # run[g] => Spares(g)]_vars
===============================================================================
