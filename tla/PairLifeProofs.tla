---------------------------- MODULE PairLifeProofs ----------------------------
(***************************************************************************)
(* Proofs about the life of a pair, for any number of goroutines, clicks   *)
(* at the same time, check-ins and failures. A check-in is never posted    *)
(* after an answer has cancelled them because NOTIFY_PAIR, which queues    *)
(* them, is over when there is anything to click (Introduced), and because *)
(* the UPDATE of a handler has seen every one that is pending (Clicks):    *)
(* when it ends, none is left, and nothing can queue another (NoneLeft).   *)
(* All of it as long as no shutdown has left NOTIFY_PAIR to be run again.  *)
(* The last part is about what the other members are told of the draw      *)
(* (Reports).                                                              *)
(***************************************************************************)
EXTENDS PairLife, TableProofs, ReportPromise

BusyOnes == {g \in Goroutines : Busy(g)}

\* A transaction has locked one row; there is nothing else to undo.
Locks ==
    /\ OneRowEach(jobs, Goroutines, BusyOnes)
    /\ \A g \in Goroutines : ~Busy(g) => run[g] = NoRun

\* The life of a pair begins with NOTIFY_PAIR, and with nothing else.
Introduced == ~again => \A k \in DOMAIN jobs : jobs[k].type = "NOTIFY_PAIR" =>
    checks = <<>> /\ \A m \in DOMAIN jobs : m = k

\* What the transaction r of the job j has written.
Written(r, j) ==
    /\ r.pc = "exec" => r.adds = <<>> /\ r.marks = {}
    /\ \A i \in DOMAIN r.adds :
          /\ j.type = "NOTIFY_PAIR" /\ r.adds[i].type \notin {"NOTIFY_PAIR", "UPDATE_MATCH"}
          /\ r.adds[i].taker = Nobody /\ r.adds[i].cancel = {}
Transactions == \A k \in DOMAIN jobs, g \in Goroutines :
    jobs[k].taker = g => Written(run[g], jobs[k])

\* A click is on a check-in that was posted; its UPDATE matches all that are pending.
Clicks == \A h \in Handlers :
    /\ click[h].pc # "idle" => click[h].check \in DOMAIN checks
    /\ click[h].pc = "cancelling" /\ ~again =>
          \A k \in DOMAIN jobs : jobs[k].type = "CHECK_PAIR" => h \in jobs[k].cancel
    /\ \A k \in DOMAIN jobs : h \in jobs[k].cancel => jobs[k].type = "CHECK_PAIR"

NoneLeft == settled /\ ~again =>
    \A k \in DOMAIN jobs : jobs[k].type \notin {"NOTIFY_PAIR", "CHECK_PAIR"}

\* Answers only leave fewer check-ins without one.
FewOpen == settled /\ ~again => Cardinality(Unanswered) <= open

Answered ==
    /\ AnswersRecorded
    /\ \A k \in DOMAIN jobs : jobs[k].type = "UPDATE_MATCH" => jobs[k].flag \in answers

\* TypeOK without the number of locks, which Locks implies.
Typed ==
    /\ jobs \in Seq(Job)
    /\ run \in [Goroutines -> Run]
    /\ click \in [Handlers -> Click]
    /\ hasMet \in BOOLEAN /\ settled \in BOOLEAN /\ open \in Nat /\ again \in BOOLEAN
    /\ inactive \subseteq Members
    /\ checks \in Seq(Check)
    /\ answers \subseteq BOOLEAN
    /\ now \in Nat /\ faults \in Nat

Inv == Typed /\ Locks /\ Introduced /\ Transactions /\ Clicks /\ NoneLeft /\ Answered
-------------------------------------------------------------------------------
(* Rows and transactions *)

LEMMA NoRunTyped ==
  NoRun \in Run /\ NoRun.pc = "idle" /\ NoRun.adds = <<>> /\ NoRun.marks = {}
  BY DEF NoRun, Run

LEMMA InvTypes == Inv => TypeOK
<1> SUFFICES ASSUME Inv, NEW g \in Goroutines
             PROVE  Cardinality({k \in DOMAIN jobs : jobs[k].taker = g}) = IF Busy(g) THEN 1 ELSE 0
  BY DEF Inv, Typed, TypeOK
<1>1. g \in BusyOnes <=> Busy(g)
  BY DEF BusyOnes
<1> QED
  BY <1>1, LocksCounted DEF Inv, Locks

LEMMA RowOfBusy ==
  ASSUME Inv, NEW g \in Goroutines, Busy(g)
  PROVE  /\ run[g] \in Run /\ JobOf(g) \in Job /\ Written(run[g], JobOf(g))
         /\ \E k \in DOMAIN jobs : jobs[k].taker = g
         /\ \A k \in DOMAIN jobs : jobs[k].taker = g => JobOf(g) = jobs[k]
<1>1. PICK k \in DOMAIN jobs : jobs[k].taker = g
  BY DEF Inv, Locks, OneRowEach, BusyOnes
<1>2. \A n \in DOMAIN jobs : jobs[n].taker = g => n = k
  BY <1>1 DEF Inv, Locks, OneRowEach
<1>3. JobOf(g) = jobs[k]
  BY <1>1, <1>2 DEF JobOf, Pending
<1>t. jobs \in Seq(Job) /\ run \in [Goroutines -> Run]
  BY DEF Inv, Typed
<1>4. jobs[k] \in Job
  BY <1>t, ElementOfSeq
<1>5. Written(run[g], jobs[k])
  BY <1>1 DEF Inv, Transactions
<1> QED
  BY <1>1, <1>2, <1>3, <1>4, <1>5, <1>t

LEMMA UnansweredFinite == Inv => IsFiniteSet(Unanswered)
<1> SUFFICES ASSUME Inv PROVE IsFiniteSet(Unanswered)
  OBVIOUS
<1>1. checks \in Seq(Check)
  BY DEF Inv, Typed
<1>2. DOMAIN checks = 1..Len(checks) /\ Len(checks) \in Nat
  BY <1>1
<1>3. IsFiniteSet(DOMAIN checks)
  BY <1>2, FS_Interval
<1>4. Unanswered \subseteq DOMAIN checks
  BY DEF Unanswered
<1> QED
  BY <1>3, <1>4, FS_Subset

\* A row of the table is the row of a goroutine, or nobody's.
LEMMA RowTyped ==
  ASSUME Inv, NEW k \in DOMAIN jobs
  PROVE  jobs[k] \in Job
  BY ElementOfSeq DEF Inv, Typed

\* Written says nothing of the tables.
LEMMA WrittenNext ==
  \A g, k : Written(run[g], jobs[k])' <=> Written(run'[g], jobs'[k])
  BY DEF Written

LEMMA InitInv == Init => Inv
<1> SUFFICES ASSUME Init PROVE Inv
  OBVIOUS
<1> DEFINE j == NewJob("NOTIFY_PAIR", FALSE, 0)
<1>1. j \in Job /\ j.type = "NOTIFY_PAIR" /\ j.taker = Nobody /\ j.cancel = {}
  BY DEF NewJob, Job, PairJobs
<1> HIDE DEF j
<1>2. /\ jobs = <<j>> /\ run = [g \in Goroutines |-> NoRun] /\ click = [h \in Handlers |-> NoClick]
      /\ checks = <<>> /\ hasMet = FALSE /\ inactive = {} /\ answers = {} /\ settled = FALSE
      /\ open = 0 /\ again = FALSE
      /\ faults = 0 /\ now = 0
  BY DEF Init, j
<1>3. DOMAIN jobs = {1} /\ jobs[1] = j /\ jobs \in Seq(Job)
  BY <1>1, <1>2
<1>4. NoClick \in Click /\ NoClick.pc = "idle"
  BY DEF NoClick, Click
<1>5. Typed
  BY <1>2, <1>3, <1>4, NoRunTyped, EmptySeq DEF Typed
<1>6. \A g \in Goroutines : run[g] = NoRun
  BY <1>2
<1>7. Locks
  BY <1>1, <1>3, <1>6, NoRunTyped, PairLifeAssumption DEF Locks, OneRowEach, BusyOnes, Busy
<1>8. Introduced /\ Transactions
  BY <1>1, <1>2, <1>3, PairLifeAssumption DEF Introduced, Transactions
<1>9. Clicks
  BY <1>1, <1>2, <1>3, <1>4 DEF Clicks
<1>10. NoneLeft /\ Answered
  BY <1>1, <1>2, <1>3 DEF NoneLeft, Answered, AnswersRecorded
<1> QED
  BY <1>5, <1>7, <1>8, <1>9, <1>10 DEF Inv
-------------------------------------------------------------------------------
(* The jobs *)

\* g goes on with its transaction, and CHECK_PAIR posts a check-in.
LEMMA MovesInv ==
  ASSUME Inv, NEW g \in Goroutines, NEW r \in Run, Continue(g, r), Busy(g), r.pc # "idle",
         Written(r, JobOf(g)),
         checks' \in Seq(Check), DOMAIN checks \subseteq DOMAIN checks',
         checks' # checks => JobOf(g).type = "CHECK_PAIR"
  PROVE  Inv'
<1>1. /\ run' = [run EXCEPT ![g] = r] /\ run \in [Goroutines -> Run]
      /\ UNCHANGED <<jobs, click, hasMet, inactive, answers, settled, open, again, faults, now>>
  BY DEF Continue, history, Inv, Typed
<1>2. run'[g] = r /\ \A h \in Goroutines \ {g} : run'[h] = run[h]
  BY <1>1
<1>3. Typed'
  BY <1>1 DEF Inv, Typed
<1>4. Locks'
  <2>1. BusyOnes' = BusyOnes
    BY <1>2 DEF BusyOnes, Busy
  <2> QED
    BY <2>1, <1>1, <1>2 DEF Inv, Locks, Busy
<1>5. Introduced'
  <2> SUFFICES ASSUME ~again, NEW k \in DOMAIN jobs, jobs[k].type = "NOTIFY_PAIR"
               PROVE  checks' = <<>> /\ \A m \in DOMAIN jobs : m = k
    BY <1>1 DEF Introduced
  <2>1. checks = <<>> /\ \A m \in DOMAIN jobs : m = k
    BY DEF Inv, Introduced
  <2>2. JobOf(g) = jobs[k]
    BY <2>1, RowOfBusy
  <2> QED
    BY <2>1, <2>2
<1>6. Transactions'
  <2> SUFFICES ASSUME NEW k \in DOMAIN jobs, NEW h \in Goroutines, jobs[k].taker = h
               PROVE  Written(run'[h], jobs[k])
    BY <1>1, WrittenNext DEF Transactions
  <2>1. CASE h = g
    BY <2>1, <1>2, RowOfBusy
  <2>2. CASE h # g
    BY <2>2, <1>2 DEF Inv, Transactions
  <2> QED
    BY <2>1, <2>2
<1>7. Clicks' /\ NoneLeft' /\ Answered'
  BY <1>1 DEF Inv, Clicks, NoneLeft, Answered, AnswersRecorded, Pending
<1> QED
  BY <1>3, <1>4, <1>5, <1>6, <1>7 DEF Inv

\* The dates of the rest of the round are not before its start.
LEMMA RestIsNotNegative ==
  ASSUME NEW m \in Nat, NEW d \in Nat, d >= 1
  PROVE  m % d \in Nat /\ m - (m % d) \in Nat
<1>1. /\ m \div d \in Int /\ m % d \in Nat /\ m % d < d
      /\ m = d * (m \div d) + (m % d)
  OBVIOUS
<1>2. ASSUME NEW q \in Int, q < 0 PROVE d * q + d <= 0
  <2>1. q + 1 <= 0 /\ d * q + d = d * (q + 1)
    BY <1>2
  <2> QED
    BY <2>1
<1>3. m \div d >= 0
  BY <1>1, <1>2
<1>4. ASSUME NEW q \in Int, q >= 0 PROVE d * q \in Nat
  BY <1>4
<1>5. d * (m \div d) \in Nat
  BY <1>1, <1>3, <1>4
<1> QED
  BY <1>1, <1>5

LEMMA DatesTyped ==
  ASSUME NEW t \in Nat
  PROVE  /\ t + Day \in Nat /\ MidPoint(t, NextRound) \in Nat
         /\ NextRound - (3 * Day) \div 4 \in Nat /\ NextRound - 1 \in Nat
<1>1. Day \in Nat /\ Day >= 1 /\ NextRound \in Nat /\ NextRound > Day
  BY PairLifeAssumption
<1>2. (t + NextRound) \div 2 \in Nat
  BY <1>1
<1>3. MidPoint(t, NextRound) \in Nat
  <2> DEFINE mid == (t + NextRound) \div 2
             rest == NextRound % Day
  <2>1. mid - (mid % Day) \in Nat
    BY <1>1, <1>2, RestIsNotNegative
  <2>2. rest \in Nat
    BY <1>1, RestIsNotNegative
  <2>3. MidPoint(t, NextRound) = (mid - (mid % Day)) + rest
    BY DEF MidPoint
  <2> HIDE DEF mid, rest
  <2> QED
    BY <2>1, <2>2, <2>3
<1> QED
  BY <1>1, <1>3

LEMMA NewJobTyped ==
  ASSUME NEW t \in PairJobs, NEW flag \in BOOLEAN, NEW due \in Nat
  PROVE  /\ NewJob(t, flag, due) \in Job
         /\ NewJob(t, flag, due).type = t /\ NewJob(t, flag, due).flag = flag
         /\ NewJob(t, flag, due).taker = Nobody /\ NewJob(t, flag, due).cancel = {}
  BY DEF NewJob, Job

LEMMA NotifyPairInv ==
  ASSUME Inv, NEW g \in Goroutines, NotifyPair(g)
  PROVE  Inv'
<1> DEFINE kickoff == NewJob("KICKOFF_PAIR", FALSE, now + Day)
           middle == NewJob("CHECK_PAIR", TRUE, MidPoint(now, NextRound))
           last == NewJob("CHECK_PAIR", FALSE, NextRound - (3 * Day) \div 4)
           mark == NewJob("MARK_INACTIVE", FALSE, NextRound - 1)
           adds == <<kickoff, middle, last, mark>>
           r == [run[g] EXCEPT !.pc = "done", !.adds = adds]
           Later(j) == /\ j \in Job /\ j.type \notin {"NOTIFY_PAIR", "UPDATE_MATCH"}
                       /\ j.taker = Nobody /\ j.cancel = {}
<1>1. now \in Nat
  BY DEF Inv, Typed
<1>2. Later(kickoff) /\ Later(middle) /\ Later(last) /\ Later(mark)
  <2>1. ASSUME NEW t \in {"KICKOFF_PAIR", "CHECK_PAIR", "MARK_INACTIVE"}, NEW f \in BOOLEAN, NEW due \in Nat
        PROVE  Later(NewJob(t, f, due))
    <3>1. t \in PairJobs
      BY DEF PairJobs
    <3> QED
      BY <3>1, NewJobTyped
  <2> HIDE DEF Later
  <2>2. /\ now + Day \in Nat /\ MidPoint(now, NextRound) \in Nat
        /\ NextRound - (3 * Day) \div 4 \in Nat /\ NextRound - 1 \in Nat
    BY <1>1, DatesTyped
  <2> QED
    BY <2>1, <2>2
<1>3. Busy(g) /\ JobOf(g).type = "NOTIFY_PAIR" /\ Continue(g, r) /\ checks' = checks
  BY DEF NotifyPair, Runs, Busy
<1>4. run[g] \in Run
  BY <1>3, RowOfBusy
<1> HIDE DEF kickoff, middle, last, mark
<1>5. adds \in Seq(Job) /\ \A i \in DOMAIN adds : Later(adds[i])
  <2>1. DOMAIN adds = 1..4
    OBVIOUS
  <2>2. adds[1] = kickoff /\ adds[2] = middle /\ adds[3] = last /\ adds[4] = mark
    OBVIOUS
  <2>3. \A i \in 1..4 : i = 1 \/ i = 2 \/ i = 3 \/ i = 4
    OBVIOUS
  <2> QED
    BY <1>2, <2>1, <2>2, <2>3
<1> HIDE DEF adds
<1>6. r \in Run /\ r.pc = "done" /\ r.adds = adds
  BY <1>4, <1>5 DEF Run
<1> HIDE DEF r
<1>7. Written(r, JobOf(g))
  BY <1>3, <1>5, <1>6 DEF Written
<1>8. checks' \in Seq(Check)
  BY <1>3 DEF Inv, Typed
<1> QED
  BY <1>3, <1>6, <1>7, <1>8, MovesInv

LEMMA OtherJobsInv ==
  ASSUME Inv, NEW g \in Goroutines, KickoffPair(g) \/ CheckPair(g) \/ UpdateMatch(g)
  PROVE  Inv'
<1> DEFINE r == [run[g] EXCEPT !.pc = "done"]
<1>1. Busy(g) /\ run[g].pc = "exec" /\ Continue(g, r)
  BY DEF KickoffPair, CheckPair, UpdateMatch, Runs, Busy
<1>2. run[g] \in Run /\ Written(run[g], JobOf(g))
  BY <1>1, RowOfBusy
<1>3. r \in Run /\ r.pc = "done" /\ r.adds = <<>>
  BY <1>1, <1>2 DEF Run, Written
<1> HIDE DEF r
<1>4. Written(r, JobOf(g))
  BY <1>3 DEF Written
<1>5. checks \in Seq(Check)
  BY DEF Inv, Typed
<1>6. CASE KickoffPair(g) \/ UpdateMatch(g)
  BY <1>1, <1>3, <1>4, <1>5, <1>6, MovesInv DEF KickoffPair, UpdateMatch
<1>7. CASE CheckPair(g)
  <2> DEFINE c == [mid |-> JobOf(g).flag, answered |-> FALSE]
  <2>1. c \in Check
    <3>1. JobOf(g).flag \in BOOLEAN
      BY <1>1, RowOfBusy DEF Job
    <3> QED
      BY <3>1 DEF Check
  <2>2. checks' = Append(checks, c) /\ JobOf(g).type = "CHECK_PAIR"
    BY <1>7 DEF CheckPair, Runs
  <2> HIDE DEF c
  <2>3. checks' \in Seq(Check) /\ DOMAIN checks \subseteq DOMAIN checks'
    BY <1>5, <2>1, <2>2
  <2> QED
    BY <1>1, <1>3, <1>4, <2>2, <2>3, MovesInv
<1> QED
  BY <1>6, <1>7

LEMMA MarkInactiveInv ==
  ASSUME Inv, NEW g \in Goroutines, MarkInactive(g)
  PROVE  Inv'
<1>1. PICK senders \in SUBSET Members, kept \in SUBSET Members :
         Continue(g, [run[g] EXCEPT !.pc = "done", !.senders = senders, !.marks = Members \ kept])
  BY DEF MarkInactive
<1> DEFINE r == [run[g] EXCEPT !.pc = "done", !.senders = senders, !.marks = Members \ kept]
<1>2. Busy(g) /\ run[g].pc = "exec" /\ checks' = checks
  BY DEF MarkInactive, Runs, Busy
<1>3. run[g] \in Run /\ Written(run[g], JobOf(g))
  BY <1>2, RowOfBusy
<1>4. r \in Run /\ r.pc = "done" /\ r.adds = <<>>
  BY <1>2, <1>3 DEF Run, Written
<1>5. Continue(g, r)
  BY <1>1
<1> HIDE DEF r
<1>6. Written(r, JobOf(g))
  BY <1>4 DEF Written
<1>7. checks' \in Seq(Check)
  BY <1>2 DEF Inv, Typed
<1> QED
  BY <1>2, <1>4, <1>5, <1>6, <1>7, MovesInv

-------------------------------------------------------------------------------
(* Rows that change, and stay *)

\* Locks and cancellations change no job.
LEMMA JobsKept ==
  ASSUME Inv, DOMAIN jobs' = DOMAIN jobs, UNCHANGED <<hasMet, answers, settled, open, again>>,
         checks = <<>> => checks' = <<>>,
         \A k \in DOMAIN jobs : jobs'[k].type = jobs[k].type /\ jobs'[k].flag = jobs[k].flag
  PROVE  Introduced' /\ NoneLeft' /\ Answered'
<1>1. Introduced' /\ NoneLeft'
  BY DEF Inv, Introduced, NoneLeft
<1>2. (\E j \in Pending : j.type = "UPDATE_MATCH") => \E j \in Pending' : j.type = "UPDATE_MATCH"
  <2> SUFFICES ASSUME NEW k \in DOMAIN jobs, jobs[k].type = "UPDATE_MATCH"
               PROVE  \E j \in Pending' : j.type = "UPDATE_MATCH"
    BY DEF Pending
  <2>1. jobs'[k].type = "UPDATE_MATCH" /\ jobs'[k] \in Pending'
    BY DEF Pending
  <2> QED
    BY <2>1
<1>3. Answered'
  BY <1>2 DEF Inv, Answered, AnswersRecorded
<1> QED
  BY <1>1, <1>3

LEMMA NextJobAvailable ==
  ASSUME Inv, Available # {}
  PROVE  NextJob \in Available
<1> DEFINE p == [k \in Available |-> Priority(jobs[k].type)]
<1>1. Available \subseteq Nat
  BY DEF Available, Inv, Typed
<1>2. p \in [Available -> 0..10]
  BY DEF Priority, Highest, High, Standard, Low, Lowest
<1> HIDE DEF p
<1>3. PICK x \in Available : \A m \in Available \ {x} : p[x] > p[m] \/ (p[x] = p[m] /\ x < m)
  BY <1>1, <1>2, FirstInLine
<1>4. \E y \in Available : \A m \in Available \ {y} :
         \/ Priority(jobs[y].type) > Priority(jobs[m].type)
         \/ Priority(jobs[y].type) = Priority(jobs[m].type) /\ y < m
  BY <1>3 DEF p
<1> QED
  BY <1>4 DEF NextJob

LEMMA TakeJobInv ==
  ASSUME Inv, NEW g \in Goroutines, TakeJob(g)
  PROVE  Inv'
<1> DEFINE n == NextJob
           r == [NoRun EXCEPT !.pc = "exec"]
<1>1. n \in DOMAIN jobs /\ jobs[n].taker = Nobody
  BY NextJobAvailable DEF TakeJob, Available
<1>2. jobs \in Seq(Job) /\ jobs[n] \in Job /\ run \in [Goroutines -> Run]
  BY <1>1, RowTyped DEF Inv, Typed
<1>3. /\ jobs' = [jobs EXCEPT ![n].taker = g] /\ run' = [run EXCEPT ![g].pc = "exec"]
      /\ UNCHANGED <<click, hasMet, inactive, checks, answers, settled, open, again, faults, now>>
      /\ ~Busy(g) /\ run[g] = NoRun
  BY DEF TakeJob, history, Inv, Locks
<1> HIDE DEF n
<1>4. /\ DOMAIN jobs' = DOMAIN jobs /\ jobs'[n].taker = g /\ [jobs[n] EXCEPT !.taker = g] \in Job
      /\ \A k \in DOMAIN jobs :
            /\ jobs'[k].type = jobs[k].type /\ jobs'[k].flag = jobs[k].flag
            /\ jobs'[k].cancel = jobs[k].cancel
      /\ \A k \in DOMAIN jobs \ {n} : jobs'[k] = jobs[k]
  BY <1>1, <1>2, <1>3 DEF Job
<1>5. jobs' \in Seq(Job)
  BY <1>1, <1>2, <1>3, <1>4, ExceptSeq
<1>6. r \in Run /\ r.pc = "exec" /\ r.adds = <<>> /\ r.marks = {} /\ run' = [run EXCEPT ![g] = r]
  BY <1>2, <1>3, NoRunTyped DEF Run
<1> HIDE DEF r
<1>7. run'[g] = r /\ (\A h \in Goroutines \ {g} : run'[h] = run[h]) /\ run' \in [Goroutines -> Run]
  BY <1>2, <1>6
<1>8. Typed'
  BY <1>3, <1>5, <1>7 DEF Inv, Typed
<1>9. Locks'
  <2>1. BusyOnes' = BusyOnes \cup {g} /\ g \notin BusyOnes
    BY <1>3, <1>6, <1>7 DEF BusyOnes, Busy
  <2>2. OneRowEach(jobs, Goroutines, BusyOnes) /\ jobs[n].taker \notin Goroutines
    BY <1>1, PairLifeAssumption DEF Inv, Locks
  <2>3. OneRowEach(jobs', Goroutines, BusyOnes')
    BY <2>1, <2>2, <1>1, <1>4, LockTaken
  <2> QED
    BY <2>3, <1>6, <1>7 DEF Inv, Locks, Busy
<1>10. Introduced' /\ NoneLeft' /\ Answered'
  BY <1>3, <1>4, JobsKept
<1>11. Clicks'
  BY <1>3, <1>4 DEF Inv, Clicks
<1>12. Transactions'
  <2> SUFFICES ASSUME NEW k \in DOMAIN jobs, NEW h \in Goroutines, jobs'[k].taker = h
               PROVE  Written(run'[h], jobs'[k])
    BY <1>4, WrittenNext DEF Transactions
  <2>1. CASE h = g
    BY <2>1, <1>6, <1>7, EmptySeq DEF Written
  <2>2. CASE h # g
    <3>1. k # n /\ jobs'[k] = jobs[k] /\ run'[h] = run[h]
      BY <2>2, <1>4, <1>7
    <3> QED
      BY <3>1 DEF Inv, Transactions
  <2> QED
    BY <2>1, <2>2
<1> QED
  BY <1>8, <1>9, <1>10, <1>11, <1>12 DEF Inv

LEMMA FailInv ==
  ASSUME Inv, NEW g \in Goroutines, Fail(g)
  PROVE  Inv'
<1>1. /\ jobs' = [k \in DOMAIN jobs |-> [jobs[k] EXCEPT !.taker = IF @ = g THEN Nobody ELSE @]]
      /\ run' = [run EXCEPT ![g] = NoRun] /\ run \in [Goroutines -> Run] /\ jobs \in Seq(Job)
      /\ UNCHANGED <<click, hasMet, inactive, checks, answers, settled, open, again, now>>
      /\ faults' \in Nat
  BY DEF Fail, Fault, Released, history, Inv, Typed
<1>2. run'[g] = NoRun /\ (\A h \in Goroutines \ {g} : run'[h] = run[h]) /\ run' \in [Goroutines -> Run]
  BY <1>1, NoRunTyped
<1>3. ASSUME NEW k \in DOMAIN jobs
      PROVE  /\ jobs'[k] \in Job
             /\ jobs'[k].taker = IF jobs[k].taker = g THEN Nobody ELSE jobs[k].taker
             /\ jobs'[k].type = jobs[k].type /\ jobs'[k].flag = jobs[k].flag
             /\ jobs'[k].cancel = jobs[k].cancel
  <2>1. jobs[k] \in Job
    BY RowTyped
  <2> QED
    BY <2>1, <1>1 DEF Job
<1>4. DOMAIN jobs' = DOMAIN jobs
  BY <1>1
<1>5. jobs' \in Seq(Job)
  <2>1. DOMAIN jobs = 1..Len(jobs) /\ Len(jobs) \in Nat
    BY <1>1
  <2>2. jobs' = [k \in 1..Len(jobs) |-> jobs'[k]]
    BY <2>1, <1>1
  <2> QED
    BY <2>1, <2>2, <1>3, IsASeq
<1>6. Typed'
  BY <1>1, <1>2, <1>5 DEF Inv, Typed
<1>7. Locks'
  <2>1. BusyOnes' = BusyOnes \ {g}
    BY <1>2, NoRunTyped DEF BusyOnes, Busy
  <2>2. OneRowEach(jobs, Goroutines, BusyOnes) /\ Nobody \notin Goroutines
    BY PairLifeAssumption DEF Inv, Locks
  <2>3. OneRowEach(jobs', Goroutines, BusyOnes')
    BY <2>1, <2>2, <1>3, <1>4, LockReleased
  <2> QED
    BY <2>3, <1>2 DEF Inv, Locks, Busy
<1>8. Introduced' /\ NoneLeft' /\ Answered'
  BY <1>1, <1>3, <1>4, JobsKept
<1>9. Clicks'
  <2> SUFFICES ASSUME NEW h \in Handlers
               PROVE  /\ click[h].pc # "idle" => click[h].check \in DOMAIN checks
                      /\ click[h].pc = "cancelling" /\ ~again =>
                            \A k \in DOMAIN jobs : jobs'[k].type = "CHECK_PAIR" => h \in jobs'[k].cancel
                      /\ \A k \in DOMAIN jobs : h \in jobs'[k].cancel => jobs'[k].type = "CHECK_PAIR"
    BY <1>1, <1>4 DEF Clicks
  <2> QED
    BY <1>3 DEF Inv, Clicks
<1>10. Transactions'
  <2> SUFFICES ASSUME NEW k \in DOMAIN jobs, NEW h \in Goroutines, jobs'[k].taker = h
               PROVE  Written(run'[h], jobs'[k])
    BY <1>4, WrittenNext DEF Transactions
  <2>1. h # g /\ jobs[k].taker = h
    BY <1>3, PairLifeAssumption
  <2>2. Written(run[h], jobs[k])
    BY <2>1 DEF Inv, Transactions
  <2> QED
    BY <2>1, <2>2, <1>2, <1>3 DEF Written
<1> QED
  BY <1>6, <1>7, <1>8, <1>9, <1>10 DEF Inv

LEMMA AdvanceInv ==
  ASSUME Inv, Advance
  PROVE  Inv'
<1>1. UNCHANGED <<jobs, run, click, hasMet, inactive, checks, answers, settled, open, again, faults>>
  BY DEF Advance, history
<1>2. Typed'
  BY <1>1 DEF Advance, Inv, Typed
<1>3. Locks'
  BY <1>1 DEF Inv, Locks, BusyOnes, Busy
<1>5. Transactions'
  BY <1>1, WrittenNext DEF Inv, Transactions
<1>4. Introduced' /\ Clicks' /\ NoneLeft' /\ Answered'
  BY <1>1 DEF Inv, Introduced, Clicks, NoneLeft, Answered, AnswersRecorded, Pending
<1> QED
  BY <1>2, <1>3, <1>4, <1>5 DEF Inv

LEMMA CommitInv ==
  ASSUME Inv, NEW g \in Goroutines, Commit(g)
  PROVE  Inv'
<1> DEFINE j == JobOf(g)
           adds == run[g].adds
<1>1. /\ run' = [run EXCEPT ![g] = NoRun] /\ jobs' = Where(jobs, Others(g)) \o adds
      /\ hasMet' = (IF j.type = "UPDATE_MATCH" THEN j.flag ELSE hasMet)
      /\ inactive' = inactive \cup run[g].marks
      /\ UNCHANGED <<click, checks, answers, settled, open, again, faults, now>>
      /\ Busy(g)
  BY DEF Commit, Write, Busy
<1>2. jobs \in Seq(Job) /\ run \in [Goroutines -> Run]
  BY DEF Inv, Typed
<1>3. run[g] \in Run /\ j \in Job /\ Written(run[g], j)
  BY <1>1, RowOfBusy
<1>4. PICK own \in DOMAIN jobs : jobs[own].taker = g /\ jobs[own] = j
  BY <1>1, RowOfBusy
<1>5. /\ adds \in Seq(Job) /\ run[g].marks \subseteq Members
      /\ \A i \in DOMAIN adds : /\ j.type = "NOTIFY_PAIR"
                                /\ adds[i].type \notin {"NOTIFY_PAIR", "UPDATE_MATCH"}
                                /\ adds[i].taker = Nobody /\ adds[i].cancel = {}
  BY <1>3 DEF Run, Written
<1> HIDE DEF adds, j
<1>6. \A k \in DOMAIN jobs : k \in Others(g) <=> jobs[k].taker # g
  BY DEF Others
<1>7. Others(g) \subseteq DOMAIN jobs
  BY DEF Others
<1>8. /\ jobs' \in Seq(Job)
      /\ \E n \in Nat : \E at : TableOf(jobs', jobs, Others(g), adds, n, at)
  BY <1>1, <1>2, <1>5, <1>7, RowsOfTable
<1>9. PICK n \in Nat : \E at : TableOf(jobs', jobs, Others(g), adds, n, at)
  BY <1>8
<1>10. PICK at : TableOf(jobs', jobs, Others(g), adds, n, at)
  BY <1>9
<1>11. ASSUME NEW x \in DOMAIN jobs'
       PROVE  \/ \E k \in DOMAIN jobs : jobs[k].taker # g /\ jobs'[x] = jobs[k]
              \/ /\ j.type = "NOTIFY_PAIR" /\ jobs'[x].type \notin {"NOTIFY_PAIR", "UPDATE_MATCH"}
                 /\ jobs'[x].taker = Nobody /\ jobs'[x].cancel = {}
  <2>1. CASE x \in 1..n
    BY <2>1, <1>6, <1>7, <1>10 DEF TableOf
  <2>2. CASE \E i \in DOMAIN adds : x = n + i
    BY <2>2, <1>5, <1>10 DEF TableOf
  <2> QED
    BY <2>1, <2>2, <1>10 DEF TableOf
<1>12. \A k \in DOMAIN jobs : jobs[k].taker # g => \E x \in DOMAIN jobs' : jobs'[x] = jobs[k]
  BY <1>6, <1>10 DEF TableOf
<1>13. run'[g] = NoRun /\ (\A h \in Goroutines \ {g} : run'[h] = run[h]) /\ run' \in [Goroutines -> Run]
  BY <1>1, <1>2, NoRunTyped
<1>14. j.type = "NOTIFY_PAIR" /\ ~again => /\ checks = <<>> /\ \A h \in Handlers : click[h].pc = "idle"
                                           /\ ~settled /\ \A m \in DOMAIN jobs : m = own
  <2> SUFFICES ASSUME j.type = "NOTIFY_PAIR", ~again
               PROVE  /\ checks = <<>> /\ \A h \in Handlers : click[h].pc = "idle"
                      /\ ~settled /\ \A m \in DOMAIN jobs : m = own
    OBVIOUS
  <2>1. checks = <<>> /\ \A m \in DOMAIN jobs : m = own
    BY <1>4 DEF Inv, Introduced
  <2>2. \A h \in Handlers : click[h].pc = "idle"
    BY <2>1, EmptySeq DEF Inv, Clicks
  <2>3. ~settled
    BY <1>4 DEF Inv, NoneLeft
  <2> QED
    BY <2>1, <2>2, <2>3
<1>15. Typed'
  <2>1. hasMet' \in BOOLEAN
    BY <1>1, <1>3 DEF Job, Inv, Typed
  <2> QED
    BY <1>1, <1>5, <1>8, <1>13, <2>1 DEF Inv, Typed
<1>16. Locks'
  <2>1. BusyOnes' = BusyOnes \ {g}
    BY <1>13, NoRunTyped DEF BusyOnes, Busy
  <2>2. OneRowEach(jobs, Goroutines, BusyOnes) /\ \A i \in DOMAIN adds : adds[i].taker \notin Goroutines
    BY <1>5, PairLifeAssumption DEF Inv, Locks
  <2>3. OneRowEach(jobs', Goroutines, BusyOnes')
    BY <2>1, <2>2, <1>6, <1>7, <1>10, LockCommitted
  <2> QED
    BY <2>3, <1>13 DEF Inv, Locks, Busy
<1>17. ~again => \A x \in DOMAIN jobs' : jobs'[x].type # "NOTIFY_PAIR"
  <2> SUFFICES ASSUME ~again, NEW k \in DOMAIN jobs, jobs[k].taker # g, jobs[k].type = "NOTIFY_PAIR"
               PROVE  FALSE
    BY <1>11
  <2>1. own = k
    BY DEF Inv, Introduced
  <2> QED
    BY <2>1, <1>4
<1>18. Introduced'
  BY <1>1, <1>17 DEF Introduced
<1>19. Transactions'
  <2> SUFFICES ASSUME NEW x \in DOMAIN jobs', NEW h \in Goroutines, jobs'[x].taker = h
               PROVE  Written(run'[h], jobs'[x])
    BY WrittenNext DEF Transactions
  <2>1. PICK k \in DOMAIN jobs : jobs[k].taker # g /\ jobs'[x] = jobs[k]
    BY <1>11, PairLifeAssumption
  <2>2. h # g /\ jobs[k].taker = h
    BY <2>1
  <2> QED
    BY <2>1, <2>2, <1>13 DEF Inv, Transactions
<1>20. Clicks'
  <2> SUFFICES ASSUME NEW h \in Handlers
               PROVE  /\ click[h].pc # "idle" => click[h].check \in DOMAIN checks
                      /\ \A x \in DOMAIN jobs' :
                            /\ click[h].pc = "cancelling" /\ ~again =>
                                  (jobs'[x].type = "CHECK_PAIR" => h \in jobs'[x].cancel)
                            /\ h \in jobs'[x].cancel => jobs'[x].type = "CHECK_PAIR"
    BY <1>1 DEF Clicks
  <2>1. click[h].pc # "idle" => click[h].check \in DOMAIN checks
    BY DEF Inv, Clicks
  <2>2. ASSUME NEW x \in DOMAIN jobs'
        PROVE  /\ click[h].pc = "cancelling" /\ ~again =>
                     (jobs'[x].type = "CHECK_PAIR" => h \in jobs'[x].cancel)
               /\ h \in jobs'[x].cancel => jobs'[x].type = "CHECK_PAIR"
    <3>1. CASE \E k \in DOMAIN jobs : jobs[k].taker # g /\ jobs'[x] = jobs[k]
      BY <3>1 DEF Inv, Clicks
    <3>2. CASE j.type = "NOTIFY_PAIR" /\ jobs'[x].cancel = {}
      BY <3>2, <1>14
    <3> QED
      BY <3>1, <3>2, <1>11
  <2> QED
    BY <2>1, <2>2
<1>21. NoneLeft'
  <2> SUFFICES ASSUME settled, ~again, NEW x \in DOMAIN jobs'
               PROVE  jobs'[x].type \notin {"NOTIFY_PAIR", "CHECK_PAIR"}
    BY <1>1 DEF NoneLeft
  <2> QED
    BY <1>11, <1>14 DEF Inv, NoneLeft
<1>22. Answered'
  <2>1. \A x \in DOMAIN jobs' : jobs'[x].type = "UPDATE_MATCH" => jobs'[x].flag \in answers
    BY <1>11 DEF Inv, Answered
  <2>2. hasMet' => TRUE \in answers
    <3>1. j.type = "UPDATE_MATCH" => j.flag \in answers /\ j.flag \in BOOLEAN
      BY <1>3, <1>4 DEF Inv, Answered, Job
    <3> QED
      BY <3>1, <1>1 DEF Inv, Answered, AnswersRecorded
  <2>3. ASSUME answers = {TRUE}, ~hasMet' PROVE \E i \in Pending' : i.type = "UPDATE_MATCH"
    <3>1. j.type # "UPDATE_MATCH"
      <4> SUFFICES ASSUME j.type = "UPDATE_MATCH" PROVE FALSE
        OBVIOUS
      <4>1. j.flag \in answers
        BY <1>4 DEF Inv, Answered
      <4> QED
        BY <4>1, <2>3, <1>1
    <3>2. ~hasMet
      BY <3>1, <2>3, <1>1
    <3>3. PICK k \in DOMAIN jobs : jobs[k].type = "UPDATE_MATCH"
      BY <3>2, <2>3 DEF Inv, Answered, AnswersRecorded, Pending
    <3>4. jobs[k].taker # g
      BY <3>1, <3>3, <1>1, RowOfBusy DEF j
    <3>5. PICK x \in DOMAIN jobs' : jobs'[x] = jobs[k]
      BY <3>4, <1>12
    <3>6. jobs'[x] \in Pending'
      BY DEF Pending
    <3> QED
      BY <3>3, <3>5, <3>6
  <2> QED
    BY <1>1, <2>1, <2>2, <2>3 DEF Answered, AnswersRecorded
<1> QED
  BY <1>15, <1>16, <1>18, <1>19, <1>20, <1>21, <1>22 DEF Inv

\* The row stays. Other rows come with it only when NOTIFY_PAIR is to be run again.
LEMMA CommitUnsavedInv ==
  ASSUME Inv, NEW g \in Goroutines, CommitUnsaved(g)
  PROVE  Inv'
<1> DEFINE j == JobOf(g)
           adds == run[g].adds
           old == Released(g)
           N == Len(jobs)
<1>1. /\ run' = [run EXCEPT ![g] = NoRun] /\ jobs' = old \o adds
      /\ hasMet' = (IF j.type = "UPDATE_MATCH" THEN j.flag ELSE hasMet)
      /\ inactive' = inactive \cup run[g].marks
      /\ again' = (again \/ j.type = "NOTIFY_PAIR")
      /\ UNCHANGED <<click, checks, answers, settled, open, now>>
      /\ faults' = faults + 1 /\ Busy(g)
  BY DEF CommitUnsaved, Write, Fault, Busy
<1>2. jobs \in Seq(Job) /\ run \in [Goroutines -> Run] /\ faults \in Nat /\ again \in BOOLEAN
  BY DEF Inv, Typed
<1>3. run[g] \in Run /\ j \in Job /\ Written(run[g], j)
  BY <1>1, RowOfBusy
<1>4. PICK own \in DOMAIN jobs : jobs[own].taker = g /\ jobs[own] = j
  BY <1>1, RowOfBusy
<1>5. /\ adds \in Seq(Job) /\ run[g].marks \subseteq Members
      /\ \A i \in DOMAIN adds : /\ j.type = "NOTIFY_PAIR"
                                /\ adds[i].type \notin {"NOTIFY_PAIR", "UPDATE_MATCH"}
                                /\ adds[i].taker = Nobody /\ adds[i].cancel = {}
  BY <1>3 DEF Run, Written
<1>6. DOMAIN jobs = 1..N /\ N \in Nat
  BY <1>2
<1>7. ASSUME NEW k \in DOMAIN jobs
      PROVE  /\ old[k] \in Job
             /\ old[k].taker = IF jobs[k].taker = g THEN Nobody ELSE jobs[k].taker
             /\ old[k].type = jobs[k].type /\ old[k].flag = jobs[k].flag
             /\ old[k].cancel = jobs[k].cancel
  <2>1. jobs[k] \in Job
    BY RowTyped
  <2> QED
    BY <2>1 DEF Job, Released
<1>8. DOMAIN old = 1..N /\ old = [k \in 1..N |-> old[k]]
  BY <1>6 DEF Released
<1> HIDE DEF adds, j, old, N
<1>9. old \in Seq(Job)
  BY <1>6, <1>7, <1>8, IsASeq
<1>10. Len(old) = N
  BY <1>6, <1>8, <1>9
<1>11. /\ jobs' \in Seq(Job)
       /\ DOMAIN jobs' = DOMAIN jobs \cup {N + i : i \in DOMAIN adds}
       /\ \A k \in DOMAIN jobs : jobs'[k] = old[k]
       /\ \A i \in DOMAIN adds : jobs'[N + i] = adds[i]
       /\ \A i \in DOMAIN adds : N + i \notin DOMAIN jobs
  <2>1. jobs' \in Seq(Job) /\ Len(jobs') = N + Len(adds)
    <3>1. adds \in Seq(Job) /\ jobs' = old \o adds
      BY <1>1, <1>5
    <3> QED
      BY <3>1, <1>9, <1>10, ConcatProperties
  <2>2. DOMAIN jobs' = 1..(N + Len(adds)) /\ DOMAIN adds = 1..Len(adds) /\ Len(adds) \in Nat
    BY <2>1, <1>5
  <2>3. DOMAIN jobs' = DOMAIN jobs \cup {N + i : i \in DOMAIN adds}
    <3>1. ASSUME NEW x \in 1..(N + Len(adds)), x \notin 1..N PROVE \E i \in DOMAIN adds : x = N + i
      <4>1. x - N \in DOMAIN adds /\ x = N + (x - N)
        BY <3>1, <2>2, <1>6
      <4> QED
        BY <4>1
    <3>2. ASSUME NEW i \in DOMAIN adds PROVE N + i \in 1..(N + Len(adds))
      BY <2>2, <1>6
    <3>3. 1..N \subseteq 1..(N + Len(adds))
      BY <2>2, <1>6
    <3> QED
      BY <3>1, <3>2, <3>3, <2>2, <1>6
  <2>4. \A k \in DOMAIN jobs : jobs'[k] = old[k]
    BY <1>1, <1>5, <1>6, <1>9, <1>10
  <2>5. \A i \in DOMAIN adds : jobs'[N + i] = adds[i]
    BY <1>1, <1>5, <1>6, <1>9, <1>10, <2>2
  <2>6. \A i \in DOMAIN adds : N + i \notin DOMAIN jobs
    BY <1>6, <2>2
  <2> QED
    BY <2>1, <2>3, <2>4, <2>5, <2>6
<1>12. ASSUME NEW x \in DOMAIN jobs'
       PROVE  \/ x \in DOMAIN jobs /\ jobs'[x] = old[x]
              \/ /\ x \notin DOMAIN jobs /\ j.type = "NOTIFY_PAIR"
                 /\ jobs'[x].type \notin {"NOTIFY_PAIR", "UPDATE_MATCH"}
                 /\ jobs'[x].taker = Nobody /\ jobs'[x].cancel = {}
  BY <1>5, <1>11
<1>13. run'[g] = NoRun /\ (\A h \in Goroutines \ {g} : run'[h] = run[h]) /\ run' \in [Goroutines -> Run]
  BY <1>1, <1>2, NoRunTyped
<1>14. again' \in BOOLEAN /\ (~again' => ~again /\ DOMAIN jobs' = DOMAIN jobs)
  <2>1. ~again' => ~again /\ j.type # "NOTIFY_PAIR"
    BY <1>1
  <2>2. again' \in BOOLEAN
    BY <1>1
  <2>3. j.type # "NOTIFY_PAIR" => DOMAIN jobs' = DOMAIN jobs
    BY <1>5, <1>11
  <2> QED
    BY <2>1, <2>2, <2>3
<1>15. Typed'
  <2>1. hasMet' \in BOOLEAN
    BY <1>1, <1>3 DEF Job, Inv, Typed
  <2> QED
    BY <1>1, <1>2, <1>5, <1>11, <1>13, <1>14, <2>1 DEF Inv, Typed
<1>16. Locks'
  <2>1. BusyOnes' = BusyOnes \ {g}
    BY <1>13, NoRunTyped DEF BusyOnes, Busy
  <2>2. OneRowEach(jobs, Goroutines, BusyOnes) /\ Nobody \notin Goroutines
    BY PairLifeAssumption DEF Inv, Locks
  <2>3. OneRowEach(old, Goroutines, BusyOnes \ {g})
    BY <2>2, <1>6, <1>7, <1>8, LockReleased
  <2>4. OneRowEach(jobs', Goroutines, BusyOnes \ {g})
    <3>1. \A x \in DOMAIN jobs' \ DOMAIN old : jobs'[x].taker \notin Goroutines
      BY <1>6, <1>8, <1>12, <2>2
    <3>2. DOMAIN old \subseteq DOMAIN jobs' /\ \A k \in DOMAIN old : jobs'[k].taker = old[k].taker
      BY <1>6, <1>8, <1>11
    <3> QED
      BY <2>3, <3>1, <3>2, LocksKept
  <2> QED
    BY <2>1, <2>4, <1>13 DEF Inv, Locks, Busy
<1>17. Introduced' /\ NoneLeft'
  <2> SUFFICES ASSUME ~again' PROVE Introduced' /\ NoneLeft'
    BY DEF Introduced, NoneLeft
  <2>1. ~again /\ DOMAIN jobs' = DOMAIN jobs /\ \A k \in DOMAIN jobs : jobs'[k].type = jobs[k].type
    BY <1>7, <1>11, <1>14
  <2> QED
    BY <2>1, <1>1 DEF Inv, Introduced, NoneLeft
<1>18. Transactions'
  <2> SUFFICES ASSUME NEW x \in DOMAIN jobs', NEW h \in Goroutines, jobs'[x].taker = h
               PROVE  Written(run'[h], jobs'[x])
    BY WrittenNext DEF Transactions
  <2>1. x \in DOMAIN jobs /\ jobs'[x] = old[x]
    BY <1>12, PairLifeAssumption
  <2>2. h # g /\ jobs[x].taker = h
    BY <2>1, <1>7, PairLifeAssumption
  <2>3. Written(run[h], jobs[x])
    BY <2>1, <2>2 DEF Inv, Transactions
  <2> QED
    BY <2>1, <2>2, <2>3, <1>7, <1>13 DEF Written
<1>19. Clicks'
  <2> SUFFICES ASSUME NEW h \in Handlers
               PROVE  /\ click[h].pc # "idle" => click[h].check \in DOMAIN checks
                      /\ \A x \in DOMAIN jobs' :
                            /\ click[h].pc = "cancelling" /\ ~again' =>
                                  (jobs'[x].type = "CHECK_PAIR" => h \in jobs'[x].cancel)
                            /\ h \in jobs'[x].cancel => jobs'[x].type = "CHECK_PAIR"
    BY <1>1 DEF Clicks
  <2>1. click[h].pc # "idle" => click[h].check \in DOMAIN checks
    BY DEF Inv, Clicks
  <2>2. ASSUME NEW x \in DOMAIN jobs'
        PROVE  /\ click[h].pc = "cancelling" /\ ~again' =>
                     (jobs'[x].type = "CHECK_PAIR" => h \in jobs'[x].cancel)
               /\ h \in jobs'[x].cancel => jobs'[x].type = "CHECK_PAIR"
    <3>1. CASE x \in DOMAIN jobs /\ jobs'[x] = old[x]
      BY <3>1, <1>7, <1>14 DEF Inv, Clicks
    <3>2. CASE x \notin DOMAIN jobs /\ jobs'[x].cancel = {}
      BY <3>2, <1>14
    <3> QED
      BY <3>1, <3>2, <1>12
  <2> QED
    BY <2>1, <2>2
<1>20. Answered'
  <2>1. \A x \in DOMAIN jobs' : jobs'[x].type = "UPDATE_MATCH" => jobs'[x].flag \in answers
    BY <1>7, <1>12 DEF Inv, Answered
  <2>2. hasMet' => TRUE \in answers
    <3>1. j.type = "UPDATE_MATCH" => j.flag \in answers /\ j.flag \in BOOLEAN
      BY <1>3, <1>4 DEF Inv, Answered, Job
    <3> QED
      BY <3>1, <1>1 DEF Inv, Answered, AnswersRecorded
  <2>3. ASSUME answers = {TRUE}, ~hasMet' PROVE \E i \in Pending' : i.type = "UPDATE_MATCH"
    <3>1. \E k \in DOMAIN jobs : jobs[k].type = "UPDATE_MATCH"
      <4>1. CASE j.type = "UPDATE_MATCH"
        BY <4>1, <1>4
      <4>2. CASE j.type # "UPDATE_MATCH"
        BY <4>2, <2>3, <1>1 DEF Inv, Answered, AnswersRecorded, Pending
      <4> QED
        BY <4>1, <4>2
    <3>2. PICK k \in DOMAIN jobs : jobs[k].type = "UPDATE_MATCH"
      BY <3>1
    <3>3. k \in DOMAIN jobs' /\ jobs'[k].type = "UPDATE_MATCH"
      BY <3>2, <1>7, <1>11
    <3>4. jobs'[k] \in Pending'
      BY <3>3 DEF Pending
    <3> QED
      BY <3>3, <3>4
  <2> QED
    BY <1>1, <2>1, <2>2, <2>3 DEF Answered, AnswersRecorded
<1> QED
  BY <1>15, <1>16, <1>17, <1>18, <1>19, <1>20 DEF Inv

-------------------------------------------------------------------------------
(* The clicks *)

\* The handler of h goes on, and adds or deletes no row.
LEMMA HandleInv ==
  ASSUME Inv, NEW h \in Handlers, NEW c \in Click, Handle(h, c),
         jobs' \in Seq(Job), DOMAIN jobs' = DOMAIN jobs,
         \A k \in DOMAIN jobs :
            /\ jobs'[k].type = jobs[k].type /\ jobs'[k].flag = jobs[k].flag
            /\ jobs'[k].taker = jobs[k].taker
            /\ \A x \in Handlers \ {h} : x \in jobs'[k].cancel <=> x \in jobs[k].cancel
            /\ h \in jobs'[k].cancel => jobs[k].type = "CHECK_PAIR"
            /\ c.pc = "cancelling" /\ jobs[k].type = "CHECK_PAIR" => h \in jobs'[k].cancel,
         c.pc # "idle" => c.check \in DOMAIN checks,
         checks' \in Seq(Check), DOMAIN checks' = DOMAIN checks,
         UNCHANGED <<answers, settled, open, again>>, faults' \in Nat
  PROVE  Inv'
<1>1. /\ click' = [click EXCEPT ![h] = c] /\ click \in [Handlers -> Click]
      /\ UNCHANGED <<run, hasMet, inactive, now>>
  BY DEF Handle, Inv, Typed
<1>2. click'[h] = c /\ (\A x \in Handlers \ {h} : click'[x] = click[x]) /\ click' \in [Handlers -> Click]
  BY <1>1
<1>3. Typed'
  BY <1>1, <1>2 DEF Inv, Typed
<1>4. Locks'
  <2>1. BusyOnes' = BusyOnes
    BY <1>1 DEF BusyOnes, Busy
  <2>2. OneRowEach(jobs, Goroutines, BusyOnes) /\ \A g \in Goroutines : ~Busy(g) => run[g] = NoRun
    BY DEF Inv, Locks
  <2>3. OneRowEach(jobs', Goroutines, BusyOnes)
    BY <2>2, LocksKept
  <2> QED
    BY <2>1, <2>2, <2>3, <1>1 DEF Locks, Busy
<1>5. Introduced' /\ NoneLeft' /\ Answered'
  <2>1. checks = <<>> => checks' = <<>>
    <3>1. checks \in Seq(Check)
      BY DEF Inv, Typed
    <3> QED
      BY <3>1, EmptySeq
  <2> QED
    BY <2>1, <1>1, JobsKept
<1>6. Clicks'
  <2> SUFFICES ASSUME NEW x \in Handlers
               PROVE  /\ click'[x].pc # "idle" => click'[x].check \in DOMAIN checks
                      /\ click'[x].pc = "cancelling" /\ ~again =>
                            \A k \in DOMAIN jobs : jobs'[k].type = "CHECK_PAIR" => x \in jobs'[k].cancel
                      /\ \A k \in DOMAIN jobs : x \in jobs'[k].cancel => jobs'[k].type = "CHECK_PAIR"
    BY DEF Clicks
  <2>1. CASE x = h
    BY <2>1, <1>2
  <2>2. CASE x # h
    BY <2>2, <1>2 DEF Inv, Clicks
  <2> QED
    BY <2>1, <2>2
<1>7. Transactions'
  <2> SUFFICES ASSUME NEW k \in DOMAIN jobs, NEW g \in Goroutines, jobs[k].taker = g
               PROVE  Written(run[g], jobs'[k])
    BY <1>1, WrittenNext DEF Transactions
  <2>1. Written(run[g], jobs[k])
    BY DEF Inv, Transactions
  <2> QED
    BY <2>1 DEF Written
<1> QED
  BY <1>3, <1>4, <1>5, <1>6, <1>7 DEF Inv

LEMMA ClickButtonInv ==
  ASSUME Inv, NEW h \in Handlers, NEW k \in DOMAIN checks, NEW met \in BOOLEAN, ClickButton(h, k, met)
  PROVE  Inv'
<1> DEFINE c == [pc |-> "clicked", check |-> k, met |-> met]
<1>1. Handle(h, c) /\ UNCHANGED <<jobs, checks, answers, settled, open, again, faults>>
  BY DEF ClickButton, history
<1>2. k \in Nat
  BY DEF Inv, Typed
<1>3. c \in Click /\ c.pc = "clicked" /\ c.check = k
  BY <1>2 DEF Click
<1> HIDE DEF c
<1>4. jobs \in Seq(Job) /\ checks \in Seq(Check) /\ faults \in Nat
  BY DEF Inv, Typed
<1>5. \A m \in DOMAIN jobs : h \in jobs[m].cancel => jobs[m].type = "CHECK_PAIR"
  BY DEF Inv, Clicks
<1> QED
  BY <1>1, <1>3, <1>4, <1>5, HandleInv

LEMMA RespondInv ==
  ASSUME Inv, NEW h \in Handlers, Respond(h)
  PROVE  Inv'
<1>1. /\ Handle(h, NoClick) /\ UNCHANGED <<jobs, answers, settled, open, again, faults>>
      /\ checks' = [checks EXCEPT ![click[h].check].answered = TRUE]
      /\ click[h].check \in DOMAIN checks
  BY DEF Respond, history, Inv, Clicks
<1>2. NoClick \in Click /\ NoClick.pc = "idle"
  BY DEF NoClick, Click
<1>3. jobs \in Seq(Job) /\ checks \in Seq(Check) /\ faults \in Nat
  BY DEF Inv, Typed
<1>4. checks' \in Seq(Check) /\ DOMAIN checks' = DOMAIN checks
  <2> DEFINE k == click[h].check
  <2>1. checks[k] \in Check
    BY <1>1, <1>3
  <2>2. [checks[k] EXCEPT !.answered = TRUE] \in Check
    BY <2>1 DEF Check
  <2>3. checks' = [checks EXCEPT ![k] = [checks[k] EXCEPT !.answered = TRUE]]
    BY <1>1
  <2> HIDE DEF k
  <2> QED
    BY <1>1, <1>3, <2>2, <2>3, ExceptSeq DEF k
<1>5. \A m \in DOMAIN jobs : h \in jobs[m].cancel => jobs[m].type = "CHECK_PAIR"
  BY DEF Inv, Clicks
<1> QED
  BY <1>1, <1>2, <1>3, <1>4, <1>5, HandleInv

\* The rows that an UPDATE has seen are marked, or no longer.
LEMMA CancelInv ==
  ASSUME Inv, NEW h \in Handlers, BeginCancel(h) \/ HandlerFails(h)
  PROVE  Inv'
<1>1. jobs \in Seq(Job) /\ checks \in Seq(Check) /\ faults' \in Nat
  BY DEF BeginCancel, HandlerFails, Fault, Inv, Typed
<1>2. \A k \in DOMAIN jobs : jobs[k] \in Job
  BY RowTyped
<1>3. UNCHANGED <<checks, answers, settled, open, again>>
  BY DEF BeginCancel, HandlerFails, history
<1>4. DOMAIN jobs = 1..Len(jobs) /\ Len(jobs) \in Nat
  BY <1>1
<1>5. CASE BeginCancel(h)
  <2> DEFINE c == [click[h] EXCEPT !.pc = "cancelling"]
  <2>1. /\ Handle(h, c) /\ click[h].pc = "clicked"
        /\ jobs' = [k \in DOMAIN jobs |->
                      IF jobs[k].type = "CHECK_PAIR" THEN [jobs[k] EXCEPT !.cancel = @ \cup {h}]
                      ELSE jobs[k]]
    BY <1>5 DEF BeginCancel
  <2>2. click[h] \in Click
    BY DEF Inv, Typed
  <2>3. c \in Click /\ c.pc = "cancelling" /\ c.check = click[h].check
    BY <2>2 DEF Click
  <2> HIDE DEF c
  <2>4. c.check \in DOMAIN checks
    BY <2>1, <2>3 DEF Inv, Clicks
  <2>5. ASSUME NEW k \in DOMAIN jobs
        PROVE  /\ jobs'[k] \in Job
               /\ jobs'[k].type = jobs[k].type /\ jobs'[k].flag = jobs[k].flag
               /\ jobs'[k].taker = jobs[k].taker
               /\ jobs'[k].cancel = IF jobs[k].type = "CHECK_PAIR" THEN jobs[k].cancel \cup {h}
                                    ELSE jobs[k].cancel
    BY <1>2, <2>1 DEF Job
  <2>6. DOMAIN jobs' = DOMAIN jobs /\ jobs' = [k \in 1..Len(jobs) |-> jobs'[k]]
    BY <1>4, <2>1
  <2>7. jobs' \in Seq(Job)
    <3>1. \A k \in 1..Len(jobs) : jobs'[k] \in Job
      BY <1>4, <2>5
    <3> QED
      BY <3>1, <1>4, <2>6, IsASeq
  <2>8. \A k \in DOMAIN jobs : h \in jobs[k].cancel => jobs[k].type = "CHECK_PAIR"
    BY DEF Inv, Clicks
  <2> QED
    BY <1>1, <1>3, <2>1, <2>3, <2>4, <2>5, <2>6, <2>7, <2>8, HandleInv
<1>6. CASE HandlerFails(h)
  <2>1. /\ Handle(h, NoClick)
        /\ jobs' = [k \in DOMAIN jobs |-> [jobs[k] EXCEPT !.cancel = @ \ {h}]]
    BY <1>6 DEF HandlerFails
  <2>2. NoClick \in Click /\ NoClick.pc = "idle"
    BY DEF NoClick, Click
  <2>3. ASSUME NEW k \in DOMAIN jobs
        PROVE  /\ jobs'[k] \in Job
               /\ jobs'[k].type = jobs[k].type /\ jobs'[k].flag = jobs[k].flag
               /\ jobs'[k].taker = jobs[k].taker
               /\ jobs'[k].cancel = jobs[k].cancel \ {h}
    BY <1>2, <2>1 DEF Job
  <2>4. DOMAIN jobs' = DOMAIN jobs /\ jobs' = [k \in 1..Len(jobs) |-> jobs'[k]]
    BY <1>4, <2>1
  <2>5. jobs' \in Seq(Job)
    BY <1>4, <2>3, <2>4, IsASeq
  <2> QED
    BY <1>1, <1>3, <2>1, <2>2, <2>3, <2>4, <2>5, HandleInv
<1> QED
  BY <1>5, <1>6

\* The UPDATE of h has ended: the check-ins are gone, and NOTIFY_PAIR was before.
LEMMA EndCancelInv ==
  ASSUME Inv, NEW h \in Handlers, EndCancel(h)
  PROVE  Inv'
<1> DEFINE K == {k \in DOMAIN jobs : h \notin jobs[k].cancel}
           c == [click[h] EXCEPT !.pc = "cancelled"]
<1>1. /\ click[h].pc = "cancelling" /\ jobs' = Where(jobs, K) /\ settled' = TRUE /\ Handle(h, c)
      /\ \A k \in DOMAIN jobs : h \in jobs[k].cancel => jobs[k].taker = Nobody
      /\ open' = Cardinality(Unanswered) /\ UNCHANGED <<checks, answers, again, faults>>
  BY DEF EndCancel, Pending
<1>2. /\ jobs \in Seq(Job) /\ click \in [Handlers -> Click]
      /\ click' = [click EXCEPT ![h] = c] /\ UNCHANGED <<run, hasMet, inactive, now>>
  BY <1>1 DEF Inv, Typed, Handle
<1>3. c \in Click /\ c.pc = "cancelled" /\ c.check = click[h].check
  BY <1>2 DEF Click
<1> HIDE DEF c
<1>4. click'[h] = c /\ (\A x \in Handlers \ {h} : click'[x] = click[x]) /\ click' \in [Handlers -> Click]
  BY <1>2, <1>3
<1>5. K \subseteq DOMAIN jobs /\ \A k \in DOMAIN jobs : k \in K <=> h \notin jobs[k].cancel
  OBVIOUS
<1> HIDE DEF K
<1>6. jobs' \in Seq(Job) /\ \E at : Selects(jobs', jobs, K, at)
  BY <1>1, <1>2, <1>5, WhereKeeps
<1>7. PICK at : Selects(jobs', jobs, K, at)
  BY <1>6
<1>8. TableOf(jobs', jobs, K, <<>>, Len(jobs'), at) /\ Len(jobs') \in Nat
  BY <1>2, <1>5, <1>6, <1>7, SelectsTable
<1>9. ASSUME NEW x \in DOMAIN jobs'
      PROVE  \E k \in DOMAIN jobs : h \notin jobs[k].cancel /\ jobs'[x] = jobs[k]
  BY <1>5, <1>7 DEF Selects
<1>10. \A k \in K : \E x \in DOMAIN jobs' : jobs'[x] = jobs[k]
  BY <1>7 DEF Selects
<1>11. click[h].check \in DOMAIN checks
  BY <1>1 DEF Inv, Clicks
<1>12. ~again => \A k \in DOMAIN jobs : jobs[k].type # "NOTIFY_PAIR"
  BY <1>11, EmptySeq DEF Inv, Introduced
<1>13. Typed'
  BY <1>1, <1>2, <1>4, <1>6, UnansweredFinite, FS_CardinalityType DEF Inv, Typed
<1>14. Locks'
  <2>1. BusyOnes' = BusyOnes
    BY <1>2 DEF BusyOnes, Busy
  <2>2. OneRowEach(jobs, Goroutines, BusyOnes) /\ \A g \in Goroutines : ~Busy(g) => run[g] = NoRun
    BY DEF Inv, Locks
  <2>3. \A k \in DOMAIN jobs \ K : jobs[k].taker \notin Goroutines
    BY <1>1, <1>5, PairLifeAssumption
  <2>4. OneRowEach(jobs', Goroutines, BusyOnes)
    BY <2>2, <2>3, <1>5, <1>8, UnlockedDeleted
  <2> QED
    BY <2>1, <2>2, <2>4, <1>2 DEF Locks, Busy
<1>15. Introduced'
  BY <1>1, <1>9, <1>12 DEF Introduced
<1>16. NoneLeft'
  <2> SUFFICES ASSUME ~again, NEW x \in DOMAIN jobs'
               PROVE  jobs'[x].type \notin {"NOTIFY_PAIR", "CHECK_PAIR"}
    BY <1>1 DEF NoneLeft
  <2>1. PICK k \in DOMAIN jobs : h \notin jobs[k].cancel /\ jobs'[x] = jobs[k]
    BY <1>9
  <2>2. jobs[k].type # "CHECK_PAIR"
    BY <2>1, <1>1 DEF Inv, Clicks
  <2> QED
    BY <2>1, <2>2, <1>12
<1>17. Transactions'
  <2> SUFFICES ASSUME NEW x \in DOMAIN jobs', NEW g \in Goroutines, jobs'[x].taker = g
               PROVE  Written(run[g], jobs'[x])
    BY <1>2, WrittenNext DEF Transactions
  <2>1. PICK k \in DOMAIN jobs : jobs'[x] = jobs[k]
    BY <1>9
  <2> QED
    BY <2>1 DEF Inv, Transactions
<1>18. Clicks'
  <2> SUFFICES ASSUME NEW x \in Handlers
               PROVE  /\ click'[x].pc # "idle" => click'[x].check \in DOMAIN checks
                      /\ \A i \in DOMAIN jobs' :
                            /\ click'[x].pc = "cancelling" /\ ~again =>
                                  (jobs'[i].type = "CHECK_PAIR" => x \in jobs'[i].cancel)
                            /\ x \in jobs'[i].cancel => jobs'[i].type = "CHECK_PAIR"
    BY <1>1 DEF Clicks
  <2>1. click'[x].pc # "idle" => click'[x].check \in DOMAIN checks
    BY <1>3, <1>4, <1>11 DEF Inv, Clicks
  <2>2. ASSUME NEW i \in DOMAIN jobs'
        PROVE  /\ click'[x].pc = "cancelling" /\ ~again =>
                     (jobs'[i].type = "CHECK_PAIR" => x \in jobs'[i].cancel)
               /\ x \in jobs'[i].cancel => jobs'[i].type = "CHECK_PAIR"
    <3>1. PICK k \in DOMAIN jobs : jobs'[i] = jobs[k]
      BY <1>9
    <3>2. click'[x].pc = "cancelling" => click[x].pc = "cancelling"
      BY <1>3, <1>4
    <3> QED
      BY <3>1, <3>2 DEF Inv, Clicks
  <2> QED
    BY <2>1, <2>2
<1>19. Answered'
  <2>1. \A x \in DOMAIN jobs' : jobs'[x].type = "UPDATE_MATCH" => jobs'[x].flag \in answers
    BY <1>9 DEF Inv, Answered
  <2>2. (\E j \in Pending : j.type = "UPDATE_MATCH") => \E j \in Pending' : j.type = "UPDATE_MATCH"
    <3> SUFFICES ASSUME NEW k \in DOMAIN jobs, jobs[k].type = "UPDATE_MATCH"
                 PROVE  \E j \in Pending' : j.type = "UPDATE_MATCH"
      BY DEF Pending
    <3>1. k \in K
      BY <1>5 DEF Inv, Clicks
    <3>2. PICK x \in DOMAIN jobs' : jobs'[x] = jobs[k]
      BY <3>1, <1>10
    <3>3. jobs'[x] \in Pending'
      BY DEF Pending
    <3> QED
      BY <3>2, <3>3
  <2> QED
    BY <2>1, <2>2, <1>1, <1>2 DEF Inv, Answered, AnswersRecorded
<1> QED
  BY <1>13, <1>14, <1>15, <1>16, <1>17, <1>18, <1>19 DEF Inv

LEMMA QueueUpdateMatchInv ==
  ASSUME Inv, NEW h \in Handlers, QueueUpdateMatch(h)
  PROVE  Inv'
<1> DEFINE met == click[h].met
           j == NewJob("UPDATE_MATCH", met, now)
           c == [click[h] EXCEPT !.pc = "queued"]
           n == Len(jobs) + 1
<1>1. /\ jobs' = Append(jobs, j) /\ answers' = answers \cup {met} /\ Handle(h, c)
      /\ click[h].pc # "idle" /\ UNCHANGED <<checks, settled, open, again, faults>>
  BY DEF QueueUpdateMatch
<1>2. /\ jobs \in Seq(Job) /\ click \in [Handlers -> Click] /\ now \in Nat
      /\ click' = [click EXCEPT ![h] = c] /\ UNCHANGED <<run, hasMet, inactive, now>>
  BY <1>1 DEF Inv, Typed, Handle
<1>3. c \in Click /\ c.pc = "queued" /\ c.check = click[h].check /\ met \in BOOLEAN
  BY <1>2 DEF Click
<1>4. /\ j \in Job /\ j.type = "UPDATE_MATCH" /\ j.flag = met
      /\ j.taker = Nobody /\ j.cancel = {}
  <2>1. "UPDATE_MATCH" \in PairJobs
    BY DEF PairJobs
  <2> QED
    BY <2>1, <1>2, <1>3, NewJobTyped
<1> HIDE DEF c, j, met
<1>5. click'[h] = c /\ (\A x \in Handlers \ {h} : click'[x] = click[x]) /\ click' \in [Handlers -> Click]
  BY <1>2, <1>3
<1>6. /\ jobs' \in Seq(Job) /\ n \in DOMAIN jobs' /\ n \notin DOMAIN jobs
      /\ DOMAIN jobs' = DOMAIN jobs \cup {n} /\ jobs'[n] = j
      /\ \A k \in DOMAIN jobs : jobs'[k] = jobs[k]
  BY <1>1, <1>2, <1>4
<1> HIDE DEF n
<1>7. click[h].check \in DOMAIN checks
  BY <1>1 DEF Inv, Clicks
<1>8. ~again => \A k \in DOMAIN jobs : jobs[k].type # "NOTIFY_PAIR"
  BY <1>7, EmptySeq DEF Inv, Introduced
<1>9. Typed'
  BY <1>1, <1>2, <1>3, <1>5, <1>6 DEF Inv, Typed
<1>10. Locks'
  <2>1. BusyOnes' = BusyOnes
    BY <1>2 DEF BusyOnes, Busy
  <2>2. OneRowEach(jobs, Goroutines, BusyOnes) /\ \A g \in Goroutines : ~Busy(g) => run[g] = NoRun
    BY DEF Inv, Locks
  <2>3. \A k \in DOMAIN jobs' \ DOMAIN jobs : jobs'[k].taker \notin Goroutines
    BY <1>4, <1>6, PairLifeAssumption
  <2>4. OneRowEach(jobs', Goroutines, BusyOnes)
    BY <2>2, <2>3, <1>6, LocksKept
  <2> QED
    BY <2>1, <2>2, <2>4, <1>2 DEF Locks, Busy
<1>11. Introduced'
  BY <1>1, <1>4, <1>6, <1>8 DEF Introduced
<1>12. NoneLeft'
  BY <1>1, <1>4, <1>6 DEF Inv, NoneLeft
<1>13. Transactions'
  <2> SUFFICES ASSUME NEW k \in DOMAIN jobs', NEW g \in Goroutines, jobs'[k].taker = g
               PROVE  Written(run[g], jobs'[k])
    BY <1>2, WrittenNext DEF Transactions
  <2>1. k \in DOMAIN jobs /\ jobs'[k] = jobs[k]
    BY <1>4, <1>6, PairLifeAssumption
  <2> QED
    BY <2>1 DEF Inv, Transactions
<1>14. Clicks'
  <2> SUFFICES ASSUME NEW x \in Handlers
               PROVE  /\ click'[x].pc # "idle" => click'[x].check \in DOMAIN checks
                      /\ \A i \in DOMAIN jobs' :
                            /\ click'[x].pc = "cancelling" /\ ~again =>
                                  (jobs'[i].type = "CHECK_PAIR" => x \in jobs'[i].cancel)
                            /\ x \in jobs'[i].cancel => jobs'[i].type = "CHECK_PAIR"
    BY <1>1 DEF Clicks
  <2>1. click'[x].pc # "idle" => click'[x].check \in DOMAIN checks
    BY <1>3, <1>5, <1>7 DEF Inv, Clicks
  <2>2. ASSUME NEW i \in DOMAIN jobs'
        PROVE  /\ click'[x].pc = "cancelling" /\ ~again =>
                     (jobs'[i].type = "CHECK_PAIR" => x \in jobs'[i].cancel)
               /\ x \in jobs'[i].cancel => jobs'[i].type = "CHECK_PAIR"
    <3>1. CASE i = n
      BY <3>1, <1>4, <1>6
    <3>2. CASE i \in DOMAIN jobs
      <4>1. click'[x].pc = "cancelling" => click[x].pc = "cancelling"
        BY <1>3, <1>5
      <4> QED
        BY <4>1, <3>2, <1>6 DEF Inv, Clicks
    <3> QED
      BY <3>1, <3>2, <1>6
  <2> QED
    BY <2>1, <2>2
<1>15. Answered'
  <2>1. \A x \in DOMAIN jobs' : jobs'[x].type = "UPDATE_MATCH" => jobs'[x].flag \in answers'
    BY <1>1, <1>4, <1>6 DEF Inv, Answered
  <2>2. hasMet' => TRUE \in answers'
    BY <1>1, <1>2 DEF Inv, Answered, AnswersRecorded
  <2>3. \E i \in Pending' : i.type = "UPDATE_MATCH"
    <3>1. j \in Pending'
      BY <1>6 DEF Pending
    <3> QED
      BY <3>1, <1>4
  <2> QED
    BY <2>1, <2>2, <2>3 DEF Answered, AnswersRecorded
<1> QED
  BY <1>9, <1>10, <1>11, <1>12, <1>13, <1>14, <1>15 DEF Inv
-------------------------------------------------------------------------------
(* The theorems *)

LEMMA NextInv == Inv /\ [Next]_vars => Inv'
<1> SUFFICES ASSUME Inv, [Next]_vars PROVE Inv'
  OBVIOUS
<1>1. CASE Advance
  BY <1>1, AdvanceInv
<1>2. ASSUME NEW g \in Goroutines, Step(g) PROVE Inv'
  BY <1>2, TakeJobInv, NotifyPairInv, OtherJobsInv, MarkInactiveInv, CommitInv,
     CommitUnsavedInv, FailInv DEF Step
<1>3. ASSUME NEW h \in Handlers, Answer(h) PROVE Inv'
  BY <1>3, ClickButtonInv, CancelInv, EndCancelInv, QueueUpdateMatchInv, RespondInv DEF Answer
<1>4. CASE UNCHANGED vars
  <2>1. UNCHANGED <<jobs, run, click, hasMet, inactive, checks, answers, settled, open, again, faults, now>>
    BY <1>4 DEF vars
  <2>2. Typed' /\ Locks'
    BY <2>1 DEF Inv, Typed, Locks, BusyOnes, Busy
  <2>3. Transactions'
    BY <2>1, WrittenNext DEF Inv, Transactions
  <2>4. Introduced' /\ Clicks' /\ NoneLeft' /\ Answered'
    BY <2>1 DEF Inv, Introduced, Clicks, NoneLeft, Answered, AnswersRecorded, Pending
  <2> QED
    BY <2>2, <2>3, <2>4 DEF Inv
<1> QED
  BY <1>1, <1>2, <1>3, <1>4 DEF Next

LEMMA Invariance == Spec => []Inv
  BY InitInv, NextInv, PTL DEF Spec

\* Every reachable state is well typed, and a transaction has locked its row and no
\* other (worker.go:148), for any number of goroutines and clicks.
THEOREM TypesOK == Spec => []TypeOK
  BY Invariance, InvTypes, PTL

\* Whatever fails between the statements of a handler (job_check_pair.go:138) and
\* however often UPDATE_MATCH is rolled back: has_met is an answer that was given,
\* and if all answers are "yes" it is set, or an UPDATE_MATCH that will set it is pending.
THEOREM AnswersAreRecorded == Spec => []AnswersRecorded
<1>1. Inv => AnswersRecorded
  BY DEF Inv, Answered
<1> QED
  BY <1>1, Invariance, PTL

\* There is no CHECK_PAIR that a goroutine could run.
LEMMA NonePosted ==
  ASSUME Inv, Next, settled, ~again
  PROVE  Len(checks') = Len(checks)
<1>1. \A g \in Goroutines : ~CheckPair(g)
  <2> SUFFICES ASSUME NEW g \in Goroutines, CheckPair(g) PROVE FALSE
    OBVIOUS
  <2>1. Busy(g) /\ JobOf(g).type = "CHECK_PAIR"
    BY DEF CheckPair, Runs, Busy
  <2> QED
    BY <2>1, RowOfBusy DEF Inv, NoneLeft
<1>2. ASSUME NEW g \in Goroutines, Step(g) PROVE checks' = checks
  BY <1>1, <1>2 DEF Step, TakeJob, NotifyPair, KickoffPair, UpdateMatch, MarkInactive,
     Commit, CommitUnsaved, Write, Fail
<1>3. ASSUME NEW h \in Handlers, Answer(h) PROVE Len(checks') = Len(checks)
  <2>1. CASE Respond(h)
    <3>1. checks' = [checks EXCEPT ![click[h].check].answered = TRUE] /\ checks \in Seq(Check)
      BY <2>1 DEF Respond, Inv, Typed
    <3>2. DOMAIN checks' = DOMAIN checks
      BY <3>1
    <3>3. Inv'
      BY <2>1, RespondInv
    <3>4. checks' \in Seq(Check)
      BY <3>3 DEF Inv, Typed
    <3> QED
      BY <3>1, <3>2, <3>4
  <2>2. CASE ~Respond(h)
    BY <1>3, <2>2 DEF Answer, ClickButton, BeginCancel, EndCancel, QueueUpdateMatch, HandlerFails
  <2> QED
    BY <2>1, <2>2
<1>4. Advance => checks' = checks
  BY DEF Advance
<1> QED
  BY <1>2, <1>3, <1>4 DEF Next

\* After a "yes" in the middle of the round has cancelled the check-ins
\* (job_check_pair.go:173) none is posted, not by a goroutine that had taken one
\* before, nor by a retry, nor by a job that is queued later; unless a shutdown has
\* left NOTIFY_PAIR to be run once more.
THEOREM NobodyIsAskedAgain == Spec => NotAskedAgain
<1>1. Inv /\ [Next]_vars => [settled /\ ~again => Len(checks') = Len(checks)]_vars
  BY NonePosted
<1> QED
  BY <1>1, Invariance, PTL DEF Spec, NotAskedAgain

\* After the check-ins were cancelled there is nothing new to answer.
LEMMA FewOpenNext ==
  ASSUME Inv, FewOpen, [Next]_vars
  PROVE  FewOpen'
<1>1. open \in Nat /\ settled \in BOOLEAN /\ again \in BOOLEAN /\ checks \in Seq(Check)
  BY DEF Inv, Typed
<1>2. CASE UNCHANGED <<settled, open, checks, again>>
  BY <1>1, <1>2 DEF FewOpen, Unanswered
<1>3. ASSUME NEW g \in Goroutines, Step(g) PROVE FewOpen'
  <2>1. CASE CheckPair(g)
    <3>1. ~(settled /\ ~again)
      <4>1. Busy(g) /\ JobOf(g).type = "CHECK_PAIR"
        BY <2>1 DEF CheckPair, Runs, Busy
      <4> QED
        BY <4>1, RowOfBusy DEF Inv, NoneLeft
    <3>2. UNCHANGED <<settled, again>>
      BY <2>1 DEF CheckPair, Continue, history
    <3>3. ~(settled' /\ ~again')
      BY <3>1, <3>2
    <3> QED
      BY <3>3 DEF FewOpen
  <2>2. CASE CommitUnsaved(g)
    <3>1. UNCHANGED <<settled, open, checks>> /\ again' = (again \/ JobOf(g).type = "NOTIFY_PAIR")
      BY <2>2 DEF CommitUnsaved, Write
    <3>2. Unanswered' = Unanswered
      BY <3>1 DEF Unanswered
    <3>3. ASSUME settled', ~again' PROVE Cardinality(Unanswered') <= open'
      BY <3>1, <3>2, <3>3 DEF FewOpen
    <3> QED
      BY <3>3 DEF FewOpen
  <2>3. CASE ~CheckPair(g) /\ ~CommitUnsaved(g)
    <3>1. UNCHANGED <<settled, open, checks, again>>
      BY <1>3, <2>3 DEF Step, TakeJob, NotifyPair, KickoffPair, UpdateMatch, MarkInactive, Continue,
         Commit, Write, Fail, history
    <3> QED
      BY <3>1, <1>2
  <2> QED
    BY <2>1, <2>2, <2>3
<1>4. ASSUME NEW h \in Handlers, Answer(h) PROVE FewOpen'
  <2>1. CASE Respond(h)
    <3>1. /\ checks' = [checks EXCEPT ![click[h].check].answered = TRUE]
          /\ UNCHANGED <<settled, open, again>>
      BY <2>1 DEF Respond, history
    <3>2. DOMAIN checks' = DOMAIN checks
      BY <3>1
    <3>3. \A k \in DOMAIN checks : checks[k].answered => checks'[k].answered
      BY <3>1, <1>1 DEF Check
    <3>4. Unanswered' \subseteq Unanswered
      BY <3>2, <3>3 DEF Unanswered
    <3>5. Cardinality(Unanswered') <= Cardinality(Unanswered) /\ IsFiniteSet(Unanswered')
      BY <3>4, UnansweredFinite, FS_Subset
    <3>6. Cardinality(Unanswered) \in Nat /\ Cardinality(Unanswered') \in Nat
      BY <3>5, UnansweredFinite, FS_CardinalityType
    <3> QED
      BY <3>1, <3>5, <3>6, <1>1 DEF FewOpen
  <2>2. CASE EndCancel(h)
    <3>1. open' = Cardinality(Unanswered) /\ checks' = checks
      BY <2>2 DEF EndCancel
    <3>2. Unanswered' = Unanswered /\ Cardinality(Unanswered) \in Nat
      BY <3>1, UnansweredFinite, FS_CardinalityType DEF Unanswered
    <3>3. Cardinality(Unanswered') <= open'
      BY <3>1, <3>2
    <3> QED
      BY <3>3 DEF FewOpen
  <2>3. CASE ~Respond(h) /\ ~EndCancel(h)
    <3>1. UNCHANGED <<settled, open, checks, again>>
      BY <1>4, <2>3 DEF Answer, ClickButton, BeginCancel, QueueUpdateMatch, HandlerFails, history
    <3> QED
      BY <3>1, <1>2
  <2> QED
    BY <2>1, <2>2, <2>3
<1>5. CASE Advance \/ UNCHANGED vars
  <2>1. UNCHANGED <<settled, open, checks, again>>
    BY <1>5 DEF Advance, vars, history
  <2> QED
    BY <2>1, <1>2
<1> QED
  BY <1>3, <1>4, <1>5 DEF Next

LEMMA FewOpenInvariance == Spec => [](Inv /\ FewOpen)
<1>1. Init => FewOpen
  BY DEF Init, FewOpen
<1>2. Inv /\ FewOpen /\ [Next]_vars => Inv' /\ FewOpen'
  BY NextInv, FewOpenNext
<1> QED
  BY <1>1, <1>2, InitInv, PTL DEF Spec

\* Who wrote is marked only when two check-ins are without an answer.
LEMMA WritersSpared ==
  ASSUME Inv, FewOpen, settled, ~again, open < 2, NEW g \in Goroutines, MarkInactive(g)
  PROVE  Spares(g)
<1>1. Cardinality(Unanswered) < 2
  <2>1. Cardinality(Unanswered) <= open /\ open \in Nat
    BY DEF Inv, Typed, FewOpen
  <2>2. Cardinality(Unanswered) \in Nat
    BY UnansweredFinite, FS_CardinalityType
  <2> QED
    BY <2>1, <2>2
<1>2. PICK senders \in SUBSET Members :
         Continue(g, [run[g] EXCEPT !.pc = "done", !.senders = senders, !.marks = Members \ senders])
  BY <1>1 DEF MarkInactive
<1>3. run \in [Goroutines -> Run]
  BY DEF Inv, Typed
<1>4. run'[g] = [run[g] EXCEPT !.pc = "done", !.senders = senders, !.marks = Members \ senders]
  BY <1>2, <1>3 DEF Continue
<1>5. run'[g].senders = senders /\ run'[g].marks = Members \ senders
  BY <1>3, <1>4 DEF Run
<1> QED
  BY <1>5 DEF Spares

LEMMA NobodyElseMarks ==
  ASSUME Inv, NEW g \in Goroutines, Step(g), ~MarkInactive(g)
  PROVE  Spares(g)
<1>1. run \in [Goroutines -> Run]
  BY DEF Inv, Typed
<1> SUFFICES run'[g].marks = {}
  BY DEF Spares
<1>2. CASE TakeJob(g)
  <2>1. run[g] = NoRun /\ run'[g] = [run[g] EXCEPT !.pc = "exec"]
    BY <1>1, <1>2 DEF TakeJob, Inv, Locks
  <2> QED
    BY <2>1, NoRunTyped DEF Run
<1>3. CASE Commit(g) \/ CommitUnsaved(g) \/ Fail(g)
  <2>1. run'[g] = NoRun
    BY <1>1, <1>3 DEF Commit, CommitUnsaved, Write, Fail
  <2> QED
    BY <2>1, NoRunTyped
<1>4. CASE NotifyPair(g) \/ KickoffPair(g) \/ CheckPair(g) \/ UpdateMatch(g)
  <2>1. Busy(g) /\ run[g].pc = "exec"
    BY <1>4 DEF NotifyPair, KickoffPair, CheckPair, UpdateMatch, Runs, Busy
  <2>2. run[g].marks = {} /\ run[g] \in Run
    BY <2>1, RowOfBusy DEF Written
  <2>3. run'[g].marks = run[g].marks
    <3>1. CASE NotifyPair(g)
      BY <3>1, <1>1, <2>2 DEF NotifyPair, Continue, Run
    <3>2. CASE KickoffPair(g) \/ CheckPair(g) \/ UpdateMatch(g)
      BY <3>2, <1>1, <2>2 DEF KickoffPair, CheckPair, UpdateMatch, Continue, Run
    <3> QED
      BY <3>1, <3>2, <1>4
  <2> QED
    BY <2>2, <2>3
<1> QED
  BY <1>2, <1>3, <1>4 DEF Step

\* A step changes the transaction of the goroutine that takes it.
LEMMA OnlyStepsRun ==
  ASSUME Inv, Next, NEW g \in Goroutines, run'[g] # run[g]
  PROVE  Step(g)
<1>1. run \in [Goroutines -> Run]
  BY DEF Inv, Typed
<1>2. ASSUME NEW x \in Goroutines, Step(x), x # g PROVE FALSE
  <2>1. \E r : run' = [run EXCEPT ![x] = r]
    <3>1. CASE TakeJob(x)
      BY <3>1 DEF TakeJob
    <3>2. CASE Commit(x) \/ CommitUnsaved(x) \/ Fail(x)
      BY <3>2 DEF Commit, CommitUnsaved, Write, Fail
    <3>3. CASE NotifyPair(x) \/ KickoffPair(x) \/ CheckPair(x) \/ UpdateMatch(x) \/ MarkInactive(x)
      BY <3>3 DEF NotifyPair, KickoffPair, CheckPair, UpdateMatch, MarkInactive, Continue
    <3> QED
      BY <1>2, <3>1, <3>2, <3>3 DEF Step
  <2> QED
    BY <2>1, <1>1, <1>2
<1>3. ASSUME NEW h \in Handlers, Answer(h) PROVE FALSE
  <2>1. run' = run
    BY <1>3 DEF Answer, ClickButton, BeginCancel, EndCancel, QueueUpdateMatch, Respond, HandlerFails, Handle
  <2> QED
    BY <2>1
<1>4. ~Advance
  BY DEF Advance
<1> QED
  BY <1>2, <1>3, <1>4 DEF Next

\* MARK_INACTIVE (job_mark_inactive.go:41) does not mark a member who wrote, of a pair
\* whose answer cancelled the check-ins while one at most was without an answer: none
\* is posted afterwards by whoever was running one, by a retry or by a job queued
\* before, so that the two it counts cannot come together.
THEOREM SettledPairIsSpared == Spec => SettledIsSpared
<1>1. ASSUME Inv, FewOpen, Next, settled /\ ~again /\ open < 2, NEW g \in Goroutines, run'[g] # run[g]
      PROVE  Spares(g)
  BY <1>1, OnlyStepsRun, WritersSpared, NobodyElseMarks
<1>2. Inv /\ FewOpen /\ [Next]_vars =>
         [settled /\ ~again /\ open < 2 => \A g \in Goroutines : run'[g] # run[g] => Spares(g)]_vars
  BY <1>1
<1> QED
  BY <1>2, FewOpenInvariance, PTL DEF Spec, SettledIsSpared
-------------------------------------------------------------------------------
(* The reports of a round (Reports), with the variables of ReportPromise. A   *)
(* REPORT_MATCHES job can only end well if neither helper wrote multiErr, and *)
(* a helper that ends without writing it has posted: Sound says so of each    *)
(* open transaction, at every point of the two helpers' race.                 *)

VARIABLES up, due, inviter, channel, swept, runs, errors

R == INSTANCE Reports WITH run <- runs, faults <- errors

\* What the transaction r of a goroutine says of the posts in P.
Sound(r, P) ==
    /\ r.admin # "off" \/ r.group # "off" => r.pc = "wait"
    /\ r.pc = "wait" /\ r.err = "nil" =>
          (r.admin = "off" => "admin" \in P) /\ (r.group = "off" => "channel" \in P)
    /\ r.pc = "done" /\ r.job = "REPORT_MATCHES" => {"admin", "channel"} \subseteq P

Reporting ==
    /\ R!TypeOK
    /\ \A g \in Goroutines : Sound(runs[g], posted)
    /\ R!ReportedToBoth

LEMMA NoReportSound == R!NoRun \in R!Run /\ (\A P : Sound(R!NoRun, P))
  BY DEF R!NoRun, R!Run, Sound

\* Posts are never taken back.
LEMMA SoundLater ==
  ASSUME NEW r, NEW P, NEW Q, P \subseteq Q, Sound(r, P)
  PROVE  Sound(r, Q)
  BY DEF Sound

LEMMA ReportingInit == R!Init => Reporting
  BY NoReportSound, PairLifeAssumption DEF R!Init, Reporting, R!TypeOK, R!ReportedToBoth, R!Reports

\* A step that changes one transaction, to r, and takes back no post.
LEMMA OneReport ==
  ASSUME Reporting, NEW g \in Goroutines, NEW r \in R!Run,
         runs' = [runs EXCEPT ![g] = r], posted \subseteq posted', Sound(r, posted')
  PROVE  runs' \in [Goroutines -> R!Run] /\ \A h \in Goroutines : Sound(runs'[h], posted')
<1>1. runs \in [Goroutines -> R!Run]
  BY DEF Reporting, R!TypeOK
<1>2. ASSUME NEW h \in Goroutines PROVE Sound(runs'[h], posted')
  <2>1. CASE h = g
    BY <1>1, <2>1
  <2>2. CASE h # g
    <3>1. runs'[h] = runs[h] /\ Sound(runs[h], posted)
      BY <1>1, <2>2 DEF Reporting
    <3> QED
      BY <3>1, SoundLater
  <2> QED
    BY <2>1, <2>2
<1> QED
  BY <1>1, <1>2

\* The end of the process, and a rollback, leave what is committed.
LEMMA EndsReporting ==
  ASSUME Reporting, R!Ends, UNCHANGED <<status, posted, R!env>>, errors' \in 0..MaxFaults
  PROVE  Reporting'
  BY NoReportSound DEF Reporting, R!Ends, R!TypeOK, R!ReportedToBoth, R!env

LEMMA RollbackReporting ==
  ASSUME Reporting, NEW g \in Goroutines, R!Rollback(g), errors' \in 0..MaxFaults
  PROVE  Reporting'
<1>1. runs' \in [Goroutines -> R!Run] /\ \A h \in Goroutines : Sound(runs'[h], posted')
  BY NoReportSound, OneReport DEF R!Rollback
<1> QED
  BY <1>1 DEF Reporting, R!Rollback, R!TypeOK, R!ReportedToBoth, R!env

LEMMA ReportFaults ==
  ASSUME Reporting, R!Fault \/ UNCHANGED errors
  PROVE  errors' \in 0..MaxFaults
  BY PairLifeAssumption DEF Reporting, R!TypeOK, R!Fault
-------------------------------------------------------------------------------
(* The steps that only the environment takes *)

LEMMA ReportsAround ==
  ASSUME Reporting, \/ \E j \in R!Reports : R!Queue(j) \/ R!Due(j)
              \/ R!InviterLeaves \/ R!BotRemoved \/ R!Sweep \/ R!SweepGivesUp \/ R!ChannelDeleted
              \/ R!Start \/ UNCHANGED R!vars
  PROVE  Reporting'
<1>1. UNCHANGED <<runs, posted, errors>>
  BY DEF R!Queue, R!Due, R!InviterLeaves, R!BotRemoved, R!Sweep, R!SweepGivesUp, R!ChannelDeleted, R!Start, R!vars
<1>2. status' \in [R!Reports -> {"none", "PENDING", "SUCCEEDED", "CANCELED"}]
  BY DEF R!Queue, R!Due, R!InviterLeaves, R!BotRemoved, R!Sweep, R!SweepGivesUp, R!ChannelDeleted, R!Start,
         R!vars, R!env, Reporting, R!TypeOK
<1>3. status'["REPORT_MATCHES"] = "SUCCEEDED" => status["REPORT_MATCHES"] = "SUCCEEDED"
  BY DEF R!Queue, R!Due, R!InviterLeaves, R!BotRemoved, R!Sweep, R!SweepGivesUp, R!ChannelDeleted, R!Start,
         R!vars, R!env, Reporting, R!TypeOK, R!Reports
<1>4. R!TypeOK'
  BY <1>1, <1>2 DEF R!Queue, R!Due, R!InviterLeaves, R!BotRemoved, R!Sweep, R!SweepGivesUp,
         R!ChannelDeleted, R!Start, R!vars, R!env, Reporting, R!TypeOK
<1> QED
  BY <1>1, <1>3, <1>4 DEF Reporting, R!ReportedToBoth
-------------------------------------------------------------------------------
(* The steps of the worker and of the helpers *)

LEMMA StepReporting ==
  ASSUME Reporting, NEW g \in Goroutines, R!Step(g)
  PROVE  Reporting'
<1> DEFINE r == runs[g]
<1>1. r \in R!Run /\ Sound(r, posted) /\ runs \in [Goroutines -> R!Run]
  BY DEF Reporting, R!TypeOK
<1>2. CASE R!TakeJob(g)
  <2>1. PICK j \in R!Reports :
          runs' = [runs EXCEPT ![g] = [R!NoRun EXCEPT
                     !.job = j, !.pc = IF channel = "deleted" THEN "cancel" ELSE "exec"]]
    BY <1>2 DEF R!TakeJob
  <2> DEFINE n == [R!NoRun EXCEPT !.job = j, !.pc = IF channel = "deleted" THEN "cancel" ELSE "exec"]
  <2>2. n \in R!Run /\ Sound(n, posted)
    BY DEF R!NoRun, R!Run, Sound, R!Reports
  <2>3. runs' \in [Goroutines -> R!Run] /\ \A h \in Goroutines : Sound(runs'[h], posted')
    BY <1>2, <2>1, <2>2, OneReport DEF R!TakeJob
  <2> QED
    BY <1>2, <2>3 DEF R!TakeJob, Reporting, R!TypeOK, R!ReportedToBoth, R!env
<1>3. CASE R!Cancel(g)
  <2>1. runs' \in [Goroutines -> R!Run] /\ \A h \in Goroutines : Sound(runs'[h], posted')
    BY <1>3, NoReportSound, OneReport DEF R!Cancel
  <2>2. status' \in [R!Reports -> {"none", "PENDING", "SUCCEEDED", "CANCELED"}]
    BY <1>3 DEF R!Cancel, Reporting, R!TypeOK
  <2>3. status'["REPORT_MATCHES"] = "SUCCEEDED" => status["REPORT_MATCHES"] = "SUCCEEDED"
    BY <1>3 DEF R!Cancel, Reporting, R!TypeOK, R!Reports
  <2> QED
    BY <1>3, <2>1, <2>2, <2>3 DEF R!Cancel, Reporting, R!TypeOK, R!ReportedToBoth, R!env
<1>4. CASE R!Commit(g)
  <2>1. runs' \in [Goroutines -> R!Run] /\ \A h \in Goroutines : Sound(runs'[h], posted')
    BY <1>4, NoReportSound, OneReport DEF R!Commit
  <2>2. status' \in [R!Reports -> {"none", "PENDING", "SUCCEEDED", "CANCELED"}]
    BY <1>4 DEF R!Commit, Reporting, R!TypeOK
  <2>3. R!ReportedToBoth'
    <3>1. CASE r.job = "REPORT_MATCHES"
      BY <1>1, <1>4, <3>1 DEF R!Commit, Sound, R!ReportedToBoth
    <3>2. CASE r.job # "REPORT_MATCHES"
      BY <1>4, <3>2 DEF R!Commit, Reporting, R!ReportedToBoth, R!TypeOK, R!Reports
    <3> QED
      BY <3>1, <3>2
  <2> QED
    BY <1>4, <2>1, <2>2, <2>3 DEF R!Commit, Reporting, R!TypeOK, R!env
<1>5. CASE R!ReportStats(g)
  <2>1. CASE R!Rollback(g)
    BY <1>5, <2>1, RollbackReporting, ReportFaults DEF R!ReportStats
  <2>2. CASE ~R!Rollback(g)
    <3> DEFINE n == [r EXCEPT !.pc = "done"]
    <3>1. n \in R!Run /\ Sound(n, posted')
      BY <1>1, <1>5 DEF R!ReportStats, R!Run, Sound
    <3>2. runs' = [runs EXCEPT ![g] = n] /\ posted' = posted \cup {"stats"} /\ UNCHANGED <<up, status, swept, R!env, errors>>
      BY <1>5, <2>2 DEF R!ReportStats
    <3>3. runs' \in [Goroutines -> R!Run] /\ \A h \in Goroutines : Sound(runs'[h], posted')
      BY <3>1, <3>2, OneReport
    <3> QED
      BY <3>2, <3>3 DEF Reporting, R!TypeOK, R!ReportedToBoth, R!env, R!Messages
  <2> QED
    BY <2>1, <2>2
<1>6. CASE R!ReportMatches(g)
  <2> DEFINE n == [r EXCEPT !.pc = "wait", !.admin = "open", !.group = "post"]
  <2>1. n \in R!Run /\ Sound(n, posted')
    BY <1>1 DEF R!Run, Sound
  <2>2. runs' = [runs EXCEPT ![g] = n]
    BY <1>1, <1>6 DEF R!ReportMatches
  <2>3. runs' \in [Goroutines -> R!Run] /\ \A h \in Goroutines : Sound(runs'[h], posted')
    BY <1>6, <2>1, <2>2, OneReport DEF R!ReportMatches
  <2> QED
    BY <1>6, <2>3 DEF R!ReportMatches, Reporting, R!TypeOK, R!ReportedToBoth, R!env
<1>7. CASE R!OpenConversation(g)
  <2>1. CASE R!Ends
    BY <1>7, <2>1, EndsReporting, ReportFaults DEF R!OpenConversation
  <2>2. CASE ~R!Ends
    <3> DEFINE n == [r EXCEPT !.admin = "post"]
    <3>1. runs' = [runs EXCEPT ![g] = n] /\ UNCHANGED <<up, swept, errors, status, posted, R!env>>
      BY <1>7, <2>2 DEF R!OpenConversation
    <3>2. n \in R!Run /\ Sound(n, posted')
      BY <1>1, <1>7, <3>1 DEF R!OpenConversation, R!Run, Sound
    <3>3. runs' \in [Goroutines -> R!Run] /\ \A h \in Goroutines : Sound(runs'[h], posted')
      BY <3>1, <3>2, OneReport
    <3> QED
      BY <3>1, <3>3 DEF Reporting, R!TypeOK, R!ReportedToBoth, R!env
  <2> QED
    BY <2>1, <2>2
<1>8. CASE R!PostToAdmin(g)
  <2>1. PICK ok \in BOOLEAN, e \in {"nil", "error", "torn"} :
          /\ e \in R!ErrAfter(runs[g].err, ok)
          /\ runs' = [runs EXCEPT ![g].admin = "off", ![g].err = e]
          /\ posted' = IF ok THEN posted \cup {"admin"} ELSE posted
    BY <1>8 DEF R!PostToAdmin
  <2> DEFINE n == [r EXCEPT !.admin = "off", !.err = e]
  <2>2. runs' = [runs EXCEPT ![g] = n]
    BY <1>1, <2>1
  <2>3. n \in R!Run /\ Sound(n, posted')
    BY <1>1, <1>8, <2>1 DEF R!PostToAdmin, R!Run, Sound, R!ErrAfter
  <2>4. runs' \in [Goroutines -> R!Run] /\ \A h \in Goroutines : Sound(runs'[h], posted')
    BY <2>1, <2>2, <2>3, OneReport
  <2>5. errors' \in 0..MaxFaults
    BY <1>8, ReportFaults DEF R!PostToAdmin
  <2> QED
    BY <1>8, <2>1, <2>4, <2>5 DEF R!PostToAdmin, Reporting, R!TypeOK, R!ReportedToBoth, R!env, R!Messages
<1>9. CASE R!PostToChannel(g)
  <2>1. PICK ok \in BOOLEAN, e \in {"nil", "error", "torn"} :
          /\ e \in R!ErrAfter(runs[g].err, ok)
          /\ runs' = [runs EXCEPT ![g].group = "off", ![g].err = e]
          /\ posted' = IF ok THEN posted \cup {"channel"} ELSE posted
    BY <1>9 DEF R!PostToChannel
  <2> DEFINE n == [r EXCEPT !.group = "off", !.err = e]
  <2>2. runs' = [runs EXCEPT ![g] = n]
    BY <1>1, <2>1
  <2>3. n \in R!Run /\ Sound(n, posted')
    BY <1>1, <1>9, <2>1 DEF R!PostToChannel, R!Run, Sound, R!ErrAfter
  <2>4. runs' \in [Goroutines -> R!Run] /\ \A h \in Goroutines : Sound(runs'[h], posted')
    BY <2>1, <2>2, <2>3, OneReport
  <2>5. errors' \in 0..MaxFaults
    BY <1>9, ReportFaults DEF R!PostToChannel
  <2> QED
    BY <1>9, <2>1, <2>4, <2>5 DEF R!PostToChannel, Reporting, R!TypeOK, R!ReportedToBoth, R!env, R!Messages
<1>10. CASE R!HelpersEnded(g)
  <2>1. CASE R!Rollback(g)
    BY <1>10, <2>1, RollbackReporting, ReportFaults DEF R!HelpersEnded
  <2>2. CASE R!Ends
    BY <1>10, <2>2, EndsReporting, ReportFaults DEF R!HelpersEnded, R!Rollback
  <2>3. CASE ~R!Rollback(g) /\ ~R!Ends
    <3> DEFINE n == [r EXCEPT !.pc = "done"]
    <3>1. r.pc = "wait" /\ r.admin = "off" /\ r.group = "off" /\ r.err = "nil"
      BY <1>10, <2>3 DEF R!HelpersEnded
    <3>2. runs' = [runs EXCEPT ![g] = n] /\ UNCHANGED <<up, status, swept, posted, R!env, errors>>
      BY <1>10, <2>3 DEF R!HelpersEnded
    <3>3. n \in R!Run /\ Sound(n, posted')
      BY <1>1, <3>1, <3>2 DEF R!Run, Sound
    <3>4. runs' \in [Goroutines -> R!Run] /\ \A h \in Goroutines : Sound(runs'[h], posted')
      BY <3>2, <3>3, OneReport
    <3> QED
      BY <3>2, <3>4 DEF Reporting, R!TypeOK, R!ReportedToBoth, R!env
  <2> QED
    BY <2>1, <2>2, <2>3
<1> QED
  BY <1>2, <1>3, <1>4, <1>5, <1>6, <1>7, <1>8, <1>9, <1>10 DEF R!Step

LEMMA ReportingNext == Reporting /\ [R!Next]_(R!vars) => Reporting'
<1> SUFFICES ASSUME Reporting, [R!Next]_(R!vars)
             PROVE  Reporting'
  OBVIOUS
<1>1. ASSUME NEW g \in Goroutines, R!Fail(g) PROVE Reporting'
  BY <1>1, RollbackReporting, ReportFaults DEF R!Fail
<1>2. CASE R!Crash
  BY <1>2, EndsReporting, ReportFaults DEF R!Crash
<1> QED
  BY <1>1, <1>2, StepReporting, ReportsAround DEF R!Next

\* Every reachable state of the reports is well typed.
THEOREM ReportsTypesOK == R!Spec => []R!TypeOK
<1>1. Reporting => R!TypeOK
  BY DEF Reporting
<1> QED
  BY ReportingInit, ReportingNext, <1>1, PTL DEF R!Spec

\* REPORT_MATCHES never ends well with a message missing, in whatever order the
\* helpers post, fail and write multiErr, and however often the job was retried.
THEOREM SuccessReachedBoth == R!Spec => []ReportedToBoth
<1>1. Reporting => ReportedToBoth
  BY DEF Reporting, R!ReportedToBoth, ReportedToBoth
<1> QED
  BY ReportingInit, ReportingNext, <1>1, PTL DEF R!Spec
===============================================================================
