--------------------------- MODULE MembershipProofs ---------------------------
(***************************************************************************)
(* Proofs about how a user becomes a member, for any number of goroutines, *)
(* events, views and faults. There is at most one transaction that has     *)
(* written the row (OneWriter); whoever can be asked or has answered has a *)
(* row, or had one (Invited); an answer is in the row or its job is        *)
(* pending (Answered). The last part is about the row of the channel       *)
(* itself (Channels).                                                      *)
(***************************************************************************)
EXTENDS Membership, TableProofs

BusyOnes == {g \in Goroutines : Busy(g)}

\* A transaction has locked one row; there is nothing else to undo.
Locks ==
    /\ OneRowEach(jobs, Goroutines, BusyOnes)
    /\ \A g \in Goroutines : ~Busy(g) => run[g] = NoRun

\* The member is in the table, or was.
Known == row.exists \/ left

\* What the transaction r of the job j has decided.
Decision(r, j) ==
    /\ r.pc # "done" => r.writes = "nothing" /\ r.adds = <<>>
    /\ r.pc = "listed" => j.type = "SYNC_MEMBERS"
    /\ r.writes = "insert" => j.type = "ADD_MEMBER" /\ r.adds = <<"GREET_MEMBER">>
    /\ r.writes = "update" => j.type = "UPDATE_MEMBER"
    /\ r.writes = "delete" => j.type = "DELETE_MEMBER"
    /\ r.pc = "done" /\ j.type = "UPDATE_MEMBER" => r.writes = "update" \/ left
    /\ \A i \in DOMAIN r.adds :
          /\ r.adds[i] # "UPDATE_MEMBER"
          /\ r.adds[i] = "GREET_MEMBER" => r.writes = "insert" \/ Known
Decisions == \A k \in DOMAIN jobs, g \in Goroutines :
    jobs[k].taker = g => Decision(run[g], jobs[k])

OneWriter ==
    /\ \A g \in Goroutines :
          /\ run[g].writes \in {"update", "delete"} => row.exists
          /\ run[g].writes = "insert" => ~row.exists
    /\ \A g, h \in Goroutines : run[g].writes # "nothing" /\ run[h].writes # "nothing" => g = h

\* Only members are greeted, and only who was greeted answers.
Invited ==
    /\ \A k \in DOMAIN jobs : jobs[k].type \in {"GREET_MEMBER", "UPDATE_MEMBER"} => Known
    /\ view > 0 => buttons > 0
    /\ buttons > 0 => Known

\* The answer is in the row, or will be.
Asked(m) == \E k \in DOMAIN jobs : jobs[k].type = "UPDATE_MEMBER" /\ jobs[k].sets = m
Recorded(m) == m \in row.columns \/ Asked(m)

\* What was asked before the view was answered, and everything before the end.
Answered == ~left =>
    /\ \A k \in DOMAIN Steps : k < view /\ Steps[k] \in Mandatory => Recorded(Steps[k])
    /\ Recorded("active") => \A m \in Mandatory : Recorded(m)

Inv == TypeOK /\ Locks /\ Decisions /\ OneWriter /\ Invited /\ Answered /\ Greeted

-------------------------------------------------------------------------------
(* Rows and transactions *)

LEMMA NoRunTyped ==
  NoRun \in Run /\ NoRun.pc = "idle" /\ NoRun.writes = "nothing" /\ NoRun.adds = <<>>
  BY EmptySeq DEF NoRun, Run

LEMMA NoRowTyped == NoRow \in Row /\ ~NoRow.exists /\ NoRow.columns = {} /\ ~NoRow.greeted
  BY DEF NoRow, Row

\* The views after the steps.
LEMMA ViewsOf ==
  /\ Len(Steps) \in Nat /\ DOMAIN Steps = 1..Len(Steps)
  /\ Len(Views) = Len(Steps) + 3 /\ DOMAIN Views = 1..(Len(Steps) + 3)
  /\ \A k \in DOMAIN Steps : Views[k] = Steps[k]
  /\ Views[Len(Steps) + 1] = "calendly" /\ Views[Len(Steps) + 2] = "activate"
  /\ Views[Len(Steps) + 3] = "respond"
<1>1. Steps \in Seq(STRING)
  BY MembershipAssumption
<1> QED
  BY <1>1 DEF Views

LEMMA RowTyped ==
  ASSUME TypeOK, NEW k \in DOMAIN jobs
  PROVE  jobs[k] \in Job
  BY ElementOfSeq DEF TypeOK

LEMMA RowOfBusy ==
  ASSUME Inv, NEW g \in Goroutines, Busy(g)
  PROVE  \E k \in DOMAIN jobs :
            /\ jobs[k].taker = g /\ JobOf(g) = jobs[k] /\ Decision(run[g], jobs[k])
            /\ \A n \in DOMAIN jobs : jobs[n].taker = g => n = k
<1>1. PICK k \in DOMAIN jobs : jobs[k].taker = g
  BY DEF Inv, Locks, OneRowEach, BusyOnes
<1>2. \A n \in DOMAIN jobs : jobs[n].taker = g => n = k
  BY <1>1 DEF Inv, Locks, OneRowEach
<1>3. JobOf(g) = jobs[k]
  BY <1>1, <1>2 DEF JobOf, Pending
<1> QED
  BY <1>1, <1>2, <1>3 DEF Inv, Decisions

\* An idle transaction has decided nothing.
LEMMA NoDecision == \A j : Decision(NoRun, j)
  BY NoRunTyped DEF Decision

LEMMA NextJobAvailable ==
  ASSUME TypeOK, Available # {}
  PROVE  NextJob \in Available
<1> DEFINE p == [k \in Available |-> Priority(jobs[k].type)]
<1>1. Available \subseteq Nat
  BY DEF Available, TypeOK
<1>2. p \in [Available -> 0..10]
  BY DEF Priority, Highest, High, Standard, Low, Lowest
<1> HIDE DEF p
<1>3. PICK x \in Available : \A m \in Available \ {x} : p[x] > p[m] \/ (p[x] = p[m] /\ x < m)
  BY <1>1, <1>2, FirstInLine
<1>4. \E y \in Available : \A m \in Available \ {y} :
         \/ Priority(jobs[y].type) > Priority(jobs[m].type)
         \/ Priority(jobs[y].type) = Priority(jobs[m].type) /\ y < m
  BY <1>3 DEF p
<1> QED
  BY <1>4 DEF NextJob

LEMMA InitInv == Init => Inv
<1> SUFFICES ASSUME Init PROVE Inv
  OBVIOUS
<1>1. TypeOK
  <2>1. view \in 0..Len(Views) /\ moves \in 0..MaxMoves /\ opens \in 0..MaxOpens
    BY ViewsOf, MembershipAssumption DEF Init
  <2>2. jobs \in Seq(Job) /\ events \in Seq({"joined", "left"})
    BY EmptySeq DEF Init
  <2> QED
    BY <2>1, <2>2, NoRunTyped, NoRowTyped DEF Init, TypeOK
<1>2. DOMAIN jobs = {} /\ BusyOnes = {} /\ \A g \in Goroutines : run[g] = NoRun
  BY EmptySeq, NoRunTyped DEF Init, BusyOnes, Busy
<1>3. Locks /\ Decisions /\ OneWriter
  BY <1>2, NoRunTyped DEF Locks, OneRowEach, Decisions, OneWriter
<1>4. Invited /\ Greeted
  BY <1>2, NoRowTyped DEF Init, Invited, Greeted
<1>5. Answered
  <2>1. \A k \in DOMAIN Steps : ~(k < view)
    BY ViewsOf DEF Init
  <2>2. ~Recorded("active")
    BY <1>2, NoRowTyped DEF Init, Recorded, Asked
  <2> QED
    BY <2>1, <2>2 DEF Answered
<1> QED
  BY <1>1, <1>3, <1>4, <1>5 DEF Inv
-------------------------------------------------------------------------------
(* Slack, the user and the HTTP handlers *)

\* What is neither a table nor a transaction.
OthersTyped ==
    /\ inSlack \in BOOLEAN /\ events \in Seq({"joined", "left"})
    /\ buttons \in Nat /\ view \in 0..Len(Views)
    /\ moves \in 0..MaxMoves /\ opens \in 0..MaxOpens /\ faults \subseteq Faults

\* Jobs are queued, or none, and views change.
LEMMA RequestInv ==
  ASSUME Inv, UNCHANGED <<row, run, left>>, OthersTyped', jobs' \in Seq(Job), faults \subseteq faults',
         \A k \in DOMAIN jobs : k \in DOMAIN jobs' /\ jobs'[k] = jobs[k],
         \A k \in DOMAIN jobs' \ DOMAIN jobs :
            /\ jobs'[k].taker = Nobody /\ jobs'[k].type # "GREET_MEMBER"
            /\ jobs'[k].type = "UPDATE_MEMBER" => Known,
         view' > 0 => buttons' > 0, buttons' > 0 => Known,
         ~left => \A k \in DOMAIN Steps : k < view' /\ Steps[k] \in Mandatory =>
                     Recorded(Steps[k]) \/ Asked(Steps[k])',
         ~left => (Asked("active")' => Asked("active") \/ \A m \in Mandatory : Recorded(m))
  PROVE  Inv'
<1>1. TypeOK'
  BY DEF Inv, TypeOK, OthersTyped
<1>2. Locks'
  <2>1. OneRowEach(jobs', Goroutines, BusyOnes)
    BY MembershipAssumption, LocksKept DEF Inv, Locks
  <2> QED
    BY <2>1 DEF Inv, Locks, BusyOnes, Busy
<1>3. Decisions'
  <2> SUFFICES ASSUME NEW k \in DOMAIN jobs', NEW g \in Goroutines, jobs'[k].taker = g
               PROVE  Decision(run[g], jobs[k])'
    BY DEF Decisions
  <2>1. k \in DOMAIN jobs /\ jobs'[k] = jobs[k]
    BY MembershipAssumption
  <2> QED
    BY <2>1 DEF Inv, Decisions, Decision, Known
<1>4. OneWriter'
  BY DEF Inv, OneWriter
<1>5. Invited'
  BY DEF Inv, Invited, Known
<1>6. \A m : Recorded(m) => Recorded(m)'
  BY DEF Recorded, Asked
<1>7. Answered'
  <2> SUFFICES ASSUME ~left
               PROVE  /\ \A k \in DOMAIN Steps : k < view' /\ Steps[k] \in Mandatory => Recorded(Steps[k])'
                      /\ Recorded("active")' => \A m \in Mandatory : Recorded(m)'
    BY DEF Answered
  <2>1. \A m : Asked(m)' => Recorded(m)'
    BY DEF Recorded
  <2>2. Recorded("active")' => Recorded("active") \/ \A m \in Mandatory : Recorded(m)
    BY DEF Recorded
  <2>3. Recorded("active") => \A m \in Mandatory : Recorded(m)
    BY DEF Inv, Answered
  <2> QED
    BY <1>6, <2>1, <2>2, <2>3
<1>8. Greeted'
  <2>1. \A j \in Pending : j \in Pending'
    BY DEF Pending
  <2> QED
    BY <2>1 DEF Inv, Greeted
<1> QED
  BY <1>1, <1>2, <1>3, <1>4, <1>5, <1>7, <1>8 DEF Inv

LEMMA NewJobTyped ==
  ASSUME NEW t \in MemberJobs, NEW s \in Answers \cup {"none"}
  PROVE  /\ NewJob(t, s) \in Job /\ NewJob(t, s).type = t /\ NewJob(t, s).sets = s
         /\ NewJob(t, s).taker = Nobody
  BY DEF NewJob, Job

LEMMA RowAdded ==
  ASSUME Inv, NEW j \in Job, jobs' = Append(jobs, j)
  PROVE  /\ jobs' \in Seq(Job)
         /\ \A k \in DOMAIN jobs : k \in DOMAIN jobs' /\ jobs'[k] = jobs[k]
         /\ \A k \in DOMAIN jobs' \ DOMAIN jobs : jobs'[k] = j
         /\ \E k \in DOMAIN jobs' : jobs'[k] = j
  BY DEF Inv, TypeOK

\* An event or a round: not a job of the onboarding, nor a view.
LEMMA EventQueuedInv ==
  ASSUME Inv, NEW t \in {"ADD_MEMBER", "DELETE_MEMBER", "SYNC_MEMBERS"},
         jobs' = Append(jobs, NewJob(t, "none")) \/ jobs' = jobs,
         UNCHANGED <<row, run, dialog, left>>, OthersTyped', faults \subseteq faults'
  PROVE  Inv'
<1>1. t \in MemberJobs
  BY DEF MemberJobs
<1>2. NewJob(t, "none") \in Job /\ NewJob(t, "none").type = t /\ NewJob(t, "none").taker = Nobody
  BY <1>1, NewJobTyped
<1>3. /\ jobs' \in Seq(Job)
      /\ \A k \in DOMAIN jobs : k \in DOMAIN jobs' /\ jobs'[k] = jobs[k]
      /\ \A k \in DOMAIN jobs' \ DOMAIN jobs : jobs'[k] = NewJob(t, "none")
  <2>1. CASE jobs' = jobs
    BY <2>1 DEF Inv, TypeOK
  <2>2. CASE jobs' = Append(jobs, NewJob(t, "none"))
    BY <2>2, <1>2, RowAdded
  <2> QED
    BY <2>1, <2>2
<1>4. \A k \in DOMAIN jobs' \ DOMAIN jobs :
         /\ jobs'[k].taker = Nobody /\ jobs'[k].type # "GREET_MEMBER" /\ jobs'[k].type # "UPDATE_MEMBER"
  BY <1>2, <1>3
<1>5. \A m : Asked(m)' => Asked(m)
  BY <1>3, <1>4 DEF Asked
<1>6. (view' > 0 => buttons' > 0) /\ (buttons' > 0 => Known)
  BY DEF dialog, Inv, Invited
<1>7. view' = view /\ (~left => \A k \in DOMAIN Steps : k < view /\ Steps[k] \in Mandatory => Recorded(Steps[k]))
  BY DEF dialog, Inv, Answered
<1> QED
  BY <1>3, <1>4, <1>5, <1>6, <1>7, RequestInv

LEMMA WithoutTyped ==
  ASSUME Inv, NEW k \in DOMAIN events
  PROVE  Without(k) \in Seq({"joined", "left"}) /\ events[k] \in {"joined", "left"}
<1> DEFINE E == {"joined", "left"}
<1>1. events \in Seq(E) /\ Len(events) \in Nat /\ k \in 1..Len(events) /\ \A i \in 1..Len(events) : events[i] \in E
  BY DEF Inv, TypeOK
<1> HIDE DEF E
<1>2. SubSeq(events, 1, k - 1) \in Seq(E)
  BY <1>1, SubSeqProperties
<1>3. SubSeq(events, k + 1, Len(events)) \in Seq(E)
  BY <1>1, SubSeqProperties
<1>4. Without(k) \in Seq(E)
  BY <1>2, <1>3, ConcatProperties DEF Without
<1> QED
  BY <1>1, <1>4 DEF E

LEMMA EventsInv ==
  ASSUME Inv, Move \/ StartRound \/ \E k \in DOMAIN events : Deliver(k) \/ Misdeliver(k)
  PROVE  Inv'
<1>1. OthersTyped
  BY DEF Inv, TypeOK, OthersTyped
<1>2. CASE Move
  <2>1. moves' \in 0..MaxMoves
    BY <1>2, MembershipAssumption DEF Move, Inv, TypeOK
  <2>2. events' \in Seq({"joined", "left"}) /\ inSlack' \in BOOLEAN
    BY <1>2 DEF Move, Inv, TypeOK
  <2>3. OthersTyped'
    BY <1>1, <1>2, <2>1, <2>2 DEF Move, dialog, OthersTyped
  <2> QED
    BY <1>2, <2>3, EventQueuedInv DEF Move
<1>3. CASE StartRound
  <2>1. OthersTyped'
    BY <1>1, <1>3 DEF StartRound, slack, dialog, OthersTyped
  <2> QED
    BY <1>3, <2>1, EventQueuedInv DEF StartRound
<1>4. ASSUME NEW k \in DOMAIN events, Deliver(k) \/ Misdeliver(k) PROVE Inv'
  <2>1. PICK t \in {"ADD_MEMBER", "DELETE_MEMBER"} : EventJob(events[k]) = NewJob(t, "none")
    BY DEF EventJob
  <2>2. (events' = Without(k) \/ events' = events) /\ (jobs' = Append(jobs, NewJob(t, "none")) \/ jobs' = jobs)
    BY <1>4, <2>1 DEF Deliver, Misdeliver
  <2>3. /\ faults \subseteq faults' /\ (faults \subseteq Faults => faults' \subseteq Faults)
        /\ UNCHANGED <<inSlack, moves, row, run, dialog, left>>
    BY <1>4 DEF Deliver, Misdeliver, Fault
  <2>4. OthersTyped'
    BY <1>1, <2>2, <2>3, WithoutTyped DEF OthersTyped, dialog
  <2> QED
    BY <2>2, <2>3, <2>4, EventQueuedInv
<1> QED
  BY <1>2, <1>3, <1>4
-------------------------------------------------------------------------------
(* The onboarding *)

\* Views change, and at most the answer s is queued.
LEMMA DialogInv ==
  ASSUME Inv, UNCHANGED <<row, run, left>>, NEW s \in Answers,
         jobs' = jobs \/ (jobs' = Append(jobs, NewJob("UPDATE_MEMBER", s)) /\ buttons > 0),
         OthersTyped', faults \subseteq faults', view' > 0 => buttons' > 0, buttons' > 0 => buttons > 0,
         ~left => \A k \in DOMAIN Steps : k < view' /\ Steps[k] \in Mandatory =>
                     Recorded(Steps[k]) \/ Asked(Steps[k])',
         ~left /\ s = "active" => \A m \in Mandatory : Recorded(m)
  PROVE  Inv'
<1> DEFINE j == NewJob("UPDATE_MEMBER", s)
<1>1. j \in Job /\ j.type = "UPDATE_MEMBER" /\ j.sets = s /\ j.taker = Nobody
  BY NewJobTyped DEF MemberJobs
<1> HIDE DEF j
<1>2. /\ jobs' \in Seq(Job)
      /\ \A k \in DOMAIN jobs : k \in DOMAIN jobs' /\ jobs'[k] = jobs[k]
      /\ \A k \in DOMAIN jobs' \ DOMAIN jobs : jobs'[k] = j /\ buttons > 0
  <2>1. CASE jobs' = jobs
    BY <2>1 DEF Inv, TypeOK
  <2>2. CASE jobs' = Append(jobs, j) /\ buttons > 0
    BY <2>2, <1>1, RowAdded
  <2> QED
    BY <2>1, <2>2 DEF j
<1>3. \A k \in DOMAIN jobs' \ DOMAIN jobs :
         /\ jobs'[k].taker = Nobody /\ jobs'[k].type # "GREET_MEMBER"
         /\ jobs'[k].type = "UPDATE_MEMBER" => Known
  BY <1>1, <1>2 DEF Inv, Invited
<1>4. Asked("active")' => Asked("active") \/ s = "active"
  BY <1>1, <1>2 DEF Asked
<1>5. buttons' > 0 => Known
  BY DEF Inv, Invited
<1> QED
  BY <1>2, <1>3, <1>4, <1>5, RequestInv

\* Which part of the handler it is that a view stands for.
LEMMA WhichView ==
  ASSUME Inv, view > 0
  PROVE  /\ view \in 1..(Len(Steps) + 3)
         /\ Views[view] = "calendly" => view = Len(Steps) + 1
         /\ Views[view] = "activate" => view = Len(Steps) + 2
         /\ Views[view] = "respond" => view = Len(Steps) + 3
<1>1. view \in 1..(Len(Steps) + 3)
  BY ViewsOf DEF Inv, TypeOK
<1>2. CASE view \in 1..Len(Steps)
  BY <1>1, <1>2, ViewsOf, MembershipAssumption
<1>3. CASE view \in {Len(Steps) + 1, Len(Steps) + 2, Len(Steps) + 3}
  BY <1>1, <1>3, ViewsOf
<1> QED
  BY <1>1, <1>2, <1>3, ViewsOf

LEMMA FaultTyped ==
  ASSUME NEW kind, Fault(kind) \/ UNCHANGED faults
  PROVE  faults \subseteq faults' /\ (faults \subseteq Faults => faults' \subseteq Faults)
  BY DEF Fault

LEMMA SubmitViewInv ==
  ASSUME Inv, SubmitView
  PROVE  Inv'
<1>1. view \in DOMAIN Steps /\ view \in 1..Len(Steps) /\ Views[view] = Steps[view]
  BY ViewsOf DEF SubmitView
<1>2. PICK a : a = Steps[view] /\ a \in Answers /\ a # "active"
  BY <1>1, MembershipAssumption DEF Answers
<1>3. /\ jobs' = Append(jobs, NewJob("UPDATE_MEMBER", a))
      /\ UNCHANGED <<inSlack, events, moves, row, run, buttons, opens, left>>
      /\ faults \subseteq faults' /\ (faults \subseteq Faults => faults' \subseteq Faults)
  BY <1>1, <1>2, FaultTyped DEF SubmitView, Queue, slack
<1>4. view' = view \/ view' = view + 1 \/ (view' = view + 2 /\ Views[view + 1] \in Optional)
  BY DEF SubmitView, Follows
<1>5. view' \in 0..Len(Views)
  BY <1>1, <1>4, ViewsOf
<1>6. OthersTyped'
  BY <1>3, <1>5 DEF Inv, TypeOK, OthersTyped
<1>7. Asked(a)'
  <2>1. NewJob("UPDATE_MEMBER", a) \in Job
    BY <1>2, NewJobTyped DEF MemberJobs
  <2>2. \E k \in DOMAIN jobs' : jobs'[k] = NewJob("UPDATE_MEMBER", a)
    BY <1>3, <2>1, RowAdded
  <2> QED
    BY <2>2 DEF Asked, NewJob
<1>8. view > 0 /\ buttons > 0
  BY <1>1 DEF Inv, Invited
<1>9. ASSUME ~left, NEW k \in DOMAIN Steps, k < view', Steps[k] \in Mandatory
      PROVE  Recorded(Steps[k]) \/ Asked(Steps[k])'
  <2>1. k \in 1..Len(Steps)
    BY ViewsOf
  <2>2. CASE k < view
    BY <1>9, <2>2 DEF Inv, Answered
  <2>3. CASE k = view
    BY <1>2, <1>7, <2>3
  <2>4. CASE k > view
    <3>1. k = view + 1 /\ Views[view + 1] \in Optional
      BY <1>1, <1>4, <1>9, <2>1, <2>4
    <3>2. Views[view + 1] = Steps[k]
      BY <3>1, ViewsOf
    <3> QED
      BY <1>9, <3>1, <3>2 DEF Mandatory
  <2> QED
    BY <1>1, <2>1, <2>2, <2>3, <2>4
<1> QED
  BY <1>2, <1>3, <1>6, <1>8, <1>9, DialogInv

LEMMA SubmitCalendlyInv ==
  ASSUME Inv, SubmitCalendly
  PROVE  Inv'
<1>1. view = Len(Steps) + 1 /\ view' = view + 1 /\ buttons > 0
  BY WhichView DEF SubmitCalendly, Inv, Invited
<1>2. /\ jobs' = jobs \/ (jobs' = Append(jobs, NewJob("UPDATE_MEMBER", "calendly")) /\ buttons > 0)
      /\ UNCHANGED <<inSlack, events, moves, row, run, buttons, opens, left, faults>>
  BY <1>1 DEF SubmitCalendly, Queue, slack
<1>3. view' \in 0..Len(Views)
  BY <1>1, ViewsOf
<1>4. OthersTyped'
  BY <1>2, <1>3 DEF Inv, TypeOK, OthersTyped
<1>5. \A k \in DOMAIN Steps : k < view' => k < view
  BY <1>1, ViewsOf
<1>6. ~left => \A k \in DOMAIN Steps : k < view' /\ Steps[k] \in Mandatory => Recorded(Steps[k])
  BY <1>5 DEF Inv, Answered
<1>7. "calendly" \in Answers /\ "calendly" # "active"
  BY DEF Answers
<1> QED
  BY <1>1, <1>2, <1>4, <1>6, <1>7, DialogInv

LEMMA SetMemberIsActiveInv ==
  ASSUME Inv, SetMemberIsActive
  PROVE  Inv'
<1>1. view = Len(Steps) + 2 /\ view' = view + 1 /\ buttons > 0
  BY WhichView DEF SetMemberIsActive, Inv, Invited
<1>2. /\ jobs' = Append(jobs, NewJob("UPDATE_MEMBER", "active"))
      /\ UNCHANGED <<inSlack, events, moves, row, run, buttons, opens, left, faults>>
  BY DEF SetMemberIsActive, Queue, slack
<1>3. view' \in 0..Len(Views)
  BY <1>1, ViewsOf
<1>4. OthersTyped'
  BY <1>2, <1>3 DEF Inv, TypeOK, OthersTyped
<1>5. \A k \in DOMAIN Steps : k < view
  BY <1>1, ViewsOf
<1>6. ~left => \A m \in Mandatory : Recorded(m)
  BY <1>5 DEF Inv, Answered, Mandatory
<1>7. "active" \in Answers
  BY DEF Answers
<1> QED
  BY <1>1, <1>2, <1>4, <1>6, <1>7, DialogInv

LEMMA ViewsInv ==
  ASSUME Inv, OpenDialog \/ RespondGreetMember \/ LastViewFails
  PROVE  Inv'
<1>1. /\ UNCHANGED <<inSlack, events, moves, row, run, jobs, left>>
      /\ faults \subseteq faults' /\ (faults \subseteq Faults => faults' \subseteq Faults)
  BY FaultTyped DEF OpenDialog, RespondGreetMember, LastViewFails, slack
<1>2. buttons > 0 /\ buttons \in Nat /\ opens \in 0..MaxOpens /\ MaxOpens \in Nat
  BY MembershipAssumption DEF OpenDialog, RespondGreetMember, LastViewFails, Inv, Invited, TypeOK
<1>a. "calendly" \in Answers /\ "calendly" # "active"
  BY DEF Answers
<1>3. CASE OpenDialog
  <2>1. view' = 1 /\ opens' \in 0..MaxOpens /\ buttons' = buttons
    BY <1>2, <1>3 DEF OpenDialog
  <2>2. view' \in 0..Len(Views) /\ \A k \in DOMAIN Steps : ~(k < view')
    BY <2>1, ViewsOf
  <2>3. OthersTyped'
    BY <1>1, <1>2, <2>1, <2>2 DEF Inv, TypeOK, OthersTyped
  <2> QED
    BY <1>1, <1>2, <1>a, <2>1, <2>2, <2>3, DialogInv
<1>4. CASE RespondGreetMember
  <2>1. view' = 0 /\ opens' = opens /\ buttons' \in Nat
    BY <1>2, <1>4 DEF RespondGreetMember
  <2>2. view' \in 0..Len(Views) /\ \A k \in DOMAIN Steps : ~(k < view')
    BY <2>1, ViewsOf
  <2>3. OthersTyped'
    BY <1>1, <1>2, <2>1, <2>2 DEF Inv, TypeOK, OthersTyped
  <2> QED
    BY <1>1, <1>2, <1>a, <2>1, <2>2, <2>3, DialogInv
<1>5. CASE LastViewFails
  <2>1. view > Len(Steps) + 1 /\ view' = Len(Steps) + 1 /\ opens' = opens /\ buttons' = buttons
    BY <1>5, WhichView, ViewsOf DEF LastViewFails
  <2>2. view' \in 0..Len(Views) /\ \A k \in DOMAIN Steps : k < view' => k < view
    <3>1. view \in Nat
      BY ViewsOf DEF Inv, TypeOK
    <3> QED
      BY <2>1, <3>1, ViewsOf
  <2>3. ~left => \A k \in DOMAIN Steps : k < view' /\ Steps[k] \in Mandatory => Recorded(Steps[k])
    BY <2>2 DEF Inv, Answered
  <2>4. OthersTyped'
    BY <1>1, <2>1, <2>2 DEF Inv, TypeOK, OthersTyped
  <2> QED
    BY <1>1, <1>2, <1>a, <2>1, <2>3, <2>4, DialogInv
<1> QED
  BY <1>3, <1>4, <1>5

-------------------------------------------------------------------------------
(* Transactions that go on, and that are rolled back *)

\* Nobody else has written the row.
LEMMA OnlyWriter ==
  ASSUME Inv, NEW g \in Goroutines
  PROVE  /\ ~Locked(g) /\ row.exists => \A h \in Goroutines \ {g} : run[h].writes = "nothing"
         /\ ~Inserted(g) /\ ~row.exists => \A h \in Goroutines \ {g} : run[h].writes = "nothing"
<1>1. \A h \in Goroutines : run[h].writes \in {"nothing", "insert", "update", "delete"}
  BY DEF Inv, TypeOK, Run
<1> QED
  BY <1>1 DEF Inv, OneWriter, Locked, Inserted

\* The transaction of g becomes r, which may post a greeting first.
LEMMA MovesInv ==
  ASSUME Inv, NEW g \in Goroutines, Busy(g), NEW r \in Run, Continue(g, r), r.pc # "idle",
         \A k \in DOMAIN jobs : jobs[k].taker = g => Decision(r, jobs[k]),
         buttons' \in Nat, buttons' >= buttons, buttons' > 0 => Known,
         r.writes \in {"update", "delete"} => row.exists,
         r.writes = "insert" => ~row.exists,
         r.writes # "nothing" => \A h \in Goroutines \ {g} : run[h].writes = "nothing"
  PROVE  Inv'
<1>1. /\ run' = [run EXCEPT ![g] = r] /\ run \in [Goroutines -> Run] /\ buttons \in Nat
      /\ UNCHANGED <<inSlack, events, moves, row, jobs, view, opens, left, faults>>
  BY DEF Continue, slack, Inv, TypeOK
<1>2. run' \in [Goroutines -> Run] /\ run'[g] = r /\ \A h \in Goroutines \ {g} : run'[h] = run[h]
  BY <1>1
<1>3. TypeOK'
  BY <1>1, <1>2 DEF Inv, TypeOK
<1>4. Locks'
  <2>1. BusyOnes' = BusyOnes
    BY <1>2 DEF BusyOnes, Busy
  <2> QED
    BY <2>1, <1>1, <1>2 DEF Inv, Locks, Busy
<1>5. Decisions'
  <2> SUFFICES ASSUME NEW k \in DOMAIN jobs, NEW h \in Goroutines, jobs[k].taker = h
               PROVE  Decision(run[h], jobs[k])'
    BY <1>1 DEF Decisions
  <2>1. Decision(run'[h], jobs[k])
    BY <1>2 DEF Inv, Decisions
  <2> QED
    BY <2>1, <1>1 DEF Decision, Known
<1>6. OneWriter'
  BY <1>1, <1>2 DEF Inv, OneWriter
<1>7. Invited'
  BY <1>1 DEF Inv, Invited, Known
<1>8. Answered' /\ Greeted'
  BY <1>1 DEF Inv, Answered, Greeted, Recorded, Asked, Pending
<1> QED
  BY <1>3, <1>4, <1>5, <1>6, <1>7, <1>8 DEF Inv

\* The rows are there as before, but for who has locked them.
LEMMA RowsRelocked ==
  ASSUME Inv, jobs' = [k \in DOMAIN jobs |-> jobs'[k]],
         \A k \in DOMAIN jobs : \E t \in Goroutines \cup {Nobody} : jobs'[k] = [jobs[k] EXCEPT !.taker = t],
         UNCHANGED <<slack, row, dialog, left>>, faults \subseteq faults', faults' \subseteq Faults,
         run' \in [Goroutines -> Run]
  PROVE  /\ DOMAIN jobs' = DOMAIN jobs
         /\ \A k \in DOMAIN jobs : jobs'[k].type = jobs[k].type /\ jobs'[k].sets = jobs[k].sets
         /\ TypeOK' /\ Invited' /\ Answered' /\ Greeted'
<1>1. jobs \in Seq(Job) /\ \A k \in DOMAIN jobs : jobs[k] \in Job
  BY RowTyped DEF Inv, TypeOK
<1>2. \A k \in DOMAIN jobs :
         jobs'[k] \in Job /\ jobs'[k].type = jobs[k].type /\ jobs'[k].sets = jobs[k].sets
  BY <1>1 DEF Job
<1>3. DOMAIN jobs = 1..Len(jobs) /\ Len(jobs) \in Nat /\ DOMAIN jobs' = DOMAIN jobs
  BY <1>1
<1>4. jobs' \in Seq(Job)
  BY <1>2, <1>3, IsASeq
<1>5. TypeOK'
  BY <1>4 DEF Inv, TypeOK, slack, dialog
<1>6. Invited'
  BY <1>2, <1>3 DEF Inv, Invited, Known, dialog
<1>7. Answered'
  <2>1. \A m : Asked(m)' <=> Asked(m)
    BY <1>2, <1>3 DEF Asked
  <2> QED
    BY <2>1 DEF Inv, Answered, Recorded, dialog
<1>8. Greeted'
  <2>1. (\E j \in Pending : j.type = "GREET_MEMBER") => \E j \in Pending' : j.type = "GREET_MEMBER"
    BY <1>2, <1>3 DEF Pending
  <2> QED
    BY <2>1 DEF Inv, Greeted
<1> QED
  BY <1>2, <1>3, <1>5, <1>6, <1>7, <1>8

LEMMA TakeJobInv ==
  ASSUME Inv, NEW g \in Goroutines, TakeJob(g)
  PROVE  Inv'
<1> DEFINE n == NextJob
           r == [NoRun EXCEPT !.pc = "exec"]
<1>1. n \in DOMAIN jobs /\ jobs[n].taker = Nobody
  BY NextJobAvailable DEF TakeJob, Available, Inv
<1> HIDE DEF n
<1>2. /\ jobs' = [jobs EXCEPT ![n].taker = g] /\ run' = [run EXCEPT ![g].pc = "exec"]
      /\ UNCHANGED <<slack, row, dialog, left, faults>> /\ ~Busy(g) /\ run[g] = NoRun
      /\ run \in [Goroutines -> Run]
  BY DEF TakeJob, Inv, Locks, TypeOK, n
<1>3. r \in Run /\ r.pc = "exec" /\ r.writes = "nothing" /\ r.adds = <<>> /\ run' = [run EXCEPT ![g] = r]
  BY <1>2, NoRunTyped DEF Run
<1> HIDE DEF r
<1>4. run' \in [Goroutines -> Run] /\ run'[g] = r /\ \A h \in Goroutines \ {g} : run'[h] = run[h]
  BY <1>2, <1>3
<1>5. /\ jobs' = [k \in DOMAIN jobs |-> jobs'[k]]
      /\ \A k \in DOMAIN jobs : jobs'[k] = IF k = n THEN [jobs[k] EXCEPT !.taker = g] ELSE jobs[k]
  BY <1>1, <1>2
<1>6. ASSUME NEW k \in DOMAIN jobs
      PROVE  /\ \E t \in Goroutines \cup {Nobody} : jobs'[k] = [jobs[k] EXCEPT !.taker = t]
             /\ jobs'[k].taker = IF k = n THEN g ELSE jobs[k].taker
  <2>1. jobs[k] \in Job
    BY RowTyped DEF Inv
  <2>2. jobs[k] = [jobs[k] EXCEPT !.taker = jobs[k].taker] /\ jobs[k].taker \in Goroutines \cup {Nobody}
    BY <2>1 DEF Job
  <2> QED
    BY <2>1, <2>2, <1>5 DEF Job
<1>7. /\ DOMAIN jobs' = DOMAIN jobs
      /\ \A k \in DOMAIN jobs : jobs'[k].type = jobs[k].type
      /\ TypeOK' /\ Invited' /\ Answered' /\ Greeted'
  <2>1. faults \subseteq faults' /\ faults' \subseteq Faults
    BY <1>2 DEF Inv, TypeOK
  <2> QED
    BY <1>2, <1>4, <1>5, <1>6, <2>1, RowsRelocked
<1>8. Locks'
  <2>1. BusyOnes' = BusyOnes \cup {g} /\ g \notin BusyOnes
    BY <1>2, <1>3, <1>4 DEF BusyOnes, Busy
  <2>2. OneRowEach(jobs, Goroutines, BusyOnes) /\ jobs[n].taker \notin Goroutines
    BY <1>1, MembershipAssumption DEF Inv, Locks
  <2>3. OneRowEach(jobs', Goroutines, BusyOnes')
    BY <2>1, <2>2, <1>1, <1>6, <1>7, LockTaken
  <2> QED
    BY <2>3, <1>3, <1>4 DEF Inv, Locks, Busy
<1>9. Decisions'
  <2> SUFFICES ASSUME NEW k \in DOMAIN jobs, NEW h \in Goroutines, jobs'[k].taker = h
               PROVE  Decision(run[h], jobs[k])'
    BY <1>7 DEF Decisions
  <2>1. CASE h = g
    BY <2>1, <1>3, <1>4 DEF Decision
  <2>2. CASE h # g
    <3>1. Decision(run[h], jobs[k]) /\ run'[h] = run[h] /\ jobs'[k].type = jobs[k].type
      BY <2>2, <1>4, <1>6, <1>7 DEF Inv, Decisions
    <3> QED
      BY <3>1, <1>2 DEF Decision, Known
  <2> QED
    BY <2>1, <2>2
<1>10. OneWriter'
  BY <1>2, <1>3, <1>4 DEF Inv, OneWriter
<1> QED
  BY <1>7, <1>8, <1>9, <1>10 DEF Inv

LEMMA FailInv ==
  ASSUME Inv, NEW g \in Goroutines, Fail(g)
  PROVE  Inv'
<1>1. /\ jobs' = Released(g) /\ run' = [run EXCEPT ![g] = NoRun] /\ run \in [Goroutines -> Run]
      /\ UNCHANGED <<slack, row, dialog, left>>
      /\ faults \subseteq faults' /\ faults' \subseteq Faults
  BY FaultTyped DEF Fail, Inv, TypeOK
<1>2. run' \in [Goroutines -> Run] /\ run'[g] = NoRun /\ \A h \in Goroutines \ {g} : run'[h] = run[h]
  BY <1>1, NoRunTyped
<1>3. /\ jobs' = [k \in DOMAIN jobs |-> jobs'[k]]
      /\ \A k \in DOMAIN jobs : jobs'[k] = [jobs[k] EXCEPT !.taker = IF @ = g THEN Nobody ELSE @]
  BY <1>1 DEF Released
<1>4. ASSUME NEW k \in DOMAIN jobs
      PROVE  /\ \E t \in Goroutines \cup {Nobody} : jobs'[k] = [jobs[k] EXCEPT !.taker = t]
             /\ jobs'[k].taker = IF jobs[k].taker = g THEN Nobody ELSE jobs[k].taker
  <2>1. jobs[k] \in Job
    BY RowTyped DEF Inv
  <2> QED
    BY <2>1, <1>3 DEF Job
<1>5. /\ DOMAIN jobs' = DOMAIN jobs
      /\ \A k \in DOMAIN jobs : jobs'[k].type = jobs[k].type
      /\ TypeOK' /\ Invited' /\ Answered' /\ Greeted'
  BY <1>1, <1>2, <1>3, <1>4, RowsRelocked
<1>6. Locks'
  <2>1. BusyOnes' = BusyOnes \ {g}
    BY <1>2, NoRunTyped DEF BusyOnes, Busy
  <2>2. OneRowEach(jobs', Goroutines, BusyOnes \ {g})
    BY <1>4, <1>5, MembershipAssumption, LockReleased DEF Inv, Locks
  <2> QED
    BY <2>1, <2>2, <1>2 DEF Inv, Locks, Busy
<1>7. Decisions'
  <2> SUFFICES ASSUME NEW k \in DOMAIN jobs, NEW h \in Goroutines, jobs'[k].taker = h
               PROVE  Decision(run[h], jobs[k])'
    BY <1>5 DEF Decisions
  <2>1. h # g /\ jobs[k].taker = h
    BY <1>4, MembershipAssumption
  <2>2. Decision(run[h], jobs[k]) /\ run'[h] = run[h] /\ jobs'[k].type = jobs[k].type
    BY <2>1, <1>2, <1>5 DEF Inv, Decisions
  <2> QED
    BY <2>2, <1>1 DEF Decision, Known
<1>8. OneWriter'
  BY <1>1, <1>2, NoRunTyped DEF Inv, OneWriter
<1> QED
  BY <1>5, <1>6, <1>7, <1>8 DEF Inv

-------------------------------------------------------------------------------
(* Transactions that are committed *)

\* What becomes of the rows when g commits: they are those that were there, but
\* perhaps its own, and those it adds.
Committed(g, T, q) ==
    /\ \A x \in DOMAIN T :
          \/ \E k \in DOMAIN q :
                /\ T[x].type = q[k].type /\ T[x].sets = q[k].sets
                /\ \A h \in Goroutines : T[x].taker = h => q[k].taker = h /\ h # g
          \/ \E i \in DOMAIN run[g].adds : T[x] = NewJob(run[g].adds[i], "none")
    /\ \A k \in DOMAIN q : q[k].taker # g =>
          \E x \in DOMAIN T : T[x].type = q[k].type /\ T[x].sets = q[k].sets

LEMMA NewJobsTyped ==
  ASSUME NEW adds \in Seq(MemberJobs)
  PROVE  /\ NewJobs(adds) \in Seq(Job) /\ DOMAIN NewJobs(adds) = DOMAIN adds
         /\ \A i \in DOMAIN adds : NewJobs(adds)[i] = NewJob(adds[i], "none")
         /\ \A i \in DOMAIN adds : NewJobs(adds)[i].taker = Nobody /\ NewJobs(adds)[i].type = adds[i]
<1>1. DOMAIN adds = 1..Len(adds) /\ Len(adds) \in Nat /\ \A i \in 1..Len(adds) : adds[i] \in MemberJobs
  OBVIOUS
<1>2. \A i \in 1..Len(adds) : NewJob(adds[i], "none") \in Job
  BY <1>1, NewJobTyped
<1>3. NewJobs(adds) = [i \in 1..Len(adds) |-> NewJob(adds[i], "none")]
  BY <1>1 DEF NewJobs
<1>4. NewJobs(adds) \in Seq(Job)
  BY <1>1, <1>2, <1>3, IsASeq
<1>5. \A i \in DOMAIN adds : NewJobs(adds)[i] = NewJob(adds[i], "none")
  BY <1>1, <1>3
<1> QED
  BY <1>1, <1>3, <1>4, <1>5 DEF NewJob

LEMMA WriteInv ==
  ASSUME Inv, NEW g \in Goroutines, run[g].pc = "done", Write(g),
         jobs' \in Seq(Job), OneRowEach(jobs', Goroutines, BusyOnes \ {g}), Committed(g, jobs', jobs),
         faults \subseteq faults', faults' \subseteq Faults,
         "shutdown" \in faults' \/ \A i \in DOMAIN run[g].adds :
             \E x \in DOMAIN jobs' : jobs'[x].type = run[g].adds[i]
  PROVE  Inv'
<1> DEFINE r == run[g]
           j == JobOf(g)
<1>1. /\ run' = [run EXCEPT ![g] = NoRun] /\ run \in [Goroutines -> Run] /\ row \in Row
      /\ UNCHANGED <<slack, dialog>> /\ left' = (left \/ r.writes = "delete") /\ left \in BOOLEAN
      /\ ~row.exists => row = NoRow
  BY DEF Write, Inv, TypeOK
<1>2. run' \in [Goroutines -> Run] /\ run'[g] = NoRun /\ \A h \in Goroutines \ {g} : run'[h] = run[h]
  BY <1>1, NoRunTyped
<1>3. PICK n \in DOMAIN jobs :
         /\ jobs[n].taker = g /\ j = jobs[n] /\ Decision(r, jobs[n])
         /\ \A k \in DOMAIN jobs : jobs[k].taker = g => k = n
  BY RowOfBusy DEF Busy
<1>4. row' = CASE r.writes = "insert" -> [NoRow EXCEPT !.exists = TRUE]
               [] r.writes = "update" -> [row EXCEPT !.columns = @ \cup ({j.sets} \cap (Mandatory \cup {"active"}))]
               [] r.writes = "delete" -> NoRow
               [] j.type = "GREET_MEMBER" /\ row.exists -> [row EXCEPT !.greeted = TRUE]
               [] OTHER -> row
  BY DEF Write
<1> HIDE DEF j, r
<1>w. /\ r.writes \in {"update", "delete"} => row.exists
      /\ r.writes = "insert" => ~row.exists
      /\ r.writes \in {"nothing", "insert", "update", "delete"}
      /\ r.writes = "update" => j.type = "UPDATE_MEMBER"
      /\ r.writes = "delete" => j.type = "DELETE_MEMBER"
  BY <1>1, <1>3 DEF Inv, OneWriter, Decision, Run, r
\* What the write does to the row.
<1>5. /\ row' \in Row /\ (~row'.exists => row' = NoRow)
      /\ row.exists \/ r.writes = "insert" => row'.exists \/ left'
      /\ r.writes = "nothing" => row'.exists = row.exists
      /\ ~left' => row.columns \subseteq row'.columns
      /\ \A m \in row'.columns : m \in row.columns \/ (r.writes = "update" /\ m = j.sets)
      /\ r.writes = "update" /\ j.sets \in Mandatory \cup {"active"} => j.sets \in row'.columns
      /\ row'.exists /\ ~row'.greeted =>
            r.writes = "insert" \/ (row.exists /\ ~row.greeted /\ j.type # "GREET_MEMBER")
  <2>1. CASE r.writes = "insert"
    BY <1>1, <1>4, <1>w, <2>1 DEF NoRow, Row
  <2>2. CASE r.writes = "update"
    BY <1>1, <1>4, <1>w, <2>2 DEF Row
  <2>3. CASE r.writes = "delete"
    BY <1>1, <1>4, <1>w, <2>3, NoRowTyped
  <2>4. CASE r.writes = "nothing" /\ j.type = "GREET_MEMBER" /\ row.exists
    BY <1>1, <1>4, <2>4 DEF Row
  <2>5. CASE r.writes = "nothing" /\ ~(j.type = "GREET_MEMBER" /\ row.exists)
    <3>1. row' = row
      BY <1>4, <2>5
    <3> QED
      BY <1>1, <2>5, <3>1
  <2> QED
    BY <1>w, <2>1, <2>2, <2>3, <2>4, <2>5
<1>6. (Known => Known') /\ (left => left') /\ (r.writes = "insert" => Known')
  BY <1>1, <1>5 DEF Known
<1>7. TypeOK'
  BY <1>1, <1>2, <1>5 DEF Inv, TypeOK, slack, dialog
<1>8. Locks'
  <2>1. BusyOnes' = BusyOnes \ {g}
    BY <1>2, NoRunTyped DEF BusyOnes, Busy
  <2> QED
    BY <2>1, <1>2 DEF Inv, Locks, Busy
\* The rows of the table when g has committed.
<1>9. ASSUME NEW x \in DOMAIN jobs'
      PROVE  \/ \E k \in DOMAIN jobs :
                   /\ jobs'[x].type = jobs[k].type /\ jobs'[x].sets = jobs[k].sets
                   /\ \A h \in Goroutines : jobs'[x].taker = h => jobs[k].taker = h /\ h # g
             \/ /\ jobs'[x].taker = Nobody /\ jobs'[x].type # "UPDATE_MEMBER"
                /\ jobs'[x].type = "GREET_MEMBER" => r.writes = "insert" \/ Known
  <2>1. CASE \E i \in DOMAIN run[g].adds : jobs'[x] = NewJob(run[g].adds[i], "none")
    BY <2>1, <1>3 DEF Decision, NewJob, r
  <2> QED
    BY <2>1 DEF Committed
<1>10. Decisions'
  <2> SUFFICES ASSUME NEW x \in DOMAIN jobs', NEW h \in Goroutines, jobs'[x].taker = h
               PROVE  Decision(run[h], jobs[x])'
    BY DEF Decisions
  <2>1. PICK k \in DOMAIN jobs : jobs'[x].type = jobs[k].type /\ jobs[k].taker = h /\ h # g
    BY <1>9, MembershipAssumption
  <2>2. Decision(run[h], jobs[k]) /\ run'[h] = run[h]
    BY <2>1, <1>2 DEF Inv, Decisions
  <2> QED
    BY <2>1, <2>2, <1>6 DEF Decision
<1>11. OneWriter'
  <2> SUFFICES ASSUME NEW h \in Goroutines \ {g}, run[h].writes # "nothing" PROVE r.writes = "nothing"
    BY <1>2, <1>5, NoRunTyped DEF Inv, OneWriter
  <2> QED
    BY DEF Inv, OneWriter, r
<1>12. Invited'
  BY <1>1, <1>6, <1>9 DEF Inv, Invited, dialog
<1>13. ASSUME ~left', NEW m \in Mandatory \cup {"active"}, Recorded(m) PROVE Recorded(m)'
  <2>1. CASE m \in row.columns
    BY <1>5, <1>13, <2>1 DEF Recorded
  <2>2. CASE Asked(m)
    <3>1. PICK k \in DOMAIN jobs : jobs[k].type = "UPDATE_MEMBER" /\ jobs[k].sets = m
      BY <2>2 DEF Asked
    <3>2. CASE jobs[k].taker # g
      BY <3>1, <3>2 DEF Committed, Recorded, Asked
    <3>3. CASE jobs[k].taker = g
      <4>1. r.writes = "update" /\ j.sets = m
        BY <1>1, <1>3, <1>13, <3>1, <3>3 DEF Decision, r
      <4> QED
        BY <4>1, <1>5 DEF Recorded
    <3> QED
      BY <3>2, <3>3
  <2> QED
    BY <1>13, <2>1, <2>2 DEF Recorded
<1>14. Recorded("active")' => Recorded("active")
  <2>1. CASE "active" \in row'.columns
    BY <1>3, <1>5, <1>w, <2>1 DEF Recorded, Asked
  <2>2. CASE Asked("active")'
    BY <1>9, <2>2 DEF Recorded, Asked
  <2> QED
    BY <2>1, <2>2 DEF Recorded
<1>15. Answered'
  <2> SUFFICES ASSUME ~left'
               PROVE  /\ \A k \in DOMAIN Steps : k < view' /\ Steps[k] \in Mandatory => Recorded(Steps[k])'
                      /\ Recorded("active")' => \A m \in Mandatory : Recorded(m)'
    BY DEF Answered
  <2>1. ~left /\ view' = view
    BY <1>6, <1>1 DEF dialog
  <2> QED
    BY <2>1, <1>13, <1>14 DEF Inv, Answered
<1>16. Greeted'
  <2> SUFFICES ASSUME row'.exists, ~row'.greeted, "shutdown" \notin faults'
               PROVE  \E x \in DOMAIN jobs' : jobs'[x].type = "GREET_MEMBER"
    BY DEF Greeted, Pending
  <2>1. CASE r.writes = "insert"
    BY <2>1, <1>3 DEF Decision, r
  <2>2. CASE row.exists /\ ~row.greeted /\ j.type # "GREET_MEMBER"
    <3>1. PICK k \in DOMAIN jobs : jobs[k].type = "GREET_MEMBER"
      BY <2>2 DEF Inv, Greeted, Pending
    <3>2. jobs[k].taker # g
      BY <3>1, <2>2, <1>3
    <3> QED
      BY <3>1, <3>2 DEF Committed
  <2> QED
    BY <1>5, <2>1, <2>2
<1> QED
  BY <1>7, <1>8, <1>10, <1>11, <1>12, <1>15, <1>16 DEF Inv

LEMMA CommitInv ==
  ASSUME Inv, NEW g \in Goroutines, Commit(g)
  PROVE  Inv'
<1> DEFINE K == Others(g)
           adds == NewJobs(run[g].adds)
<1>1. /\ run[g].pc = "done" /\ Write(g) /\ UNCHANGED faults /\ jobs' = Where(jobs, K) \o adds
      /\ jobs \in Seq(Job) /\ run[g].adds \in Seq(MemberJobs)
  BY DEF Commit, Inv, TypeOK, Run
<1>2. /\ adds \in Seq(Job) /\ DOMAIN adds = DOMAIN run[g].adds
      /\ \A i \in DOMAIN adds : adds[i] = NewJob(run[g].adds[i], "none")
      /\ \A i \in DOMAIN adds : adds[i].taker = Nobody /\ adds[i].type = run[g].adds[i]
  BY <1>1, NewJobsTyped
<1>3. K \subseteq DOMAIN jobs /\ \A k \in DOMAIN jobs : k \in K <=> jobs[k].taker # g
  BY DEF Others
<1> HIDE DEF K, adds
<1>4. /\ jobs' \in Seq(Job)
      /\ \E n \in Nat : \E at : TableOf(jobs', jobs, K, adds, n, at)
  BY <1>1, <1>2, <1>3, RowsOfTable
<1>5. PICK n \in Nat : \E at : TableOf(jobs', jobs, K, adds, n, at)
  BY <1>4
<1>6. PICK at : TableOf(jobs', jobs, K, adds, n, at)
  BY <1>5
<1>7. OneRowEach(jobs', Goroutines, BusyOnes \ {g})
  BY <1>2, <1>3, <1>6, MembershipAssumption, LockCommitted DEF Inv, Locks
<1>8. Committed(g, jobs', jobs)
  <2>1. ASSUME NEW x \in DOMAIN jobs'
        PROVE  \/ \E k \in DOMAIN jobs :
                     /\ jobs'[x].type = jobs[k].type /\ jobs'[x].sets = jobs[k].sets
                     /\ \A h \in Goroutines : jobs'[x].taker = h => jobs[k].taker = h /\ h # g
               \/ \E i \in DOMAIN run[g].adds : jobs'[x] = NewJob(run[g].adds[i], "none")
    <3>1. CASE x \in 1..n
      <4>1. at[x] \in K /\ jobs'[x] = jobs[at[x]]
        BY <3>1, <1>6 DEF TableOf
      <4> QED
        BY <4>1, <1>3
    <3>2. CASE \E i \in DOMAIN adds : x = n + i
      BY <3>2, <1>2, <1>6 DEF TableOf
    <3> QED
      BY <3>1, <3>2, <1>6 DEF TableOf
  <2>2. ASSUME NEW k \in DOMAIN jobs, jobs[k].taker # g
        PROVE  \E x \in DOMAIN jobs' : jobs'[x].type = jobs[k].type /\ jobs'[x].sets = jobs[k].sets
    BY <2>2, <1>3, <1>6 DEF TableOf
  <2> QED
    BY <2>1, <2>2 DEF Committed
<1>9. \A i \in DOMAIN run[g].adds : \E x \in DOMAIN jobs' : jobs'[x].type = run[g].adds[i]
  BY <1>2, <1>6 DEF TableOf
<1> QED
  BY <1>1, <1>4, <1>7, <1>8, <1>9, WriteInv DEF Inv, TypeOK

\* The row stays PENDING and unlocked.
LEMMA CommitUnsavedInv ==
  ASSUME Inv, NEW g \in Goroutines, CommitUnsaved(g)
  PROVE  Inv'
<1>1. PICK types \in {run[g].adds, <<>>} : jobs' = Released(g) \o NewJobs(types)
  BY DEF CommitUnsaved
<1> DEFINE kept == Released(g)
           adds == NewJobs(types)
<1>2. /\ run[g].pc = "done" /\ Write(g) /\ faults \subseteq faults' /\ faults' \subseteq Faults
      /\ "shutdown" \in faults' /\ jobs \in Seq(Job) /\ run[g].adds \in Seq(MemberJobs)
  BY DEF CommitUnsaved, Fault, Inv, TypeOK, Run
<1>3. types \in Seq(MemberJobs) /\ \A i \in DOMAIN types : i \in DOMAIN run[g].adds /\ types[i] = run[g].adds[i]
  <2>1. CASE types = run[g].adds
    BY <2>1, <1>2
  <2>2. CASE types = <<>>
    BY <2>2, EmptySeq
  <2> QED
    BY <2>1, <2>2, <1>1
<1>4. /\ adds \in Seq(Job) /\ DOMAIN adds = DOMAIN types
      /\ \A i \in DOMAIN adds : adds[i] = NewJob(types[i], "none")
      /\ \A i \in DOMAIN adds : adds[i].taker = Nobody
  BY <1>3, NewJobsTyped
<1>5. /\ DOMAIN kept = DOMAIN jobs /\ DOMAIN jobs = 1..Len(jobs) /\ Len(jobs) \in Nat
      /\ \A k \in DOMAIN jobs : kept[k] = [jobs[k] EXCEPT !.taker = IF @ = g THEN Nobody ELSE @]
  BY <1>2 DEF Released
<1>6. \A k \in DOMAIN jobs :
         /\ kept[k] \in Job /\ kept[k].type = jobs[k].type /\ kept[k].sets = jobs[k].sets
         /\ kept[k].taker = IF jobs[k].taker = g THEN Nobody ELSE jobs[k].taker
  BY <1>5, RowTyped DEF Inv, Job
<1>7. kept \in Seq(Job) /\ Len(kept) = Len(jobs)
  <2>1. kept = [k \in 1..Len(jobs) |-> kept[k]]
    BY <1>5 DEF Released
  <2>2. kept \in Seq(Job)
    BY <1>5, <1>6, <2>1, IsASeq
  <2> QED
    BY <2>2, <1>5
<1> HIDE DEF kept, adds
<1>8. /\ jobs' \in Seq(Job) /\ DOMAIN jobs \subseteq DOMAIN jobs'
      /\ \A k \in DOMAIN jobs : jobs'[k] = kept[k]
      /\ \A x \in DOMAIN jobs' \ DOMAIN jobs : \E i \in DOMAIN adds : jobs'[x] = adds[i]
  <2>1. jobs' = kept \o adds
    BY <1>1 DEF kept, adds
  <2>2. DOMAIN adds = 1..Len(adds) /\ Len(adds) \in Nat
    BY <1>4
  <2>3. jobs' \in Seq(Job) /\ DOMAIN jobs' = 1..(Len(jobs) + Len(adds))
    <3>1. jobs' \in Seq(Job) /\ Len(jobs') = Len(kept) + Len(adds)
      BY <2>1, <1>4, <1>7, ConcatProperties
    <3>2. DOMAIN jobs' = 1..Len(jobs')
      BY <3>1
    <3> QED
      BY <3>1, <3>2, <1>7
  <2>4. \A x \in 1..(Len(jobs) + Len(adds)) :
           jobs'[x] = IF x <= Len(jobs) THEN kept[x] ELSE adds[x - Len(jobs)]
    BY <2>1, <1>4, <1>7, ConcatProperties
  <2>5. \A k \in DOMAIN jobs : jobs'[k] = kept[k]
    BY <2>2, <2>4, <1>5
  <2>6. ASSUME NEW x \in DOMAIN jobs' \ DOMAIN jobs PROVE \E i \in DOMAIN adds : jobs'[x] = adds[i]
    <3>1. x \in 1..(Len(jobs) + Len(adds)) /\ ~(x <= Len(jobs)) /\ x - Len(jobs) \in DOMAIN adds
      BY <2>2, <2>3, <1>5
    <3> QED
      BY <3>1, <2>4
  <2> QED
    BY <2>2, <2>3, <2>5, <2>6, <1>5
<1>9. OneRowEach(jobs', Goroutines, BusyOnes \ {g})
  <2>1. OneRowEach(kept, Goroutines, BusyOnes \ {g})
    BY <1>5, <1>6, MembershipAssumption, LockReleased DEF Inv, Locks
  <2>2. \A x \in DOMAIN jobs' \ DOMAIN kept : jobs'[x].taker \notin Goroutines
    BY <1>4, <1>5, <1>8, MembershipAssumption
  <2>3. DOMAIN kept \subseteq DOMAIN jobs' /\ \A k \in DOMAIN kept : jobs'[k].taker = kept[k].taker
    BY <1>5, <1>8
  <2> QED
    BY <2>1, <2>2, <2>3, LocksKept
<1>10. Committed(g, jobs', jobs)
  <2>1. ASSUME NEW x \in DOMAIN jobs'
        PROVE  \/ \E k \in DOMAIN jobs :
                     /\ jobs'[x].type = jobs[k].type /\ jobs'[x].sets = jobs[k].sets
                     /\ \A h \in Goroutines : jobs'[x].taker = h => jobs[k].taker = h /\ h # g
               \/ \E i \in DOMAIN run[g].adds : jobs'[x] = NewJob(run[g].adds[i], "none")
    <3>1. CASE x \in DOMAIN jobs
      <4>1. jobs'[x] = kept[x]
        BY <3>1, <1>8
      <4> QED
        BY <3>1, <4>1, <1>6, MembershipAssumption
    <3>2. CASE x \notin DOMAIN jobs
      <4>1. PICK i \in DOMAIN adds : jobs'[x] = adds[i]
        BY <3>2, <1>8
      <4> QED
        BY <4>1, <1>3, <1>4
    <3> QED
      BY <3>1, <3>2
  <2>2. ASSUME NEW k \in DOMAIN jobs
        PROVE  \E x \in DOMAIN jobs' : jobs'[x].type = jobs[k].type /\ jobs'[x].sets = jobs[k].sets
    <3>1. k \in DOMAIN jobs' /\ jobs'[k] = kept[k]
      BY <1>8
    <3> QED
      BY <3>1, <1>6
  <2> QED
    BY <2>1, <2>2 DEF Committed
<1> QED
  BY <1>2, <1>8, <1>9, <1>10, WriteInv
-------------------------------------------------------------------------------
(* The job functions *)

\* A job function has done its part: of the row it has written what it saw.
LEMMA DoneInv ==
  ASSUME Inv, NEW g \in Goroutines, Busy(g), NEW r, NEW k \in DOMAIN jobs,
         jobs[k].taker = g, \A n \in DOMAIN jobs : jobs[n].taker = g => n = k,
         NEW w \in {"nothing", "insert", "update", "delete"}, NEW a \in Seq(MemberJobs),
         r = [run[g] EXCEPT !.pc = "done", !.writes = w, !.adds = a],
         Continue(g, r), Decision(r, jobs[k]),
         buttons' = buttons \/ (buttons' = buttons + 1 /\ Known),
         w \in {"update", "delete"} => row.exists /\ ~Locked(g),
         w = "insert" => ~row.exists /\ ~Inserted(g)
  PROVE  Inv'
<1>1. run[g] \in Run /\ buttons \in Nat /\ (buttons > 0 => Known)
  BY DEF Inv, TypeOK, Invited
<1>2. r \in Run /\ r.pc = "done" /\ r.writes = w
  BY <1>1 DEF Run
<1>3. buttons' \in Nat /\ buttons' >= buttons /\ (buttons' > 0 => Known)
  BY <1>1
<1>4. w # "nothing" => \A h \in Goroutines \ {g} : run[h].writes = "nothing"
  BY OnlyWriter
<1>5. \A n \in DOMAIN jobs : jobs[n].taker = g => Decision(r, jobs[n])
  OBVIOUS
<1>6. Continue(g, r)
  OBVIOUS
<1> QED
  BY <1>2, <1>3, <1>4, <1>5, <1>6, MovesInv

\* What Decision asks of a transaction that is done.
LEMMA Decided ==
  ASSUME NEW r, NEW w, NEW a, NEW j, r.pc = "done", r.writes = w, r.adds = a,
         w = "insert" => j.type = "ADD_MEMBER" /\ a = <<"GREET_MEMBER">>,
         w = "update" => j.type = "UPDATE_MEMBER",
         w = "delete" => j.type = "DELETE_MEMBER",
         j.type = "UPDATE_MEMBER" => w = "update" \/ left,
         \A i \in DOMAIN a : a[i] # "UPDATE_MEMBER" /\ (a[i] = "GREET_MEMBER" => w = "insert" \/ Known)
  PROVE  Decision(r, j)
  BY DEF Decision

LEMMA WorkInv ==
  ASSUME Inv, NEW g \in Goroutines, Work(g)
  PROVE  Inv'
<1>1. run[g] \in Run /\ buttons \in Nat /\ (buttons > 0 => Known) /\ inSlack \in BOOLEAN
  BY DEF Inv, TypeOK, Invited
<1> DEFINE done(w, a) == [run[g] EXCEPT !.pc = "done", !.writes = w, !.adds = a]
<1>2. \A w, a : done(w, a).pc = "done" /\ done(w, a).writes = w /\ done(w, a).adds = a
  BY <1>1 DEF Run
<1>3. /\ \A t \in MemberJobs : <<t>> \in Seq(MemberJobs) /\ \A i \in DOMAIN <<t>> : <<t>>[i] = t
      /\ <<>> \in Seq(MemberJobs) /\ DOMAIN <<>> = {}
  BY EmptySeq
<1>4. MemberJobs = {"ADD_MEMBER", "DELETE_MEMBER", "UPDATE_MEMBER", "GREET_MEMBER", "SYNC_MEMBERS"}
  BY DEF MemberJobs
\* A transaction that has not come to its end has written nothing.
<1>5. ASSUME run[g].pc \in {"exec", "listed"}
      PROVE  /\ \E k \in DOMAIN jobs :
                   /\ jobs[k].taker = g /\ JobOf(g) = jobs[k]
                   /\ \A n \in DOMAIN jobs : jobs[n].taker = g => n = k
                   /\ jobs[k].type \in {"GREET_MEMBER", "UPDATE_MEMBER"} => Known
                   /\ run[g].pc = "listed" => jobs[k].type = "SYNC_MEMBERS"
             /\ Busy(g) /\ run[g].writes = "nothing" /\ run[g].adds = <<>>
             /\ \A a : [run[g] EXCEPT !.pc = "done", !.adds = a] = done("nothing", a)
             /\ [run[g] EXCEPT !.pc = "done"] = done("nothing", <<>>)
             /\ \A w : [run[g] EXCEPT !.pc = "done", !.writes = w] = done(w, <<>>)
  <2>1. Busy(g)
    BY <1>5 DEF Busy
  <2>2. PICK k \in DOMAIN jobs :
           /\ jobs[k].taker = g /\ JobOf(g) = jobs[k] /\ Decision(run[g], jobs[k])
           /\ \A n \in DOMAIN jobs : jobs[n].taker = g => n = k
    BY <2>1, RowOfBusy
  <2>3. run[g].writes = "nothing" /\ run[g].adds = <<>> /\ (run[g].pc = "listed" => jobs[k].type = "SYNC_MEMBERS")
    BY <1>5, <2>2 DEF Decision
  <2>4. jobs[k].type \in {"GREET_MEMBER", "UPDATE_MEMBER"} => Known
    BY DEF Inv, Invited
  <2>5. /\ \A a : [run[g] EXCEPT !.pc = "done", !.adds = a] = done("nothing", a)
        /\ [run[g] EXCEPT !.pc = "done"] = done("nothing", <<>>)
        /\ \A w : [run[g] EXCEPT !.pc = "done", !.writes = w] = done(w, <<>>)
    BY <1>1, <2>3 DEF Run
  <2> QED
    BY <2>1, <2>2, <2>3, <2>4, <2>5
<1> HIDE DEF done
<1>6. CASE TakeJob(g)
  BY <1>6, TakeJobInv
<1>7. CASE ListMembers(g)
  <2> DEFINE r == [run[g] EXCEPT !.pc = "listed", !.listed = inSlack]
  <2>1. /\ r \in Run /\ r.pc = "listed" /\ r.writes = run[g].writes /\ r.adds = run[g].adds
        /\ Continue(g, r) /\ run[g].pc = "exec" /\ JobOf(g).type = "SYNC_MEMBERS" /\ buttons' = buttons
    BY <1>1, <1>7 DEF ListMembers, Runs, Run
  <2> HIDE DEF r
  <2>2. PICK k \in DOMAIN jobs :
           jobs[k].type = "SYNC_MEMBERS" /\ \A n \in DOMAIN jobs : jobs[n].taker = g => n = k
    BY <1>5, <2>1
  <2>3. Busy(g) /\ r.writes = "nothing" /\ r.adds = <<>>
    BY <1>5, <2>1
  <2>4. Decision(r, jobs[k])
    BY <1>3, <2>1, <2>2, <2>3 DEF Decision
  <2>5. \A n \in DOMAIN jobs : jobs[n].taker = g => Decision(r, jobs[n])
    BY <2>2, <2>4
  <2> QED
    BY <1>1, <2>1, <2>3, <2>5, MovesInv
<1>8. CASE Reconcile(g)
  <2>1. run[g].pc = "listed" /\ buttons' = buttons
    BY <1>8 DEF Reconcile
  <2>2. PICK a \in {<<>>, <<"ADD_MEMBER">>, <<"DELETE_MEMBER">>} :
          Continue(g, [run[g] EXCEPT !.pc = "done", !.adds = a])
    BY <1>8 DEF Reconcile
  <2>3. Continue(g, done("nothing", a))
    BY <1>5, <2>1, <2>2
  <2>4. a \in Seq(MemberJobs) /\ \A i \in DOMAIN a : a[i] \in {"ADD_MEMBER", "DELETE_MEMBER"}
    BY <1>3, <1>4, <2>2
  <2>5. PICK k \in DOMAIN jobs :
           /\ jobs[k].taker = g /\ jobs[k].type = "SYNC_MEMBERS"
           /\ \A n \in DOMAIN jobs : jobs[n].taker = g => n = k
    BY <1>5, <2>1
  <2>6. Decision(done("nothing", a), jobs[k])
    BY <1>2, <2>4, <2>5, Decided
  <2>7. Busy(g) /\ done("nothing", a) = [run[g] EXCEPT !.pc = "done", !.writes = "nothing", !.adds = a]
    BY <1>5, <2>1 DEF done
  <2> QED
    BY <2>1, <2>3, <2>4, <2>5, <2>6, <2>7, DoneInv
<1>9. CASE AddMember(g)
  <2>1. run[g].pc = "exec" /\ JobOf(g).type = "ADD_MEMBER" /\ buttons' = buttons
    BY <1>9 DEF AddMember, Runs
  <2>2. PICK k \in DOMAIN jobs :
           /\ jobs[k].taker = g /\ jobs[k].type = "ADD_MEMBER"
           /\ \A n \in DOMAIN jobs : jobs[n].taker = g => n = k
    BY <1>5, <2>1
  <2>3. PICK w \in {"insert", "nothing"}, a \in {<<>>, <<"GREET_MEMBER">>} :
           /\ Continue(g, done(w, a))
           /\ w = "insert" => ~row.exists /\ ~Inserted(g) /\ a = <<"GREET_MEMBER">>
           /\ w = "nothing" => row.exists
    <3>1. CASE ~row.exists
      <4>1. ~Inserted(g) /\ Continue(g, done("insert", <<"GREET_MEMBER">>))
        BY <1>9, <3>1 DEF AddMember, done
      <4> QED
        BY <3>1, <4>1
    <3>2. CASE row.exists
      <4>1. PICK a \in {<<>>, <<"GREET_MEMBER">>} : Continue(g, [run[g] EXCEPT !.pc = "done", !.adds = a])
        BY <1>9, <3>2 DEF AddMember
      <4>2. Continue(g, done("nothing", a))
        BY <4>1, <1>5, <2>1
      <4> QED
        BY <3>2, <4>2
    <3> QED
      BY <3>1, <3>2
  <2>4. a \in Seq(MemberJobs) /\ \A i \in DOMAIN a : a[i] = "GREET_MEMBER"
    BY <1>3, <1>4, <2>3
  <2>5. Decision(done(w, a), jobs[k])
    <3>1. \A i \in DOMAIN a : a[i] # "UPDATE_MEMBER" /\ (a[i] = "GREET_MEMBER" => w = "insert" \/ Known)
      BY <2>3, <2>4 DEF Known
    <3>2. w # "update" /\ w # "delete"
      BY <2>3
    <3> QED
      BY <1>2, <2>2, <2>3, <3>1, <3>2, Decided
  <2>6. Busy(g) /\ done(w, a) = [run[g] EXCEPT !.pc = "done", !.writes = w, !.adds = a]
    BY <1>5, <2>1 DEF done
  <2> QED
    BY <2>1, <2>2, <2>3, <2>4, <2>5, <2>6, DoneInv
<1>10. CASE GreetMember(g)
  <2>1. /\ run[g].pc = "exec" /\ JobOf(g).type = "GREET_MEMBER" /\ buttons' = buttons + 1
        /\ Continue(g, [run[g] EXCEPT !.pc = "done"])
    BY <1>10 DEF GreetMember, Runs
  <2>2. PICK k \in DOMAIN jobs :
           /\ jobs[k].taker = g /\ jobs[k].type = "GREET_MEMBER" /\ Known
           /\ \A n \in DOMAIN jobs : jobs[n].taker = g => n = k
    BY <1>5, <2>1
  <2>3. Decision(done("nothing", <<>>), jobs[k])
    BY <1>2, <1>3, <2>2, Decided
  <2>4. /\ Continue(g, done("nothing", <<>>)) /\ Busy(g)
        /\ done("nothing", <<>>) = [run[g] EXCEPT !.pc = "done", !.writes = "nothing", !.adds = <<>>]
    BY <1>5, <2>1 DEF done
  <2> QED
    BY <1>3, <2>1, <2>2, <2>3, <2>4, DoneInv
<1>11. CASE DeleteMember(g)
  <2>1. PICK w \in {"nothing", "delete"} :
           /\ Continue(g, [run[g] EXCEPT !.pc = "done", !.writes = w])
           /\ w = "delete" => row.exists
    BY <1>11 DEF DeleteMember
  <2>2. run[g].pc = "exec" /\ JobOf(g).type = "DELETE_MEMBER" /\ buttons' = buttons /\ ~Locked(g)
    BY <1>11 DEF DeleteMember, Runs
  <2>3. PICK k \in DOMAIN jobs :
           /\ jobs[k].taker = g /\ jobs[k].type = "DELETE_MEMBER"
           /\ \A n \in DOMAIN jobs : jobs[n].taker = g => n = k
    BY <1>5, <2>2
  <2>4. Decision(done(w, <<>>), jobs[k])
    BY <1>2, <1>3, <2>1, <2>3, Decided
  <2>5. /\ Continue(g, done(w, <<>>)) /\ Busy(g)
        /\ done(w, <<>>) = [run[g] EXCEPT !.pc = "done", !.writes = w, !.adds = <<>>]
    BY <1>5, <2>1, <2>2 DEF done
  <2> QED
    BY <1>3, <2>1, <2>2, <2>3, <2>4, <2>5, DoneInv
<1>12. CASE UpdateMember(g)
  <2>1. PICK w \in {"nothing", "update"} :
           /\ Continue(g, [run[g] EXCEPT !.pc = "done", !.writes = w])
           /\ w = "update" <=> row.exists
    BY <1>12 DEF UpdateMember
  <2>2. run[g].pc = "exec" /\ JobOf(g).type = "UPDATE_MEMBER" /\ buttons' = buttons /\ ~Locked(g)
    BY <1>12 DEF UpdateMember, Runs
  <2>3. PICK k \in DOMAIN jobs :
           /\ jobs[k].taker = g /\ jobs[k].type = "UPDATE_MEMBER" /\ Known
           /\ \A n \in DOMAIN jobs : jobs[n].taker = g => n = k
    BY <1>5, <2>2
  <2>4. w = "update" \/ left
    BY <2>1, <2>3 DEF Known
  <2>5. Decision(done(w, <<>>), jobs[k])
    BY <1>2, <1>3, <2>1, <2>3, <2>4, Decided
  <2>6. /\ Continue(g, done(w, <<>>)) /\ Busy(g)
        /\ done(w, <<>>) = [run[g] EXCEPT !.pc = "done", !.writes = w, !.adds = <<>>]
    BY <1>5, <2>1, <2>2 DEF done
  <2> QED
    BY <1>3, <2>1, <2>2, <2>3, <2>5, <2>6, DoneInv
<1>13. CASE Commit(g)
  BY <1>13, CommitInv
<1> QED
  BY <1>6, <1>7, <1>8, <1>9, <1>10, <1>11, <1>12, <1>13 DEF Work

LEMMA InvNext == Inv /\ [Next]_vars => Inv'
<1> SUFFICES ASSUME Inv, [Next]_vars PROVE Inv'
  OBVIOUS
<1>1. CASE UNCHANGED vars
  <2>1. UNCHANGED <<inSlack, events, moves, row, run, jobs, left, dialog, faults>>
    BY <1>1 DEF vars, dialog
  <2>2. OthersTyped'
    BY <2>1 DEF Inv, TypeOK, OthersTyped, dialog
  <2> QED
    BY <2>1, <2>2, EventQueuedInv
<1>2. CASE Move \/ StartRound \/ \E k \in DOMAIN events : Deliver(k) \/ Misdeliver(k)
  BY <1>2, EventsInv
<1>3. ASSUME NEW g \in Goroutines, Work(g) \/ Fail(g) \/ CommitUnsaved(g) PROVE Inv'
  BY <1>3, WorkInv, FailInv, CommitUnsavedInv
<1>4. CASE OpenDialog \/ RespondGreetMember \/ LastViewFails
  BY <1>4, ViewsInv
<1>5. CASE SubmitView \/ SubmitCalendly \/ SetMemberIsActive
  BY <1>5, SubmitViewInv, SubmitCalendlyInv, SetMemberIsActiveInv
<1> QED
  BY <1>1, <1>2, <1>3, <1>4, <1>5 DEF Next

LEMMA InvHolds == Spec => []Inv
<1>1. Init => Inv
  BY InitInv
<1>2. Inv /\ [Next]_vars => Inv'
  BY InvNext
<1> QED
  BY <1>1, <1>2, PTL DEF Spec
-------------------------------------------------------------------------------
(* Theorems *)

\* The variables of the members keep their types, for any number of goroutines,
\* joins, views and faults.
THEOREM TypesOK == Spec => []TypeOK
<1>1. Inv => TypeOK
  BY DEF Inv
<1> QED
  BY <1>1, InvHolds, PTL

\* Without a shutdown, a member in the table has been greeted or a GREET_MEMBER is
\* pending (AddMember of job_add_member.go): whatever fails or is rolled back, however
\* often the user joins and leaves, and whichever transactions overlap.
THEOREM MembersAreGreeted == Spec => []Greeted
<1>1. Inv => Greeted
  BY DEF Inv
<1> QED
  BY <1>1, InvHolds, PTL

\* When no UPDATE_MEMBER is pending and the row was never deleted, an active member
\* has an answer in every mandatory column (the handlers of the views in
\* job_greet_member.go, and UpdateMember): the jobs may run in any order, at once and
\* again, and any view may fail.
THEOREM AnswersAreKept == Spec => []NoAnswerLost
<1>1. Inv => NoAnswerLost
  <2> SUFFICES ASSUME Inv, "active" \in row.columns, ~left, \A j \in Pending : j.type # "UPDATE_MEMBER",
                      NEW m \in Mandatory
               PROVE  m \in row.columns
    BY DEF NoAnswerLost
  <2>1. Recorded(m)
    BY DEF Inv, Answered, Recorded
  <2>2. ~Asked(m)
    BY DEF Asked, Pending
  <2> QED
    BY <2>1, <2>2 DEF Recorded
<1> QED
  BY <1>1, InvHolds, PTL

-------------------------------------------------------------------------------
(* The row of the channel (Channels), whose variables are those below. What    *)
(* TypeOK claims of the locks needs that DELETE_CHANNEL never completes a row  *)
(* that another goroutine runs (CancelsHeld): its UPDATE has waited for those  *)
(* rows, and nobody takes a row that it has cancelled.                         *)

VARIABLES up, botInSlack, event, exists, rows, greets, button, opened, open, count

C == INSTANCE Channels
       WITH inSlack <- botInSlack, jobs <- rows, dialog <- opened, run <- open

Opened == {g \in Goroutines : C!Busy(g)}

CancelsHeld == \A k \in DOMAIN rows : \A g \in rows[k].cancel :
    /\ open[g].pc \in {"sweep", "delete", "done"}
    /\ open[g].pc \in {"delete", "done"} => rows[k].taker \in {g, Nobody}

\* Rows to be inserted are locked by nobody.
Free(q) == \A k \in DOMAIN q : q[k].taker = Nobody /\ q[k].cancel = {}

AroundTyped ==
    /\ up \in BOOLEAN /\ botInSlack \in BOOLEAN /\ event \in {"none", "invited", "added"}
    /\ exists \in BOOLEAN /\ greets \in 0..2 /\ button \in BOOLEAN /\ opened \in BOOLEAN
    /\ count \in [moves: 0..MaxMoves, faults: 0..MaxFaults, opens: 0..MaxOpens]

Enrolling ==
    /\ AroundTyped /\ rows \in Seq(C!Job) /\ open \in [Goroutines -> C!Run]
    /\ \A g \in Goroutines : Free(open[g].adds)
    /\ OneRowEach(rows, Goroutines, Opened) /\ CancelsHeld

LEMMA EnrollingTyped == Enrolling => C!TypeOK
<1> SUFFICES ASSUME Enrolling PROVE C!TypeOK
  OBVIOUS
<1>1. \A g \in Goroutines : open[g].pc # "idle" => \E k \in DOMAIN rows : rows[k].taker = g
  BY DEF Enrolling, OneRowEach, Opened, C!Busy
<1> QED
  BY <1>1 DEF Enrolling, AroundTyped, C!TypeOK

LEMMA ClosedTyped == C!NoRun \in C!Run /\ C!NoRun.pc = "idle" /\ C!NoRun.adds = <<>> /\ Free(<<>>)
  BY EmptySeq DEF C!NoRun, C!Run, Free

LEMMA ChannelRowTyped ==
  ASSUME Enrolling, NEW k \in DOMAIN rows
  PROVE  /\ rows[k] \in C!Job /\ rows[k].cancel \subseteq Goroutines
         /\ rows[k].taker \in Goroutines \cup {Nobody}
<1>1. rows[k] \in C!Job
  BY ElementOfSeq DEF Enrolling
<1> QED
  BY <1>1 DEF C!Job

LEMMA EnrollingInit == C!Init => Enrolling
<1> SUFFICES ASSUME C!Init PROVE Enrolling
  OBVIOUS
<1>1. rows = <<>> /\ DOMAIN rows = {} /\ rows \in Seq(C!Job)
  BY EmptySeq DEF C!Init
<1>2. open = [g \in Goroutines |-> C!NoRun]
  BY DEF C!Init
<1>3. open \in [Goroutines -> C!Run] /\ \A g \in Goroutines : open[g] = C!NoRun
  BY <1>2, ClosedTyped
<1>4. Opened = {} /\ \A g \in Goroutines : Free(open[g].adds)
  <2>1. \A g \in Goroutines : open[g].adds = <<>> /\ open[g].pc = "idle"
    BY <1>3, ClosedTyped
  <2>2. Opened = {}
    BY <2>1 DEF Opened, C!Busy
  <2>3. \A g \in Goroutines : Free(open[g].adds)
    BY <2>1, ClosedTyped
  <2> QED
    BY <2>2, <2>3
<1>5. AroundTyped
  <2>1. 0 \in 0..MaxMoves /\ 0 \in 0..MaxFaults /\ 0 \in 0..MaxOpens
    BY MembershipAssumption
  <2>2. /\ up = TRUE /\ botInSlack = FALSE /\ event = "none" /\ exists = FALSE /\ greets = 0
        /\ button = FALSE /\ opened = FALSE /\ count = [moves |-> 0, faults |-> 0, opens |-> 0]
    BY DEF C!Init
  <2>3. count \in [moves: 0..MaxMoves, faults: 0..MaxFaults, opens: 0..MaxOpens]
    BY <2>1, <2>2
  <2>4. greets \in 0..2
    BY <2>2
  <2> QED
    BY <2>2, <2>3, <2>4, Zenon DEF AroundTyped
<1> QED
  BY <1>1, <1>3, <1>4, <1>5 DEF Enrolling, OneRowEach, CancelsHeld

\* Rows are locked by nobody when they are added.
LEMMA Enrolls ==
  ASSUME Enrolling, AroundTyped', UNCHANGED open,
         NEW t \in C!ChannelJobs, rows' = Append(rows, C!NewJob(t)) \/ rows' = rows
  PROVE  Enrolling'
<1> DEFINE j == C!NewJob(t)
<1>1. j \in C!Job /\ j.taker = Nobody /\ j.cancel = {}
  BY DEF C!NewJob, C!Job
<1> HIDE DEF j
<1>2. rows \in Seq(C!Job) /\ (rows' = Append(rows, j) \/ rows' = rows)
  BY DEF Enrolling, j
<1>3. /\ rows' \in Seq(C!Job) /\ DOMAIN rows \subseteq DOMAIN rows'
      /\ \A k \in DOMAIN rows : rows'[k] = rows[k]
      /\ \A k \in DOMAIN rows' \ DOMAIN rows : rows'[k] = j
  BY <1>1, <1>2
<1>4. OneRowEach(rows', Goroutines, Opened)
  <2>1. \A k \in DOMAIN rows' \ DOMAIN rows : rows'[k].taker \notin Goroutines
    BY <1>1, <1>3, MembershipAssumption
  <2>2. OneRowEach(rows, Goroutines, Opened)
    BY DEF Enrolling
  <2> QED
    BY <2>1, <2>2, <1>3, LocksKept
<1>5. Opened' = Opened
  BY DEF Opened, C!Busy
<1>6. CancelsHeld'
  BY <1>1, <1>3 DEF Enrolling, CancelsHeld
<1> QED
  BY <1>3, <1>4, <1>5, <1>6 DEF Enrolling

\* A transaction goes on.
LEMMA EnrollingMoves ==
  ASSUME Enrolling, AroundTyped', UNCHANGED rows, NEW g \in Goroutines, C!Busy(g),
         NEW r \in C!Run, open' = [open EXCEPT ![g] = r], r.pc # "idle", Free(r.adds),
         \A k \in DOMAIN rows : g \in rows[k].cancel =>
            /\ r.pc \in {"sweep", "delete", "done"}
            /\ r.pc \in {"delete", "done"} => rows[k].taker \in {g, Nobody}
  PROVE  Enrolling'
<1>1. open \in [Goroutines -> C!Run]
  BY DEF Enrolling
<1>2. open' \in [Goroutines -> C!Run] /\ open'[g] = r /\ \A h \in Goroutines \ {g} : open'[h] = open[h]
  BY <1>1
<1>3. Opened' = Opened
  BY <1>2 DEF Opened, C!Busy
<1>4. CancelsHeld'
  <2> SUFFICES ASSUME NEW k \in DOMAIN rows, NEW h \in rows[k].cancel
               PROVE  /\ open'[h].pc \in {"sweep", "delete", "done"}
                      /\ open'[h].pc \in {"delete", "done"} => rows[k].taker \in {h, Nobody}
    BY DEF CancelsHeld
  <2>1. h \in Goroutines
    BY ChannelRowTyped
  <2> QED
    BY <2>1, <1>2 DEF Enrolling, CancelsHeld
<1> QED
  BY <1>2, <1>3, <1>4 DEF Enrolling

\* The row locks of the goroutines G are given up.
LEMMA EnrollingReleased ==
  ASSUME NEW G, G \subseteq Goroutines, Enrolling
  PROVE  /\ C!Released(G, rows) \in Seq(C!Job) /\ DOMAIN C!Released(G, rows) = DOMAIN rows
         /\ \A k \in DOMAIN rows :
               /\ C!Released(G, rows)[k].taker = IF rows[k].taker \in G THEN Nobody ELSE rows[k].taker
               /\ C!Released(G, rows)[k].cancel = rows[k].cancel \ G
         /\ OneRowEach(C!Released(G, rows), Goroutines, Opened \ G)
<1> DEFINE T == C!Released(G, rows)
<1>1. rows \in Seq(C!Job) /\ DOMAIN rows = 1..Len(rows) /\ Len(rows) \in Nat
  BY DEF Enrolling
<1>2. T = [k \in 1..Len(rows) |->
              [rows[k] EXCEPT !.taker = IF @ \in G THEN Nobody ELSE @, !.cancel = @ \ G]]
  BY <1>1 DEF C!Released
<1> HIDE DEF T
<1>3. ASSUME NEW k \in 1..Len(rows)
      PROVE  /\ T[k] \in C!Job /\ T[k].cancel = rows[k].cancel \ G
             /\ T[k].taker = IF rows[k].taker \in G THEN Nobody ELSE rows[k].taker
  <2>1. rows[k] \in C!Job
    BY <1>1, ChannelRowTyped
  <2>2. T[k] = [rows[k] EXCEPT !.taker = IF @ \in G THEN Nobody ELSE @, !.cancel = @ \ G]
    BY <1>2
  <2> QED
    BY <2>1, <2>2 DEF C!Job
<1>4. T \in Seq(C!Job) /\ DOMAIN T = DOMAIN rows
  <2>1. T = [k \in 1..Len(rows) |-> T[k]]
    BY <1>2
  <2> QED
    BY <2>1, <1>1, <1>3, IsASeq
<1>5. OneRowEach(T, Goroutines, Opened \ G)
  <2>1. OneRowEach(rows, Goroutines, Opened)
    BY DEF Enrolling
  <2>2. \A k \in DOMAIN rows : T[k].taker = IF rows[k].taker \in G THEN Nobody ELSE rows[k].taker
    BY <1>1, <1>3
  <2> QED
    BY <2>1, <2>2, <1>4, MembershipAssumption DEF OneRowEach
<1> QED
  BY <1>1, <1>3, <1>4, <1>5 DEF T

\* The transactions of G are rolled back.
LEMMA RolledBack ==
  ASSUME Enrolling, AroundTyped', NEW G, G \subseteq Goroutines, rows' = C!Released(G, rows),
         open' \in [Goroutines -> C!Run],
         \A h \in Goroutines : open'[h] = IF h \in G THEN C!NoRun ELSE open[h]
  PROVE  Enrolling'
<1>1. /\ rows' \in Seq(C!Job) /\ DOMAIN rows' = DOMAIN rows
      /\ \A k \in DOMAIN rows :
            /\ rows'[k].taker = IF rows[k].taker \in G THEN Nobody ELSE rows[k].taker
            /\ rows'[k].cancel = rows[k].cancel \ G
      /\ OneRowEach(rows', Goroutines, Opened \ G)
  BY EnrollingReleased
<1>2. Opened' = Opened \ G
  BY ClosedTyped DEF Opened, C!Busy
<1>3. \A h \in Goroutines : Free(open'[h].adds)
  BY ClosedTyped DEF Enrolling
<1>4. CancelsHeld'
  <2> SUFFICES ASSUME NEW k \in DOMAIN rows, NEW h \in rows[k].cancel \ G
               PROVE  /\ open'[h].pc \in {"sweep", "delete", "done"}
                      /\ open'[h].pc \in {"delete", "done"} => rows'[k].taker \in {h, Nobody}
    BY <1>1 DEF CancelsHeld
  <2>1. h \in Goroutines /\ open'[h] = open[h]
    BY ChannelRowTyped
  <2>2. rows'[k].taker = rows[k].taker \/ rows'[k].taker = Nobody
    BY <1>1
  <2> QED
    BY <2>1, <2>2 DEF Enrolling, CancelsHeld
<1> QED
  BY <1>1, <1>2, <1>3, <1>4 DEF Enrolling

LEMMA EnrollingTakes ==
  ASSUME Enrolling, NEW g \in Goroutines, C!TakeJob(g)
  PROVE  Enrolling'
<1> DEFINE n == C!NextJob
           r == [C!NoRun EXCEPT !.pc = IF exists \/ ~C!RequiresSlackChannel(rows[n].type)
                                       THEN "exec" ELSE "done"]
<1>1. C!Available # {} /\ C!Available \subseteq Nat
  BY DEF C!TakeJob, C!Available, Enrolling
<1>2. n \in C!Available
  <2> DEFINE p == [k \in C!Available |-> C!Priority(rows[k].type)]
  <2>1. p \in [C!Available -> 0..10]
    BY DEF C!Priority, C!Highest, C!High, C!Standard, C!Low, C!Lowest
  <2> HIDE DEF p
  <2>2. PICK x \in C!Available : \A m \in C!Available \ {x} : p[x] > p[m] \/ (p[x] = p[m] /\ x < m)
    BY <1>1, <2>1, FirstInLine
  <2>3. \E y \in C!Available : \A m \in C!Available \ {y} :
           \/ C!Priority(rows[y].type) > C!Priority(rows[m].type)
           \/ C!Priority(rows[y].type) = C!Priority(rows[m].type) /\ y < m
    BY <2>2 DEF p
  <2> QED
    BY <2>3 DEF C!NextJob
<1> HIDE DEF n
<1>3. n \in DOMAIN rows /\ rows[n].taker = Nobody /\ \A h \in rows[n].cancel : open[h].pc \notin {"delete", "done"}
  <2>1. n \in DOMAIN rows /\ ~C!LockedFor(Nobody, rows[n])
    BY <1>2 DEF C!Available
  <2>2. Nobody \notin rows[n].cancel
    BY <2>1, ChannelRowTyped, MembershipAssumption
  <2> QED
    BY <2>1, <2>2 DEF C!LockedFor
<1>4. r \in C!Run /\ r.pc # "idle" /\ r.adds = <<>>
  BY ClosedTyped DEF C!Run
<1>5. /\ rows' = [rows EXCEPT ![n].taker = g] /\ open' = [open EXCEPT ![g] = r]
      /\ UNCHANGED <<up, botInSlack, event, exists, greets, button, opened, count>>
      /\ open \in [Goroutines -> C!Run] /\ ~C!Busy(g)
  BY DEF C!TakeJob, C!Continue, C!slack, C!table, C!admin, Enrolling, n
<1> HIDE DEF r
<1>6. open' \in [Goroutines -> C!Run] /\ open'[g] = r /\ \A h \in Goroutines \ {g} : open'[h] = open[h]
  BY <1>4, <1>5
<1>7. /\ rows \in Seq(C!Job) /\ DOMAIN rows = 1..Len(rows) /\ Len(rows) \in Nat
      /\ DOMAIN rows' = DOMAIN rows
      /\ \A k \in DOMAIN rows : rows'[k] = IF k = n THEN [rows[k] EXCEPT !.taker = g] ELSE rows[k]
  BY <1>3, <1>5 DEF Enrolling
<1>8. ASSUME NEW k \in DOMAIN rows
      PROVE  /\ rows'[k] \in C!Job /\ rows'[k].cancel = rows[k].cancel
             /\ rows'[k].taker = IF k = n THEN g ELSE rows[k].taker
  <2>1. rows[k] \in C!Job
    BY ChannelRowTyped
  <2> QED
    BY <2>1, <1>7 DEF C!Job
<1>9. rows' \in Seq(C!Job)
  <2>1. rows' = [k \in 1..Len(rows) |-> rows'[k]]
    BY <1>5, <1>7
  <2> QED
    BY <2>1, <1>7, <1>8, IsASeq
<1>10. OneRowEach(rows', Goroutines, Opened')
  <2>1. Opened' = Opened \cup {g} /\ g \notin Opened
    BY <1>4, <1>5, <1>6 DEF Opened, C!Busy
  <2>2. OneRowEach(rows, Goroutines, Opened) /\ rows[n].taker \notin Goroutines
    BY <1>3, MembershipAssumption DEF Enrolling
  <2> QED
    BY <2>1, <2>2, <1>3, <1>7, <1>8, LockTaken
\* g was idle: it has cancelled nothing.
<1>11. CancelsHeld'
  <2> SUFFICES ASSUME NEW k \in DOMAIN rows, NEW h \in rows[k].cancel
               PROVE  /\ open'[h].pc \in {"sweep", "delete", "done"}
                      /\ open'[h].pc \in {"delete", "done"} => rows'[k].taker \in {h, Nobody}
    BY <1>7, <1>8 DEF CancelsHeld
  <2>1. /\ open[h].pc \in {"sweep", "delete", "done"} /\ h \in Goroutines
        /\ open[h].pc \in {"delete", "done"} => rows[k].taker \in {h, Nobody}
    BY ChannelRowTyped DEF Enrolling, CancelsHeld
  <2>2. h # g /\ open'[h] = open[h]
    BY <2>1, <1>5, <1>6 DEF C!Busy
  <2> QED
    BY <2>1, <2>2, <1>3, <1>8
<1>12. AroundTyped' /\ \A h \in Goroutines : Free(open'[h].adds)
  BY <1>4, <1>5, <1>6, ClosedTyped DEF Enrolling, AroundTyped
<1> QED
  BY <1>6, <1>9, <1>10, <1>11, <1>12 DEF Enrolling

\* DELETE_CHANNEL marks the rows that it sees: nobody has to have left them yet.
LEMMA EnrollingSweeps ==
  ASSUME Enrolling, NEW g \in Goroutines, C!BeginSweep(g)
  PROVE  Enrolling'
<1> DEFINE r == [open[g] EXCEPT !.pc = "sweep"]
<1>1. /\ C!Busy(g) /\ open[g].pc = "exec" /\ open' = [open EXCEPT ![g] = r]
      /\ UNCHANGED <<up, botInSlack, event, exists, greets, button, opened, count>>
      /\ open \in [Goroutines -> C!Run] /\ open[g] \in C!Run
  BY DEF C!BeginSweep, C!Runs, C!Continue, C!slack, C!table, C!admin, Enrolling
<1>2. r \in C!Run /\ r.pc = "sweep" /\ r.adds = open[g].adds
  BY <1>1 DEF C!Run
<1> HIDE DEF r
<1>3. open' \in [Goroutines -> C!Run] /\ open'[g] = r /\ \A h \in Goroutines \ {g} : open'[h] = open[h]
  BY <1>1, <1>2
<1>4. /\ rows \in Seq(C!Job) /\ DOMAIN rows = 1..Len(rows) /\ Len(rows) \in Nat
      /\ DOMAIN rows' = DOMAIN rows /\ rows' = [k \in 1..Len(rows) |-> rows'[k]]
      /\ \A k \in DOMAIN rows :
            rows'[k] = rows[k] \/ rows'[k] = [rows[k] EXCEPT !.cancel = @ \cup {g}]
  BY DEF C!BeginSweep, Enrolling
<1>5. ASSUME NEW k \in DOMAIN rows
      PROVE  /\ rows'[k] \in C!Job /\ rows'[k].taker = rows[k].taker
             /\ rows'[k].cancel \subseteq rows[k].cancel \cup {g}
  <2>1. rows[k] \in C!Job
    BY ChannelRowTyped
  <2> QED
    BY <2>1, <1>4 DEF C!Job
<1>6. rows' \in Seq(C!Job)
  BY <1>4, <1>5, IsASeq
<1>7. OneRowEach(rows', Goroutines, Opened')
  <2>1. Opened' = Opened
    BY <1>1, <1>2, <1>3 DEF Opened, C!Busy
  <2> QED
    BY <2>1, <1>4, <1>5 DEF Enrolling, OneRowEach
<1>8. CancelsHeld'
  <2> SUFFICES ASSUME NEW k \in DOMAIN rows, NEW h \in rows[k].cancel \cup {g}
               PROVE  /\ open'[h].pc \in {"sweep", "delete", "done"}
                      /\ open'[h].pc \in {"delete", "done"} => rows[k].taker \in {h, Nobody}
    BY <1>4, <1>5 DEF CancelsHeld
  <2>1. CASE h = g
    BY <2>1, <1>2, <1>3
  <2>2. CASE h # g
    BY <2>2, <1>3, ChannelRowTyped DEF Enrolling, CancelsHeld
  <2> QED
    BY <2>1, <2>2
<1>9. AroundTyped' /\ \A h \in Goroutines : Free(open'[h].adds)
  BY <1>1, <1>2, <1>3 DEF Enrolling, AroundTyped
<1> QED
  BY <1>3, <1>6, <1>7, <1>8, <1>9 DEF Enrolling

LEMMA SameCardinality == \A S : C!Cardinality(S) = Cardinality(S)
  BY DEF C!Cardinality, Cardinality

LEMMA SameWhere == \A q, K : C!Where(q, K) = Where(q, K)
  BY DEF C!Where, C!Rank, C!Cardinality, Where, Rank, Cardinality

\* Rows that nobody else runs are completed, and the jobs that g queued are added.
LEMMA EnrollingCommits ==
  ASSUME Enrolling, NEW g \in Goroutines, C!Commit(g)
  PROVE  Enrolling'
<1> DEFINE T == C!Released({g}, rows)
           K == C!Kept(g)
           adds == open[g].adds
<1>1. /\ open[g].pc = "done" /\ rows' = Where(T, K) \o adds
      /\ open' = [open EXCEPT ![g] = C!NoRun] /\ open \in [Goroutines -> C!Run]
      /\ greets' = C!Plus(C!Greetings(adds))
      /\ exists' \in {TRUE, FALSE, exists}
      /\ UNCHANGED <<up, botInSlack, event, button, opened, count>>
  <2>1. /\ open[g].pc = "done" /\ rows' = C!Where(T, K) \o adds
        /\ open' = [open EXCEPT ![g] = C!NoRun] /\ greets' = C!Plus(C!Greetings(adds))
        /\ exists' \in {TRUE, FALSE, exists}
        /\ UNCHANGED <<up, botInSlack, event, button, opened, count>>
    BY DEF C!Commit, C!slack, C!admin
  <2>2. C!Where(T, K) = Where(T, K)
    BY SameWhere
  <2> QED
    BY <2>1, <2>2 DEF Enrolling
<1>2. open' \in [Goroutines -> C!Run] /\ open'[g] = C!NoRun /\ \A h \in Goroutines \ {g} : open'[h] = open[h]
  BY <1>1, ClosedTyped
<1>3. adds \in Seq(C!Job) /\ \A i \in DOMAIN adds : adds[i].taker = Nobody /\ adds[i].cancel = {}
  BY <1>1 DEF C!Run, Enrolling, Free
<1>4. /\ T \in Seq(C!Job) /\ DOMAIN T = DOMAIN rows
      /\ \A k \in DOMAIN rows :
            /\ T[k].taker = IF rows[k].taker = g THEN Nobody ELSE rows[k].taker
            /\ T[k].cancel = rows[k].cancel \ {g}
      /\ OneRowEach(T, Goroutines, Opened \ {g})
  BY EnrollingReleased
<1>5. K \subseteq DOMAIN T
  BY <1>4 DEF C!Kept
\* A row that is not kept was run by g, or by nobody.
<1>6. \A k \in DOMAIN T \ K : T[k].taker \notin Goroutines
  <2> TAKE k \in DOMAIN T \ K
  <2>1. k \in DOMAIN rows /\ (g \in rows[k].cancel \/ rows[k].taker = g)
    BY <1>4 DEF C!Kept
  <2>2. rows[k].taker \in {g, Nobody}
    BY <2>1, <1>1 DEF Enrolling, CancelsHeld
  <2> QED
    BY <2>1, <2>2, <1>4, MembershipAssumption
<1> HIDE DEF T, K, adds
<1>7. /\ rows' \in Seq(C!Job)
      /\ \E n \in Nat : \E at : TableOf(rows', T, K, adds, n, at)
  BY <1>1, <1>3, <1>4, <1>5, RowsOfTable
<1>8. PICK n \in Nat : \E at : TableOf(rows', T, K, adds, n, at)
  BY <1>7
<1>9. PICK at : TableOf(rows', T, K, adds, n, at)
  BY <1>8
<1>10. \A x \in DOMAIN rows' :
          \/ x \in 1..n /\ at[x] \in K /\ rows'[x] = T[at[x]]
          \/ rows'[x].taker = Nobody /\ rows'[x].cancel = {}
  BY <1>3, <1>9 DEF TableOf
<1>11. OneRowEach(rows', Goroutines, Opened')
  <2>1. Opened' = Opened \ {g}
    BY <1>2, ClosedTyped DEF Opened, C!Busy
  <2>2. \A x, y \in DOMAIN rows', h \in Goroutines : rows'[x].taker = h /\ rows'[y].taker = h => x = y
    <3> SUFFICES ASSUME NEW x \in DOMAIN rows', NEW y \in DOMAIN rows', NEW h \in Goroutines,
                        rows'[x].taker = h, rows'[y].taker = h
                 PROVE  x = y
      OBVIOUS
    <3>1. /\ x \in 1..n /\ at[x] \in DOMAIN T /\ T[at[x]].taker = h
          /\ y \in 1..n /\ at[y] \in DOMAIN T /\ T[at[y]].taker = h
      BY <1>5, <1>10, MembershipAssumption
    <3>2. at[x] = at[y]
      BY <3>1, <1>4 DEF OneRowEach
    <3> QED
      BY <3>1, <3>2, <1>9 DEF TableOf
  <2>3. ASSUME NEW h \in Opened \ {g} PROVE \E x \in DOMAIN rows' : rows'[x].taker = h
    <3>1. h \in Goroutines
      BY DEF Opened
    <3>2. PICK k \in DOMAIN T : T[k].taker = h
      BY <3>1, <1>4 DEF OneRowEach
    <3>3. k \in K
      BY <3>1, <3>2, <1>6
    <3> QED
      BY <3>2, <3>3, <1>9 DEF TableOf
  <2>4. ASSUME NEW h \in Goroutines, NEW x \in DOMAIN rows', rows'[x].taker = h PROVE h \in Opened \ {g}
    <3>1. at[x] \in DOMAIN T /\ T[at[x]].taker = h
      BY <2>4, <1>5, <1>10, MembershipAssumption
    <3> QED
      BY <3>1, <1>4 DEF OneRowEach
  <2> QED
    BY <2>1, <2>2, <2>3, <2>4 DEF OneRowEach
<1>12. CancelsHeld'
  <2> SUFFICES ASSUME NEW x \in DOMAIN rows', NEW h \in rows'[x].cancel
               PROVE  /\ open'[h].pc \in {"sweep", "delete", "done"}
                      /\ open'[h].pc \in {"delete", "done"} => rows'[x].taker \in {h, Nobody}
    BY DEF CancelsHeld
  <2>1. at[x] \in K /\ rows'[x] = T[at[x]]
    BY <1>10
  <2>2. PICK k \in DOMAIN rows : k = at[x]
    BY <2>1, <1>4, <1>5
  <2>3. /\ h \in rows[k].cancel /\ h # g
        /\ rows'[x].taker = rows[k].taker \/ rows'[x].taker = Nobody
    BY <2>1, <2>2, <1>4
  <2>4. h \in Goroutines /\ open'[h] = open[h]
    BY <2>3, <1>2, ChannelRowTyped
  <2> QED
    BY <2>3, <2>4 DEF Enrolling, CancelsHeld
<1>13. \A h \in Goroutines : Free(open'[h].adds)
  BY <1>2, ClosedTyped DEF Enrolling
<1>14. greets' \in 0..2
  <2>1. C!Greetings(adds) \in Nat
    <3>1. {k \in DOMAIN adds : adds[k].type = "GREET_ADMIN"} \subseteq DOMAIN adds
      OBVIOUS
    <3>2. Cardinality({k \in DOMAIN adds : adds[k].type = "GREET_ADMIN"}) \in Nat
      BY <3>1, <1>3, PositionsFinite
    <3> QED
      BY <3>2, SameCardinality DEF C!Greetings
  <2>2. greets \in 0..2
    BY DEF Enrolling, AroundTyped
  <2> QED
    BY <2>1, <2>2, <1>1 DEF C!Plus
<1>15. AroundTyped'
  BY <1>1, <1>14 DEF Enrolling, AroundTyped
<1> QED
  BY <1>2, <1>7, <1>11, <1>12, <1>13, <1>15 DEF Enrolling

LEMMA EnrollingStep ==
  ASSUME Enrolling, NEW g \in Goroutines, C!Step(g)
  PROVE  Enrolling'
<1>1. open \in [Goroutines -> C!Run] /\ open[g] \in C!Run /\ Free(open[g].adds) /\ AroundTyped
  BY DEF Enrolling
<1>2. \A r : C!Continue(g, r) =>
         /\ open' = [open EXCEPT ![g] = r]
         /\ UNCHANGED <<up, botInSlack, event, exists, greets, button, opened, count>>
  BY DEF C!Continue, C!slack, C!table, C!admin
<1>3. AroundTyped /\ UNCHANGED <<up, botInSlack, event, exists, greets, button, opened, count>> => AroundTyped'
  BY DEF AroundTyped
\* A transaction that has cancelled nothing yet.
<1>4. ASSUME open[g].pc \in {"exec", "listed", "read"} PROVE \A k \in DOMAIN rows : g \notin rows[k].cancel
  BY <1>4 DEF Enrolling, CancelsHeld
<1>5. CASE C!TakeJob(g)
  BY <1>5, EnrollingTakes
<1>6. CASE C!ListChannels(g)
  <2> DEFINE r == [open[g] EXCEPT !.pc = "listed", !.listed = botInSlack]
  <2>1. C!Continue(g, r) /\ UNCHANGED rows /\ C!Busy(g) /\ open[g].pc = "exec"
    BY <1>6 DEF C!ListChannels, C!Runs
  <2>2. r \in C!Run /\ r.pc = "listed" /\ r.adds = open[g].adds
    BY <1>1 DEF C!Run, AroundTyped
  <2> HIDE DEF r
  <2> QED
    BY <1>1, <1>2, <1>3, <1>4, <2>1, <2>2, EnrollingMoves
<1>7. CASE C!ReadChannels(g)
  <2> DEFINE r == [open[g] EXCEPT !.pc = "read", !.known = exists]
  <2>1. C!Continue(g, r) /\ UNCHANGED rows /\ C!Busy(g) /\ open[g].pc = "listed"
    BY <1>7 DEF C!ReadChannels, C!Busy
  <2>2. r \in C!Run /\ r.pc = "read" /\ r.adds = open[g].adds
    BY <1>1 DEF C!Run, AroundTyped
  <2> HIDE DEF r
  <2> QED
    BY <1>1, <1>2, <1>3, <1>4, <2>1, <2>2, EnrollingMoves
<1>8. CASE C!Reconcile(g)
  <2>1. PICK a \in {<<>>, <<C!NewJob("GREET_ADMIN")>>, <<C!NewJob("DELETE_CHANNEL")>>} :
           C!Continue(g, [open[g] EXCEPT !.pc = "done", !.adds = a])
    BY <1>8 DEF C!Reconcile
  <2> DEFINE r == [open[g] EXCEPT !.pc = "done", !.adds = a]
  <2>2. UNCHANGED rows /\ C!Busy(g) /\ open[g].pc = "read"
    BY <1>8 DEF C!Reconcile, C!Busy
  <2>3. a \in Seq(C!Job) /\ Free(a)
    <3>1. \A t \in C!ChannelJobs : C!NewJob(t) \in C!Job /\ C!NewJob(t).taker = Nobody /\ C!NewJob(t).cancel = {}
      BY DEF C!NewJob, C!Job
    <3>2. "GREET_ADMIN" \in C!ChannelJobs /\ "DELETE_CHANNEL" \in C!ChannelJobs
      BY DEF C!ChannelJobs
    <3>3. \A j \in C!Job : <<j>> \in Seq(C!Job) /\ \A k \in DOMAIN <<j>> : <<j>>[k] = j
      OBVIOUS
    <3>4. CASE a = <<>>
      BY <3>4, EmptySeq, ClosedTyped
    <3>5. CASE \E t \in C!ChannelJobs : a = <<C!NewJob(t)>>
      BY <3>1, <3>3, <3>5 DEF Free
    <3> QED
      BY <2>1, <3>2, <3>4, <3>5
  <2>4. r \in C!Run /\ r.pc = "done" /\ r.adds = a
    BY <1>1, <2>3 DEF C!Run
  <2>5. C!Continue(g, r)
    BY <2>1
  <2> HIDE DEF r
  <2> QED
    BY <1>1, <1>2, <1>3, <1>4, <2>2, <2>3, <2>4, <2>5, EnrollingMoves
<1>9. CASE C!GreetAdmin(g)
  <2> DEFINE r == [open[g] EXCEPT !.pc = "done"]
  <2>1. /\ open' = [open EXCEPT ![g] = r] /\ UNCHANGED rows /\ C!Busy(g) /\ open[g].pc = "exec"
        /\ button' = TRUE /\ UNCHANGED <<up, botInSlack, event, exists, greets, opened, count>>
    BY <1>1, <1>9 DEF C!GreetAdmin, C!Runs, C!slack, C!table
  <2>2. r \in C!Run /\ r.pc = "done" /\ r.adds = open[g].adds
    BY <1>1 DEF C!Run
  <2>3. AroundTyped'
    BY <1>1, <2>1 DEF AroundTyped
  <2> HIDE DEF r
  <2> QED
    BY <1>1, <1>4, <2>1, <2>2, <2>3, EnrollingMoves
<1>10. CASE C!AddChannel(g)
  <2>1. PICK c \in {open[g].chan, "add"} : C!Continue(g, [open[g] EXCEPT !.pc = "done", !.chan = c])
    <3>1. [open[g] EXCEPT !.pc = "done", !.chan = open[g].chan] = [open[g] EXCEPT !.pc = "done"]
      BY <1>1 DEF C!Run
    <3> QED
      BY <1>10, <3>1 DEF C!AddChannel
  <2> DEFINE r == [open[g] EXCEPT !.pc = "done", !.chan = c]
  <2>2. UNCHANGED rows /\ C!Busy(g) /\ open[g].pc = "exec" /\ C!Continue(g, r)
    BY <1>10, <2>1 DEF C!AddChannel, C!Runs
  <2>3. r \in C!Run /\ r.pc = "done" /\ r.adds = open[g].adds
    BY <1>1, <2>1 DEF C!Run
  <2> HIDE DEF r
  <2> QED
    BY <1>1, <1>2, <1>3, <1>4, <2>2, <2>3, EnrollingMoves
<1>11. CASE C!BeginSweep(g)
  BY <1>11, EnrollingSweeps
\* The UPDATE ends when the rows that it cancels are run by nobody else.
<1>12. CASE C!EndSweep(g)
  <2> DEFINE r == [open[g] EXCEPT !.pc = "delete"]
  <2>1. C!Continue(g, r) /\ UNCHANGED rows /\ C!Busy(g)
    BY <1>12 DEF C!EndSweep, C!Busy
  <2>2. r \in C!Run /\ r.pc = "delete" /\ r.adds = open[g].adds
    BY <1>1 DEF C!Run
  <2>3. \A k \in DOMAIN rows : g \in rows[k].cancel => rows[k].taker \in {g, Nobody}
    BY <1>12 DEF C!EndSweep, C!Pending, C!LockedFor
  <2> HIDE DEF r
  <2> QED
    BY <1>1, <1>2, <1>3, <2>1, <2>2, <2>3, EnrollingMoves
<1>13. CASE C!DeleteChannel(g)
  <2> DEFINE r == [open[g] EXCEPT !.pc = "done", !.chan = "delete"]
  <2>1. C!Continue(g, r) /\ UNCHANGED rows /\ C!Busy(g) /\ open[g].pc = "delete"
    BY <1>13 DEF C!DeleteChannel, C!Busy
  <2>2. r \in C!Run /\ r.pc = "done" /\ r.adds = open[g].adds
    BY <1>1 DEF C!Run
  <2>3. \A k \in DOMAIN rows : g \in rows[k].cancel => rows[k].taker \in {g, Nobody}
    BY <2>1 DEF Enrolling, CancelsHeld
  <2> HIDE DEF r
  <2> QED
    BY <1>1, <1>2, <1>3, <2>1, <2>2, <2>3, EnrollingMoves
<1>14. CASE C!Commit(g)
  BY <1>14, EnrollingCommits
<1> QED
  BY <1>5, <1>6, <1>7, <1>8, <1>9, <1>10, <1>11, <1>12, <1>13, <1>14 DEF C!Step

LEMMA ChannelFaults ==
  ASSUME AroundTyped, C!Fault \/ UNCHANGED count
  PROVE  count' \in [moves: 0..MaxMoves, faults: 0..MaxFaults, opens: 0..MaxOpens]
<1>1. MaxFaults \in Nat
  BY MembershipAssumption
<1> QED
  BY <1>1 DEF C!Fault, AroundTyped

LEMMA EnrollingFails ==
  ASSUME Enrolling, NEW g \in Goroutines, C!GiveUp(g) \/ C!Fail(g)
  PROVE  Enrolling'
<1>1. /\ rows' = C!Released({g}, rows) /\ open' = [open EXCEPT ![g] = C!NoRun]
      /\ UNCHANGED <<up, botInSlack, event, exists, greets, button, opened>>
      /\ C!Fault \/ UNCHANGED count
      /\ open \in [Goroutines -> C!Run] /\ AroundTyped
  BY DEF C!GiveUp, C!Fail, C!Rollback, C!slack, C!table, C!admin, Enrolling
<1>2. AroundTyped'
  BY <1>1, ChannelFaults DEF AroundTyped
<1>3. open' \in [Goroutines -> C!Run] /\ \A h \in Goroutines : open'[h] = IF h \in {g} THEN C!NoRun ELSE open[h]
  BY <1>1, ClosedTyped
<1> QED
  BY <1>1, <1>2, <1>3, RolledBack

LEMMA EnrollingStops ==
  ASSUME Enrolling, NEW planned \in BOOLEAN, C!Stop(planned)
  PROVE  Enrolling'
<1>1. /\ rows' = C!Released(Goroutines, rows) /\ open' = [g \in Goroutines |-> C!NoRun]
      /\ up' = FALSE /\ UNCHANGED <<botInSlack, event, exists, greets, button, opened>>
      /\ C!Fault \/ UNCHANGED count
      /\ AroundTyped
  BY DEF C!Stop, C!slack, C!table, C!admin, Enrolling
<1>2. AroundTyped'
  BY <1>1, ChannelFaults DEF AroundTyped
<1>3. open' \in [Goroutines -> C!Run]
      /\ \A h \in Goroutines : open'[h] = IF h \in Goroutines THEN C!NoRun ELSE open[h]
  BY <1>1, ClosedTyped
<1> QED
  BY <1>1, <1>2, <1>3, RolledBack

\* Slack, the start of the process, the admin: jobs are queued, or none.
LEMMA EnrollingAround ==
  ASSUME Enrolling, \/ C!BotMoves \/ C!Deliver \/ C!EventLost \/ C!Start \/ C!RoundChecks
                    \/ C!OpenDialog \/ C!SubmitDialog \/ UNCHANGED C!vars
  PROVE  Enrolling'
<1>1. UNCHANGED open /\ AroundTyped
  BY DEF C!BotMoves, C!Deliver, C!EventLost, C!Start, C!RoundChecks, C!OpenDialog, C!SubmitDialog,
         C!vars, Enrolling
<1>2. PICK t \in C!ChannelJobs : rows' = Append(rows, C!NewJob(t)) \/ rows' = rows
  <2>1. /\ "GREET_ADMIN" \in C!ChannelJobs /\ "SYNC_CHANNELS" \in C!ChannelJobs
        /\ "DELETE_CHANNEL" \in C!ChannelJobs /\ "ADD_CHANNEL" \in C!ChannelJobs
    BY DEF C!ChannelJobs
  <2>2. CASE \E t \in {"GREET_ADMIN", "SYNC_CHANNELS", "DELETE_CHANNEL", "ADD_CHANNEL"} : C!Queue(t)
    BY <2>1, <2>2 DEF C!Queue
  <2>3. CASE rows' = rows
    BY <2>1, <2>3
  <2> QED
    BY <2>2, <2>3 DEF C!BotMoves, C!Deliver, C!EventLost, C!Start, C!RoundChecks, C!OpenDialog,
                      C!SubmitDialog, C!vars
<1>3. greets' \in 0..2
  <2>1. \A n \in {0, 1} : C!Plus(n) \in 0..2
    BY <1>1 DEF AroundTyped, C!Plus
  <2>2. greets' = greets \/ greets' = C!Plus(0) \/ greets' = C!Plus(1)
    BY DEF C!BotMoves, C!Deliver, C!EventLost, C!Start, C!RoundChecks, C!OpenDialog,
           C!SubmitDialog, C!Queue, C!table, C!vars
  <2> QED
    BY <1>1, <2>1, <2>2 DEF AroundTyped
<1>4. count' \in [moves: 0..MaxMoves, faults: 0..MaxFaults, opens: 0..MaxOpens]
  <2>1. MaxMoves \in Nat /\ MaxOpens \in Nat
    BY MembershipAssumption
  <2>2. CASE C!BotMoves
    BY <1>1, <2>1, <2>2 DEF C!BotMoves, AroundTyped
  <2>3. CASE C!OpenDialog
    BY <1>1, <2>1, <2>3 DEF C!OpenDialog, AroundTyped
  <2>4. CASE C!Fault \/ UNCHANGED count
    BY <1>1, <2>4, ChannelFaults
  <2> QED
    BY <2>2, <2>3, <2>4 DEF C!Deliver, C!EventLost, C!Start, C!RoundChecks, C!SubmitDialog, C!vars
<1>5. /\ up' \in BOOLEAN /\ botInSlack' \in BOOLEAN /\ event' \in {"none", "invited", "added"}
      /\ exists' \in BOOLEAN /\ button' \in BOOLEAN /\ opened' \in BOOLEAN
  BY <1>1 DEF C!BotMoves, C!Deliver, C!EventLost, C!Start, C!RoundChecks, C!OpenDialog, C!SubmitDialog,
              C!slack, C!table, C!admin, C!vars, AroundTyped
<1>6. AroundTyped'
  BY <1>3, <1>4, <1>5 DEF AroundTyped
<1> QED
  BY <1>1, <1>2, <1>6, Enrolls

LEMMA EnrollingNext == Enrolling /\ [C!Next]_(C!vars) => Enrolling'
<1> SUFFICES ASSUME Enrolling, [C!Next]_(C!vars) PROVE Enrolling'
  OBVIOUS
<1>1. ASSUME NEW g \in Goroutines, C!Step(g) \/ C!GiveUp(g) \/ C!Fail(g) PROVE Enrolling'
  BY <1>1, EnrollingStep, EnrollingFails
<1>2. ASSUME NEW planned \in BOOLEAN, C!Stop(planned) PROVE Enrolling'
  BY <1>2, EnrollingStops
<1> QED
  BY <1>1, <1>2, EnrollingAround DEF C!Next

\* The variables of a channel keep their types, for any number of goroutines, moves of
\* the bot, faults and crashes; and whoever runs a job has its row, though the
\* DELETE_CHANNEL of another goroutine completes rows (job_delete_channel.go:26).
THEOREM ChannelTypesOK == C!Spec => []C!TypeOK
<1>1. C!Init => Enrolling
  BY EnrollingInit
<1>2. Enrolling /\ [C!Next]_(C!vars) => Enrolling'
  BY EnrollingNext
<1>3. Enrolling => C!TypeOK
  BY EnrollingTyped
<1> QED
  BY <1>1, <1>2, <1>3, PTL DEF C!Spec
===============================================================================
