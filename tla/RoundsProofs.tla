----------------------------- MODULE RoundsProofs -----------------------------
(***************************************************************************)
(* Proofs about the rounds of a channel, in three parts.                   *)
(*                                                                         *)
(* 1. Whatever the faults and delays, an active round has an END_ROUND to  *)
(* come. It cannot be lost, because the row whose transaction is about to  *)
(* commit ends the round (EndCovered), because only DELETE_CHANNEL cancels *)
(* it, which deletes the round as well (SweepsHeld), and because a round   *)
(* is committed together with its END_ROUND (StartsHeld).                  *)
(*                                                                         *)
(* 2. While the worker keeps up (OnTime) Rounds implements RoundChain: the *)
(* clock cannot pass the due date of a row, so an active round is ended    *)
(* before the next is started, and the only CREATE_ROUND is due on the     *)
(* date that the channel shows (Chained).                                  *)
(*                                                                         *)
(* 3. The dates that Calendar computes, for months of any length.          *)
(***************************************************************************)
EXTENDS Rounds, Calendar, TableProofs

\* A transaction has locked one row, and no row is locked by two.
OneRow ==
    /\ \A k, m \in DOMAIN jobs :
          jobs[k].taker = jobs[m].taker /\ jobs[k].taker # Nobody => k = m
    /\ \A g \in Goroutines : Busy(g) <=> \E k \in DOMAIN jobs : jobs[k].taker = g

\* Which jobs can be at which statement.
Place(pc, type) ==
    /\ pc \in {"start", "next"} => type = "CREATE_ROUND"
    /\ pc = "updated" => type = "UPDATE_CHANNEL"
    /\ pc = "sweep" => type \in {"UPDATE_CHANNEL", "DELETE_CHANNEL"}
    /\ pc = "delete" => type = "DELETE_CHANNEL"
Places == \A k \in DOMAIN jobs, g \in Goroutines :
    jobs[k].taker = g => Place(run[g].pc, jobs[k].type)

\* g deletes the channel.
Deleting(g) ==
    /\ run[g].pc = "done" => run[g].chan = "delete"
    /\ \E k \in DOMAIN jobs : jobs[k].taker = g /\ jobs[k].type = "DELETE_CHANNEL"

\* Nobody else runs a row that g has cancelled.
SweepsHeld == \A k \in DOMAIN jobs, g \in Goroutines : g \in jobs[k].cancel =>
    /\ run[g].pc \in {"sweep", "delete", "done"}
    /\ run[g].pc \in {"delete", "done"} => jobs[k].taker \in {g, Nobody}
    /\ jobs[k].type # "CREATE_ROUND" => Deleting(g)

HasEnd(q) == \E i \in DOMAIN q : q[i].type = "END_ROUND"
NoDeletion == \A h \in Goroutines : run[h].chan # "delete"

\* The END_ROUND of an inserted round is committed with it, and the channel exists.
StartsHeld == \A g \in Goroutines : run[g].starts =>
    /\ exists /\ NoDeletion
    /\ run[g].pc = "next" \/ (run[g].pc = "done" /\ HasEnd(run[g].adds))

NoChannelNoRounds == ~exists => rounds = <<>>

\* Whoever runs the row at k and is about to commit ends round n.
WillEnd(k, n) == \A g \in Goroutines :
    jobs[k].taker = g /\ run[g].pc = "done" => n \in run[g].ends
EndCovered == \A n \in Active : \E k \in DOMAIN jobs :
    jobs[k].type = "END_ROUND" /\ WillEnd(k, n)

Inv ==
    /\ TypeOK /\ OneRow /\ Places /\ SweepsHeld
    /\ StartsHeld /\ NoChannelNoRounds /\ EndCovered

LEMMA EndsPromised == Inv => RoundWillEnd
  BY DEF Inv, EndCovered, RoundWillEnd, Pending
-------------------------------------------------------------------------------
(* Rows and transactions *)

LEMMA JobOfRow ==
  ASSUME OneRow, NEW g \in Goroutines, NEW k \in DOMAIN jobs, jobs[k].taker = g
  PROVE  JobOf(g) = jobs[k]
<1>1. jobs[k] \in Pending
  BY DEF Pending
<1>2. JobOf(g) \in Pending /\ JobOf(g).taker = g
  BY <1>1 DEF JobOf
<1>3. PICK m \in DOMAIN jobs : JobOf(g) = jobs[m]
  BY <1>2 DEF Pending
<1> QED
  BY <1>2, <1>3, RoundsAssumption DEF OneRow

LEMMA RowOfBusy ==
  ASSUME TypeOK, OneRow, NEW g \in Goroutines, Busy(g)
  PROVE  \E k \in DOMAIN jobs : jobs[k].taker = g /\ JobOf(g) = jobs[k] /\ jobs[k] \in Job
<1>1. PICK k \in DOMAIN jobs : jobs[k].taker = g
  BY DEF OneRow
<1>2. jobs[k] \in Job
  BY ElementOfSeq DEF TypeOK
<1> QED
  BY <1>1, <1>2, JobOfRow

LEMMA NewJobTyped ==
  ASSUME NEW t \in RoundJobs, NEW due \in Nat, NEW next \in Nat
  PROVE  /\ NewJob(t, due, next) \in NewRow /\ NewJob(t, due, next) \in Job
         /\ NewJob(t, due, next).type = t /\ NewJob(t, due, next).due = due
         /\ NewJob(t, due, next).next = next
         /\ NewJob(t, due, next).taker = Nobody /\ NewJob(t, due, next).cancel = {}
  BY DEF NewJob, NewRow, Job

LEMMA QueuedJobsTyped ==
  ASSUME NEW next \in Nat
  PROVE  CreateRoundJob(next) \in NewRow /\ EndRoundJob(next) \in NewRow
         /\ EndRoundJob(next).type = "END_ROUND" /\ CreateRoundJob(next).type = "CREATE_ROUND"
<1>1. (IF next < EndBefore THEN 0 ELSE next - EndBefore) \in Nat
  BY RoundsAssumption
<1> QED
  BY <1>1, NewJobTyped DEF CreateRoundJob, EndRoundJob, RoundJobs

LEMMA NoRunTyped == NoRun \in Run /\ NoRun.pc = "idle" /\ NoRun.starts = FALSE /\ NoRun.chan = "keep"
  BY EmptySeq DEF NoRun, Run

LEMMA InitInv == Init => Inv
<1> SUFFICES ASSUME Init PROVE Inv
  OBVIOUS
<1>1. TypeOK
  BY NoRunTyped, EmptySeq DEF Init, TypeOK
<1>2. DOMAIN jobs = {} /\ Active = {}
  BY EmptySeq DEF Init, Active
<1>3. \A g \in Goroutines : ~Busy(g) /\ ~run[g].starts
  BY NoRunTyped DEF Init, Busy
<1> QED
  BY <1>1, <1>2, <1>3 DEF Init, Inv, OneRow, Places, SweepsHeld, StartsHeld,
     NoChannelNoRounds, EndCovered
-------------------------------------------------------------------------------
(* Steps that change no row *)

\* The transaction of g goes on, with r, and the rows stay as they are.
LEMMA MovesInv ==
  ASSUME Inv, NEW g \in Goroutines, NEW r \in Run, Continue(g, r), UNCHANGED jobs,
         Busy(g), r.pc # "idle",
         \A k \in DOMAIN jobs : jobs[k].taker = g => Place(r.pc, jobs[k].type),
         run[g].pc \in {"sweep", "delete", "done"} => r.pc \in {"sweep", "delete", "done"},
         \A k \in DOMAIN jobs : g \in jobs[k].cancel /\ r.pc \in {"delete", "done"}
             => /\ jobs[k].taker \in {g, Nobody}
                /\ jobs[k].type # "CREATE_ROUND" /\ r.pc = "done" => r.chan = "delete",
         r.starts => /\ exists /\ NoDeletion /\ r.chan # "delete"
                     /\ r.pc = "next" \/ (r.pc = "done" /\ HasEnd(r.adds)),
         r.chan = "delete" => \A h \in Goroutines \ {g} : ~run[h].starts,
         r.pc = "done" => \A k \in DOMAIN jobs :
             jobs[k].taker = g /\ jobs[k].type = "END_ROUND" => Active \subseteq r.ends
  PROVE  Inv'
<1>1. /\ run' = [run EXCEPT ![g] = r] /\ run \in [Goroutines -> Run]
      /\ UNCHANGED <<exists, nextRound, rounds, jobs, inSlack, now>>
  BY DEF Continue, table, Inv, TypeOK
<1>2. run'[g] = r /\ \A h \in Goroutines \ {g} : run'[h] = run[h]
  BY <1>1
<1>3. TypeOK'
  BY <1>1 DEF Inv, TypeOK
<1>4. OneRow'
  BY <1>1, <1>2 DEF Inv, OneRow, Busy
<1>5. Places'
  BY <1>1, <1>2 DEF Inv, Places
<1>6. SweepsHeld'
  <2> SUFFICES ASSUME NEW k \in DOMAIN jobs, NEW h \in Goroutines, h \in jobs[k].cancel
               PROVE  /\ run'[h].pc \in {"sweep", "delete", "done"}
                      /\ run'[h].pc \in {"delete", "done"} => jobs[k].taker \in {h, Nobody}
                      /\ jobs[k].type # "CREATE_ROUND" => Deleting(h)'
    BY <1>1 DEF SweepsHeld
  <2>1. /\ run[h].pc \in {"sweep", "delete", "done"}
        /\ run[h].pc \in {"delete", "done"} => jobs[k].taker \in {h, Nobody}
        /\ jobs[k].type # "CREATE_ROUND" => Deleting(h)
    BY DEF Inv, SweepsHeld
  <2>2. CASE h = g
    BY <2>1, <2>2, <1>1, <1>2 DEF Deleting
  <2>3. CASE h # g
    BY <2>1, <2>3, <1>1, <1>2 DEF Deleting
  <2> QED
    BY <2>2, <2>3
<1>7. StartsHeld'
  <2> SUFFICES ASSUME NEW h \in Goroutines, run'[h].starts
               PROVE  /\ exists /\ NoDeletion'
                      /\ run'[h].pc = "next" \/ (run'[h].pc = "done" /\ HasEnd(run'[h].adds))
    BY <1>1 DEF StartsHeld, HasEnd
  <2>1. CASE h = g
    BY <2>1, <1>2 DEF NoDeletion
  <2>2. CASE h # g
    BY <2>2, <1>2 DEF Inv, StartsHeld, NoDeletion
  <2> QED
    BY <2>1, <2>2
<1>8. NoChannelNoRounds'
  BY <1>1 DEF Inv, NoChannelNoRounds
<1>9. EndCovered'
  <2> SUFFICES ASSUME NEW n \in Active
               PROVE  \E k \in DOMAIN jobs : jobs[k].type = "END_ROUND" /\ WillEnd(k, n)'
    BY <1>1 DEF EndCovered, Active
  <2>1. PICK k \in DOMAIN jobs : jobs[k].type = "END_ROUND" /\ WillEnd(k, n)
    BY DEF Inv, EndCovered
  <2>2. WillEnd(k, n)'
    BY <2>1, <1>1, <1>2 DEF WillEnd
  <2> QED
    BY <2>1, <2>2
<1> QED
  BY <1>3, <1>4, <1>5, <1>6, <1>7, <1>8, <1>9 DEF Inv

LEMMA RunTyped == ASSUME Inv, NEW g \in Goroutines PROVE run[g] \in Run
  BY DEF Inv, TypeOK

LEMMA ActiveTyped == ASSUME Inv PROVE Active \subseteq Nat
<1>1. rounds \in Seq(Round)
  BY DEF Inv, TypeOK
<1> QED
  BY <1>1 DEF Active

LEMMA AddChannelInv ==
  ASSUME Inv, NEW g \in Goroutines, AddChannel(g)
  PROVE  Inv'
<1>1. Busy(g) /\ run[g].pc = "exec" /\ run[g] \in Run
  BY RunTyped DEF AddChannel, Runs
<1>2. PICK k \in DOMAIN jobs : jobs[k].taker = g /\ JobOf(g) = jobs[k] /\ jobs[k] \in Job
  BY <1>1, RowOfBusy DEF Inv
<1>3. \A m \in DOMAIN jobs : jobs[m].taker = g => jobs[m].type = "ADD_CHANNEL"
  BY <1>2, JobOfRow DEF Inv, AddChannel, Runs
<1>4. \A m \in DOMAIN jobs : g \notin jobs[m].cancel
  BY <1>1 DEF Inv, SweepsHeld
<1>5. ~run[g].starts
  BY <1>1 DEF Inv, StartsHeld
<1> DEFINE quiet == [run[g] EXCEPT !.pc = "done"]
           adding == [run[g] EXCEPT !.pc = "done", !.chan = "add", !.next = JobOf(g).next,
                                    !.adds = <<CreateRoundJob(JobOf(g).next)>>]
<1>6. CASE exists /\ Continue(g, quiet)
  <2>1. quiet \in Run /\ quiet.pc = "done" /\ ~quiet.starts /\ quiet.chan = run[g].chan
    BY <1>1, <1>5 DEF Run
  <2>2. run[g].chan = "delete" => \A h \in Goroutines \ {g} : ~run[h].starts
    BY DEF Inv, StartsHeld, NoDeletion
  <2> HIDE DEF quiet
  <2> QED
    BY <1>6, <1>1, <1>3, <1>4, <2>1, <2>2, MovesInv DEF AddChannel, Place
<1>7. CASE Continue(g, adding)
  <2>1. JobOf(g).next \in Nat /\ CreateRoundJob(JobOf(g).next) \in NewRow
    BY <1>2, QueuedJobsTyped DEF Job
  <2>2. <<CreateRoundJob(JobOf(g).next)>> \in Seq(NewRow)
    BY <2>1
  <2>3. adding \in Run /\ adding.pc = "done" /\ ~adding.starts /\ adding.chan = "add"
    BY <1>1, <1>5, <2>1, <2>2 DEF Run
  <2> HIDE DEF adding
  <2> QED
    BY <1>7, <1>1, <1>3, <1>4, <2>3, MovesInv DEF AddChannel, Place
<1> QED
  BY <1>6, <1>7 DEF AddChannel

LEMMA CheckMembershipInv ==
  ASSUME Inv, NEW g \in Goroutines, CheckMembership(g)
  PROVE  Inv'
<1>1. Busy(g) /\ run[g].pc = "exec" /\ run[g] \in Run
  BY RunTyped DEF CheckMembership, Runs
<1>2. PICK k \in DOMAIN jobs : jobs[k].taker = g /\ JobOf(g) = jobs[k] /\ jobs[k] \in Job
  BY <1>1, RowOfBusy DEF Inv
<1>3. \A m \in DOMAIN jobs : jobs[m].taker = g => jobs[m].type = "CREATE_ROUND"
  BY <1>2, JobOfRow DEF Inv, CheckMembership, Runs
<1>4. \A m \in DOMAIN jobs : g \notin jobs[m].cancel
  BY <1>1 DEF Inv, SweepsHeld
<1>5. ~run[g].starts /\ (run[g].chan = "delete" => \A h \in Goroutines \ {g} : ~run[h].starts)
  BY <1>1 DEF Inv, StartsHeld, NoDeletion
<1> DEFINE starting == [run[g] EXCEPT !.pc = "start"]
           leaving == [run[g] EXCEPT !.pc = "done", !.adds = <<NewJob("DELETE_CHANNEL", 0, 0)>>]
<1>6. CASE Continue(g, starting)
  <2>1. starting \in Run /\ starting.pc = "start" /\ ~starting.starts /\ starting.chan = run[g].chan
    BY <1>1, <1>5 DEF Run
  <2> HIDE DEF starting
  <2> QED
    BY <1>6, <1>1, <1>3, <1>4, <1>5, <2>1, MovesInv DEF CheckMembership, Place
<1>7. CASE Continue(g, leaving)
  <2>1. <<NewJob("DELETE_CHANNEL", 0, 0)>> \in Seq(NewRow)
    BY NewJobTyped DEF RoundJobs
  <2>2. leaving \in Run /\ leaving.pc = "done" /\ ~leaving.starts /\ leaving.chan = run[g].chan
    BY <1>1, <1>5, <2>1 DEF Run
  <2> HIDE DEF leaving
  <2> QED
    BY <1>7, <1>1, <1>3, <1>4, <1>5, <2>2, MovesInv DEF CheckMembership, Place
<1> QED
  BY <1>6, <1>7 DEF CheckMembership

\* What a goroutine at pc knows before its row is swept.
LEMMA AtPlace ==
  ASSUME Inv, NEW g \in Goroutines, Busy(g)
  PROVE  /\ run[g] \in Run
         /\ \E k \in DOMAIN jobs : jobs[k].taker = g /\ JobOf(g) = jobs[k] /\ jobs[k] \in Job
         /\ Place(run[g].pc, JobOf(g).type)
         /\ \A m \in DOMAIN jobs : jobs[m].taker = g => jobs[m].type = JobOf(g).type
         /\ run[g].pc \notin {"sweep", "delete", "done"} => \A m \in DOMAIN jobs : g \notin jobs[m].cancel
         /\ run[g].pc \notin {"next", "done"} => ~run[g].starts
         /\ run[g].chan = "delete" => \A h \in Goroutines \ {g} : ~run[h].starts
<1>1. PICK k \in DOMAIN jobs : jobs[k].taker = g /\ JobOf(g) = jobs[k] /\ jobs[k] \in Job
  BY RowOfBusy DEF Inv
<1>2. \A m \in DOMAIN jobs : jobs[m].taker = g => jobs[m].type = JobOf(g).type
  BY <1>1, JobOfRow DEF Inv
<1>3. Place(run[g].pc, JobOf(g).type)
  BY <1>1 DEF Inv, Places
<1>4. run[g].pc \notin {"sweep", "delete", "done"} => \A m \in DOMAIN jobs : g \notin jobs[m].cancel
  BY DEF Inv, SweepsHeld
<1>5. /\ run[g].pc \notin {"next", "done"} => ~run[g].starts
      /\ run[g].chan = "delete" => \A h \in Goroutines \ {g} : ~run[h].starts
  BY DEF Inv, StartsHeld, NoDeletion
<1> QED
  BY <1>1, <1>2, <1>3, <1>4, <1>5, RunTyped

LEMMA StartRoundInv ==
  ASSUME Inv, NEW g \in Goroutines, StartRound(g)
  PROVE  Inv'
<1>1. Busy(g) /\ run[g].pc = "start" /\ UNCHANGED jobs
  BY DEF StartRound, Busy
<1>2. /\ run[g] \in Run /\ ~run[g].starts
      /\ \A m \in DOMAIN jobs : jobs[m].taker = g => jobs[m].type = "CREATE_ROUND"
      /\ \A m \in DOMAIN jobs : g \notin jobs[m].cancel
      /\ run[g].chan = "delete" => \A h \in Goroutines \ {g} : ~run[h].starts
  BY <1>1, AtPlace DEF Place
<1> DEFINE quiet == [run[g] EXCEPT !.pc = "done"]
           finding(k) == [run[g] EXCEPT !.pc = "next", !.found = k]
           starting == [run[g] EXCEPT !.pc = "next", !.starts = TRUE]
<1>3. CASE Continue(g, quiet)
  <2>1. quiet \in Run /\ quiet.pc = "done" /\ ~quiet.starts /\ quiet.chan = run[g].chan
    BY <1>2 DEF Run
  <2> HIDE DEF quiet
  <2> QED
    BY <1>3, <1>1, <1>2, <2>1, MovesInv DEF Place
<1>4. ASSUME NEW k \in Active, Continue(g, finding(k)) PROVE Inv'
  <2>1. finding(k) \in Run /\ finding(k).pc = "next" /\ ~finding(k).starts
        /\ finding(k).chan = run[g].chan
    BY <1>2, ActiveTyped DEF Run
  <2> HIDE DEF finding
  <2> QED
    BY <1>4, <1>1, <1>2, <2>1, MovesInv DEF Place
<1>5. CASE exists /\ NoDeletion /\ Continue(g, starting)
  <2>1. starting \in Run /\ starting.pc = "next" /\ starting.chan = run[g].chan
    BY <1>2 DEF Run
  <2>2. starting.chan # "delete"
    BY <1>5, <2>1 DEF NoDeletion
  <2> HIDE DEF starting
  <2> QED
    BY <1>5, <1>1, <1>2, <2>1, <2>2, MovesInv DEF Place
<1> QED
  BY <1>3, <1>4, <1>5 DEF StartRound, NoDeletion

LEMMA ScheduleNextInv ==
  ASSUME Inv, NEW g \in Goroutines, ScheduleNext(g)
  PROVE  Inv'
<1>1. Busy(g) /\ run[g].pc = "next" /\ UNCHANGED jobs
  BY DEF ScheduleNext, Busy
<1>2. /\ run[g] \in Run /\ JobOf(g) \in Job
      /\ \A m \in DOMAIN jobs : jobs[m].taker = g => jobs[m].type = "CREATE_ROUND"
      /\ \A m \in DOMAIN jobs : g \notin jobs[m].cancel
  BY <1>1, AtPlace DEF Place
<1> DEFINE next == JobOf(g).next + Interval
           queued == <<EndRoundJob(next), CreateRoundJob(next)>>
           r == [run[g] EXCEPT !.pc = "done", !.chan = "update", !.next = next,
                               !.adds = queued, !.matching = TRUE]
<1>3. next \in Nat
  BY <1>2, RoundsAssumption DEF Job
<1>4. EndRoundJob(next) \in NewRow /\ CreateRoundJob(next) \in NewRow /\ EndRoundJob(next).type = "END_ROUND"
  <2> HIDE DEF next
  <2> QED
    BY <1>3, QueuedJobsTyped
<1>5. queued \in Seq(NewRow) /\ HasEnd(queued)
  <2> HIDE DEF next
  <2>1. 1 \in DOMAIN queued /\ queued[1] = EndRoundJob(next)
    OBVIOUS
  <2> QED
    BY <1>4, <2>1 DEF HasEnd
<1> HIDE DEF next, queued
<1>6. r \in Run /\ r.pc = "done" /\ r.starts = run[g].starts /\ r.chan = "update" /\ r.adds = queued
  BY <1>2, <1>3, <1>5 DEF Run
<1>7. r.starts => exists /\ NoDeletion
  BY <1>6 DEF Inv, StartsHeld
<1>8. Continue(g, r)
  BY DEF ScheduleNext, next, queued
<1> HIDE DEF r
<1> QED
  BY <1>1, <1>2, <1>5, <1>6, <1>7, <1>8, MovesInv DEF Place

LEMMA EndRoundInv ==
  ASSUME Inv, NEW g \in Goroutines, EndRound(g)
  PROVE  Inv'
<1>1. Busy(g) /\ run[g].pc = "exec" /\ JobOf(g).type = "END_ROUND" /\ UNCHANGED jobs
  BY DEF EndRound, Runs
<1>2. /\ run[g] \in Run /\ ~run[g].starts
      /\ \A m \in DOMAIN jobs : jobs[m].taker = g => jobs[m].type = "END_ROUND"
      /\ \A m \in DOMAIN jobs : g \notin jobs[m].cancel
      /\ run[g].chan = "delete" => \A h \in Goroutines \ {g} : ~run[h].starts
  BY <1>1, AtPlace
<1> DEFINE r == [run[g] EXCEPT !.pc = "done", !.ends = Active]
<1>3. r \in Run /\ r.pc = "done" /\ ~r.starts /\ r.chan = run[g].chan /\ r.ends = Active
  BY <1>2, ActiveTyped DEF Run
<1>4. Continue(g, r)
  BY DEF EndRound
<1> HIDE DEF r
<1> QED
  BY <1>1, <1>2, <1>3, <1>4, MovesInv DEF Place

LEMMA UpdateChannelInv ==
  ASSUME Inv, NEW g \in Goroutines, UpdateChannel(g)
  PROVE  Inv'
<1>1. Busy(g) /\ run[g].pc = "exec" /\ JobOf(g).type = "UPDATE_CHANNEL" /\ UNCHANGED jobs
  BY DEF UpdateChannel, Runs
<1>2. /\ run[g] \in Run /\ JobOf(g) \in Job /\ ~run[g].starts
      /\ \A m \in DOMAIN jobs : jobs[m].taker = g => jobs[m].type = "UPDATE_CHANNEL"
      /\ \A m \in DOMAIN jobs : g \notin jobs[m].cancel
  BY <1>1, AtPlace
<1> DEFINE r == [run[g] EXCEPT !.pc = "updated", !.chan = "update", !.next = JobOf(g).next]
<1>3. r \in Run /\ r.pc = "updated" /\ ~r.starts /\ r.chan = "update"
  BY <1>2 DEF Run, Job
<1>4. Continue(g, r)
  BY DEF UpdateChannel
<1> HIDE DEF r
<1> QED
  BY <1>1, <1>2, <1>3, <1>4, MovesInv DEF Place

LEMMA EndSweepInv ==
  ASSUME Inv, NEW g \in Goroutines, EndSweep(g)
  PROVE  Inv'
<1>1. Busy(g) /\ run[g].pc = "sweep" /\ UNCHANGED jobs
  BY DEF EndSweep, Busy
<1>2. /\ run[g] \in Run /\ JobOf(g) \in Job /\ ~run[g].starts
      /\ JobOf(g).type \in {"UPDATE_CHANNEL", "DELETE_CHANNEL"}
      /\ \A m \in DOMAIN jobs : jobs[m].taker = g => jobs[m].type = JobOf(g).type
      /\ run[g].chan = "delete" => \A h \in Goroutines \ {g} : ~run[h].starts
  BY <1>1, AtPlace DEF Place
<1>3. \A k \in DOMAIN jobs : g \in jobs[k].cancel => jobs[k].taker \in {g, Nobody}
  BY DEF EndSweep, Pending, LockedFor
<1>4. CASE JobOf(g).type = "UPDATE_CHANNEL"
  <2> DEFINE queued == <<CreateRoundJob(JobOf(g).next)>>
             r == [run[g] EXCEPT !.pc = "done", !.adds = queued]
  <2>1. queued \in Seq(NewRow)
    BY <1>2, QueuedJobsTyped DEF Job
  <2> HIDE DEF queued
  <2>2. r \in Run /\ r.pc = "done" /\ ~r.starts /\ r.chan = run[g].chan
    BY <1>2, <2>1 DEF Run
  <2>3. Continue(g, r)
    BY <1>1, <1>4 DEF EndSweep, Runs, queued
  <2>4. \A k \in DOMAIN jobs : g \in jobs[k].cancel => jobs[k].type = "CREATE_ROUND"
    BY <1>2, <1>4 DEF Inv, SweepsHeld, Deleting
  <2> HIDE DEF r
  <2> QED
    BY <1>1, <1>2, <1>3, <1>4, <2>2, <2>3, <2>4, MovesInv DEF Place
<1>5. CASE JobOf(g).type = "DELETE_CHANNEL"
  <2> DEFINE r == [run[g] EXCEPT !.pc = "delete"]
  <2>1. r \in Run /\ r.pc = "delete" /\ ~r.starts /\ r.chan = run[g].chan
    BY <1>2 DEF Run
  <2>2. Continue(g, r)
    BY <1>1, <1>5 DEF EndSweep, Runs
  <2> HIDE DEF r
  <2> QED
    BY <1>1, <1>2, <1>3, <1>5, <2>1, <2>2, MovesInv DEF Place
<1> QED
  BY <1>2, <1>4, <1>5

LEMMA DeleteChannelInv ==
  ASSUME Inv, NEW g \in Goroutines, DeleteChannel(g)
  PROVE  Inv'
<1>1. Busy(g) /\ run[g].pc = "delete" /\ UNCHANGED jobs
  BY DEF DeleteChannel, Busy
<1>2. /\ run[g] \in Run /\ ~run[g].starts
      /\ \A m \in DOMAIN jobs : jobs[m].taker = g => jobs[m].type = "DELETE_CHANNEL"
  BY <1>1, AtPlace DEF Place
<1>3. \A k \in DOMAIN jobs : g \in jobs[k].cancel => jobs[k].taker \in {g, Nobody}
  BY <1>1 DEF Inv, SweepsHeld
<1> DEFINE r == [run[g] EXCEPT !.pc = "done", !.chan = "delete"]
<1>4. r \in Run /\ r.pc = "done" /\ ~r.starts /\ r.chan = "delete"
  BY <1>2 DEF Run
<1>5. Continue(g, r) /\ \A h \in Goroutines \ {g} : ~run[h].starts
  BY DEF DeleteChannel, Unreferenced
<1> HIDE DEF r
<1> QED
  BY <1>1, <1>2, <1>3, <1>4, <1>5, MovesInv DEF Place
-------------------------------------------------------------------------------
(* Steps that change rows *)

\* A job that is queued by a handler is not locked.
LEMMA RequestInv ==
  ASSUME Inv, NEW t \in RoundJobs, NEW next \in Nat, Request(t, next)
  PROVE  Inv'
<1> DEFINE j == NewJob(t, 0, next)
<1>1. j \in Job /\ j.taker = Nobody /\ j.cancel = {}
  BY NewJobTyped
<1>2. jobs' = Append(jobs, j) /\ UNCHANGED <<exists, nextRound, rounds, run, inSlack, now>>
  BY DEF Request, table
<1> HIDE DEF j
<1>3. jobs \in Seq(Job) /\ jobs' \in Seq(Job)
  BY <1>1, <1>2 DEF Inv, TypeOK
<1>4. /\ DOMAIN jobs \subseteq DOMAIN jobs' /\ \A k \in DOMAIN jobs : jobs'[k] = jobs[k]
      /\ \A k \in DOMAIN jobs' \ DOMAIN jobs : jobs'[k] = j
      /\ \A k, m \in DOMAIN jobs' \ DOMAIN jobs : k = m
  BY <1>1, <1>2, <1>3
<1>5. TypeOK'
  BY <1>2, <1>3 DEF Inv, TypeOK
<1>6. OneRow'
  BY <1>1, <1>2, <1>4, RoundsAssumption DEF Inv, OneRow, Busy
<1>7. Places'
  BY <1>1, <1>2, <1>4, RoundsAssumption DEF Inv, Places
<1>8. SweepsHeld'
  <2> SUFFICES ASSUME NEW k \in DOMAIN jobs', NEW g \in Goroutines, g \in jobs'[k].cancel
               PROVE  /\ run[g].pc \in {"sweep", "delete", "done"}
                      /\ run[g].pc \in {"delete", "done"} => jobs'[k].taker \in {g, Nobody}
                      /\ jobs'[k].type # "CREATE_ROUND" => Deleting(g)'
    BY <1>2 DEF SweepsHeld
  <2>1. k \in DOMAIN jobs /\ jobs'[k] = jobs[k]
    BY <1>1, <1>4
  <2>2. jobs[k].type # "CREATE_ROUND" => Deleting(g)
    BY <2>1 DEF Inv, SweepsHeld
  <2>3. Deleting(g) => Deleting(g)'
    BY <1>2, <1>4 DEF Deleting
  <2> QED
    BY <2>1, <2>2, <2>3 DEF Inv, SweepsHeld
<1>9. StartsHeld' /\ NoChannelNoRounds'
  BY <1>2 DEF Inv, StartsHeld, NoDeletion, NoChannelNoRounds
<1>10. EndCovered'
  <2> SUFFICES ASSUME NEW n \in Active
               PROVE  \E k \in DOMAIN jobs' : jobs'[k].type = "END_ROUND" /\ WillEnd(k, n)'
    BY <1>2 DEF EndCovered, Active
  <2>1. PICK k \in DOMAIN jobs : jobs[k].type = "END_ROUND" /\ WillEnd(k, n)
    BY DEF Inv, EndCovered
  <2>2. WillEnd(k, n)'
    BY <2>1, <1>2, <1>4 DEF WillEnd
  <2> QED
    BY <2>1, <2>2, <1>4
<1> QED
  BY <1>5, <1>6, <1>7, <1>8, <1>9, <1>10 DEF Inv

LEMMA EnvironmentInv ==
  ASSUME Inv,
         \/ \E n \in 0..MaxTime : AdminEnables(n) \/ AdminReschedules(n)
         \/ SyncChannels \/ BotMoves \/ Advance \/ UNCHANGED vars
  PROVE  Inv'
<1>1. CASE \E n \in 0..MaxTime : AdminEnables(n) \/ AdminReschedules(n)
  <2>1. PICK n \in 0..MaxTime : AdminEnables(n) \/ AdminReschedules(n)
    BY <1>1
  <2>2. n \in Nat
    BY RoundsAssumption
  <2> QED
    BY <2>1, <2>2, RequestInv DEF AdminEnables, AdminReschedules, RoundJobs
<1>2. CASE SyncChannels
  BY <1>2, RequestInv DEF SyncChannels, RoundJobs
<1>3. CASE BotMoves \/ Advance \/ UNCHANGED vars
  <2>1. UNCHANGED <<exists, nextRound, rounds, jobs, run>>
    BY <1>3 DEF BotMoves, Advance, vars, table
  <2>2. now' \in Nat
    BY <1>3 DEF Inv, TypeOK, BotMoves, Advance, vars
  <2>4. inSlack' \in BOOLEAN
    <3>1. inSlack \in BOOLEAN
      BY DEF Inv, TypeOK
    <3>2. inSlack' = inSlack \/ inSlack' = ~inSlack
      BY <1>3 DEF BotMoves, Advance, vars
    <3> QED
      BY <3>1, <3>2
  <2>3. TypeOK'
    BY <2>1, <2>2, <2>4 DEF Inv, TypeOK
  <2> QED
    BY <2>1, <2>3 DEF Inv, OneRow, Busy, Places, SweepsHeld, Deleting, StartsHeld, NoDeletion,
       NoChannelNoRounds, EndCovered, WillEnd, Active
<1> QED
  BY <1>1, <1>2, <1>3

LEMMA NextJobAvailable ==
  ASSUME TypeOK, Available # {}
  PROVE  NextJob \in Available
<1> DEFINE p == [k \in Available |-> Priority(jobs[k].type)]
<1>1. Available \subseteq Nat
  BY DEF Available, TypeOK
<1>2. p \in [Available -> 0..10]
  BY DEF Priority, Highest, High, Standard, Low, Lowest
<1> HIDE DEF p
<1>3. PICK x \in Available : \A m \in Available \ {x} : p[x] > p[m] \/ (p[x] = p[m] /\ x < m)
  BY <1>1, <1>2, FirstInLine
<1>4. \E y \in Available : \A m \in Available \ {y} :
         \/ Priority(jobs[y].type) > Priority(jobs[m].type)
         \/ Priority(jobs[y].type) = Priority(jobs[m].type) /\ y < m
  BY <1>3 DEF p
<1> QED
  BY <1>4 DEF NextJob

LEMMA TakeJobInv ==
  ASSUME Inv, NEW g \in Goroutines, TakeJob(g)
  PROVE  Inv'
<1> DEFINE n == NextJob
           runnable == exists \/ ~RequiresSlackChannel(jobs[n].type)
           r == [NoRun EXCEPT !.pc = IF runnable THEN "exec" ELSE "done"]
<1>1. n \in DOMAIN jobs /\ ~LockedFor(Nobody, jobs[n])
  BY NextJobAvailable DEF TakeJob, Inv, Available
<1>2. jobs[n] \in Job /\ jobs \in Seq(Job)
  BY <1>1 DEF Inv, TypeOK
<1>3. jobs[n].taker = Nobody /\ \A h \in Goroutines : h \in jobs[n].cancel => run[h].pc \notin {"delete", "done"}
  BY <1>1, <1>2, RoundsAssumption DEF LockedFor, Job
<1>4. /\ jobs' = [jobs EXCEPT ![n].taker = g] /\ run' = [run EXCEPT ![g] = r]
      /\ UNCHANGED <<exists, nextRound, rounds, inSlack, now>>
  BY DEF TakeJob, Continue, table
<1>5. r \in Run /\ r.pc \in {"exec", "done"} /\ ~r.starts /\ r.chan = "keep" /\ (exists => r.pc = "exec")
  BY NoRunTyped DEF Run
<1>6. ~Busy(g)
  BY DEF TakeJob
<1> HIDE DEF n, r
<1>7. /\ DOMAIN jobs' = DOMAIN jobs
      /\ \A k \in DOMAIN jobs : jobs'[k].type = jobs[k].type /\ jobs'[k].cancel = jobs[k].cancel
      /\ \A k \in DOMAIN jobs \ {n} : jobs'[k] = jobs[k]
      /\ jobs'[n].taker = g
  BY <1>1, <1>2, <1>4 DEF Job
<1>8. run'[g] = r /\ \A h \in Goroutines \ {g} : run'[h] = run[h]
  BY <1>4 DEF Inv, TypeOK
<1>9. \A k \in DOMAIN jobs : jobs[k].taker # g /\ g \notin jobs[k].cancel
  BY <1>6 DEF Inv, OneRow, SweepsHeld, Busy
<1>10. TypeOK'
  <2>1. [jobs[n] EXCEPT !.taker = g] \in Job
    BY <1>2 DEF Job
  <2>2. jobs' \in Seq(Job)
    BY <1>1, <1>2, <1>4, <2>1, ExceptSeq
  <2> QED
    BY <1>4, <1>5, <2>2 DEF Inv, TypeOK
<1>11. OneRow'
  <2>1. \A k, m \in DOMAIN jobs' : jobs'[k].taker = jobs'[m].taker /\ jobs'[k].taker # Nobody => k = m
    BY <1>7, <1>9 DEF Inv, OneRow
  <2>2. \A h \in Goroutines : Busy(h)' <=> \E k \in DOMAIN jobs' : jobs'[k].taker = h
    <3> SUFFICES ASSUME NEW h \in Goroutines
                 PROVE  Busy(h)' <=> \E k \in DOMAIN jobs' : jobs'[k].taker = h
      OBVIOUS
    <3>1. CASE h = g
      BY <3>1, <1>1, <1>5, <1>7, <1>8 DEF Busy
    <3>2. CASE h # g
      <4>1. Busy(h)' <=> Busy(h)
        BY <3>2, <1>8 DEF Busy
      <4>2. \A k \in DOMAIN jobs : jobs'[k].taker = h <=> jobs[k].taker = h
        BY <3>2, <1>3, <1>7, RoundsAssumption
      <4> QED
        BY <4>1, <4>2, <1>7 DEF Inv, OneRow
    <3> QED
      BY <3>1, <3>2
  <2> QED
    BY <2>1, <2>2 DEF OneRow
<1>12. Places'
  <2> SUFFICES ASSUME NEW k \in DOMAIN jobs, NEW h \in Goroutines, jobs'[k].taker = h
               PROVE  Place(run'[h].pc, jobs'[k].type)
    BY <1>7 DEF Places
  <2>1. CASE h = g
    BY <2>1, <1>5, <1>8 DEF Place
  <2>2. CASE h # g
    BY <2>2, <1>7, <1>8 DEF Inv, Places
  <2> QED
    BY <2>1, <2>2
<1>13. SweepsHeld'
  <2> SUFFICES ASSUME NEW k \in DOMAIN jobs, NEW h \in Goroutines, h \in jobs[k].cancel
               PROVE  /\ run'[h].pc \in {"sweep", "delete", "done"}
                      /\ run'[h].pc \in {"delete", "done"} => jobs'[k].taker \in {h, Nobody}
                      /\ jobs'[k].type # "CREATE_ROUND" => Deleting(h)'
    BY <1>7 DEF SweepsHeld
  <2>1. h # g /\ run'[h] = run[h]
    BY <1>8, <1>9
  <2>2. Deleting(h) => Deleting(h)'
    <3> SUFFICES ASSUME Deleting(h) PROVE Deleting(h)'
      OBVIOUS
    <3>1. PICK m \in DOMAIN jobs : jobs[m].taker = h /\ jobs[m].type = "DELETE_CHANNEL"
      BY DEF Deleting
    <3>2. jobs'[m].taker = h /\ jobs'[m].type = "DELETE_CHANNEL"
      BY <3>1, <1>3, <1>7, RoundsAssumption
    <3> QED
      BY <3>2, <1>7, <2>1 DEF Deleting
  <2>3. run[h].pc \in {"delete", "done"} => jobs'[k].taker \in {h, Nobody}
    <3>1. CASE k = n
      BY <3>1, <1>3
    <3>2. CASE k # n
      BY <3>2, <1>7 DEF Inv, SweepsHeld
    <3> QED
      BY <3>1, <3>2
  <2>4. run[h].pc \in {"sweep", "delete", "done"} /\ (jobs[k].type # "CREATE_ROUND" => Deleting(h))
    BY DEF Inv, SweepsHeld
  <2> QED
    BY <2>1, <2>2, <2>3, <2>4, <1>7
<1>14. StartsHeld'
  <2>1. NoDeletion => NoDeletion'
    BY <1>5, <1>8 DEF NoDeletion
  <2> QED
    BY <2>1, <1>4, <1>5, <1>8 DEF Inv, StartsHeld
<1>15. NoChannelNoRounds'
  BY <1>4 DEF Inv, NoChannelNoRounds
<1>16. EndCovered'
  <2> SUFFICES ASSUME NEW a \in Active
               PROVE  \E k \in DOMAIN jobs' : jobs'[k].type = "END_ROUND" /\ WillEnd(k, a)'
    BY <1>4 DEF EndCovered, Active
  <2>1. PICK k \in DOMAIN jobs : jobs[k].type = "END_ROUND" /\ WillEnd(k, a)
    BY DEF Inv, EndCovered
  <2>2. exists
    BY EmptySeq DEF Inv, NoChannelNoRounds, Active
  <2>3. WillEnd(k, a)'
    <3> SUFFICES ASSUME NEW h \in Goroutines, jobs'[k].taker = h, run'[h].pc = "done"
                 PROVE  a \in run'[h].ends
      BY DEF WillEnd
    <3>1. h # g
      BY <2>2, <1>5, <1>8
    <3> QED
      BY <3>1, <2>1, <1>7, <1>8 DEF WillEnd
  <2> QED
    BY <2>1, <2>3, <1>7
<1> QED
  BY <1>10, <1>11, <1>12, <1>13, <1>14, <1>15, <1>16 DEF Inv

LEMMA BeginSweepInv ==
  ASSUME Inv, NEW g \in Goroutines, BeginSweep(g)
  PROVE  Inv'
<1> DEFINE types == IF Runs(g, "DELETE_CHANNEL") THEN RoundJobs ELSE {"CREATE_ROUND"}
           r == [run[g] EXCEPT !.pc = "sweep"]
<1>1. Busy(g) /\ run[g].pc \in {"updated", "exec"}
  BY DEF BeginSweep, Runs
<1>2. JobOf(g).type \in {"UPDATE_CHANNEL", "DELETE_CHANNEL"}
  BY DEF BeginSweep, Runs
<1>3. PICK n \in DOMAIN jobs : jobs[n].taker = g /\ JobOf(g) = jobs[n]
  BY <1>1, AtPlace
<1>4. /\ run[g] \in Run /\ ~run[g].starts
      /\ \A m \in DOMAIN jobs : jobs[m].taker = g => jobs[m].type = JobOf(g).type
  BY <1>1, AtPlace
<1>5. r \in Run /\ r.pc = "sweep" /\ ~r.starts /\ r.chan = run[g].chan
  BY <1>4 DEF Run
<1>6. /\ run' = [run EXCEPT ![g] = r]
      /\ jobs' = [k \in DOMAIN jobs |-> IF jobs[k].type \in types
                                        THEN [jobs[k] EXCEPT !.cancel = @ \cup {g}] ELSE jobs[k]]
      /\ UNCHANGED <<exists, nextRound, rounds, inSlack, now>>
  BY DEF BeginSweep, Continue, table
<1>7. types = {"CREATE_ROUND"} \/ JobOf(g).type = "DELETE_CHANNEL"
  BY DEF Runs
<1> HIDE DEF types, r
<1>8. \A k \in DOMAIN jobs : jobs[k] \in Job
  BY ElementOfSeq DEF Inv, TypeOK
<1>9. /\ DOMAIN jobs' = DOMAIN jobs
      /\ \A k \in DOMAIN jobs : jobs'[k].type = jobs[k].type /\ jobs'[k].taker = jobs[k].taker
      /\ \A k \in DOMAIN jobs : \A h \in jobs'[k].cancel :
            h \in jobs[k].cancel \/ (h = g /\ jobs[k].type \in types)
  BY <1>6, <1>8 DEF Job
<1>10. run'[g] = r /\ \A h \in Goroutines \ {g} : run'[h] = run[h]
  BY <1>6 DEF Inv, TypeOK
<1>11. TypeOK'
  <2>1. \A k \in DOMAIN jobs : jobs'[k] \in Job
    BY <1>6, <1>8 DEF Job
  <2>2. jobs \in Seq(Job)
    BY DEF Inv, TypeOK
  <2>3. jobs' \in Seq(Job)
    <3>1. DOMAIN jobs = 1..Len(jobs) /\ Len(jobs) \in Nat
      BY <2>2
    <3> QED
      BY <2>1, <3>1, <1>6, IsASeq
  <2> QED
    BY <1>5, <1>6, <2>3 DEF Inv, TypeOK
<1>12. OneRow'
  BY <1>1, <1>5, <1>9, <1>10 DEF Inv, OneRow, Busy
<1>13. Places'
  <2> SUFFICES ASSUME NEW k \in DOMAIN jobs, NEW h \in Goroutines, jobs[k].taker = h
               PROVE  Place(run'[h].pc, jobs[k].type)
    BY <1>9 DEF Places
  <2>1. CASE h = g
    BY <2>1, <1>2, <1>4, <1>5, <1>10 DEF Place
  <2>2. CASE h # g
    BY <2>2, <1>10 DEF Inv, Places
  <2> QED
    BY <2>1, <2>2
<1>14. SweepsHeld'
  <2> SUFFICES ASSUME NEW k \in DOMAIN jobs, NEW h \in Goroutines, h \in jobs'[k].cancel
               PROVE  /\ run'[h].pc \in {"sweep", "delete", "done"}
                      /\ run'[h].pc \in {"delete", "done"} => jobs[k].taker \in {h, Nobody}
                      /\ jobs[k].type # "CREATE_ROUND" => Deleting(h)'
    BY <1>9 DEF SweepsHeld
  <2>1. CASE h = g
    <3>1. jobs[k].type # "CREATE_ROUND" => JobOf(g).type = "DELETE_CHANNEL"
      <4>1. g \notin jobs[k].cancel
        BY <1>1 DEF Inv, SweepsHeld
      <4>2. jobs[k].type \in types
        BY <2>1, <4>1, <1>9
      <4> QED
        BY <4>2, <1>7
    <3>2. JobOf(g).type = "DELETE_CHANNEL" => Deleting(g)'
      BY <1>3, <1>5, <1>9, <1>10 DEF Deleting
    <3> QED
      BY <2>1, <3>1, <3>2, <1>5, <1>10
  <2>2. CASE h # g
    <3>1. h \in jobs[k].cancel
      BY <2>2, <1>9
    <3>2. /\ run[h].pc \in {"sweep", "delete", "done"}
          /\ run[h].pc \in {"delete", "done"} => jobs[k].taker \in {h, Nobody}
          /\ jobs[k].type # "CREATE_ROUND" => Deleting(h)
      BY <3>1 DEF Inv, SweepsHeld
    <3>3. Deleting(h) => Deleting(h)'
      BY <2>2, <1>9, <1>10 DEF Deleting
    <3> QED
      BY <2>2, <3>2, <3>3, <1>10
  <2> QED
    BY <2>1, <2>2
<1>15. StartsHeld' /\ NoChannelNoRounds'
  <2>1. NoDeletion => NoDeletion'
    BY <1>5, <1>10 DEF NoDeletion
  <2> QED
    BY <2>1, <1>5, <1>6, <1>10 DEF Inv, StartsHeld, NoChannelNoRounds
<1>16. EndCovered'
  <2> SUFFICES ASSUME NEW a \in Active
               PROVE  \E k \in DOMAIN jobs' : jobs'[k].type = "END_ROUND" /\ WillEnd(k, a)'
    BY <1>6 DEF EndCovered, Active
  <2>1. PICK k \in DOMAIN jobs : jobs[k].type = "END_ROUND" /\ WillEnd(k, a)
    BY DEF Inv, EndCovered
  <2>2. WillEnd(k, a)'
    BY <2>1, <1>5, <1>9, <1>10 DEF WillEnd
  <2> QED
    BY <2>1, <2>2, <1>9
<1> QED
  BY <1>11, <1>12, <1>13, <1>14, <1>15, <1>16 DEF Inv

LEMMA UnlockedRow ==
  ASSUME NEW g, NEW j \in Job
  PROVE  /\ Unlocked(g, j) \in Job /\ Unlocked(g, j).type = j.type
         /\ Unlocked(g, j).due = j.due /\ Unlocked(g, j).next = j.next
         /\ Unlocked(g, j).taker = IF j.taker = g THEN Nobody ELSE j.taker
         /\ Unlocked(g, j).cancel = j.cancel \ {g}
  BY DEF Unlocked, Job

\* A rollback releases the locks of g and writes nothing.
LEMMA FailInv ==
  ASSUME Inv, NEW g \in Goroutines, Fail(g)
  PROVE  Inv'
<1>1. /\ run' = [run EXCEPT ![g] = NoRun] /\ jobs' = Released(g, jobs)
      /\ UNCHANGED <<exists, nextRound, rounds, inSlack, now>>
  BY DEF Fail, table
<1>2. NoRun \in Run /\ NoRun.pc = "idle" /\ ~NoRun.starts /\ NoRun.chan = "keep"
  BY NoRunTyped
<1>3. jobs \in Seq(Job) /\ \A k \in DOMAIN jobs : jobs[k] \in Job
  BY ElementOfSeq DEF Inv, TypeOK
<1>4. \A k \in DOMAIN jobs : jobs'[k] = Unlocked(g, jobs[k])
  BY <1>1 DEF Released
<1>5. \A j \in Job :
        /\ Unlocked(g, j) \in Job /\ Unlocked(g, j).type = j.type
        /\ Unlocked(g, j).taker = IF j.taker = g THEN Nobody ELSE j.taker
        /\ Unlocked(g, j).cancel = j.cancel \ {g}
  BY UnlockedRow
<1>6. /\ DOMAIN jobs' = DOMAIN jobs
      /\ \A k \in DOMAIN jobs :
            /\ jobs'[k] \in Job /\ jobs'[k].type = jobs[k].type
            /\ jobs'[k].taker = IF jobs[k].taker = g THEN Nobody ELSE jobs[k].taker
            /\ jobs'[k].cancel = jobs[k].cancel \ {g}
  BY <1>1, <1>3, <1>4, <1>5 DEF Released
<1>7. run'[g] = NoRun /\ \A h \in Goroutines \ {g} : run'[h] = run[h]
  BY <1>1 DEF Inv, TypeOK
<1>8. TypeOK'
  <2>1. DOMAIN jobs = 1..Len(jobs) /\ Len(jobs) \in Nat
    BY <1>3
  <2>2. jobs' = [k \in 1..Len(jobs) |-> Unlocked(g, jobs[k])]
    BY <1>1, <2>1 DEF Released
  <2>3. jobs' \in Seq(Job)
    BY <2>1, <2>2, <1>3, <1>5, IsASeq
  <2> QED
    BY <2>3, <1>1, <1>2 DEF Inv, TypeOK
<1>9. OneRow'
  BY <1>2, <1>6, <1>7, RoundsAssumption DEF Inv, OneRow, Busy
<1>10. Places'
  BY <1>6, <1>7, RoundsAssumption DEF Inv, Places
<1>11. SweepsHeld'
  <2> SUFFICES ASSUME NEW k \in DOMAIN jobs, NEW h \in Goroutines, h \in jobs'[k].cancel
               PROVE  /\ run'[h].pc \in {"sweep", "delete", "done"}
                      /\ run'[h].pc \in {"delete", "done"} => jobs'[k].taker \in {h, Nobody}
                      /\ jobs'[k].type # "CREATE_ROUND" => Deleting(h)'
    BY <1>6 DEF SweepsHeld
  <2>1. h # g /\ h \in jobs[k].cancel
    BY <1>6
  <2>2. /\ run[h].pc \in {"sweep", "delete", "done"}
        /\ run[h].pc \in {"delete", "done"} => jobs[k].taker \in {h, Nobody}
        /\ jobs[k].type # "CREATE_ROUND" => Deleting(h)
    BY <2>1 DEF Inv, SweepsHeld
  <2>3. Deleting(h) => Deleting(h)'
    BY <2>1, <1>6, <1>7 DEF Deleting
  <2> QED
    BY <2>1, <2>2, <2>3, <1>6, <1>7
<1>12. StartsHeld' /\ NoChannelNoRounds'
  <2>1. NoDeletion => NoDeletion'
    BY <1>2, <1>7 DEF NoDeletion
  <2> QED
    BY <2>1, <1>1, <1>2, <1>7 DEF Inv, StartsHeld, NoChannelNoRounds
<1>13. EndCovered'
  <2> SUFFICES ASSUME NEW a \in Active
               PROVE  \E k \in DOMAIN jobs' : jobs'[k].type = "END_ROUND" /\ WillEnd(k, a)'
    BY <1>1 DEF EndCovered, Active
  <2>1. PICK k \in DOMAIN jobs : jobs[k].type = "END_ROUND" /\ WillEnd(k, a)
    BY DEF Inv, EndCovered
  <2>2. WillEnd(k, a)'
    BY <2>1, <1>2, <1>6, <1>7, RoundsAssumption DEF WillEnd
  <2> QED
    BY <2>1, <2>2, <1>6
<1> QED
  BY <1>8, <1>9, <1>10, <1>11, <1>12, <1>13 DEF Inv
-------------------------------------------------------------------------------
(* The end of a transaction *)

\* What a commit leaves of the table: the rows kept, at[i] being the former
\* position of the row i, then the rows that are added.
LeftOf(g, r, saved, n, at) ==
    /\ at \in [1..n -> Kept(g, saved)]
    /\ DOMAIN jobs' = 1..(n + Len(r.adds))
    /\ \A i \in 1..n : jobs'[i] = Unlocked(g, jobs[at[i]])
    /\ \A i \in DOMAIN r.adds : jobs'[n + i] = r.adds[i]
    /\ \A i, j \in 1..n : i < j => at[i] < at[j]
    /\ \A k \in Kept(g, saved) : \E i \in 1..n : at[i] = k

LEMMA RowsLeft ==
  ASSUME TypeOK, NEW g \in Goroutines, NEW r \in Run, NEW saved \in BOOLEAN, Finish(g, r, saved)
  PROVE  jobs' \in Seq(Job) /\ \E n \in Nat : \E at : LeftOf(g, r, saved, n, at)
<1> DEFINE K == Kept(g, saved)
           kept == Where(jobs, K)
           rel == Released(g, kept)
<1>1. jobs \in Seq(Job) /\ K \subseteq DOMAIN jobs
  BY DEF TypeOK, Kept
<1>2. r.adds \in Seq(NewRow)
  BY DEF Run
<1>3. r.adds \in Seq(Job)
  <2>1. Len(r.adds) \in Nat /\ \A i \in 1..Len(r.adds) : r.adds[i] \in Job
    BY <1>2, ElementOfSeq DEF NewRow
  <2> QED
    BY <2>1, <1>2, IsASeq
<1>4. kept \in Seq(Job) /\ \E at : Selects(kept, jobs, K, at)
  <2> HIDE DEF K
  <2> QED
    BY <1>1, WhereKeeps
<1> HIDE DEF K, kept
<1>5. rel \in Seq(Job) /\ DOMAIN rel = DOMAIN kept /\ Len(rel) = Len(kept)
      /\ \A i \in DOMAIN kept : rel[i] = Unlocked(g, kept[i])
  <2>1. DOMAIN kept = 1..Len(kept) /\ Len(kept) \in Nat
    BY <1>4
  <2>2. \A i \in 1..Len(kept) : Unlocked(g, kept[i]) \in Job
    BY <1>4, UnlockedRow
  <2>3. rel = [i \in 1..Len(kept) |-> Unlocked(g, kept[i])]
    BY <2>1 DEF Released
  <2> HIDE DEF rel
  <2>4. rel \in Seq(Job)
    BY <2>1, <2>2, <2>3, IsASeq
  <2>5. Len(rel) = Len(kept)
    BY <2>1, <2>3, <2>4
  <2> QED
    BY <2>1, <2>3, <2>4, <2>5
<1> HIDE DEF rel
<1>6. jobs' = rel \o r.adds
  BY DEF Finish, rel, kept, K
<1>7. PICK at : Selects(kept, jobs, K, at)
  BY <1>4
<1>8. Len(kept) \in Nat /\ DOMAIN kept = 1..Len(kept)
  BY <1>4
<1>9. LeftOf(g, r, saved, Len(kept), at)
  <2>1. DOMAIN jobs' = 1..(Len(kept) + Len(r.adds))
    <3>1. DOMAIN (rel \o r.adds) = 1..(Len(rel) + Len(r.adds))
      BY <1>3, <1>5
    <3> QED
      BY <3>1, <1>5, <1>6
  <2>2. \A i \in 1..Len(kept) : jobs'[i] = rel[i]
    BY <1>3, <1>5, <1>6, <1>8
  <2>3. \A i \in DOMAIN r.adds : jobs'[Len(kept) + i] = r.adds[i]
    BY <1>3, <1>5, <1>6, <1>8
  <2> QED
    BY <2>1, <2>2, <2>3, <1>5, <1>7, <1>8 DEF LeftOf, Selects, K
<1> QED
  BY <1>3, <1>5, <1>6, <1>8, <1>9

\* A row after the commit is one that was kept, or one that was added.
LEMMA RowOrigin ==
  ASSUME TypeOK, NEW g \in Goroutines, NEW r \in Run, NEW saved \in BOOLEAN,
         NEW n \in Nat, NEW at, LeftOf(g, r, saved, n, at)
  PROVE  /\ \A x \in 1..n :
               /\ x \in DOMAIN jobs' /\ at[x] \in DOMAIN jobs /\ at[x] \in Kept(g, saved)
               /\ jobs'[x].type = jobs[at[x]].type
               /\ jobs'[x].due = jobs[at[x]].due /\ jobs'[x].next = jobs[at[x]].next
               /\ jobs'[x].taker = IF jobs[at[x]].taker = g THEN Nobody ELSE jobs[at[x]].taker
               /\ jobs'[x].cancel = jobs[at[x]].cancel
         /\ \A i \in DOMAIN r.adds : n + i \in DOMAIN jobs' /\ n + i \notin 1..n
               /\ jobs'[n + i] = r.adds[i] /\ r.adds[i] \in NewRow
         /\ \A x \in DOMAIN jobs' : x \in 1..n \/ \E i \in DOMAIN r.adds : x = n + i
<1>1. r.adds \in Seq(NewRow)
  BY DEF Run
<1>2. Len(r.adds) \in Nat /\ DOMAIN r.adds = 1..Len(r.adds)
  BY <1>1
<1>3. ASSUME NEW x \in 1..n
      PROVE  /\ x \in DOMAIN jobs' /\ at[x] \in DOMAIN jobs /\ at[x] \in Kept(g, saved)
             /\ jobs'[x].type = jobs[at[x]].type
             /\ jobs'[x].due = jobs[at[x]].due /\ jobs'[x].next = jobs[at[x]].next
             /\ jobs'[x].taker = IF jobs[at[x]].taker = g THEN Nobody ELSE jobs[at[x]].taker
             /\ jobs'[x].cancel = jobs[at[x]].cancel
  <2>1. at[x] \in Kept(g, saved)
    BY DEF LeftOf
  <2>2. at[x] \in DOMAIN jobs /\ g \notin jobs[at[x]].cancel
    BY <2>1 DEF Kept
  <2>3. jobs[at[x]] \in Job
    BY <2>2, ElementOfSeq DEF TypeOK
  <2>4. jobs'[x] = Unlocked(g, jobs[at[x]])
    BY DEF LeftOf
  <2>5. jobs[at[x]].cancel \ {g} = jobs[at[x]].cancel
    BY <2>2
  <2>6. x \in DOMAIN jobs'
    BY <1>2 DEF LeftOf
  <2>7. /\ Unlocked(g, jobs[at[x]]).type = jobs[at[x]].type
        /\ Unlocked(g, jobs[at[x]]).due = jobs[at[x]].due
        /\ Unlocked(g, jobs[at[x]]).next = jobs[at[x]].next
        /\ Unlocked(g, jobs[at[x]]).taker = IF jobs[at[x]].taker = g THEN Nobody ELSE jobs[at[x]].taker
        /\ Unlocked(g, jobs[at[x]]).cancel = jobs[at[x]].cancel \ {g}
    BY <2>3, UnlockedRow
  <2> QED
    BY <2>1, <2>2, <2>4, <2>5, <2>6, <2>7
<1>4. ASSUME NEW i \in DOMAIN r.adds
      PROVE  n + i \in DOMAIN jobs' /\ n + i \notin 1..n /\ jobs'[n + i] = r.adds[i]
             /\ r.adds[i] \in NewRow
  <2>1. r.adds[i] \in NewRow
    BY <1>1, <1>2, ElementOfSeq
  <2> QED
    BY <1>2, <2>1 DEF LeftOf
<1>5. ASSUME NEW x \in DOMAIN jobs' PROVE x \in 1..n \/ \E i \in DOMAIN r.adds : x = n + i
  <2>1. x \in 1..(n + Len(r.adds))
    BY DEF LeftOf
  <2>2. CASE x <= n
    BY <2>1, <2>2
  <2>3. CASE x > n
    <3>1. x - n \in DOMAIN r.adds /\ x = n + (x - n)
      BY <1>2, <2>1, <2>3
    <3> QED
      BY <3>1
  <2> QED
    BY <2>1, <2>2, <2>3
<1> QED
  BY <1>3, <1>4, <1>5

\* The rounds after the commit: those that are active were, and are not among
\* those it ends, or it started them.
LEMMA RoundsLeft ==
  ASSUME TypeOK, NEW r \in Run
  PROVE  /\ RoundsAfter(r) \in Seq(Round)
         /\ r.chan = "delete" => RoundsAfter(r) = <<>>
         /\ ~r.starts => DOMAIN RoundsAfter(r) \subseteq DOMAIN rounds
         /\ \A a \in DOMAIN RoundsAfter(r) : ~RoundsAfter(r)[a].ended =>
               r.chan # "delete" /\ (a \in Active \ r.ends \/ r.starts)
<1> DEFINE old == RoundsWritten(r)
           new == RoundInserted(r)
<1>1. rounds \in Seq(Round) /\ DOMAIN rounds = 1..Len(rounds) /\ Len(rounds) \in Nat
  BY DEF TypeOK
<1>2. \A k \in DOMAIN rounds : rounds[k] \in Round
  BY <1>1, ElementOfSeq
<1>3. \A k \in DOMAIN rounds : old[k] \in Round /\ (old[k].ended <=> rounds[k].ended \/ k \in r.ends)
  <2> TAKE k \in DOMAIN rounds
  <2> DEFINE m == IF k = r.found /\ r.matching /\ rounds[k].matchings < 2
                  THEN rounds[k].matchings + 1 ELSE rounds[k].matchings
             e == rounds[k].ended \/ k \in r.ends
  <2>1. m \in 0..2 /\ e \in BOOLEAN
    BY <1>2 DEF Round
  <2>2. old[k] = [rounds[k] EXCEPT !.ended = e, !.matchings = m]
    BY DEF RoundsWritten
  <2> HIDE DEF m, e, old
  <2>3. old[k] \in Round /\ old[k].ended = e
    BY <1>2, <2>1, <2>2 DEF Round
  <2> QED
    BY <2>3 DEF e
<1>4. old \in Seq(Round) /\ DOMAIN old = DOMAIN rounds /\ Len(old) = Len(rounds)
  <2>1. old \in [1..Len(rounds) -> Round]
    <3>1. \A k \in 1..Len(rounds) : old[k] \in Round
      BY <1>1, <1>3
    <3>3. old = [k \in 1..Len(rounds) |-> old[k]]
      BY <1>1 DEF RoundsWritten
    <3> HIDE DEF old
    <3> QED
      BY <3>1, <3>3
  <2> HIDE DEF old
  <2>2. old \in Seq(Round)
    BY <2>1, <1>1, SeqDef
  <2> QED
    BY <1>1, <2>1, <2>2
<1>5. new \in Round
  BY DEF TypeOK, Round, RoundInserted
<1>6. /\ r.chan = "delete" => RoundsAfter(r) = <<>>
      /\ r.chan # "delete" /\ r.starts => RoundsAfter(r) = Append(old, new)
      /\ r.chan # "delete" /\ ~r.starts => RoundsAfter(r) = old
  BY DEF RoundsAfter
<1> HIDE DEF old, new
<1>7. CASE r.chan = "delete"
  <2>1. RoundsAfter(r) \in Seq(Round) /\ DOMAIN RoundsAfter(r) = {}
    BY <1>6, <1>7, EmptySeq
  <2> QED
    BY <1>6, <1>7, <2>1
<1>8. CASE r.chan # "delete" /\ r.starts
  <2>1. RoundsAfter(r) = Append(old, new)
    BY <1>6, <1>8
  <2>2. RoundsAfter(r) \in Seq(Round)
    BY <1>4, <1>5, <2>1
  <2> QED
    BY <1>8, <2>2
<1>9. CASE r.chan # "delete" /\ ~r.starts
  <2>1. RoundsAfter(r) = old
    BY <1>6, <1>9
  <2>2. \A a \in DOMAIN old : ~old[a].ended => a \in Active \ r.ends
    BY <1>3, <1>4 DEF Active
  <2> QED
    BY <1>4, <1>9, <2>1, <2>2
<1> QED
  BY <1>7, <1>8, <1>9

\* g commits r: what the commit relies on is that it cancelled an END_ROUND only
\* if it deletes the channel, and completed one only if it ends the rounds.
LEMMA FinishInv ==
  ASSUME Inv, NEW g \in Goroutines, NEW r \in Run, NEW saved \in BOOLEAN, Finish(g, r, saved),
         run[g].pc \in {"next", "done"},
         r.starts => exists /\ NoDeletion /\ r.chan # "delete" /\ HasEnd(r.adds),
         r.chan = "delete" => \A h \in Goroutines \ {g} : ~run[h].starts,
         \A k \in DOMAIN jobs :
            g \in jobs[k].cancel /\ jobs[k].type = "END_ROUND" => r.chan = "delete",
         saved => run[g].pc = "done" /\ r.ends = run[g].ends
  PROVE  Inv'
<1>1. PICK n \in Nat : \E at : LeftOf(g, r, saved, n, at)
  BY RowsLeft DEF Inv
<1>2. PICK at : LeftOf(g, r, saved, n, at)
  BY <1>1
<1>3. /\ \A x \in 1..n :
            /\ x \in DOMAIN jobs' /\ at[x] \in DOMAIN jobs /\ at[x] \in Kept(g, saved)
            /\ jobs'[x].type = jobs[at[x]].type
            /\ jobs'[x].taker = IF jobs[at[x]].taker = g THEN Nobody ELSE jobs[at[x]].taker
            /\ jobs'[x].cancel = jobs[at[x]].cancel
      /\ \A i \in DOMAIN r.adds : n + i \in DOMAIN jobs' /\ n + i \notin 1..n
            /\ jobs'[n + i] = r.adds[i] /\ r.adds[i] \in NewRow
      /\ \A x \in DOMAIN jobs' : x \in 1..n \/ \E i \in DOMAIN r.adds : x = n + i
  BY <1>2, RowOrigin DEF Inv
<1>4. \A x \in DOMAIN jobs' : x \in 1..n \/
          (jobs'[x].taker = Nobody /\ jobs'[x].cancel = {})
  BY <1>3 DEF NewRow
<1>5. \A x, y \in 1..n : at[x] = at[y] => x = y
  <2> SUFFICES ASSUME NEW x \in 1..n, NEW y \in 1..n, at[x] = at[y], x # y PROVE FALSE
    OBVIOUS
  <2>1. at[x] \in DOMAIN jobs /\ DOMAIN jobs \subseteq Nat
    BY <1>3 DEF Inv, TypeOK
  <2>2. at[x] < at[y] \/ at[y] < at[x]
    <3>1. x < y \/ y < x
      OBVIOUS
    <3> QED
      BY <1>2, <3>1 DEF LeftOf
  <2> QED
    BY <2>1, <2>2
<1>6. \A k \in DOMAIN jobs : g \in jobs[k].cancel => jobs[k].taker \in {g, Nobody}
  BY DEF Inv, SweepsHeld
\* The row that another goroutine runs is kept.
<1>7. \A k \in DOMAIN jobs, h \in Goroutines \ {g} : jobs[k].taker = h =>
         \E x \in 1..n : at[x] = k /\ jobs'[x].taker = h
  <2> TAKE k \in DOMAIN jobs, h \in Goroutines \ {g}
  <2> HAVE jobs[k].taker = h
  <2>1. k \in Kept(g, saved)
    BY <1>6, RoundsAssumption DEF Kept
  <2>2. PICK x \in 1..n : at[x] = k
    BY <1>2, <2>1 DEF LeftOf
  <2> QED
    BY <1>3, <2>2
<1>8. \A x \in DOMAIN jobs', h \in Goroutines : jobs'[x].taker = h =>
         x \in 1..n /\ h # g /\ jobs[at[x]].taker = h
  <2> TAKE x \in DOMAIN jobs', h \in Goroutines
  <2> HAVE jobs'[x].taker = h
  <2>1. x \in 1..n
    BY <1>4, RoundsAssumption
  <2> QED
    BY <1>3, <2>1, RoundsAssumption
<1>9. /\ run' = [run EXCEPT ![g] = NoRun] /\ rounds' = RoundsAfter(r)
      /\ exists' = CASE r.chan = "add" -> TRUE [] r.chan = "delete" -> FALSE [] OTHER -> exists
      /\ nextRound' = IF r.chan = "add" \/ (r.chan = "update" /\ exists) THEN r.next ELSE nextRound
      /\ UNCHANGED <<inSlack, now>>
  BY DEF Finish
<1>10. run'[g] = NoRun /\ \A h \in Goroutines \ {g} : run'[h] = run[h]
  BY <1>9 DEF Inv, TypeOK
<1>11. NoRun \in Run /\ NoRun.pc = "idle" /\ NoRun.starts = FALSE /\ NoRun.chan = "keep"
  BY NoRunTyped
<1>12. /\ RoundsAfter(r) \in Seq(Round)
       /\ r.chan = "delete" => RoundsAfter(r) = <<>>
       /\ ~r.starts => DOMAIN RoundsAfter(r) \subseteq DOMAIN rounds
       /\ \A a \in DOMAIN RoundsAfter(r) : ~RoundsAfter(r)[a].ended =>
             r.chan # "delete" /\ (a \in Active \ r.ends \/ r.starts)
  BY RoundsLeft DEF Inv
<1>e. exists' \in BOOLEAN /\ (r.chan # "delete" => exists' = (exists \/ r.chan = "add"))
  <2>0. exists \in BOOLEAN
    BY DEF Inv, TypeOK
  <2>1. CASE r.chan = "add"
    BY <2>1, <1>9
  <2>2. CASE r.chan = "delete"
    BY <2>2, <1>9
  <2>3. CASE r.chan # "add" /\ r.chan # "delete"
    <3>1. exists' = exists
      BY <2>3, <1>9
    <3> QED
      BY <3>1, <2>0, <2>3
  <2> QED
    BY <2>1, <2>2, <2>3
<1>13. TypeOK'
  <2>1. exists' \in BOOLEAN
    BY <1>e
  <2>2. nextRound' \in Nat
    <3>1. r.next \in Nat /\ nextRound \in Nat
      BY DEF Inv, TypeOK, Run
    <3> QED
      BY <3>1, <1>9
  <2>3. jobs' \in Seq(Job)
    BY RowsLeft DEF Inv
  <2>4. run' \in [Goroutines -> Run]
    BY <1>9, <1>11 DEF Inv, TypeOK
  <2> QED
    BY <2>1, <2>2, <2>3, <2>4, <1>9, <1>12 DEF Inv, TypeOK
<1>14. OneRow'
  <2>1. ASSUME NEW x \in DOMAIN jobs', NEW y \in DOMAIN jobs',
               jobs'[x].taker = jobs'[y].taker, jobs'[x].taker # Nobody
        PROVE  x = y
    <3>1. x \in 1..n /\ y \in 1..n
      BY <1>4, <2>1
    <3>2. jobs[at[x]].taker = jobs[at[y]].taker /\ jobs[at[x]].taker # Nobody
      BY <1>3, <2>1, <3>1
    <3>3. at[x] = at[y]
      BY <1>3, <3>1, <3>2 DEF Inv, OneRow
    <3> QED
      BY <1>5, <3>1, <3>3
  <2>2. ASSUME NEW h \in Goroutines
        PROVE  Busy(h)' <=> \E x \in DOMAIN jobs' : jobs'[x].taker = h
    <3>1. CASE h = g
      BY <3>1, <1>8, <1>10, <1>11 DEF Busy
    <3>2. CASE h # g
      <4>1. Busy(h)' <=> Busy(h)
        BY <3>2, <1>10 DEF Busy
      <4>2. Busy(h) <=> \E k \in DOMAIN jobs : jobs[k].taker = h
        BY DEF Inv, OneRow
      <4>3. (\E k \in DOMAIN jobs : jobs[k].taker = h) => \E x \in DOMAIN jobs' : jobs'[x].taker = h
        BY <3>2, <1>3, <1>7
      <4>4. (\E x \in DOMAIN jobs' : jobs'[x].taker = h) => \E k \in DOMAIN jobs : jobs[k].taker = h
        BY <1>3, <1>8
      <4> QED
        BY <4>1, <4>2, <4>3, <4>4
    <3> QED
      BY <3>1, <3>2
  <2> QED
    BY <2>1, <2>2 DEF OneRow
<1>15. Places'
  <2> SUFFICES ASSUME NEW x \in DOMAIN jobs', NEW h \in Goroutines, jobs'[x].taker = h
               PROVE  Place(run'[h].pc, jobs'[x].type)
    BY DEF Places
  <2>1. x \in 1..n /\ h # g /\ jobs[at[x]].taker = h
    BY <1>8
  <2>2. at[x] \in DOMAIN jobs /\ jobs'[x].type = jobs[at[x]].type /\ run'[h] = run[h]
    BY <2>1, <1>3, <1>10
  <2> QED
    BY <2>1, <2>2 DEF Inv, Places
<1>16. SweepsHeld'
  <2> SUFFICES ASSUME NEW x \in DOMAIN jobs', NEW h \in Goroutines, h \in jobs'[x].cancel
               PROVE  /\ run'[h].pc \in {"sweep", "delete", "done"}
                      /\ run'[h].pc \in {"delete", "done"} => jobs'[x].taker \in {h, Nobody}
                      /\ jobs'[x].type # "CREATE_ROUND" => Deleting(h)'
    BY DEF SweepsHeld
  <2>1. x \in 1..n
    BY <1>4
  <2>2. /\ at[x] \in DOMAIN jobs /\ h \in jobs[at[x]].cancel /\ g \notin jobs[at[x]].cancel
        /\ jobs'[x].type = jobs[at[x]].type
        /\ jobs'[x].taker \in {jobs[at[x]].taker, Nobody}
    BY <2>1, <1>3 DEF Kept
  <2>3. /\ run[h].pc \in {"sweep", "delete", "done"}
        /\ run[h].pc \in {"delete", "done"} => jobs[at[x]].taker \in {h, Nobody}
        /\ jobs[at[x]].type # "CREATE_ROUND" => Deleting(h)
    BY <2>2 DEF Inv, SweepsHeld
  <2>4. h # g /\ run'[h] = run[h]
    BY <2>2, <1>10
  <2>5. Deleting(h) => Deleting(h)'
    <3> SUFFICES ASSUME Deleting(h) PROVE Deleting(h)'
      OBVIOUS
    <3>1. PICK m \in DOMAIN jobs : jobs[m].taker = h /\ jobs[m].type = "DELETE_CHANNEL"
      BY DEF Deleting
    <3>2. PICK y \in 1..n : at[y] = m /\ jobs'[y].taker = h
      BY <2>4, <3>1, <1>7
    <3>3. y \in DOMAIN jobs' /\ jobs'[y].type = "DELETE_CHANNEL"
      BY <3>1, <3>2, <1>3
    <3> QED
      BY <2>4, <3>2, <3>3 DEF Deleting
  <2> QED
    BY <2>2, <2>3, <2>4, <2>5
<1>17. StartsHeld'
  <2> SUFFICES ASSUME NEW h \in Goroutines, run'[h].starts
               PROVE  /\ exists' /\ NoDeletion'
                      /\ run'[h].pc = "next" \/ (run'[h].pc = "done" /\ HasEnd(run'[h].adds))
    BY DEF StartsHeld, HasEnd
  <2>1. h # g /\ run'[h] = run[h]
    BY <1>10, <1>11
  <2>2. /\ exists /\ NoDeletion
        /\ run[h].pc = "next" \/ (run[h].pc = "done" /\ HasEnd(run[h].adds))
    BY <2>1 DEF Inv, StartsHeld
  <2>3. r.chan # "delete"
    BY <2>1
  <2>4. exists'
    BY <1>e, <2>2, <2>3
  <2>5. NoDeletion'
    BY <2>2, <1>10, <1>11 DEF NoDeletion
  <2> QED
    BY <2>1, <2>2, <2>4, <2>5
<1>18. NoChannelNoRounds'
  <2> SUFFICES ASSUME ~exists' PROVE rounds' = <<>>
    BY DEF NoChannelNoRounds
  <2>1. CASE r.chan = "delete"
    BY <2>1, <1>9, <1>12
  <2>2. CASE r.chan # "delete"
    <3>1. ~exists /\ ~r.starts
      BY <2>2, <1>e
    <3>2. rounds = <<>>
      BY <3>1 DEF Inv, NoChannelNoRounds
    <3>3. rounds' \in Seq(Round) /\ DOMAIN rounds' = {}
      <4>1. DOMAIN rounds = {}
        BY <3>2
      <4> QED
        BY <4>1, <3>1, <1>9, <1>12
    <3>4. Len(rounds') = 0
      <4>1. DOMAIN rounds' = 1..Len(rounds') /\ Len(rounds') \in Nat
        BY <3>3
      <4>2. Len(rounds') >= 1 => 1 \in DOMAIN rounds'
        BY <4>1
      <4> QED
        BY <3>3, <4>1, <4>2
    <3> QED
      BY <3>3, <3>4, EmptySeq
  <2> QED
    BY <2>1, <2>2
<1>19. EndCovered'
  <2> SUFFICES ASSUME NEW a \in Active'
               PROVE  \E x \in DOMAIN jobs' : jobs'[x].type = "END_ROUND" /\ WillEnd(x, a)'
    BY DEF EndCovered
  <2>1. r.chan # "delete" /\ (a \in Active \ r.ends \/ r.starts)
    BY <1>9, <1>12 DEF Active
  <2>2. CASE r.starts
    <3>1. PICK i \in DOMAIN r.adds : r.adds[i].type = "END_ROUND"
      BY <2>2 DEF HasEnd
    <3>2. n + i \in DOMAIN jobs' /\ jobs'[n + i].type = "END_ROUND" /\ jobs'[n + i].taker = Nobody
      BY <3>1, <1>3 DEF NewRow
    <3>3. WillEnd(n + i, a)'
      BY <3>2, RoundsAssumption DEF WillEnd
    <3> QED
      BY <3>2, <3>3
  <2>3. CASE a \in Active \ r.ends
    <3>1. PICK k \in DOMAIN jobs : jobs[k].type = "END_ROUND" /\ WillEnd(k, a)
      BY <2>3 DEF Inv, EndCovered
    <3>2. g \notin jobs[k].cancel /\ (saved => jobs[k].taker # g)
      BY <2>1, <2>3, <3>1 DEF WillEnd
    <3>3. k \in Kept(g, saved)
      BY <3>2 DEF Kept
    <3>4. PICK x \in 1..n : at[x] = k
      BY <1>2, <3>3 DEF LeftOf
    <3>5. x \in DOMAIN jobs' /\ jobs'[x].type = "END_ROUND"
      BY <1>3, <3>1, <3>4
    <3>6. WillEnd(x, a)'
      BY <1>8, <1>10, <3>1, <3>4, <3>5 DEF WillEnd
    <3> QED
      BY <3>5, <3>6
  <2> QED
    BY <2>1, <2>2, <2>3
<1> QED
  BY <1>13, <1>14, <1>15, <1>16, <1>17, <1>18, <1>19 DEF Inv

\* Commit, with the Save of the job or without it.
LEMMA CommitInv ==
  ASSUME Inv, NEW g \in Goroutines, Commit(g) \/ CommitUnsaved(g)
  PROVE  Inv'
<1>1. PICK saved \in BOOLEAN : Finish(g, run[g], saved)
  BY DEF Commit, CommitUnsaved
<1>2. run[g].pc = "done" /\ run[g] \in Run
  BY RunTyped DEF Commit, CommitUnsaved
<1>3. run[g].starts => exists /\ NoDeletion /\ run[g].chan # "delete" /\ HasEnd(run[g].adds)
  BY <1>2 DEF Inv, StartsHeld, NoDeletion
<1>4. run[g].chan = "delete" => \A h \in Goroutines \ {g} : ~run[h].starts
  BY DEF Inv, StartsHeld, NoDeletion
<1>5. \A k \in DOMAIN jobs :
         g \in jobs[k].cancel /\ jobs[k].type = "END_ROUND" => run[g].chan = "delete"
  BY <1>2 DEF Inv, SweepsHeld, Deleting
<1> QED
  BY <1>1, <1>2, <1>3, <1>4, <1>5, FinishInv

\* The commit of CREATE_ROUND that a shutdown cut short: END_ROUND is there.
LEMMA CutShortInv ==
  ASSUME Inv, NEW g \in Goroutines, CutShort(g)
  PROVE  Inv'
<1> DEFINE next == JobOf(g).next + Interval
           queued == <<EndRoundJob(next)>>
           r == [run[g] EXCEPT !.chan = "update", !.next = next, !.adds = queued]
<1>1. run[g].pc = "next" /\ Busy(g)
  BY DEF CutShort, Busy
<1>2. /\ run[g] \in Run /\ JobOf(g) \in Job
      /\ \A m \in DOMAIN jobs : g \notin jobs[m].cancel
  BY <1>1, AtPlace
<1>3. next \in Nat
  BY <1>2, RoundsAssumption DEF Job
<1> HIDE DEF next
<1>4. queued \in Seq(NewRow) /\ HasEnd(queued)
  <2>1. EndRoundJob(next) \in NewRow /\ EndRoundJob(next).type = "END_ROUND"
    BY <1>3, QueuedJobsTyped
  <2>2. 1 \in DOMAIN queued /\ queued[1] = EndRoundJob(next)
    OBVIOUS
  <2> QED
    BY <2>1, <2>2 DEF HasEnd
<1> HIDE DEF queued
<1>5. r \in Run /\ r.starts = run[g].starts /\ r.chan = "update" /\ r.adds = queued
  BY <1>2, <1>3, <1>4 DEF Run
<1>6. Finish(g, r, FALSE)
  BY DEF CutShort, next, queued
<1>7. run[g].starts => exists /\ NoDeletion
  BY DEF Inv, StartsHeld
<1> HIDE DEF r
<1> QED
  BY <1>1, <1>2, <1>4, <1>5, <1>6, <1>7, FinishInv

LEMMA NextInv == Inv /\ [Next]_vars => Inv'
<1> SUFFICES ASSUME Inv, [Next]_vars PROVE Inv'
  OBVIOUS
<1>1. ASSUME NEW g \in Goroutines, Step(g) PROVE Inv'
  <2>1. CASE TakeJob(g)
    BY <2>1, TakeJobInv
  <2>2. CASE AddChannel(g)
    BY <2>2, AddChannelInv
  <2>3. CASE CheckMembership(g)
    BY <2>3, CheckMembershipInv
  <2>4. CASE StartRound(g)
    BY <2>4, StartRoundInv
  <2>5. CASE ScheduleNext(g)
    BY <2>5, ScheduleNextInv
  <2>6. CASE EndRound(g)
    BY <2>6, EndRoundInv
  <2>7. CASE UpdateChannel(g)
    BY <2>7, UpdateChannelInv
  <2>8. CASE BeginSweep(g)
    BY <2>8, BeginSweepInv
  <2>9. CASE EndSweep(g)
    BY <2>9, EndSweepInv
  <2>10. CASE DeleteChannel(g)
    BY <2>10, DeleteChannelInv
  <2>11. CASE Commit(g) \/ CommitUnsaved(g)
    BY <2>11, CommitInv
  <2>12. CASE CutShort(g)
    BY <2>12, CutShortInv
  <2>13. CASE Fail(g)
    BY <2>13, FailInv
  <2> QED
    BY <1>1, <2>1, <2>2, <2>3, <2>4, <2>5, <2>6, <2>7, <2>8, <2>9, <2>10, <2>11, <2>12, <2>13
    DEF Step
<1>2. CASE \/ \E n \in 0..MaxTime : AdminEnables(n) \/ AdminReschedules(n)
           \/ SyncChannels \/ BotMoves \/ Advance \/ UNCHANGED vars
  BY <1>2, EnvironmentInv
<1> QED
  BY <1>1, <1>2 DEF Next
-------------------------------------------------------------------------------
(* Theorems *)

LEMMA Invariance == Spec => []Inv
<1> QED
  BY InitInv, NextInv, PTL DEF Spec

\* The types of the channel, its rounds, its jobs and the open transactions.
THEOREM TypesOK == Spec => []TypeOK
<1>1. Inv => TypeOK
  BY DEF Inv
<1> QED
  BY <1>1, Invariance, PTL

\* With any number of goroutines and whatever fails, is retried, is late or is
\* rescheduled (job_create_round.go, job_end_round.go, job_update_channel.go,
\* job_delete_channel.go): no round is left without an END_ROUND to come.
THEOREM RoundsEnd == Spec => []RoundWillEnd
  BY EndsPromised, Invariance, PTL
-------------------------------------------------------------------------------
(* The chain of rounds *)

\* The instances of which RoundChain is promised.
OnTime ==
    /\ Prompt /\ ~Membership /\ Rescheduling # "any"
    /\ "shutdown" \notin Faults /\ EndBefore > 0

\* What is known of a row while the worker keeps up: a request is as fresh as the
\* clock, CREATE_ROUND is due on the date that is shown, END_ROUND before it.
RowOnTime(j) ==
    /\ j.type # "DELETE_CHANNEL" /\ (j.type # "ADD_CHANNEL" => exists)
    /\ j.type = "ADD_CHANNEL" => j.due = 0 /\ now <= j.next
    /\ j.type = "UPDATE_CHANNEL" => j.due = 0 /\ now + Interval <= j.next
    /\ j.type = "CREATE_ROUND" => j.due = nextRound /\ j.next = nextRound
    /\ j.type = "END_ROUND" =>
          /\ now <= j.due
          /\ \E n \in Active : j.due + EndBefore = rounds[n].at + Interval
    /\ j.taker # Nobody => j.due <= now
RowsOnTime == \A k \in DOMAIN jobs : RowOnTime(jobs[k])

Single(t) == \A k, m \in DOMAIN jobs : jobs[k].type = t /\ jobs[m].type = t => k = m
OneChain ==
    /\ inSlack
    /\ exists => now <= nextRound /\ \E k \in DOMAIN jobs : jobs[k].type = "CREATE_ROUND"
    /\ Single("CREATE_ROUND") /\ Single("END_ROUND")
    /\ \A n, m \in Active : n = m
    /\ \A n \in Active : rounds[n].at <= now /\ rounds[n].at + Interval <= nextRound

\* What a transaction that is about to commit the job j has written.
Quiet(r) == ~r.starts /\ ~r.matching /\ r.ends = {}
Nothing(r, j) == j.type = "ADD_CHANNEL" /\ Quiet(r) /\ r.chan = "keep" /\ r.adds = <<>>
Enables(r, j) ==
    /\ j.type = "ADD_CHANNEL" /\ Quiet(r) /\ ~exists
    /\ r.chan = "add" /\ r.next = j.next /\ r.adds = <<CreateRoundJob(j.next)>>
Reschedules(r, j) ==
    /\ j.type = "UPDATE_CHANNEL" /\ Quiet(r)
    /\ r.chan = "update" /\ r.next = j.next /\ r.adds = <<CreateRoundJob(j.next)>>
Starts(r, j) ==
    LET next == j.next + Interval IN
    /\ j.type = "CREATE_ROUND" /\ r.starts /\ r.matching /\ r.ends = {}
    /\ r.chan = "update" /\ r.next = next
    /\ r.adds = <<EndRoundJob(next), CreateRoundJob(next)>>
Ends(r, j) ==
    /\ j.type = "END_ROUND" /\ ~r.starts /\ ~r.matching /\ r.ends = Active
    /\ r.chan = "keep" /\ r.adds = <<>>

\* What the transaction of the job j has written before.
Wrote(r, j) ==
    /\ r.found = 0
    /\ r.pc \in {"exec", "start"} => Quiet(r) /\ r.chan = "keep" /\ r.adds = <<>>
    /\ r.pc = "next" => r.starts /\ ~r.matching /\ r.ends = {} /\ r.chan = "keep"
    /\ r.pc \in {"updated", "sweep"} => Quiet(r) /\ r.chan = "update" /\ r.next = j.next
    /\ r.pc = "done" =>
          Nothing(r, j) \/ Enables(r, j) \/ Reschedules(r, j) \/ Starts(r, j) \/ Ends(r, j)
Writes == \A k \in DOMAIN jobs, g \in Goroutines : jobs[k].taker = g => Wrote(run[g], jobs[k])

ChannelLock == \A g, h \in Goroutines : run[g].chan # "keep" /\ run[h].chan # "keep" => g = h

\* UPDATE_CHANNEL has seen every CREATE_ROUND that there is.
Swept == \A k \in DOMAIN jobs, g \in Goroutines :
    jobs[k].taker = g /\ jobs[k].type = "UPDATE_CHANNEL" /\ run[g].pc \in {"sweep", "done"} =>
        \A m \in DOMAIN jobs : jobs[m].type = "CREATE_ROUND" => g \in jobs[m].cancel

\* Nothing else cancels.
Sweeping == \A k \in DOMAIN jobs, g \in Goroutines :
    g \in jobs[k].cancel => run[g].chan = "update" /\ ~run[g].starts

Chained == RowsOnTime /\ OneChain /\ Writes /\ ChannelLock /\ Swept /\ Sweeping
-------------------------------------------------------------------------------
(* The dates of the chain *)

\* The due dates of the CREATE_ROUND jobs among the rows q.
DatesOf(q) ==
    LET next == Where(q, {k \in DOMAIN q : q[k].type = "CREATE_ROUND"})
    IN [k \in DOMAIN next |-> next[k].due]

LEMMA NextDate ==
  ASSUME NEW q \in Seq(Job), NEW k \in DOMAIN q, q[k].type = "CREATE_ROUND",
         \A m \in DOMAIN q : q[m].type = "CREATE_ROUND" => m = k
  PROVE  DatesOf(q) = <<q[k].due>>
<1> DEFINE K == {m \in DOMAIN q : q[m].type = "CREATE_ROUND"}
<1>1. K = {k} /\ k \in Nat
  OBVIOUS
<1>2. Where(q, K) = <<q[k]>>
  BY <1>1, WhereOne
<1> HIDE DEF K
<1>3. DatesOf(q) = [m \in DOMAIN Where(q, K) |-> Where(q, K)[m].due]
  BY DEF DatesOf, K
<1>4. DOMAIN Where(q, K) = 1..1 /\ Where(q, K)[1] = q[k]
  BY <1>2
<1>5. DatesOf(q) = [m \in 1..1 |-> q[k].due]
  BY <1>3, <1>4
<1> QED
  BY <1>5

LEMMA NoDate ==
  ASSUME NEW q, \A m \in DOMAIN q : q[m].type # "CREATE_ROUND"
  PROVE  DatesOf(q) = <<>>
<1> DEFINE K == {m \in DOMAIN q : q[m].type = "CREATE_ROUND"}
<1>1. K = {}
  OBVIOUS
<1>2. Where(q, K) = <<>>
  BY <1>1, WhereNone
<1> HIDE DEF K
<1>3. DatesOf(q) = [m \in DOMAIN Where(q, K) |-> Where(q, K)[m].due]
  BY DEF DatesOf, K
<1> QED
  BY <1>2, <1>3

\* The dates of the chain are those that the settings page shows.
LEMMA DatesAreShown == TypeOK /\ Chained => (DueDates = IF exists THEN <<nextRound>> ELSE <<>>)
<1> SUFFICES ASSUME TypeOK, Chained PROVE DueDates = IF exists THEN <<nextRound>> ELSE <<>>
  OBVIOUS
<1>1. DueDates = DatesOf(jobs)
  BY DEF DueDates, DatesOf
<1>2. CASE exists
  <2>1. PICK k \in DOMAIN jobs : jobs[k].type = "CREATE_ROUND"
    BY <1>2 DEF Chained, OneChain
  <2>2. \A m \in DOMAIN jobs : jobs[m].type = "CREATE_ROUND" => m = k
    BY <2>1 DEF Chained, OneChain, Single
  <2>3. jobs[k].due = nextRound
    BY <2>1 DEF Chained, RowsOnTime, RowOnTime
  <2> QED
    BY <1>1, <1>2, <2>1, <2>2, <2>3, NextDate DEF TypeOK
<1>3. CASE ~exists
  <2>1. \A m \in DOMAIN jobs : jobs[m].type # "CREATE_ROUND"
    BY <1>3 DEF Chained, RowsOnTime, RowOnTime
  <2> QED
    BY <1>1, <1>3, <2>1, NoDate
<1> QED
  BY <1>2, <1>3
-------------------------------------------------------------------------------
(* Steps that commit nothing *)

LEMMA InitChained == Init => Chained
<1> SUFFICES ASSUME Init PROVE Chained
  OBVIOUS
<1>1. DOMAIN jobs = {} /\ Active = {}
  BY EmptySeq DEF Init, Active
<1>2. ~exists /\ inSlack /\ \A g \in Goroutines : run[g].chan = "keep"
  BY NoRunTyped DEF Init
<1> QED
  BY <1>1, <1>2 DEF Chained, RowsOnTime, OneChain, Single, Writes, ChannelLock, Swept, Sweeping

LEMMA SameWrites ==
  ASSUME UNCHANGED <<exists, rounds>>
  PROVE  \A r, j : Wrote(r, j)' <=> Wrote(r, j)
<1>1. Active' = Active
  BY DEF Active
<1> QED
  BY <1>1 DEF Wrote, Nothing, Enables, Reschedules, Starts, Ends, Quiet, CreateRoundJob, EndRoundJob, NewJob

\* The transaction of g goes on, with r, and the rows stay as they are.
LEMMA MovesChained ==
  ASSUME Inv, Chained, NEW g \in Goroutines, NEW r \in Run, Continue(g, r), UNCHANGED jobs,
         NEW n \in DOMAIN jobs, jobs[n].taker = g, Wrote(r, jobs[n]),
         r.chan # "keep" => run[g].chan # "keep" \/ ChannelFree(g),
         jobs[n].type = "UPDATE_CHANNEL" /\ r.pc \in {"sweep", "done"} => run[g].pc = "sweep",
         run[g].pc \in {"sweep", "delete", "done"} => r.chan = "update" /\ ~r.starts
  PROVE  Chained'
<1>1. /\ run' = [run EXCEPT ![g] = r] /\ UNCHANGED <<exists, nextRound, rounds, jobs, inSlack, now>>
  BY DEF Continue, table
<1>2. run'[g] = r /\ \A h \in Goroutines \ {g} : run'[h] = run[h]
  BY <1>1 DEF Inv, TypeOK
<1>3. RowsOnTime' /\ OneChain'
  BY <1>1 DEF Chained, RowsOnTime, RowOnTime, OneChain, Single, Active
<1>4. \A k \in DOMAIN jobs : jobs[k].taker = g => k = n
  BY RoundsAssumption DEF Inv, OneRow
<1>5. Writes'
  <2>1. \A q, j : Wrote(q, j)' <=> Wrote(q, j)
    BY <1>1, SameWrites
  <2>2. ASSUME NEW k \in DOMAIN jobs, NEW h \in Goroutines, jobs[k].taker = h
        PROVE  Wrote(run'[h], jobs[k])
    BY <2>2, <1>2, <1>4 DEF Chained, Writes
  <2> QED
    BY <2>1, <2>2, <1>1 DEF Writes
<1>6. ChannelLock'
  BY <1>2 DEF Chained, ChannelLock, ChannelFree
<1>7. Swept'
  <2> SUFFICES ASSUME NEW k \in DOMAIN jobs, NEW h \in Goroutines, jobs[k].taker = h,
                      jobs[k].type = "UPDATE_CHANNEL", run'[h].pc \in {"sweep", "done"},
                      NEW m \in DOMAIN jobs, jobs[m].type = "CREATE_ROUND"
               PROVE  h \in jobs[m].cancel
    BY <1>1 DEF Swept
  <2>1. run[h].pc \in {"sweep", "done"}
    BY <1>2, <1>4
  <2> QED
    BY <2>1 DEF Chained, Swept
<1>8. Sweeping'
  <2> SUFFICES ASSUME NEW k \in DOMAIN jobs, NEW h \in Goroutines, h \in jobs[k].cancel
               PROVE  run'[h].chan = "update" /\ ~run'[h].starts
    BY <1>1 DEF Sweeping
  <2>1. CASE h = g
    BY <2>1, <1>2 DEF Inv, SweepsHeld
  <2>2. CASE h # g
    BY <2>2, <1>2 DEF Chained, Sweeping
  <2> QED
    BY <2>1, <2>2
<1> QED
  BY <1>3, <1>5, <1>6, <1>7, <1>8 DEF Chained

\* The row of a goroutine, and what is known of it.
LEMMA ChainedRow ==
  ASSUME Inv, Chained, NEW g \in Goroutines, Busy(g)
  PROVE  \E n \in DOMAIN jobs :
            /\ jobs[n].taker = g /\ JobOf(g) = jobs[n] /\ jobs[n] \in Job
            /\ Wrote(run[g], jobs[n]) /\ RowOnTime(jobs[n]) /\ Place(run[g].pc, jobs[n].type)
            /\ jobs[n].due <= now
<1>1. PICK n \in DOMAIN jobs : jobs[n].taker = g /\ JobOf(g) = jobs[n] /\ jobs[n] \in Job
  BY RowOfBusy DEF Inv
<1>2. RowOnTime(jobs[n]) /\ Wrote(run[g], jobs[n]) /\ Place(run[g].pc, jobs[n].type)
  BY <1>1 DEF Inv, Places, Chained, RowsOnTime, Writes
<1>3. jobs[n].due <= now
  BY <1>1, <1>2, RoundsAssumption DEF RowOnTime
<1> QED
  BY <1>1, <1>2, <1>3

\* While a CREATE_ROUND runs no round is active: it is due now, and an active
\* round would have its END_ROUND before it.
LEMMA NobodyActive ==
  ASSUME Inv, Chained, EndBefore > 0,
         NEW n \in DOMAIN jobs, jobs[n].type = "CREATE_ROUND", jobs[n].taker \in Goroutines
  PROVE  /\ Active = {} /\ nextRound = now
         /\ \A k \in DOMAIN jobs : jobs[k].type # "END_ROUND"
<1>1. RowOnTime(jobs[n]) /\ jobs[n].taker # Nobody
  BY RoundsAssumption DEF Chained, RowsOnTime
<1>2. nextRound <= now /\ exists
  BY <1>1 DEF RowOnTime
<1>3. nextRound = now
  BY <1>2 DEF Chained, OneChain, Inv, TypeOK
<1>4. ASSUME NEW a \in Active PROVE FALSE
  <2>1. PICK k \in DOMAIN jobs : jobs[k].type = "END_ROUND"
    BY DEF Inv, EndCovered
  <2>2. RowOnTime(jobs[k])
    BY DEF Chained, RowsOnTime
  <2>3. now <= jobs[k].due /\ \E b \in Active : jobs[k].due + EndBefore = rounds[b].at + Interval
    BY <2>1, <2>2 DEF RowOnTime
  <2>4. jobs[k].due + EndBefore = rounds[a].at + Interval
    BY <2>3 DEF Chained, OneChain
  <2>5. rounds[a].at + Interval <= nextRound
    BY DEF Chained, OneChain
  <2>6. jobs[k].due \in Nat /\ now \in Nat
    <3>1. jobs[k] \in Job
      BY ElementOfSeq DEF Inv, TypeOK
    <3> QED
      BY <3>1 DEF Job, Inv, TypeOK
  <2> QED
    BY <2>3, <2>4, <2>5, <2>6, <1>3, RoundsAssumption
<1>5. \A k \in DOMAIN jobs : jobs[k].type # "END_ROUND"
  BY <1>4 DEF Chained, RowsOnTime, RowOnTime
<1> QED
  BY <1>3, <1>4, <1>5

LEMMA AddChannelChained ==
  ASSUME Inv, Chained, NEW g \in Goroutines, AddChannel(g)
  PROVE  Chained'
<1>1. Busy(g) /\ run[g].pc = "exec" /\ JobOf(g).type = "ADD_CHANNEL" /\ UNCHANGED jobs
  BY DEF AddChannel, Runs
<1>2. PICK n \in DOMAIN jobs : /\ jobs[n].taker = g /\ JobOf(g) = jobs[n] /\ jobs[n] \in Job
                               /\ Wrote(run[g], jobs[n])
  BY <1>1, ChainedRow
<1>3. run[g] \in Run /\ run[g].found = 0 /\ Quiet(run[g]) /\ run[g].chan = "keep" /\ run[g].adds = <<>>
  BY <1>1, <1>2, RunTyped DEF Wrote
<1> DEFINE quiet == [run[g] EXCEPT !.pc = "done"]
           queued == <<CreateRoundJob(JobOf(g).next)>>
           adding == [run[g] EXCEPT !.pc = "done", !.chan = "add", !.next = JobOf(g).next,
                                    !.adds = queued]
<1>4. CASE Continue(g, quiet)
  <2>1. quiet \in Run /\ quiet.pc = "done" /\ quiet.found = 0 /\ Nothing(quiet, jobs[n]) /\ quiet.chan = "keep"
    BY <1>1, <1>2, <1>3 DEF Run, Nothing, Quiet
  <2> HIDE DEF quiet
  <2> QED
    BY <1>1, <1>2, <1>4, <2>1, MovesChained DEF Wrote
<1>5. CASE ~exists /\ ChannelFree(g) /\ Continue(g, adding)
  <2>1. JobOf(g).next \in Nat /\ queued \in Seq(NewRow)
    BY <1>2, QueuedJobsTyped DEF Job
  <2>2. queued = <<CreateRoundJob(jobs[n].next)>>
    BY <1>2
  <2> HIDE DEF queued
  <2>3. adding \in Run /\ adding.pc = "done" /\ adding.found = 0 /\ adding.chan = "add"
        /\ adding.next = jobs[n].next /\ adding.adds = queued /\ Quiet(adding)
    BY <1>2, <1>3, <2>1 DEF Run, Quiet
  <2> HIDE DEF adding
  <2>4. Enables(adding, jobs[n])
    BY <1>1, <1>2, <1>5, <2>2, <2>3 DEF Enables
  <2> QED
    BY <1>1, <1>2, <1>5, <2>3, <2>4, MovesChained DEF Wrote
<1> QED
  BY <1>4, <1>5 DEF AddChannel

LEMMA CheckMembershipChained ==
  ASSUME Inv, Chained, NEW g \in Goroutines, CheckMembership(g)
  PROVE  Chained'
<1>1. Busy(g) /\ run[g].pc = "exec" /\ JobOf(g).type = "CREATE_ROUND" /\ UNCHANGED jobs
  BY DEF CheckMembership, Runs
<1>2. PICK n \in DOMAIN jobs : /\ jobs[n].taker = g /\ JobOf(g) = jobs[n] /\ Wrote(run[g], jobs[n])
  BY <1>1, ChainedRow
<1>3. run[g] \in Run /\ run[g].found = 0 /\ Quiet(run[g]) /\ run[g].chan = "keep" /\ run[g].adds = <<>>
  BY <1>1, <1>2, RunTyped DEF Wrote
<1> DEFINE r == [run[g] EXCEPT !.pc = "start"]
<1>4. r \in Run /\ r.pc = "start" /\ r.found = 0 /\ Quiet(r) /\ r.chan = "keep" /\ r.adds = <<>>
  BY <1>3 DEF Run, Quiet
<1>5. Continue(g, r)
  BY DEF CheckMembership, Chained, OneChain
<1> HIDE DEF r
<1> QED
  BY <1>1, <1>2, <1>4, <1>5, MovesChained DEF Wrote

LEMMA StartRoundChained ==
  ASSUME Inv, Chained, EndBefore > 0, NEW g \in Goroutines, StartRound(g)
  PROVE  Chained'
<1>1. Busy(g) /\ run[g].pc = "start" /\ UNCHANGED jobs
  BY DEF StartRound, Busy
<1>2. PICK n \in DOMAIN jobs : /\ jobs[n].taker = g /\ JobOf(g) = jobs[n] /\ Wrote(run[g], jobs[n])
                               /\ Place(run[g].pc, jobs[n].type)
  BY <1>1, ChainedRow
<1>3. run[g] \in Run /\ run[g].found = 0 /\ Quiet(run[g]) /\ run[g].chan = "keep" /\ run[g].adds = <<>>
  BY <1>1, <1>2, RunTyped DEF Wrote
<1>4. jobs[n].type = "CREATE_ROUND" /\ Active = {}
  BY <1>1, <1>2, NobodyActive DEF Place
<1> DEFINE r == [run[g] EXCEPT !.pc = "next", !.starts = TRUE]
<1>5. r \in Run /\ r.pc = "next" /\ r.found = 0 /\ r.starts /\ ~r.matching /\ r.ends = {} /\ r.chan = "keep"
  BY <1>3 DEF Run, Quiet
<1>6. Continue(g, r)
  BY <1>4 DEF StartRound
<1> HIDE DEF r
<1> QED
  BY <1>1, <1>2, <1>4, <1>5, <1>6, MovesChained DEF Wrote

LEMMA ScheduleNextChained ==
  ASSUME Inv, Chained, NEW g \in Goroutines, ScheduleNext(g)
  PROVE  Chained'
<1>1. Busy(g) /\ run[g].pc = "next" /\ ChannelFree(g) /\ UNCHANGED jobs
  BY DEF ScheduleNext, Busy
<1>2. PICK n \in DOMAIN jobs : /\ jobs[n].taker = g /\ JobOf(g) = jobs[n] /\ jobs[n] \in Job
                               /\ Wrote(run[g], jobs[n]) /\ Place(run[g].pc, jobs[n].type)
  BY <1>1, ChainedRow
<1>3. run[g] \in Run /\ run[g].found = 0 /\ run[g].starts /\ run[g].ends = {}
  BY <1>1, <1>2, RunTyped DEF Wrote
<1>4. jobs[n].type = "CREATE_ROUND"
  BY <1>1, <1>2 DEF Place
<1> DEFINE next == JobOf(g).next + Interval
           queued == <<EndRoundJob(next), CreateRoundJob(next)>>
           r == [run[g] EXCEPT !.pc = "done", !.chan = "update", !.next = next,
                               !.adds = queued, !.matching = TRUE]
<1>5. next \in Nat /\ next = jobs[n].next + Interval
  BY <1>2, RoundsAssumption DEF Job
<1> HIDE DEF next
<1>6. queued \in Seq(NewRow)
  BY <1>5, QueuedJobsTyped
<1> HIDE DEF queued
<1>7. r \in Run /\ r.pc = "done" /\ r.found = 0 /\ r.starts /\ r.matching /\ r.ends = {}
      /\ r.chan = "update" /\ r.next = next /\ r.adds = queued
  BY <1>3, <1>5, <1>6 DEF Run
<1>8. Continue(g, r)
  BY DEF ScheduleNext, next, queued
<1> HIDE DEF r
<1>9. Starts(r, jobs[n])
  BY <1>4, <1>5, <1>7 DEF Starts, queued
<1> QED
  BY <1>1, <1>2, <1>4, <1>7, <1>8, <1>9, MovesChained DEF Wrote

LEMMA EndRoundChained ==
  ASSUME Inv, Chained, NEW g \in Goroutines, EndRound(g)
  PROVE  Chained'
<1>1. Busy(g) /\ run[g].pc = "exec" /\ JobOf(g).type = "END_ROUND" /\ UNCHANGED jobs
  BY DEF EndRound, Runs
<1>2. PICK n \in DOMAIN jobs : /\ jobs[n].taker = g /\ JobOf(g) = jobs[n] /\ Wrote(run[g], jobs[n])
  BY <1>1, ChainedRow
<1>3. run[g] \in Run /\ run[g].found = 0 /\ Quiet(run[g]) /\ run[g].chan = "keep" /\ run[g].adds = <<>>
  BY <1>1, <1>2, RunTyped DEF Wrote
<1> DEFINE r == [run[g] EXCEPT !.pc = "done", !.ends = Active]
<1>4. r \in Run /\ r.pc = "done" /\ r.found = 0 /\ ~r.starts /\ ~r.matching /\ r.ends = Active
      /\ r.chan = "keep" /\ r.adds = <<>>
  BY <1>3, ActiveTyped DEF Run, Quiet
<1>5. Continue(g, r)
  BY DEF EndRound
<1> HIDE DEF r
<1>6. Ends(r, jobs[n])
  BY <1>1, <1>2, <1>4 DEF Ends
<1> QED
  BY <1>1, <1>2, <1>4, <1>5, <1>6, MovesChained DEF Wrote

LEMMA UpdateChannelChained ==
  ASSUME Inv, Chained, NEW g \in Goroutines, UpdateChannel(g)
  PROVE  Chained'
<1>1. Busy(g) /\ run[g].pc = "exec" /\ ChannelFree(g) /\ UNCHANGED jobs
  BY DEF UpdateChannel, Runs
<1>2. PICK n \in DOMAIN jobs : /\ jobs[n].taker = g /\ JobOf(g) = jobs[n] /\ jobs[n] \in Job
                               /\ Wrote(run[g], jobs[n])
  BY <1>1, ChainedRow
<1>3. run[g] \in Run /\ run[g].found = 0 /\ Quiet(run[g]) /\ run[g].adds = <<>>
  BY <1>1, <1>2, RunTyped DEF Wrote
<1> DEFINE r == [run[g] EXCEPT !.pc = "updated", !.chan = "update", !.next = JobOf(g).next]
<1>4. r \in Run /\ r.pc = "updated" /\ r.found = 0 /\ Quiet(r) /\ r.chan = "update" /\ r.next = jobs[n].next
  BY <1>2, <1>3 DEF Run, Quiet, Job
<1>5. Continue(g, r)
  BY DEF UpdateChannel
<1> HIDE DEF r
<1> QED
  BY <1>1, <1>2, <1>4, <1>5, MovesChained DEF Wrote

LEMMA EndSweepChained ==
  ASSUME Inv, Chained, NEW g \in Goroutines, EndSweep(g)
  PROVE  Chained'
<1>1. Busy(g) /\ run[g].pc = "sweep" /\ UNCHANGED jobs
  BY DEF EndSweep, Busy
<1>2. PICK n \in DOMAIN jobs : /\ jobs[n].taker = g /\ JobOf(g) = jobs[n] /\ jobs[n] \in Job
                               /\ Wrote(run[g], jobs[n]) /\ RowOnTime(jobs[n])
                               /\ Place(run[g].pc, jobs[n].type)
  BY <1>1, ChainedRow
<1>3. /\ run[g] \in Run /\ run[g].found = 0 /\ Quiet(run[g])
      /\ run[g].chan = "update" /\ run[g].next = jobs[n].next
  BY <1>1, <1>2, RunTyped DEF Wrote
<1>4. jobs[n].type = "UPDATE_CHANNEL"
  BY <1>1, <1>2 DEF Place, RowOnTime
<1> DEFINE queued == <<CreateRoundJob(JobOf(g).next)>>
           r == [run[g] EXCEPT !.pc = "done", !.adds = queued]
<1>5. queued \in Seq(NewRow) /\ queued = <<CreateRoundJob(jobs[n].next)>>
  BY <1>2, QueuedJobsTyped DEF Job
<1> HIDE DEF queued
<1>6. r \in Run /\ r.pc = "done" /\ r.found = 0 /\ Quiet(r) /\ r.chan = "update"
      /\ r.next = jobs[n].next /\ r.adds = queued
  BY <1>3, <1>5 DEF Run, Quiet
<1>7. Continue(g, r)
  BY <1>1, <1>2, <1>4 DEF EndSweep, Runs, queued
<1> HIDE DEF r
<1>8. Reschedules(r, jobs[n])
  BY <1>4, <1>5, <1>6 DEF Reschedules
<1> QED
  BY <1>1, <1>2, <1>3, <1>6, <1>7, <1>8, MovesChained DEF Wrote, Quiet

LEMMA NoDeleteChannel ==
  ASSUME Inv, Chained, NEW g \in Goroutines
  PROVE  run[g].pc # "delete"
<1>1. run[g].pc = "delete" => Busy(g)
  BY DEF Busy
<1> QED
  BY <1>1, ChainedRow DEF Place, RowOnTime
-------------------------------------------------------------------------------
(* Steps that change rows *)

LEMMA RequestChained ==
  ASSUME Inv, Chained, NEW t \in {"ADD_CHANNEL", "UPDATE_CHANNEL"}, NEW next \in Nat, Request(t, next),
         t = "ADD_CHANNEL" => now <= next,
         t = "UPDATE_CHANNEL" => exists /\ now + Interval <= next
  PROVE  Chained'
<1> DEFINE j == NewJob(t, 0, next)
<1>1. /\ j \in Job /\ j.taker = Nobody /\ j.cancel = {}
      /\ j.type = t /\ j.due = 0 /\ j.next = next
  BY NewJobTyped DEF RoundJobs
<1>2. jobs' = Append(jobs, j) /\ UNCHANGED <<exists, nextRound, rounds, run, inSlack, now>>
  BY DEF Request, table
<1> HIDE DEF j
<1>3. jobs \in Seq(Job) /\ jobs' \in Seq(Job)
  BY <1>1, <1>2 DEF Inv, TypeOK
<1>4. /\ DOMAIN jobs \subseteq DOMAIN jobs' /\ \A k \in DOMAIN jobs : jobs'[k] = jobs[k]
      /\ \A k \in DOMAIN jobs' \ DOMAIN jobs : jobs'[k] = j
  BY <1>1, <1>2, <1>3
<1>5. \A q : RowOnTime(q)' <=> RowOnTime(q)
  BY <1>2 DEF RowOnTime, Active
<1>6. RowOnTime(j)
  BY <1>1 DEF RowOnTime
<1>7. RowsOnTime'
  BY <1>4, <1>5, <1>6 DEF Chained, RowsOnTime
<1>8. OneChain'
  <2>1. Single("CREATE_ROUND")' /\ Single("END_ROUND")'
    BY <1>1, <1>4 DEF Chained, OneChain, Single
  <2>2. exists => \E k \in DOMAIN jobs' : jobs'[k].type = "CREATE_ROUND"
    BY <1>4 DEF Chained, OneChain
  <2> QED
    BY <2>1, <2>2, <1>2 DEF Chained, OneChain, Active
<1>9. Writes'
  <2>1. \A r, q : Wrote(r, q)' <=> Wrote(r, q)
    BY <1>2, SameWrites
  <2>2. ASSUME NEW k \in DOMAIN jobs', NEW h \in Goroutines, jobs'[k].taker = h
        PROVE  Wrote(run[h], jobs'[k])
    BY <2>2, <1>1, <1>4, RoundsAssumption DEF Chained, Writes
  <2> QED
    BY <2>1, <2>2, <1>2 DEF Writes
<1>10. ChannelLock'
  BY <1>2 DEF Chained, ChannelLock
<1>11. Swept'
  <2> SUFFICES ASSUME NEW k \in DOMAIN jobs', NEW h \in Goroutines, jobs'[k].taker = h,
                      jobs'[k].type = "UPDATE_CHANNEL", run[h].pc \in {"sweep", "done"},
                      NEW m \in DOMAIN jobs', jobs'[m].type = "CREATE_ROUND"
               PROVE  h \in jobs'[m].cancel
    BY <1>2 DEF Swept
  <2>1. k \in DOMAIN jobs /\ m \in DOMAIN jobs /\ jobs'[k] = jobs[k] /\ jobs'[m] = jobs[m]
    BY <1>1, <1>4, RoundsAssumption
  <2> QED
    BY <2>1 DEF Chained, Swept
<1>12. Sweeping'
  BY <1>1, <1>2, <1>4 DEF Chained, Sweeping
<1> QED
  BY <1>7, <1>8, <1>9, <1>10, <1>11, <1>12 DEF Chained

\* The rows are locked, swept or unlocked.
LEMMA LocksChained ==
  ASSUME Inv, Chained, UNCHANGED <<exists, nextRound, rounds, inSlack, now>>,
         DOMAIN jobs' = DOMAIN jobs,
         \A k \in DOMAIN jobs :
            /\ jobs'[k].type = jobs[k].type /\ jobs'[k].due = jobs[k].due
            /\ jobs'[k].next = jobs[k].next
            /\ jobs'[k].taker # Nobody => jobs[k].taker # Nobody \/ jobs[k].due <= now
  PROVE  RowsOnTime' /\ OneChain'
<1>1. \A k \in DOMAIN jobs : RowOnTime(jobs'[k])
  BY DEF Chained, RowsOnTime, RowOnTime
<1>2. \A q : RowOnTime(q)' <=> RowOnTime(q)
  BY DEF RowOnTime, Active
<1>3. Single("CREATE_ROUND")' /\ Single("END_ROUND")'
  BY DEF Chained, OneChain, Single
<1>4. OneChain'
  BY <1>3 DEF Chained, OneChain, Active
<1> QED
  BY <1>1, <1>2, <1>4 DEF RowsOnTime

LEMMA SameJobWritten ==
  ASSUME NEW r, NEW i, NEW j, Wrote(r, i), i.type = j.type, i.next = j.next
  PROVE  Wrote(r, j)
  BY DEF Wrote, Nothing, Enables, Reschedules, Starts, Ends

LEMMA TakeJobChained ==
  ASSUME Inv, Chained, NEW g \in Goroutines, TakeJob(g)
  PROVE  Chained'
<1> DEFINE n == NextJob
           runnable == exists \/ ~RequiresSlackChannel(jobs[n].type)
           r == [NoRun EXCEPT !.pc = IF runnable THEN "exec" ELSE "done"]
<1>1. n \in DOMAIN jobs /\ ~LockedFor(Nobody, jobs[n]) /\ jobs[n].due <= now
  BY NextJobAvailable DEF TakeJob, Inv, Available
<1>2. jobs[n] \in Job /\ RowOnTime(jobs[n])
  BY <1>1, ElementOfSeq DEF Inv, TypeOK, Chained, RowsOnTime
<1>3. jobs[n].taker = Nobody
  BY <1>1, <1>2, RoundsAssumption DEF LockedFor, Job
<1>4. /\ jobs' = [jobs EXCEPT ![n].taker = g] /\ run' = [run EXCEPT ![g] = r]
      /\ UNCHANGED <<exists, nextRound, rounds, inSlack, now>>
  BY DEF TakeJob, Continue, table
<1>5. runnable
  <2>1. jobs[n].type # "ADD_CHANNEL" => exists
    BY <1>2 DEF RowOnTime
  <2>2. ~RequiresSlackChannel("ADD_CHANNEL")
    BY DEF RequiresSlackChannel
  <2> QED
    BY <2>1, <2>2
<1>6. r.pc = "exec" /\ r.found = 0 /\ Quiet(r) /\ r.chan = "keep" /\ r.adds = <<>>
  BY <1>5 DEF NoRun, Quiet
<1>7. ~Busy(g)
  BY DEF TakeJob
<1> HIDE DEF n, r
<1>8. /\ DOMAIN jobs' = DOMAIN jobs
      /\ \A k \in DOMAIN jobs :
            /\ jobs'[k].type = jobs[k].type /\ jobs'[k].cancel = jobs[k].cancel
            /\ jobs'[k].due = jobs[k].due /\ jobs'[k].next = jobs[k].next
      /\ \A k \in DOMAIN jobs \ {n} : jobs'[k] = jobs[k]
      /\ jobs'[n].taker = g
  BY <1>1, <1>2, <1>4 DEF Job
<1>9. run'[g] = r /\ \A h \in Goroutines \ {g} : run'[h] = run[h]
  BY <1>4 DEF Inv, TypeOK
<1>10. \A k \in DOMAIN jobs : jobs[k].taker # g
  BY <1>7 DEF Inv, OneRow
<1>11. RowsOnTime' /\ OneChain'
  BY <1>1, <1>4, <1>8, LocksChained
<1>12. Writes'
  <2>1. \A q, j : Wrote(q, j)' <=> Wrote(q, j)
    BY <1>4, SameWrites
  <2>2. ASSUME NEW k \in DOMAIN jobs, NEW h \in Goroutines, jobs'[k].taker = h
        PROVE  Wrote(run'[h], jobs'[k])
    <3>1. CASE k = n
      <4>1. h = g
        BY <2>2, <3>1, <1>8
      <4> QED
        BY <4>1, <1>6, <1>9 DEF Wrote
    <3>2. CASE k # n
      <4>1. jobs'[k] = jobs[k] /\ h # g
        BY <2>2, <3>2, <1>8, <1>10
      <4> QED
        BY <4>1, <2>2, <1>9 DEF Chained, Writes
    <3> QED
      BY <3>1, <3>2
  <2> QED
    BY <2>1, <2>2, <1>8 DEF Writes
<1>13. ChannelLock'
  BY <1>6, <1>9 DEF Chained, ChannelLock
<1>14. Swept'
  <2> SUFFICES ASSUME NEW k \in DOMAIN jobs, NEW h \in Goroutines, jobs'[k].taker = h,
                      jobs[k].type = "UPDATE_CHANNEL", run'[h].pc \in {"sweep", "done"},
                      NEW m \in DOMAIN jobs, jobs[m].type = "CREATE_ROUND"
               PROVE  h \in jobs[m].cancel
    BY <1>8 DEF Swept
  <2>1. h # g
    BY <1>6, <1>9
  <2>2. k # n
    BY <2>1, <1>8
  <2> QED
    BY <2>1, <2>2, <1>8, <1>9 DEF Chained, Swept
<1>15. Sweeping'
  <2>1. \A k \in DOMAIN jobs : g \notin jobs[k].cancel
    BY <1>7 DEF Inv, SweepsHeld, Busy
  <2> QED
    BY <2>1, <1>8, <1>9 DEF Chained, Sweeping
<1> QED
  BY <1>11, <1>12, <1>13, <1>14, <1>15 DEF Chained

LEMMA BeginSweepChained ==
  ASSUME Inv, Chained, NEW g \in Goroutines, BeginSweep(g)
  PROVE  Chained'
<1>1. Busy(g) /\ run[g].pc \in {"updated", "exec"}
  BY DEF BeginSweep, Runs
<1>2. PICK n \in DOMAIN jobs : /\ jobs[n].taker = g /\ JobOf(g) = jobs[n] /\ jobs[n] \in Job
                               /\ Wrote(run[g], jobs[n]) /\ RowOnTime(jobs[n])
  BY <1>1, ChainedRow
<1>3. jobs[n].type = "UPDATE_CHANNEL" /\ run[g].pc = "updated"
  BY <1>2 DEF BeginSweep, Runs, RowOnTime
<1>4. /\ run[g] \in Run /\ run[g].found = 0 /\ Quiet(run[g])
      /\ run[g].chan = "update" /\ run[g].next = jobs[n].next
  BY <1>2, <1>3, RunTyped DEF Wrote
<1> DEFINE r == [run[g] EXCEPT !.pc = "sweep"]
<1>5. r.pc = "sweep" /\ r.found = 0 /\ Quiet(r) /\ r.chan = "update" /\ r.next = jobs[n].next
  BY <1>4 DEF Run, Quiet
<1>6. /\ run' = [run EXCEPT ![g] = r]
      /\ jobs' = [k \in DOMAIN jobs |-> IF jobs[k].type \in {"CREATE_ROUND"}
                                        THEN [jobs[k] EXCEPT !.cancel = @ \cup {g}] ELSE jobs[k]]
      /\ UNCHANGED <<exists, nextRound, rounds, inSlack, now>>
  BY <1>2, <1>3 DEF BeginSweep, Runs, Continue, table
<1> HIDE DEF r
<1>7. \A k \in DOMAIN jobs : jobs[k] \in Job
  BY ElementOfSeq DEF Inv, TypeOK
<1>8. /\ DOMAIN jobs' = DOMAIN jobs
      /\ \A k \in DOMAIN jobs :
            /\ jobs'[k].type = jobs[k].type /\ jobs'[k].taker = jobs[k].taker
            /\ jobs'[k].due = jobs[k].due /\ jobs'[k].next = jobs[k].next
            /\ jobs[k].cancel \subseteq jobs'[k].cancel
            /\ jobs'[k].cancel \subseteq jobs[k].cancel \cup {g}
            /\ jobs[k].type = "CREATE_ROUND" => g \in jobs'[k].cancel
  BY <1>6, <1>7 DEF Job
<1>9. run'[g] = r /\ \A h \in Goroutines \ {g} : run'[h] = run[h]
  BY <1>6 DEF Inv, TypeOK
<1>10. \A k \in DOMAIN jobs : jobs[k].taker = g => k = n
  BY <1>2, RoundsAssumption DEF Inv, OneRow
<1>11. RowsOnTime' /\ OneChain'
  BY <1>6, <1>8, LocksChained
<1>12. Writes'
  <2>1. \A q, j : Wrote(q, j)' <=> Wrote(q, j)
    BY <1>6, SameWrites
  <2>2. ASSUME NEW k \in DOMAIN jobs, NEW h \in Goroutines, jobs'[k].taker = h
        PROVE  Wrote(run'[h], jobs'[k])
    <3>1. jobs[k].taker = h
      BY <2>2, <1>8
    <3>2. Wrote(run'[h], jobs[k])
      <4>1. CASE h = g
        <5>1. k = n
          BY <4>1, <3>1, <1>10
        <5> QED
          BY <4>1, <5>1, <1>5, <1>9 DEF Wrote
      <4>2. CASE h # g
        BY <4>2, <3>1, <1>9 DEF Chained, Writes
      <4> QED
        BY <4>1, <4>2
    <3> QED
      BY <3>2, <1>8, SameJobWritten
  <2> QED
    BY <2>1, <2>2, <1>8 DEF Writes
<1>13. ChannelLock'
  BY <1>4, <1>5, <1>9 DEF Chained, ChannelLock
<1>14. Swept'
  <2> SUFFICES ASSUME NEW k \in DOMAIN jobs, NEW h \in Goroutines, jobs[k].taker = h,
                      jobs[k].type = "UPDATE_CHANNEL", run'[h].pc \in {"sweep", "done"},
                      NEW m \in DOMAIN jobs, jobs[m].type = "CREATE_ROUND"
               PROVE  h \in jobs'[m].cancel
    BY <1>8 DEF Swept
  <2>1. CASE h = g
    BY <2>1, <1>8
  <2>2. CASE h # g
    BY <2>2, <1>8, <1>9 DEF Chained, Swept
  <2> QED
    BY <2>1, <2>2
<1>15. Sweeping'
  <2> SUFFICES ASSUME NEW k \in DOMAIN jobs, NEW h \in Goroutines, h \in jobs'[k].cancel
               PROVE  run'[h].chan = "update" /\ ~run'[h].starts
    BY <1>8 DEF Sweeping
  <2>1. CASE h = g
    BY <2>1, <1>5, <1>9 DEF Quiet
  <2>2. CASE h # g
    BY <2>2, <1>8, <1>9 DEF Chained, Sweeping
  <2> QED
    BY <2>1, <2>2
<1> QED
  BY <1>11, <1>12, <1>13, <1>14, <1>15 DEF Chained

LEMMA FailChained ==
  ASSUME Inv, Chained, NEW g \in Goroutines, Fail(g)
  PROVE  Chained'
<1>1. /\ run' = [run EXCEPT ![g] = NoRun] /\ jobs' = Released(g, jobs)
      /\ UNCHANGED <<exists, nextRound, rounds, inSlack, now>>
  BY DEF Fail, table
<1>2. NoRun.pc = "idle" /\ NoRun.chan = "keep"
  BY NoRunTyped
<1>3. \A k \in DOMAIN jobs : jobs[k] \in Job
  BY ElementOfSeq DEF Inv, TypeOK
<1>4. /\ DOMAIN jobs' = DOMAIN jobs
      /\ \A k \in DOMAIN jobs : jobs'[k] = Unlocked(g, jobs[k])
  BY <1>1 DEF Released
<1>5. \A j \in Job :
        /\ Unlocked(g, j).type = j.type
        /\ Unlocked(g, j).due = j.due /\ Unlocked(g, j).next = j.next
        /\ Unlocked(g, j).taker = IF j.taker = g THEN Nobody ELSE j.taker
        /\ Unlocked(g, j).cancel = j.cancel \ {g}
  BY UnlockedRow
<1>6. \A k \in DOMAIN jobs :
         /\ jobs'[k].type = jobs[k].type
         /\ jobs'[k].due = jobs[k].due /\ jobs'[k].next = jobs[k].next
         /\ jobs'[k].taker = IF jobs[k].taker = g THEN Nobody ELSE jobs[k].taker
         /\ jobs'[k].cancel = jobs[k].cancel \ {g}
  BY <1>3, <1>4, <1>5
<1>7. run'[g] = NoRun /\ \A h \in Goroutines \ {g} : run'[h] = run[h]
  BY <1>1 DEF Inv, TypeOK
<1>8. \A k \in DOMAIN jobs, h \in Goroutines : jobs'[k].taker = h => jobs[k].taker = h /\ h # g
  BY <1>6, RoundsAssumption
<1>9. RowsOnTime' /\ OneChain'
  BY <1>1, <1>4, <1>6, LocksChained
<1>10. Writes'
  <2>1. \A q, j : Wrote(q, j)' <=> Wrote(q, j)
    BY <1>1, SameWrites
  <2>2. ASSUME NEW k \in DOMAIN jobs, NEW h \in Goroutines, jobs'[k].taker = h
        PROVE  Wrote(run'[h], jobs'[k])
    <3>1. Wrote(run'[h], jobs[k])
      BY <2>2, <1>7, <1>8 DEF Chained, Writes
    <3> QED
      BY <3>1, <1>6, SameJobWritten
  <2> QED
    BY <2>1, <2>2, <1>4 DEF Writes
<1>11. ChannelLock'
  BY <1>2, <1>7 DEF Chained, ChannelLock
<1>12. Swept'
  <2> SUFFICES ASSUME NEW k \in DOMAIN jobs, NEW h \in Goroutines, jobs'[k].taker = h,
                      jobs[k].type = "UPDATE_CHANNEL", run'[h].pc \in {"sweep", "done"},
                      NEW m \in DOMAIN jobs, jobs[m].type = "CREATE_ROUND"
               PROVE  h \in jobs'[m].cancel
    BY <1>4, <1>6 DEF Swept
  <2>1. jobs[k].taker = h /\ h # g
    BY <1>8
  <2>2. h \in jobs[m].cancel
    BY <2>1, <1>7 DEF Chained, Swept
  <2> QED
    BY <2>1, <2>2, <1>6
<1>13. Sweeping'
  BY <1>4, <1>6, <1>7 DEF Chained, Sweeping
<1> QED
  BY <1>9, <1>10, <1>11, <1>12, <1>13 DEF Chained

\* No time passes while a job is due: the rows that are left are in the future.
LEMMA AdvanceChained ==
  ASSUME Inv, Chained, Prompt, Advance
  PROVE  Chained'
<1>1. /\ now' = now + 1 /\ UNCHANGED <<exists, nextRound, rounds, jobs, run, inSlack>>
      /\ Available = {} /\ \A g \in Goroutines : ~Busy(g)
  BY DEF Advance, table
<1>2. \A k \in DOMAIN jobs : jobs[k] \in Job
  BY ElementOfSeq DEF Inv, TypeOK
<1>3. \A k \in DOMAIN jobs : jobs[k].taker = Nobody /\ now + 1 <= jobs[k].due
  <2> TAKE k \in DOMAIN jobs
  <2>1. jobs[k].taker = Nobody
    BY <1>1, <1>2 DEF Inv, OneRow, Job
  <2>2. ~LockedFor(Nobody, jobs[k])
    BY <1>1, <1>2, <2>1 DEF LockedFor, Job, Busy
  <2>3. ~(jobs[k].due <= now)
    BY <1>1, <2>2 DEF Available
  <2> QED
    BY <2>1, <2>3, <1>2 DEF Job, Inv, TypeOK
<1>4. now \in Nat /\ nextRound \in Nat
  BY DEF Inv, TypeOK
<1>5. RowsOnTime'
  <2> SUFFICES ASSUME NEW k \in DOMAIN jobs PROVE RowOnTime(jobs[k])'
    BY <1>1 DEF RowsOnTime
  <2>1. RowOnTime(jobs[k]) /\ now + 1 <= jobs[k].due
    BY <1>3 DEF Chained, RowsOnTime
  <2>2. jobs[k].type \notin {"ADD_CHANNEL", "UPDATE_CHANNEL"}
    BY <2>1, <1>4 DEF RowOnTime
  <2> QED
    BY <2>1, <2>2, <1>1, <1>3 DEF RowOnTime, Active
<1>6. OneChain'
  <2>1. exists => now + 1 <= nextRound
    <3> SUFFICES ASSUME exists PROVE now + 1 <= nextRound
      OBVIOUS
    <3>1. PICK k \in DOMAIN jobs : jobs[k].type = "CREATE_ROUND"
      BY DEF Chained, OneChain
    <3> QED
      BY <3>1, <1>3 DEF Chained, RowsOnTime, RowOnTime
  <2>2. \A n \in Active : rounds[n].at <= now + 1
    <3> TAKE n \in Active
    <3>1. rounds[n] \in Round /\ rounds[n].at <= now
      BY ElementOfSeq DEF Inv, TypeOK, Active, Chained, OneChain
    <3> QED
      BY <3>1, <1>4 DEF Round
  <2> QED
    BY <2>1, <2>2, <1>1 DEF Chained, OneChain, Single, Active
<1>7. Writes'
  <2>1. \A q, j : Wrote(q, j)' <=> Wrote(q, j)
    BY <1>1, SameWrites
  <2> QED
    BY <2>1, <1>1 DEF Chained, Writes
<1>8. ChannelLock' /\ Swept' /\ Sweeping'
  BY <1>1 DEF Chained, ChannelLock, Swept, Sweeping
<1> QED
  BY <1>5, <1>6, <1>7, <1>8 DEF Chained
-------------------------------------------------------------------------------
(* Commits *)

\* g commits the job of the row own: the rows 1..n were there, at at[x], the
\* others are those it queued.
Frame(g, own, n, at) ==
    /\ jobs[own].taker = g /\ jobs[own] \in Job
    /\ run[g].pc = "done" /\ Wrote(run[g], jobs[own]) /\ RowOnTime(jobs[own]) /\ jobs[own].due <= now
    /\ \A x \in 1..n :
          /\ x \in DOMAIN jobs' /\ at[x] \in DOMAIN jobs \ {own}
          /\ jobs'[x] = jobs[at[x]] /\ g \notin jobs'[x].cancel
    /\ \A x \in DOMAIN jobs' : x \in 1..n \/ \E i \in DOMAIN run[g].adds : x = n + i
    /\ \A i \in DOMAIN run[g].adds :
          /\ n + i \in DOMAIN jobs' /\ n + i \notin 1..n
          /\ jobs'[n + i] = run[g].adds[i] /\ run[g].adds[i] \in NewRow
    /\ \A x, y \in 1..n : at[x] = at[y] => x = y
    /\ \A k \in DOMAIN jobs \ {own} : g \notin jobs[k].cancel => \E x \in 1..n : at[x] = k

LEMMA SameRow ==
  ASSUME NEW g, NEW j \in Job, j.taker # g, g \notin j.cancel
  PROVE  Unlocked(g, j) = j
<1>1. j.cancel \ {g} = j.cancel
  OBVIOUS
<1>2. Unlocked(g, j) = [j EXCEPT !.taker = j.taker, !.cancel = j.cancel]
  BY <1>1 DEF Unlocked
<1> QED
  BY <1>2 DEF Job

Placed(g, r, saved, n, at) ==
    /\ \A x \in 1..n : x \in DOMAIN jobs' /\ at[x] \in DOMAIN jobs /\ at[x] \in Kept(g, saved)
    /\ \A i \in DOMAIN r.adds : n + i \in DOMAIN jobs' /\ n + i \notin 1..n
          /\ jobs'[n + i] = r.adds[i] /\ r.adds[i] \in NewRow
    /\ \A x \in DOMAIN jobs' : x \in 1..n \/ \E i \in DOMAIN r.adds : x = n + i

LEMMA RowsPlaced ==
  ASSUME TypeOK, NEW g \in Goroutines, NEW r \in Run, NEW saved \in BOOLEAN, Finish(g, r, saved)
  PROVE  \E n \in Nat : \E at : LeftOf(g, r, saved, n, at) /\ Placed(g, r, saved, n, at)
<1>1. PICK n \in Nat : \E at : LeftOf(g, r, saved, n, at)
  BY RowsLeft
<1>2. PICK at : LeftOf(g, r, saved, n, at)
  BY <1>1
<1>3. Placed(g, r, saved, n, at)
  BY <1>2, RowOrigin DEF Placed
<1> QED
  BY <1>2, <1>3

LEMMA CommitFrame ==
  ASSUME Inv, Chained, NEW g \in Goroutines, Commit(g)
  PROVE  \E own \in DOMAIN jobs : \E n \in Nat : \E at : Frame(g, own, n, at)
<1>1. Busy(g) /\ run[g].pc = "done" /\ run[g] \in Run /\ Finish(g, run[g], TRUE)
  BY RunTyped DEF Commit, Busy
<1>t. TypeOK /\ DOMAIN jobs \subseteq Nat
  BY DEF Inv, TypeOK
<1>2. PICK own \in DOMAIN jobs :
         /\ jobs[own].taker = g /\ jobs[own] \in Job
         /\ Wrote(run[g], jobs[own]) /\ RowOnTime(jobs[own]) /\ jobs[own].due <= now
  BY <1>1, ChainedRow
<1>3. PICK n \in Nat : \E at : LeftOf(g, run[g], TRUE, n, at) /\ Placed(g, run[g], TRUE, n, at)
  BY <1>1, <1>t, RowsPlaced
<1>4. PICK at : LeftOf(g, run[g], TRUE, n, at) /\ Placed(g, run[g], TRUE, n, at)
  BY <1>3
<1>5. /\ \A x \in 1..n : x \in DOMAIN jobs' /\ at[x] \in DOMAIN jobs /\ at[x] \in Kept(g, TRUE)
      /\ \A i \in DOMAIN run[g].adds : n + i \in DOMAIN jobs' /\ n + i \notin 1..n
            /\ jobs'[n + i] = run[g].adds[i] /\ run[g].adds[i] \in NewRow
      /\ \A x \in DOMAIN jobs' : x \in 1..n \/ \E i \in DOMAIN run[g].adds : x = n + i
  BY <1>4 DEF Placed
<1>6. ASSUME NEW x \in 1..n
      PROVE  at[x] # own /\ jobs'[x] = jobs[at[x]] /\ g \notin jobs'[x].cancel
  <2>1. at[x] \in DOMAIN jobs /\ jobs[at[x]].taker # g /\ g \notin jobs[at[x]].cancel
    BY <1>5 DEF Kept
  <2>2. jobs[at[x]] \in Job
    BY <2>1, ElementOfSeq DEF Inv, TypeOK
  <2>3. jobs'[x] = Unlocked(g, jobs[at[x]])
    BY <1>4 DEF LeftOf
  <2> QED
    BY <2>1, <2>2, <2>3, <1>2, SameRow
<1>7. \A x, y \in 1..n : at[x] = at[y] => x = y
  <2> SUFFICES ASSUME NEW x \in 1..n, NEW y \in 1..n, at[x] = at[y], x # y PROVE FALSE
    OBVIOUS
  <2>1. at[x] \in DOMAIN jobs /\ DOMAIN jobs \subseteq Nat
    BY <1>5, <1>t
  <2>2. at[x] < at[y] \/ at[y] < at[x]
    <3>1. x < y \/ y < x
      OBVIOUS
    <3> QED
      BY <1>4, <3>1 DEF LeftOf
  <2> QED
    BY <2>1, <2>2
<1>8. \A k \in DOMAIN jobs \ {own} : g \notin jobs[k].cancel => \E x \in 1..n : at[x] = k
  <2> TAKE k \in DOMAIN jobs \ {own}
  <2> HAVE g \notin jobs[k].cancel
  <2>1. jobs[k].taker # g
    BY <1>2, RoundsAssumption DEF Inv, OneRow
  <2>2. k \in Kept(g, TRUE)
    BY <2>1 DEF Kept
  <2> QED
    BY <2>2, <1>4 DEF LeftOf
<1>9. Frame(g, own, n, at)
  BY <1>1, <1>2, <1>5, <1>6, <1>7, <1>8 DEF Frame
<1> QED
  BY <1>9

\* What the other transactions have written stays right.
LEMMA OthersChained ==
  ASSUME Inv, Chained, NEW g \in Goroutines, Commit(g),
         NEW own \in DOMAIN jobs, NEW n \in Nat, NEW at, Frame(g, own, n, at),
         run[g].chan # "add" => UNCHANGED exists,
         \A k \in DOMAIN jobs \ {own} :
            jobs[k].type = "END_ROUND" /\ jobs[k].taker \in Goroutines => Active' = Active
  PROVE  Writes' /\ ChannelLock' /\ Swept' /\ Sweeping'
<1>1. run' = [run EXCEPT ![g] = NoRun]
  BY DEF Commit, Finish
<1>2. run'[g] = NoRun /\ \A h \in Goroutines \ {g} : run'[h] = run[h]
  BY <1>1 DEF Inv, TypeOK
<1>3. NoRun.pc = "idle" /\ NoRun.chan = "keep"
  BY NoRunTyped
<1>4. \A i \in DOMAIN run[g].adds : jobs'[n + i].taker = Nobody
  BY DEF Frame, NewRow
<1>5. \A x \in DOMAIN jobs', h \in Goroutines : jobs'[x].taker = h =>
         /\ x \in 1..n /\ at[x] \in DOMAIN jobs \ {own} /\ jobs'[x] = jobs[at[x]] /\ h # g
  <2> TAKE x \in DOMAIN jobs', h \in Goroutines
  <2> HAVE jobs'[x].taker = h
  <2>1. x \in 1..n
    BY <1>4, RoundsAssumption DEF Frame
  <2>2. at[x] \in DOMAIN jobs \ {own} /\ jobs'[x] = jobs[at[x]]
    BY <2>1 DEF Frame
  <2>3. h # g
    BY <2>2, RoundsAssumption DEF Frame, Inv, OneRow
  <2> QED
    BY <2>1, <2>2, <2>3
<1>6. \A h \in Goroutines \ {g} : run[g].chan # "keep" => run[h].chan = "keep"
  BY DEF Chained, ChannelLock
<1>7. Writes'
  <2> SUFFICES ASSUME NEW x \in DOMAIN jobs', NEW h \in Goroutines, jobs'[x].taker = h
               PROVE  Wrote(run[h], jobs[x])'
    BY DEF Writes
  <2>1. /\ at[x] \in DOMAIN jobs \ {own} /\ jobs'[x] = jobs[at[x]] /\ jobs[at[x]].taker = h
        /\ h # g /\ run'[h] = run[h]
    BY <1>2, <1>5
  <2>2. Wrote(run[h], jobs[at[x]])
    BY <2>1 DEF Chained, Writes
  <2>3. Enables(run[h], jobs[at[x]]) => UNCHANGED exists
    BY <1>6, <2>1 DEF Enables
  <2>4. Ends(run[h], jobs[at[x]]) => Active' = Active
    BY <2>1 DEF Ends
  <2>5. \A r, j :
          /\ Nothing(r, j)' <=> Nothing(r, j)
          /\ UNCHANGED exists => (Enables(r, j)' <=> Enables(r, j))
          /\ Reschedules(r, j)' <=> Reschedules(r, j)
          /\ Starts(r, j)' <=> Starts(r, j)
          /\ Active' = Active => (Ends(r, j)' <=> Ends(r, j))
    BY DEF Nothing, Enables, Reschedules, Starts, Ends, Quiet, CreateRoundJob, EndRoundJob, NewJob
  <2>6. \A r, j : Wrote(r, j) /\ (Enables(r, j) => Enables(r, j)') /\ (Ends(r, j) => Ends(r, j)')
                     => Wrote(r, j)'
    BY <2>5 DEF Wrote, Quiet
  <2> QED
    BY <2>1, <2>2, <2>3, <2>4, <2>5, <2>6
<1>8. ChannelLock'
  BY <1>2, <1>3 DEF Chained, ChannelLock
<1>9. Swept'
  <2> SUFFICES ASSUME NEW x \in DOMAIN jobs', NEW h \in Goroutines, jobs'[x].taker = h,
                      jobs'[x].type = "UPDATE_CHANNEL", run'[h].pc \in {"sweep", "done"},
                      NEW y \in DOMAIN jobs', jobs'[y].type = "CREATE_ROUND"
               PROVE  h \in jobs'[y].cancel
    BY DEF Swept
  <2>1. at[x] \in DOMAIN jobs \ {own} /\ jobs'[x] = jobs[at[x]] /\ h # g /\ run'[h] = run[h]
    BY <1>2, <1>5
  <2>2. Wrote(run[h], jobs[at[x]])
    BY <2>1 DEF Chained, Writes
  <2>3. run[h].chan = "update"
    BY <2>1, <2>2 DEF Wrote, Nothing, Enables, Reschedules, Starts, Ends
  <2>4. run[g].chan = "keep"
    BY <1>6, <2>1, <2>3
  <2>5. run[g].adds = <<>>
    BY <2>4 DEF Frame, Wrote, Nothing, Enables, Reschedules, Starts, Ends
  <2>6. y \in 1..n /\ at[y] \in DOMAIN jobs /\ jobs'[y] = jobs[at[y]]
    <3>1. DOMAIN run[g].adds = {}
      BY <2>5
    <3> QED
      BY <3>1 DEF Frame
  <2> QED
    BY <2>1, <2>6 DEF Chained, Swept
<1>10. Sweeping'
  <2> SUFFICES ASSUME NEW x \in DOMAIN jobs', NEW h \in Goroutines, h \in jobs'[x].cancel
               PROVE  run'[h].chan = "update" /\ ~run'[h].starts
    BY DEF Sweeping
  <2>1. x \in 1..n
    BY DEF Frame, NewRow
  <2>2. at[x] \in DOMAIN jobs /\ h \in jobs[at[x]].cancel /\ h # g
    BY <2>1 DEF Frame
  <2> QED
    BY <2>2, <1>2 DEF Chained, Sweeping
<1> QED
  BY <1>7, <1>8, <1>9, <1>10

\* A transaction that ends no round leaves the rounds as they are.
LEMMA RoundsKept ==
  ASSUME TypeOK, NEW r, r.found = 0, r.ends = {}
  PROVE  RoundsWritten(r) = rounds
<1>1. rounds \in Seq(Round) /\ DOMAIN rounds = 1..Len(rounds) /\ Len(rounds) \in Nat
  BY DEF TypeOK
<1>2. \A k \in DOMAIN rounds : RoundsWritten(r)[k] = rounds[k]
  <2> TAKE k \in DOMAIN rounds
  <2> DEFINE m == IF k = r.found /\ r.matching /\ rounds[k].matchings < 2
                  THEN rounds[k].matchings + 1 ELSE rounds[k].matchings
             e == rounds[k].ended \/ k \in r.ends
  <2>1. rounds[k] \in Round
    BY <1>1, ElementOfSeq
  <2>2. m = rounds[k].matchings /\ e = rounds[k].ended
    BY <1>1, <2>1 DEF Round
  <2>3. RoundsWritten(r)[k] = [rounds[k] EXCEPT !.ended = e, !.matchings = m]
    BY DEF RoundsWritten
  <2> HIDE DEF m, e
  <2> QED
    BY <2>1, <2>2, <2>3 DEF Round
<1>3. RoundsWritten(r) = [k \in DOMAIN rounds |-> RoundsWritten(r)[k]]
  BY DEF RoundsWritten
<1> QED
  BY <1>1, <1>2, <1>3

\* END_ROUND marks the active round as ended.
LEMMA RoundEnded ==
  ASSUME TypeOK, NEW r, r.found = 0, NEW a \in Active, \A b \in Active : b = a, r.ends = Active
  PROVE  RoundsWritten(r) = [rounds EXCEPT ![a].ended = TRUE]
<1>1. rounds \in Seq(Round) /\ DOMAIN rounds = 1..Len(rounds) /\ Len(rounds) \in Nat
  BY DEF TypeOK
<1> DEFINE after == [rounds EXCEPT ![a].ended = TRUE]
<1>2. \A k \in DOMAIN rounds : RoundsWritten(r)[k] = after[k]
  <2> TAKE k \in DOMAIN rounds
  <2> DEFINE m == IF k = r.found /\ r.matching /\ rounds[k].matchings < 2
                  THEN rounds[k].matchings + 1 ELSE rounds[k].matchings
             e == rounds[k].ended \/ k \in r.ends
  <2>1. rounds[k] \in Round
    BY <1>1, ElementOfSeq
  <2>2. m = rounds[k].matchings
    BY <1>1
  <2>7. k = a => e = TRUE
    OBVIOUS
  <2>8. k # a => e = rounds[k].ended
    <3>1. k # a => k \notin r.ends
      OBVIOUS
    <3> QED
      BY <3>1, <2>1 DEF Round
  <2>3. RoundsWritten(r)[k] = [rounds[k] EXCEPT !.ended = e, !.matchings = m]
    BY DEF RoundsWritten
  <2> HIDE DEF m, e
  <2>4. after[k] = IF k = a THEN [rounds[k] EXCEPT !.ended = TRUE] ELSE rounds[k]
    OBVIOUS
  <2> HIDE DEF after
  <2>5. CASE k = a
    <3>1. RoundsWritten(r)[k] = [rounds[k] EXCEPT !.ended = TRUE]
      BY <2>1, <2>2, <2>7, <2>3, <2>5 DEF Round
    <3> QED
      BY <2>4, <2>5, <3>1
  <2>6. CASE k # a
    <3>1. RoundsWritten(r)[k] = rounds[k]
      BY <2>1, <2>2, <2>8, <2>3, <2>6 DEF Round
    <3> QED
      BY <2>4, <2>6, <3>1
  <2> QED
    BY <2>5, <2>6
<1>3. RoundsWritten(r) = [k \in DOMAIN rounds |-> RoundsWritten(r)[k]]
  BY DEF RoundsWritten
<1>4. after = [k \in DOMAIN rounds |-> after[k]]
  OBVIOUS
<1> HIDE DEF after
<1>5. RoundsWritten(r) = after
  BY <1>2, <1>3, <1>4
<1> QED
  BY <1>5 DEF after

\* What a commit writes to the tables of the channel and its rounds.
LEMMA TablesWritten ==
  ASSUME NEW g, NEW r, NEW saved, Finish(g, r, saved)
  PROVE  /\ UNCHANGED <<inSlack, now>>
         /\ r.chan = "keep" => UNCHANGED <<exists, nextRound>>
         /\ r.chan = "add" => exists' = TRUE /\ nextRound' = r.next
         /\ r.chan = "update" /\ exists => UNCHANGED exists /\ nextRound' = r.next
         /\ r.chan # "delete" /\ ~r.starts => rounds' = RoundsWritten(r)
         /\ r.chan # "delete" /\ r.starts => rounds' = Append(RoundsWritten(r), RoundInserted(r))
  BY DEF Finish, RoundsAfter

\* Of the rows that were there, those that stay in time.
LEMMA KeptOnTime ==
  ASSUME Inv, Chained, NEW g, NEW own \in DOMAIN jobs, NEW n \in Nat, NEW at, Frame(g, own, n, at)
  PROVE  \A x \in 1..n : RowOnTime(jobs'[x])
  BY DEF Frame, Chained, RowsOnTime

\* The rows that were there stay single.
LEMMA KeptSingle ==
  ASSUME Inv, Chained, NEW g, NEW own \in DOMAIN jobs, NEW n \in Nat, NEW at, Frame(g, own, n, at)
  PROVE  \A x, y \in 1..n : \A t \in {"CREATE_ROUND", "END_ROUND"} :
            jobs'[x].type = t /\ jobs'[y].type = t => x = y
<1> SUFFICES ASSUME NEW x \in 1..n, NEW y \in 1..n, NEW t \in {"CREATE_ROUND", "END_ROUND"},
                    jobs'[x].type = t, jobs'[y].type = t
             PROVE  x = y
  OBVIOUS
<1>1. at[x] \in DOMAIN jobs /\ at[y] \in DOMAIN jobs /\ jobs[at[x]].type = t /\ jobs[at[y]].type = t
  BY DEF Frame
<1>2. at[x] = at[y]
  BY <1>1 DEF Chained, OneChain, Single
<1> QED
  BY <1>2 DEF Frame

\* ADD_CHANNEL of a channel that is there already.
LEMMA NothingCommitted ==
  ASSUME Inv, Chained, NEW g \in Goroutines, Commit(g),
         NEW own \in DOMAIN jobs, NEW n \in Nat, NEW at, Frame(g, own, n, at),
         Nothing(run[g], jobs[own])
  PROVE  Chained' /\ UNCHANGED <<exists, nextRound, rounds, now>>
<1> DEFINE r == run[g]
<1>1. r.chan = "keep" /\ r.adds = <<>> /\ ~r.starts /\ r.ends = {} /\ r.found = 0
      /\ jobs[own].type = "ADD_CHANNEL"
  BY DEF Nothing, Quiet, Frame, Wrote
<1>2. UNCHANGED <<exists, nextRound, rounds, inSlack, now>>
  <2>1. Finish(g, r, TRUE)
    BY DEF Commit
  <2>2. RoundsWritten(r) = rounds
    BY <1>1, RoundsKept DEF Inv
  <2> HIDE DEF r
  <2> QED
    BY <1>1, <2>1, <2>2, TablesWritten
<1>3. \A x \in DOMAIN jobs' : x \in 1..n
  BY <1>1 DEF Frame
<1>4. RowsOnTime'
  <2>1. \A q : RowOnTime(q)' <=> RowOnTime(q)
    BY <1>2 DEF RowOnTime, Active
  <2> QED
    BY <1>3, <2>1, KeptOnTime DEF RowsOnTime
<1>5. OneChain'
  <2>1. Single("CREATE_ROUND")' /\ Single("END_ROUND")'
    BY <1>3, KeptSingle DEF Single
  <2>2. exists => \E x \in DOMAIN jobs' : jobs'[x].type = "CREATE_ROUND"
    <3> SUFFICES ASSUME exists PROVE \E x \in DOMAIN jobs' : jobs'[x].type = "CREATE_ROUND"
      OBVIOUS
    <3>1. PICK k \in DOMAIN jobs : jobs[k].type = "CREATE_ROUND"
      BY DEF Chained, OneChain
    <3>2. g \notin jobs[k].cancel
      BY <1>1 DEF Chained, Sweeping
    <3>3. PICK x \in 1..n : at[x] = k
      BY <1>1, <3>1, <3>2 DEF Frame
    <3> QED
      BY <3>1, <3>3 DEF Frame
  <2> QED
    BY <2>1, <2>2, <1>2 DEF Chained, OneChain, Active
<1>6. Writes' /\ ChannelLock' /\ Swept' /\ Sweeping'
  BY <1>2, OthersChained DEF Active
<1> QED
  BY <1>2, <1>4, <1>5, <1>6 DEF Chained

LEMMA EnablesCommitted ==
  ASSUME Inv, Chained, NEW g \in Goroutines, Commit(g),
         NEW own \in DOMAIN jobs, NEW n \in Nat, NEW at, Frame(g, own, n, at),
         Enables(run[g], jobs[own])
  PROVE  /\ Chained' /\ UNCHANGED <<rounds, now>>
         /\ ~exists /\ exists' = TRUE /\ nextRound' = jobs[own].next
<1> DEFINE r == run[g]
           next == jobs[own].next
           j == CreateRoundJob(next)
<1>1. /\ r.chan = "add" /\ ~r.starts /\ r.ends = {} /\ r.found = 0 /\ ~exists
      /\ r.next = next /\ r.adds = <<j>>
  BY DEF Enables, Quiet, Frame, Wrote
<1>2. next \in Nat /\ now <= next
  BY DEF Frame, RowOnTime, Job, Enables
<1> HIDE DEF next
<1>3. /\ j.type = "CREATE_ROUND" /\ j.due = next /\ j.next = next
      /\ j.taker = Nobody /\ j.cancel = {}
  BY <1>2, NewJobTyped DEF CreateRoundJob, RoundJobs
<1> HIDE DEF j
<1>4. UNCHANGED <<rounds, inSlack, now>> /\ exists' = TRUE /\ nextRound' = next
  <2>1. Finish(g, r, TRUE)
    BY DEF Commit
  <2>2. RoundsWritten(r) = rounds
    BY <1>1, RoundsKept DEF Inv
  <2> HIDE DEF r
  <2> QED
    BY <1>1, <2>1, <2>2, TablesWritten
<1>5. rounds = <<>> /\ Active = {} /\ Active' = {}
  <2>1. rounds = <<>>
    BY <1>1 DEF Inv, NoChannelNoRounds
  <2> QED
    BY <2>1, <1>4 DEF Active
<1>6. /\ \A x \in DOMAIN jobs' : x \in 1..n \/ x = n + 1
      /\ n + 1 \in DOMAIN jobs' /\ n + 1 \notin 1..n /\ jobs'[n + 1] = j
  <2>1. DOMAIN r.adds = {1} /\ r.adds[1] = j
    BY <1>1
  <2> QED
    BY <2>1 DEF Frame
<1>7. \A x \in 1..n : RowOnTime(jobs'[x]) /\ jobs'[x].type = "ADD_CHANNEL"
  BY <1>1, KeptOnTime DEF RowOnTime
<1>8. RowsOnTime'
  <2>1. \A q : q.type = "ADD_CHANNEL" /\ RowOnTime(q) => RowOnTime(q)'
    BY <1>4 DEF RowOnTime
  <2>2. \A q : q = j => RowOnTime(q)'
    BY <1>3, <1>4 DEF RowOnTime
  <2>3. \A x \in DOMAIN jobs' : RowOnTime(jobs[x])'
    BY <1>6, <1>7, <2>1, <2>2
  <2> QED
    BY <2>3 DEF RowsOnTime
<1>9. OneChain'
  <2>1. Single("CREATE_ROUND")' /\ Single("END_ROUND")'
    BY <1>3, <1>6, <1>7 DEF Single
  <2> QED
    BY <2>1, <1>2, <1>3, <1>4, <1>5, <1>6 DEF Chained, OneChain
<1>10. Writes' /\ ChannelLock' /\ Swept' /\ Sweeping'
  BY <1>1, <1>5, OthersChained
<1> QED
  BY <1>1, <1>4, <1>8, <1>9, <1>10 DEF Chained, next

\* UPDATE_CHANNEL: the only CREATE_ROUND is the one it has queued.
LEMMA ReschedulesCommitted ==
  ASSUME Inv, Chained, NEW g \in Goroutines, Commit(g),
         NEW own \in DOMAIN jobs, NEW n \in Nat, NEW at, Frame(g, own, n, at),
         Reschedules(run[g], jobs[own])
  PROVE  /\ Chained' /\ UNCHANGED <<rounds, now>>
         /\ exists /\ exists' = TRUE /\ nextRound' = jobs[own].next
<1> DEFINE r == run[g]
           next == jobs[own].next
           j == CreateRoundJob(next)
<1>1. /\ r.chan = "update" /\ ~r.starts /\ r.ends = {} /\ r.found = 0
      /\ r.next = next /\ r.adds = <<j>> /\ jobs[own].type = "UPDATE_CHANNEL"
  BY DEF Reschedules, Quiet, Frame, Wrote
<1>2. next \in Nat /\ now + Interval <= next /\ exists
  BY <1>1 DEF Frame, RowOnTime, Job
<1> HIDE DEF next
<1>3. /\ j.type = "CREATE_ROUND" /\ j.due = next /\ j.next = next
      /\ j.taker = Nobody /\ j.cancel = {}
  BY <1>2, NewJobTyped DEF CreateRoundJob, RoundJobs
<1> HIDE DEF j
<1>4. UNCHANGED <<rounds, inSlack, now>> /\ exists' = exists /\ nextRound' = next
  <2>1. Finish(g, r, TRUE)
    BY DEF Commit
  <2>2. RoundsWritten(r) = rounds
    BY <1>1, RoundsKept DEF Inv
  <2> HIDE DEF r
  <2> QED
    BY <1>1, <1>2, <2>1, <2>2, TablesWritten
<1>5. Active' = Active /\ now \in Nat /\ \A a \in Active : rounds[a].at \in Nat /\ rounds[a].at <= now
  <2>1. \A a \in Active : rounds[a] \in Round
    BY ElementOfSeq DEF Inv, TypeOK, Active
  <2> QED
    BY <2>1, <1>4 DEF Active, Round, Inv, TypeOK, Chained, OneChain
<1>6. /\ \A x \in DOMAIN jobs' : x \in 1..n \/ x = n + 1
      /\ n + 1 \in DOMAIN jobs' /\ n + 1 \notin 1..n /\ jobs'[n + 1] = j
  <2>1. DOMAIN r.adds = {1} /\ r.adds[1] = j
    BY <1>1
  <2> QED
    BY <2>1 DEF Frame
<1>7. \A x \in 1..n : RowOnTime(jobs'[x]) /\ jobs'[x].type # "CREATE_ROUND"
  <2> TAKE x \in 1..n
  <2>1. at[x] \in DOMAIN jobs /\ jobs'[x] = jobs[at[x]] /\ g \notin jobs[at[x]].cancel
    BY DEF Frame
  <2>2. jobs[at[x]].type = "CREATE_ROUND" => g \in jobs[at[x]].cancel
    BY <1>1, <2>1 DEF Frame, Chained, Swept
  <2> QED
    BY <2>1, <2>2, KeptOnTime
<1>8. RowsOnTime'
  <2>1. \A q : q.type # "CREATE_ROUND" /\ RowOnTime(q) => RowOnTime(q)'
    BY <1>4, <1>5 DEF RowOnTime
  <2>2. \A q : q = j => RowOnTime(q)'
    BY <1>2, <1>3, <1>4 DEF RowOnTime
  <2>3. \A x \in DOMAIN jobs' : RowOnTime(jobs[x])'
    BY <1>6, <1>7, <2>1, <2>2
  <2> QED
    BY <2>3 DEF RowsOnTime
<1>9. OneChain'
  <2>1. Single("CREATE_ROUND")'
    BY <1>3, <1>6, <1>7 DEF Single
  <2>2. Single("END_ROUND")'
    BY <1>3, <1>6, KeptSingle DEF Single
  <2>3. now <= next /\ \A a \in Active : rounds[a].at + Interval <= next
    BY <1>2, <1>5, RoundsAssumption
  <2> QED
    BY <2>1, <2>2, <2>3, <1>3, <1>4, <1>5, <1>6 DEF Chained, OneChain
<1>10. Writes' /\ ChannelLock' /\ Swept' /\ Sweeping'
  BY <1>4, <1>5, OthersChained
<1> QED
  BY <1>2, <1>4, <1>8, <1>9, <1>10 DEF Chained, next

\* CREATE_ROUND: the last round is over, this one is drawn once, and the next
\* date and END_ROUND are set.
LEMMA StartsCommitted ==
  ASSUME Inv, Chained, EndBefore > 0, NEW g \in Goroutines, Commit(g),
         NEW own \in DOMAIN jobs, NEW n \in Nat, NEW at, Frame(g, own, n, at),
         Starts(run[g], jobs[own])
  PROVE  /\ Chained' /\ UNCHANGED now
         /\ exists /\ exists' = TRUE /\ nextRound = now /\ nextRound' = nextRound + Interval
         /\ Active = {} /\ rounds' = Append(rounds, [ended |-> FALSE, at |-> now, matchings |-> 1])
<1> DEFINE r == run[g]
           next == jobs[own].next + Interval
           e == EndRoundJob(next)
           c == CreateRoundJob(next)
           new == [ended |-> FALSE, at |-> now, matchings |-> 1]
<1>1. /\ r.chan = "update" /\ r.starts /\ r.matching /\ r.ends = {} /\ r.found = 0
      /\ r.next = next /\ r.adds = <<e, c>> /\ jobs[own].type = "CREATE_ROUND"
  BY DEF Starts, Frame, Wrote
<1>2. Active = {} /\ nextRound = now /\ \A k \in DOMAIN jobs : jobs[k].type # "END_ROUND"
  BY <1>1, NobodyActive DEF Frame
<1>3. jobs[own].next = nextRound /\ exists /\ now \in Nat
  BY <1>1 DEF Frame, RowOnTime, Inv, TypeOK
<1>4. next \in Nat /\ next = now + Interval
  BY <1>2, <1>3, RoundsAssumption
<1> HIDE DEF next
<1>5. /\ c.type = "CREATE_ROUND" /\ c.due = next /\ c.next = next /\ c.taker = Nobody
      /\ e.type = "END_ROUND" /\ e.due = next - EndBefore /\ e.taker = Nobody
  <2>1. ~(next < EndBefore) /\ next - EndBefore \in Nat
    BY <1>3, <1>4, RoundsAssumption
  <2>2. e = NewJob("END_ROUND", next - EndBefore, next)
    BY <2>1 DEF EndRoundJob
  <2> QED
    BY <2>1, <2>2, <1>4, NewJobTyped DEF CreateRoundJob, RoundJobs
<1> HIDE DEF e, c
<1>6. /\ UNCHANGED <<inSlack, now>> /\ exists' = exists /\ nextRound' = next
      /\ rounds' = Append(rounds, new)
  <2>1. Finish(g, r, TRUE)
    BY DEF Commit
  <2>2. RoundsWritten(r) = rounds
    BY <1>1, RoundsKept DEF Inv
  <2>3. RoundInserted(r) = new
    BY <1>1 DEF RoundInserted
  <2> HIDE DEF r, new
  <2> QED
    BY <1>1, <1>3, <2>1, <2>2, <2>3, TablesWritten
<1>7. /\ \A x \in DOMAIN jobs' : x \in 1..n \/ x = n + 1 \/ x = n + 2
      /\ n + 1 \in DOMAIN jobs' /\ n + 1 \notin 1..n /\ jobs'[n + 1] = e
      /\ n + 2 \in DOMAIN jobs' /\ n + 2 \notin 1..n /\ jobs'[n + 2] = c
  <2>1. DOMAIN r.adds = {1, 2} /\ r.adds[1] = e /\ r.adds[2] = c
    BY <1>1
  <2> QED
    BY <2>1 DEF Frame
<1>8. \A x \in 1..n : RowOnTime(jobs'[x]) /\ jobs'[x].type \notin {"CREATE_ROUND", "END_ROUND"}
  <2> TAKE x \in 1..n
  <2>1. at[x] \in DOMAIN jobs \ {own} /\ jobs'[x] = jobs[at[x]]
    BY DEF Frame
  <2>2. jobs[at[x]].type # "CREATE_ROUND"
    BY <1>1, <2>1 DEF Chained, OneChain, Single
  <2> QED
    BY <1>2, <2>1, <2>2, KeptOnTime
<1>9. /\ Len(rounds) \in Nat /\ Active' = {Len(rounds) + 1}
      /\ rounds'[Len(rounds) + 1] = new
  <2>1. rounds \in Seq(Round)
    BY DEF Inv, TypeOK
  <2>2. /\ DOMAIN rounds' = 1..(Len(rounds) + 1) /\ Len(rounds) \in Nat
        /\ \A k \in DOMAIN rounds : rounds'[k] = rounds[k]
        /\ rounds'[Len(rounds) + 1] = new
    <3> HIDE DEF new
    <3> QED
      BY <2>1, <1>6
  <2>3. \A k \in DOMAIN rounds : rounds[k].ended
    BY <1>2 DEF Active
  <2>4. \A k \in DOMAIN rounds' : k \in DOMAIN rounds \/ k = Len(rounds) + 1
    BY <2>1, <2>2
  <2>5. Len(rounds) + 1 \in DOMAIN rounds' /\ ~new.ended
    BY <2>2
  <2> HIDE DEF new
  <2> QED
    BY <2>2, <2>3, <2>4, <2>5 DEF Active
<1>10. RowsOnTime'
  <2>1. \A q : q.type \notin {"CREATE_ROUND", "END_ROUND"} /\ RowOnTime(q) => RowOnTime(q)'
    BY <1>6 DEF RowOnTime
  <2>2. \A q : q = c => RowOnTime(q)'
    BY <1>3, <1>5, <1>6 DEF RowOnTime
  <2>3. \A q : q = e => RowOnTime(q)'
    <3>1. now <= e.due /\ e.due + EndBefore = now + Interval
      BY <1>3, <1>4, <1>5, RoundsAssumption
    <3>2. rounds'[Len(rounds) + 1].at = now
      BY <1>9
    <3> QED
      BY <3>1, <3>2, <1>3, <1>5, <1>6, <1>9 DEF RowOnTime
  <2>4. \A x \in DOMAIN jobs' : RowOnTime(jobs[x])'
    BY <1>7, <1>8, <2>1, <2>2, <2>3
  <2> QED
    BY <2>4 DEF RowsOnTime
<1>11. OneChain'
  <2>1. Single("CREATE_ROUND")' /\ Single("END_ROUND")'
    BY <1>5, <1>7, <1>8 DEF Single
  <2>2. now <= next /\ \A a \in Active' : rounds'[a].at = now /\ rounds'[a].at + Interval <= next
    BY <1>3, <1>4, <1>9, RoundsAssumption
  <2>3. \A a, b \in Active' : a = b
    BY <1>9
  <2>4. \E x \in DOMAIN jobs' : jobs'[x].type = "CREATE_ROUND"
    BY <1>5, <1>7
  <2>5. \A a \in Active' : rounds'[a].at <= now
    BY <2>2, <1>3
  <2> QED
    BY <2>1, <2>2, <2>3, <2>4, <2>5, <1>6 DEF Chained, OneChain
<1>12. Writes' /\ ChannelLock' /\ Swept' /\ Sweeping'
  BY <1>2, <1>6, OthersChained
<1> QED
  BY <1>2, <1>3, <1>4, <1>6, <1>10, <1>11, <1>12 DEF Chained

\* END_ROUND: the active round ends, not before its time.
LEMMA EndsCommitted ==
  ASSUME Inv, Chained, NEW g \in Goroutines, Commit(g),
         NEW own \in DOMAIN jobs, NEW n \in Nat, NEW at, Frame(g, own, n, at),
         Ends(run[g], jobs[own])
  PROVE  /\ Chained' /\ UNCHANGED <<exists, nextRound, now>>
         /\ \E a \in Active : /\ rounds[a].at + Interval <= now + EndBefore
                              /\ rounds' = [rounds EXCEPT ![a].ended = TRUE]
<1> DEFINE r == run[g]
<1>1. /\ r.chan = "keep" /\ r.adds = <<>> /\ ~r.starts /\ r.ends = Active /\ r.found = 0
      /\ jobs[own].type = "END_ROUND"
  BY DEF Ends, Frame, Wrote
<1>2. PICK a \in Active : jobs[own].due + EndBefore = rounds[a].at + Interval
  BY <1>1 DEF Frame, RowOnTime
<1>3. \A b \in Active : b = a
  BY DEF Chained, OneChain
<1>4. rounds[a].at + Interval <= now + EndBefore
  <2>1. jobs[own].due \in Nat /\ jobs[own].due <= now /\ now \in Nat
    BY DEF Frame, Job, Inv, TypeOK
  <2> QED
    BY <2>1, <1>2, RoundsAssumption
<1>5. UNCHANGED <<exists, nextRound, inSlack, now>> /\ rounds' = [rounds EXCEPT ![a].ended = TRUE]
  <2>1. Finish(g, r, TRUE)
    BY DEF Commit
  <2>2. RoundsWritten(r) = [rounds EXCEPT ![a].ended = TRUE]
    BY <1>1, <1>3, RoundEnded DEF Inv
  <2> HIDE DEF r
  <2> QED
    BY <1>1, <2>1, <2>2, TablesWritten
<1>6. Active' = {}
  <2>1. rounds[a] \in Round
    BY ElementOfSeq DEF Inv, TypeOK, Active
  <2>2. /\ DOMAIN rounds' = DOMAIN rounds /\ rounds'[a].ended
        /\ \A k \in DOMAIN rounds \ {a} : rounds'[k] = rounds[k]
    BY <1>5, <2>1 DEF Round, Active
  <2> QED
    BY <1>3, <2>2 DEF Active
<1>7. \A x \in DOMAIN jobs' : x \in 1..n
  BY <1>1 DEF Frame
<1>8. \A x \in 1..n : RowOnTime(jobs'[x]) /\ jobs'[x].type # "END_ROUND"
  <2> TAKE x \in 1..n
  <2>1. at[x] \in DOMAIN jobs \ {own} /\ jobs'[x] = jobs[at[x]]
    BY DEF Frame
  <2>2. jobs[at[x]].type # "END_ROUND"
    BY <1>1, <2>1 DEF Chained, OneChain, Single
  <2> QED
    BY <2>1, <2>2, KeptOnTime
<1>9. RowsOnTime'
  <2>1. \A q : q.type # "END_ROUND" /\ RowOnTime(q) => RowOnTime(q)'
    BY <1>5 DEF RowOnTime
  <2>2. \A x \in DOMAIN jobs' : RowOnTime(jobs[x])'
    BY <1>7, <1>8, <2>1
  <2> QED
    BY <2>2 DEF RowsOnTime
<1>10. OneChain'
  <2>1. Single("CREATE_ROUND")' /\ Single("END_ROUND")'
    BY <1>7, KeptSingle DEF Single
  <2>2. ASSUME exists PROVE \E x \in DOMAIN jobs' : jobs'[x].type = "CREATE_ROUND"
    <3>1. PICK k \in DOMAIN jobs : jobs[k].type = "CREATE_ROUND"
      BY <2>2 DEF Chained, OneChain
    <3>2. g \notin jobs[k].cancel
      BY <1>1 DEF Chained, Sweeping
    <3>3. PICK x \in 1..n : at[x] = k
      BY <1>1, <3>1, <3>2 DEF Frame
    <3> QED
      BY <3>1, <3>3 DEF Frame
  <2> QED
    BY <2>1, <2>2, <1>5, <1>6 DEF Chained, OneChain
<1>11. Writes' /\ ChannelLock' /\ Swept' /\ Sweeping'
  <2>1. \A k \in DOMAIN jobs \ {own} : jobs[k].type # "END_ROUND"
    BY <1>1 DEF Chained, OneChain, Single
  <2> QED
    BY <2>1, <1>5, OthersChained
<1> QED
  BY <1>4, <1>5, <1>9, <1>10, <1>11 DEF Chained

LEMMA DatesStayShown ==
  ASSUME TypeOK', Chained'
  PROVE  DueDates' = IF exists' THEN <<nextRound'>> ELSE <<>>
<1>1. (TypeOK /\ Chained => (DueDates = IF exists THEN <<nextRound>> ELSE <<>>))'
  BY DatesAreShown, PTL
<1> QED
  BY <1>1

\* Every step keeps what is known of the chain, and is one of the chain or none.
ChainStep == [Chain!Next]_Chain!chainVars

\* A step that writes neither table and takes no time is none of the chain.
LEMMA SameTables ==
  ASSUME Inv, Chained, Inv', Chained', UNCHANGED <<exists, nextRound, rounds, now>>
  PROVE  ChainStep
<1>1. DueDates' = DueDates
  BY DatesAreShown, DatesStayShown DEF Inv
<1> QED
  BY <1>1 DEF ChainStep, Chain!chainVars

LEMMA CommitChained ==
  ASSUME Inv, Chained, EndBefore > 0, NEW g \in Goroutines, Commit(g), Inv'
  PROVE  Chained' /\ ChainStep
<1>1. PICK own \in DOMAIN jobs : \E n \in Nat : \E at : Frame(g, own, n, at)
  BY CommitFrame
<1>2. PICK n \in Nat : \E at : Frame(g, own, n, at)
  BY <1>1
<1>3. PICK at : Frame(g, own, n, at)
  BY <1>2
<1>4. \/ Nothing(run[g], jobs[own]) \/ Enables(run[g], jobs[own]) \/ Reschedules(run[g], jobs[own])
      \/ Starts(run[g], jobs[own]) \/ Ends(run[g], jobs[own])
  BY <1>3 DEF Frame, Wrote
<1>5. DueDates = IF exists THEN <<nextRound>> ELSE <<>>
  BY DatesAreShown DEF Inv
<1>6. now \in Nat /\ nextRound \in Nat /\ nextRound' \in Nat
  BY DEF Inv, TypeOK
<1>7. CASE Nothing(run[g], jobs[own])
  <2>1. Chained' /\ UNCHANGED <<exists, nextRound, rounds, now>>
    BY <1>3, <1>7, NothingCommitted
  <2> QED
    BY <2>1, SameTables
<1>8. CASE Enables(run[g], jobs[own])
  <2>1. Chained' /\ UNCHANGED <<rounds, now>> /\ ~exists /\ exists' = TRUE
    BY <1>3, <1>8, EnablesCommitted
  <2>2. DueDates = <<>> /\ DueDates' = <<nextRound'>>
    BY <2>1, <1>5, DatesStayShown DEF Inv
  <2>3. Chain!Enable
    BY <2>1, <2>2, <1>6 DEF Chain!Enable
  <2> QED
    BY <2>1, <2>3 DEF ChainStep, Chain!Next
<1>9. CASE Reschedules(run[g], jobs[own])
  <2>1. Chained' /\ UNCHANGED <<rounds, now>> /\ exists /\ exists' = TRUE
    BY <1>3, <1>9, ReschedulesCommitted
  <2>2. DueDates = <<nextRound>> /\ DueDates' = <<nextRound'>>
    BY <2>1, <1>5, DatesStayShown DEF Inv
  <2>3. Chain!Reschedule
    BY <2>1, <2>2, <1>6 DEF Chain!Reschedule
  <2> QED
    BY <2>1, <2>3 DEF ChainStep, Chain!Next
<1>10. CASE Starts(run[g], jobs[own])
  <2>1. /\ Chained' /\ UNCHANGED now
        /\ exists /\ exists' = TRUE /\ nextRound = now /\ nextRound' = nextRound + Interval
        /\ Active = {} /\ rounds' = Append(rounds, [ended |-> FALSE, at |-> now, matchings |-> 1])
    BY <1>3, <1>10, StartsCommitted
  <2>2. DueDates = <<nextRound>> /\ DueDates' = <<nextRound'>>
    BY <2>1, <1>5, DatesStayShown DEF Inv
  <2>3. \A k \in DOMAIN rounds : rounds[k].ended
    BY <2>1 DEF Active
  <2>4. Len(DueDates) = 1 /\ DueDates[1] = nextRound
    BY <2>2
  <2>5. Chain!StartRound
    BY <2>1, <2>2, <2>3, <2>4, <1>6 DEF Chain!StartRound, Chain!Started
  <2> QED
    BY <2>1, <2>5 DEF ChainStep, Chain!Next
<1>11. CASE Ends(run[g], jobs[own])
  <2>1. /\ Chained' /\ UNCHANGED <<exists, nextRound, now>>
        /\ \E a \in Active : /\ rounds[a].at + Interval <= now + EndBefore
                             /\ rounds' = [rounds EXCEPT ![a].ended = TRUE]
    BY <1>3, <1>11, EndsCommitted
  <2>2. DueDates' = DueDates
    BY <2>1, <1>5, DatesStayShown DEF Inv
  <2>3. Chain!EndRound
    BY <2>1, <2>2 DEF Chain!EndRound, Active
  <2> QED
    BY <2>1, <2>3 DEF ChainStep, Chain!Next
<1> QED
  BY <1>4, <1>7, <1>8, <1>9, <1>10, <1>11

LEMMA StepChained ==
  ASSUME Inv, Chained, OnTime, [Next]_vars, Inv'
  PROVE  Chained' /\ ChainStep
<1>1. ASSUME NEW g \in Goroutines, Step(g), ~Commit(g)
      PROVE  Chained' /\ UNCHANGED <<exists, nextRound, rounds, now>>
  <2>1. CASE TakeJob(g)
    BY <2>1, TakeJobChained DEF TakeJob, Continue, table
  <2>2. CASE AddChannel(g)
    BY <2>2, AddChannelChained DEF AddChannel, Continue, table
  <2>3. CASE CheckMembership(g)
    BY <2>3, CheckMembershipChained DEF CheckMembership, Continue, table
  <2>4. CASE StartRound(g)
    BY <2>4, StartRoundChained DEF StartRound, Continue, table, OnTime
  <2>5. CASE ScheduleNext(g)
    BY <2>5, ScheduleNextChained DEF ScheduleNext, Continue, table
  <2>6. CASE EndRound(g)
    BY <2>6, EndRoundChained DEF EndRound, Continue, table
  <2>7. CASE UpdateChannel(g)
    BY <2>7, UpdateChannelChained DEF UpdateChannel, Continue, table
  <2>8. CASE BeginSweep(g)
    BY <2>8, BeginSweepChained DEF BeginSweep, Continue, table
  <2>9. CASE EndSweep(g)
    BY <2>9, EndSweepChained DEF EndSweep, Continue, table
  <2>10. CASE DeleteChannel(g)
    BY <2>10, NoDeleteChannel DEF DeleteChannel
  <2>11. CASE CommitUnsaved(g) \/ CutShort(g)
    BY <2>11 DEF CommitUnsaved, CutShort, OnTime
  <2>12. CASE Fail(g)
    BY <2>12, FailChained DEF Fail, table
  <2> QED
    BY <1>1, <2>1, <2>2, <2>3, <2>4, <2>5, <2>6, <2>7, <2>8, <2>9, <2>10, <2>11, <2>12 DEF Step
<1>2. ASSUME NEW g \in Goroutines, Commit(g) PROVE Chained' /\ ChainStep
  BY <1>2, CommitChained DEF OnTime
<1>3. ASSUME NEW next \in 0..MaxTime, AdminEnables(next) \/ AdminReschedules(next)
      PROVE  Chained' /\ UNCHANGED <<exists, nextRound, rounds, now>>
  <2>1. next \in Nat /\ nextRound \in Nat /\ now \in Nat
    BY RoundsAssumption DEF Inv, TypeOK
  <2>2. CASE AdminEnables(next)
    BY <2>1, <2>2, RequestChained DEF AdminEnables, Request, table
  <2>3. CASE AdminReschedules(next)
    <3>1. exists /\ nextRound + Interval <= next /\ Request("UPDATE_CHANNEL", next)
      BY <2>3 DEF AdminReschedules, OnTime
    <3>2. now <= nextRound
      BY <3>1 DEF Chained, OneChain
    <3>3. now + Interval <= next
      BY <2>1, <3>1, <3>2, RoundsAssumption
    <3> QED
      BY <2>1, <3>1, <3>3, RequestChained DEF Request, table
  <2> QED
    BY <1>3, <2>2, <2>3
<1>4. ~SyncChannels /\ ~BotMoves
  BY DEF SyncChannels, BotMoves, OnTime, Chained, OneChain
<1>5. ASSUME Advance PROVE Chained' /\ ChainStep
  <2>1. Chained'
    BY <1>5, AdvanceChained DEF OnTime
  <2>2. now' = now + 1 /\ UNCHANGED <<exists, nextRound, rounds>>
    BY <1>5 DEF Advance, table
  <2>3. DueDates' = DueDates
    BY <2>1, <2>2, DatesAreShown, DatesStayShown DEF Inv
  <2> QED
    BY <2>1, <2>2, <2>3 DEF ChainStep, Chain!Next, Chain!Pass
<1>6. ASSUME UNCHANGED vars PROVE Chained' /\ UNCHANGED <<exists, nextRound, rounds, now>>
  <2>1. UNCHANGED <<exists, nextRound, rounds, jobs, run, inSlack, now>>
    BY <1>6 DEF vars
  <2>2. \A q, j : Wrote(q, j)' <=> Wrote(q, j)
    BY <2>1, SameWrites
  <2>3. \A q : RowOnTime(q)' <=> RowOnTime(q)
    BY <2>1 DEF RowOnTime, Active
  <2> QED
    BY <2>1, <2>2, <2>3 DEF Chained, RowsOnTime, OneChain, Single, Active, Writes,
       ChannelLock, Swept, Sweeping
<1> QED
  BY <1>1, <1>2, <1>3, <1>4, <1>5, <1>6, SameTables DEF Next
-------------------------------------------------------------------------------
LEMMA ChainInvariance == OnTime /\ Spec => [](Inv /\ Chained)
<1>1. OnTime => OnTime'
  BY DEF OnTime
<1>2. OnTime /\ Inv /\ Chained /\ [Next]_vars => (Inv /\ Chained)'
  BY NextInv, StepChained
<1>3. Init => Inv /\ Chained
  BY InitInv, InitChained
<1> QED
  BY <1>1, <1>2, <1>3, PTL DEF Spec

\* While the worker keeps up, and nothing ends the process or moves a round before
\* the end of the last, every step of the jobs of a channel is one of RoundChain or
\* shows nothing: CREATE_ROUND (job_create_round.go:46) starts one round, draws it
\* once and sets the date of the next in one step, on the date shown and after
\* END_ROUND has ended the last round. Nothing else starts, draws or ends one.
THEOREM RoundsImplementChain == OnTime /\ Spec => ImplementsChain
<1>1. Init => Chain!Init
  <2> SUFFICES ASSUME Init PROVE Chain!Init
    OBVIOUS
  <2>1. DueDates = <<>>
    BY InitInv, InitChained, DatesAreShown DEF Inv, Init
  <2> QED
    BY <2>1 DEF Init, Chain!Init
<1>2. OnTime /\ Inv /\ Chained /\ [Next]_vars => [Chain!Next]_Chain!chainVars
  BY NextInv, StepChained DEF ChainStep
<1>3. OnTime => OnTime'
  BY DEF OnTime
<1> QED
  BY <1>1, <1>2, <1>3, ChainInvariance, PTL DEF Spec, ImplementsChain, Chain!Spec
-------------------------------------------------------------------------------
(* The dates of rounds, for months of every length *)

\* The first such weekday of the next month is in its first week, whole weeks away.
LEMMA FirstWeekdayFound ==
  ASSUME NEW L \in MonthLengths, NEW d \in 1..L
  PROVE  /\ FirstWeekday(L, d) \in 1..7
         /\ \E k \in 0..5 : L - d + FirstWeekday(L, d) = 7 * k
  BY DEF FirstWeekday, MonthLengths

LEMMA OrdinalFound ==
  ASSUME NEW d \in 1..31
  PROVE  Ordinal(d) \in 1..5 /\ 7 * (Ordinal(d) - 1) < d /\ d <= 7 * Ordinal(d)
  BY DEF Ordinal

\* A monthly channel has its rounds four or five weeks apart, on the same weekday,
\* in months of any length: even the fifth occurrence, which the next month may not
\* have, is neither closer nor further away.
THEOREM MonthlyGap ==
  ASSUME NEW L \in MonthLengths, NEW M \in MonthLengths, NEW d \in 1..L
  PROVE  DaysToNextRound(30, L, M, d) \in {28, 35}
<1> DEFINE f == FirstWeekday(L, d)
           o == Ordinal(d)
<1>1. d \in 1..31
  BY DEF MonthLengths
<1>2. PICK k \in 0..5 : L - d + f = 7 * k
  BY FirstWeekdayFound
<1>3. f \in 1..7
  BY FirstWeekdayFound
<1>4. o \in 1..5 /\ 7 * (o - 1) < d /\ d <= 7 * o
  BY <1>1, OrdinalFound
<1>5. DaysToNextRound(30, L, M, d) = 7 * k + (NextOrdinal(L, M, d) - 1) * 7
  BY <1>2, <1>3, <1>4 DEF DaysToNextRound, NextMonth, NextOrdinal, MonthLengths
<1>6. CASE NextOrdinal(L, M, d) = o
  <2>1. k + o - 1 \in {4, 5}
    BY <1>2, <1>3, <1>4 DEF MonthLengths
  <2> QED
    BY <1>4, <1>5, <1>6, <2>1
<1>7. CASE NextOrdinal(L, M, d) = 5 /\ o = 4 /\ f + 28 <= M
  <2>1. k = 1
    BY <1>2, <1>3, <1>4, <1>7 DEF MonthLengths
  <2> QED
    BY <1>5, <1>7, <2>1
<1> QED
  BY <1>6, <1>7 DEF NextOrdinal, Occurrences

\* The first, second and third weekday of a month stay the first, second and third;
\* what the admin is told is the last one is the last of the next month, unless it
\* was the fifth and the next month has four: the round is then in the month after.
THEOREM OccurrenceKept ==
  ASSUME NEW L \in MonthLengths, NEW M \in MonthLengths, NEW d \in 1..L
  PROVE  /\ Ordinal(d) <= 3 =>
               NextMonth(L, M, d) \in 1..M /\ Ordinal(NextMonth(L, M, d)) = Ordinal(d)
         /\ Ordinal(d) = 4 => NextMonth(L, M, d) \in M - 6 .. M
         /\ Ordinal(d) = 5 /\ Occurrences(M, FirstWeekday(L, d)) = 5 =>
               NextMonth(L, M, d) \in M - 6 .. M
         /\ Ordinal(d) = 5 /\ Occurrences(M, FirstWeekday(L, d)) = 4 =>
               NextMonth(L, M, d) \in M + 1 .. M + 7
<1> DEFINE f == FirstWeekday(L, d)
           o == Ordinal(d)
<1>1. f \in 1..7
  BY FirstWeekdayFound
<1>2. o \in 1..5
  BY OrdinalFound DEF MonthLengths
<1>3. ASSUME o <= 3
      PROVE  NextMonth(L, M, d) \in 1..M /\ Ordinal(NextMonth(L, M, d)) = o
  <2>1. NextMonth(L, M, d) = f + (o - 1) * 7
    BY <1>2, <1>3 DEF NextMonth, NextOrdinal
  <2> QED
    BY <1>1, <1>2, <1>3, <2>1 DEF MonthLengths, Ordinal
<1>4. ASSUME o \in {4, 5}
      PROVE  NextMonth(L, M, d) =
               IF o = 5 \/ Occurrences(M, f) = 5 THEN f + 28 ELSE f + 21
  BY <1>1, <1>4 DEF NextMonth, NextOrdinal
<1> QED
  BY <1>1, <1>2, <1>3, <1>4 DEF Occurrences, MonthLengths

\* From one round to the next there is at least a week, whatever the interval: the
\* jobs that are due hours before the next round are queued for the future.
THEOREM RoundsApart ==
  ASSUME NEW i \in Intervals, NEW L \in MonthLengths, NEW M \in MonthLengths, NEW d \in 1..L
  PROVE  DaysToNextRound(i, L, M, d) \in 7..35
  BY MonthlyGap DEF DaysToNextRound, Intervals

\* The first round is on the weekday asked for, within the next seven days.
THEOREM WeekdayFound ==
  ASSUME NEW from \in 0..6, NEW to \in 0..6
  PROVE  DaysToWeekday(from, to) \in 1..7 /\ (from + DaysToWeekday(from, to)) % 7 = to
  BY DEF DaysToWeekday

\* The check-in in the middle of a round is after its start and at least a day
\* before its end, so before the last check-in 18 hours before it, if two days
\* were left: MidPoint moves the middle by less than a day.
THEOREM CheckInsInOrder ==
  ASSUME NEW t1 \in Nat, NEW t2 \in Nat, t2 % Hour = 0, t2 - t1 >= 2 * Day
  PROVE  t1 < MidPoint(t1, t2) /\ MidPoint(t1, t2) <= t2 - Day
<1> DEFINE middle == t1 + (t2 - t1) \div 2
           a == middle \div Day
           b == t2 \div Day
           h == t2 % Day
<1>1. middle \in Nat /\ t1 + Day <= middle /\ middle <= t2 - Day
  BY DEF Day, Hour
<1>2. a \in Nat /\ a * Day <= middle /\ middle < a * Day + Day
  BY <1>1 DEF Day, Hour
<1>3. b \in Nat /\ h \in 0 .. Day - 1 /\ t2 = b * Day + h
  BY DEF Day, Hour
<1>4. (h \div Hour) * Hour = h
  BY <1>3 DEF Day, Hour
<1>5. MidPoint(t1, t2) = a * Day + h
  BY <1>4 DEF MidPoint
<1>6. a < b
  BY <1>1, <1>2, <1>3 DEF Day, Hour
<1> QED
  BY <1>1, <1>2, <1>3, <1>5, <1>6 DEF Day, Hour
===============================================================================
