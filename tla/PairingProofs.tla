---------------------------- MODULE PairingProofs -----------------------------
(***************************************************************************)
(* Proofs about the pairing of the members of a channel, for any number of *)
(* members and goroutines, whatever fails, is cut short, is retried or runs*)
(* side by side. A round is drawn once, unless a shutdown keeps its job,   *)
(* because time does not pass while it is due (DrawnOnce); what a          *)
(* transaction has decided stays right until it commits (Decisions); and a *)
(* match has a job, until it has an outcome.                               *)
(***************************************************************************)
EXTENDS Pairing, TableProofs

BusyOnes == {g \in Goroutines : Busy(g)}

\* A transaction has locked one row, which is due; there is nothing else to undo.
Locks ==
    /\ OneRowEach(jobs, Goroutines, BusyOnes)
    /\ \A k \in DOMAIN jobs : jobs[k].taker # Nobody => jobs[k].due
    /\ \A g \in Goroutines : ~Busy(g) => run[g] = NoRun

\* What the parameters of a job refer to.
Params(j) ==
    /\ j.type \in {"CREATE_PAIR", "NOTIFY_PAIR"} => j.arg \in DOMAIN matches
    /\ j.type = "NOTIFY_MEMBER" => j.who \in Members /\ j.arg \in 1..round
    /\ j.type \in {"CREATE_MATCH", "UPDATE_MEMBER", "DELETE_MEMBER"} => j.who \in Members
    /\ j.type = "CREATE_MATCHES" => j.who = NoMember /\ round > 0 /\ j.due
ParamsOK == \A k \in DOMAIN jobs : Params(jobs[k])

\* The round is not drawn while its CREATE_MATCHES is there, unless it is redrawn, and
\* there is only one.
DrawnOnce == \A k \in DOMAIN jobs : jobs[k].type = "CREATE_MATCHES" =>
    /\ \A n \in DOMAIN jobs : jobs[n].type = "CREATE_MATCHES" => n = k
    /\ \A m \in DOMAIN matches :
          matches[m].late = NoMember => matches[m].round < round \/ round \in redrawn

\* Two members; neither is refused by the other, but for the partner of a late one.
Fits(e, who) == \E u, v \in Members :
    /\ e = {u, v} /\ u # v /\ <<u, v>> \notin Refuses
    /\ who = NoMember => <<v, u>> \notin Refuses
    /\ who # NoMember => who = u
Disjoint(d) == \A e, f \in d : e # f => e \cap f = {}

\* The pairs the transaction r has decided on.
Chosen(r) == IF r.pc = "found" THEN {r.ends} ELSE r.pairs

\* What the transaction r of the job j has decided.
Decision(r, j) ==
    /\ r.pc = "draw" => j.type = "CREATE_MATCHES"
    /\ r.pc = "pair" => j.type = "CREATE_PAIR"
    /\ r.pc \in {"found", "refused"} => j.type = "CREATE_MATCH"
    /\ j.type \notin {"CREATE_MATCHES", "CREATE_MATCH"} => r.pairs = {}
    /\ j.type # "CREATE_MATCHES" => r.alone = {}
    /\ j.type \in {"CREATE_MATCHES", "CREATE_MATCH"} => \A e \in Chosen(r) : Fits(e, j.who)
    /\ Chosen(r) # {} => round > 0
    /\ j.type = "CREATE_MATCHES" => Disjoint(r.pairs)
    /\ j.type = "CREATE_PAIR" =>
          /\ r.ends \subseteq matches[j.arg].ends
          /\ r.pc = "exec" => r.ends = {}
          /\ r.pc = "done" /\ r.ends # {} => r.ends = matches[j.arg].ends
          /\ r.pc = "done" /\ r.ends = {} => \E u \in matches[j.arg].ends : ~Present(u)
Decisions == \A k \in DOMAIN jobs, g \in Goroutines :
    jobs[k].taker = g => Decision(run[g], jobs[k])

\* The matches of the past and the present rounds.
Drawn(m) == matches[m].late = NoMember
MatchesOK ==
    /\ \A m \in DOMAIN matches : matches[m].round \in 1..round /\ Fits(matches[m].ends, matches[m].late)
    /\ \A m, n \in DOMAIN matches :
          /\ m # n /\ Drawn(m) /\ Drawn(n)
          /\ matches[m].round = matches[n].round /\ matches[m].round \notin redrawn
          => matches[m].ends \cap matches[n].ends = {}
PairingsOK == \A p \in pairings : p[2] \in matches[p[1]].ends

Inv ==
    /\ TypeOK /\ Locks /\ ParamsOK /\ DrawnOnce /\ Decisions
    /\ MatchesOK /\ PairingsOK /\ PairingsWhole /\ Informed
-------------------------------------------------------------------------------
(* Rows and transactions *)

LEMMA JobOfRow ==
  ASSUME OneRowEach(jobs, Goroutines, BusyOnes), NEW g \in Goroutines,
         NEW k \in DOMAIN jobs, jobs[k].taker = g
  PROVE  JobOf(g) = jobs[k]
<1>1. jobs[k] \in Pending
  BY DEF Pending
<1>2. JobOf(g) \in Pending /\ JobOf(g).taker = g
  BY <1>1 DEF JobOf
<1>3. PICK m \in DOMAIN jobs : JobOf(g) = jobs[m]
  BY <1>2 DEF Pending
<1> QED
  BY <1>2, <1>3 DEF OneRowEach

LEMMA RowOfBusy ==
  ASSUME Inv, NEW g \in Goroutines, Busy(g)
  PROVE  /\ run[g] \in Run /\ JobOf(g) \in Job /\ Decision(run[g], JobOf(g)) /\ Params(JobOf(g))
         /\ \E k \in DOMAIN jobs : jobs[k].taker = g /\ JobOf(g) = jobs[k]
         /\ \A k \in DOMAIN jobs : jobs[k].taker = g => JobOf(g) = jobs[k]
<1>1. PICK k \in DOMAIN jobs : jobs[k].taker = g
  BY DEF Inv, Locks, OneRowEach, BusyOnes
<1>2. \A m \in DOMAIN jobs : jobs[m].taker = g => JobOf(g) = jobs[m]
  BY JobOfRow DEF Inv, Locks
<1>3. jobs[k] \in Job
  BY ElementOfSeq DEF Inv, TypeOK
<1>4. Decision(run[g], jobs[k])
  BY <1>1 DEF Inv, Decisions
<1>5. Params(jobs[k])
  BY DEF Inv, ParamsOK
<1>6. run[g] \in Run
  BY DEF Inv, TypeOK
<1> QED
  BY <1>1, <1>2, <1>3, <1>4, <1>5, <1>6

\* The elements of a finite set have an order.
LEMMA ListingOrders ==
  ASSUME NEW S, IsFiniteSet(S)
  PROVE  /\ Cardinality(S) \in Nat
         /\ Listing(S) \in [1..Cardinality(S) -> S]
         /\ \A i, j \in 1..Cardinality(S) : Listing(S)[i] = Listing(S)[j] => i = j
         /\ \A x \in S : \E i \in 1..Cardinality(S) : Listing(S)[i] = x
<1> DEFINE n == Cardinality(S)
           P(s) == s \in [1..n -> S] /\ \A i, j \in DOMAIN s : s[i] = s[j] => i = j
<1>1. n \in Nat /\ ExistsBijection(1..n, S)
  BY FS_CardinalityType
<1>2. PICK f : f \in Bijection(1..n, S)
  BY <1>1 DEF ExistsBijection
<1>3. P(f)
  BY <1>2 DEF Bijection, Injection, IsInjective
<1>4. Listing(S) \in [1..n -> S] /\ \A i, j \in DOMAIN Listing(S) : Listing(S)[i] = Listing(S)[j] => i = j
  BY <1>3 DEF Listing
<1> DEFINE s == Listing(S)
<1> HIDE DEF n, s
<1>5. s \in [1..n -> S] /\ \A i, j \in 1..n : s[i] = s[j] => i = j
  BY <1>4 DEF s
<1>6. IsFiniteSet(1..n) /\ Cardinality(1..n) = n
  BY <1>1, FS_Interval
<1>7. s \in Injection(1..n, S)
  BY <1>5 DEF Injection, IsInjective
<1>8. s \in Surjection(1..n, S)
  BY <1>6, <1>7, FS_Injection DEF n
<1>9. \A x \in S : \E i \in 1..n : s[i] = x
  BY <1>8 DEF Surjection
<1> QED
  BY <1>1, <1>5, <1>9 DEF n, s

LEMMA MembersFinite == 
  ASSUME NEW r \in Run
  PROVE  IsFiniteSet(r.pairs) /\ IsFiniteSet(r.alone)
<1>1. IsFiniteSet(SUBSET Members) /\ IsFiniteSet(Members)
  BY PairingAssumption, FS_SUBSET
<1>2. r.pairs \subseteq SUBSET Members /\ r.alone \subseteq Members
  BY DEF Run
<1> QED
  BY <1>1, <1>2, FS_Subset

LEMMA NextJobAvailable ==
  ASSUME TypeOK, Available # {}
  PROVE  NextJob \in Available
<1> DEFINE p == [k \in Available |-> Priority(jobs[k].type)]
<1>1. Available \subseteq Nat
  BY DEF Available, TypeOK
<1>2. p \in [Available -> 0..10]
  BY DEF Priority, Highest, High, Standard, Low, Lowest
<1> HIDE DEF p
<1>3. PICK x \in Available : \A m \in Available \ {x} : p[x] > p[m] \/ (p[x] = p[m] /\ x < m)
  BY <1>1, <1>2, FirstInLine
<1>4. \E y \in Available : \A m \in Available \ {y} :
         \/ Priority(jobs[y].type) > Priority(jobs[m].type)
         \/ Priority(jobs[y].type) = Priority(jobs[m].type) /\ y < m
  BY <1>3 DEF p
<1> QED
  BY <1>4 DEF NextJob

LEMMA NoRunTyped == NoRun \in Run /\ NoRun.pc = "idle" /\ NoRun.pairs = {} /\ NoRun.alone = {} /\ NoRun.ends = {}
  BY DEF NoRun, Run

LEMMA InitInv == Init => Inv
<1> SUFFICES ASSUME Init PROVE Inv
  OBVIOUS
<1>1. TypeOK
  BY NoRunTyped, EmptySeq, PairingAssumption DEF Init, TypeOK
<1>2. DOMAIN jobs = {} /\ DOMAIN matches = {} /\ BusyOnes = {}
  BY EmptySeq, NoRunTyped DEF Init, BusyOnes, Busy
<1> QED
  BY <1>1, <1>2, NoRunTyped DEF Init, Inv, Locks, OneRowEach, ParamsOK, DrawnOnce, Decisions,
     MatchesOK, PairingsOK, PairingsWhole, Informed
-------------------------------------------------------------------------------
(* Steps that write no data *)

LEMMA DataKept ==
  ASSUME MatchesOK, PairingsOK, UNCHANGED <<member, matches, pairings, redrawn>>,
         round \in Nat, round' \in Nat, round <= round'
  PROVE  MatchesOK' /\ PairingsOK'
<1>1. \A x \in 1..round : x \in 1..round'
  OBVIOUS
<1>2. MatchesOK'
  BY <1>1 DEF MatchesOK, Drawn
<1> QED
  BY <1>2 DEF PairingsOK

\* No NOTIFY_PAIR is queued and no CREATE_PAIR is lost.
LEMMA WholeKept ==
  ASSUME PairingsWhole, UNCHANGED <<member, matches, pairings>>, DOMAIN jobs \subseteq DOMAIN jobs',
         \A k \in DOMAIN jobs : jobs'[k].type = jobs[k].type /\ jobs'[k].arg = jobs[k].arg,
         \A k \in DOMAIN jobs' \ DOMAIN jobs : jobs'[k].type # "NOTIFY_PAIR"
  PROVE  PairingsWhole'
<1>1. \A m \in DOMAIN matches : Introduced(m)' => Introduced(m)
  <2> SUFFICES ASSUME NEW m \in DOMAIN matches, NEW k \in DOMAIN jobs',
                      jobs'[k].type = "NOTIFY_PAIR", jobs'[k].arg = m
               PROVE  Introduced(m)
    BY DEF Introduced, Pending
  <2>1. k \in DOMAIN jobs /\ jobs[k].type = "NOTIFY_PAIR" /\ jobs[k].arg = m
    OBVIOUS
  <2> QED
    BY <2>1 DEF Introduced, Pending
<1>2. ASSUME NEW m, \E j \in Pending : j.type = "CREATE_PAIR" /\ j.arg = m
      PROVE  \E j \in Pending' : j.type = "CREATE_PAIR" /\ j.arg = m
  <2>1. PICK k \in DOMAIN jobs : jobs[k].type = "CREATE_PAIR" /\ jobs[k].arg = m
    BY <1>2 DEF Pending
  <2>2. jobs'[k] \in Pending' /\ jobs'[k].type = "CREATE_PAIR" /\ jobs'[k].arg = m
    BY <2>1 DEF Pending
  <2> QED
    BY <2>2
<1>3. \A m, u : (Present(u)' <=> Present(u)) /\ (Has(m, u)' <=> Has(m, u))
  BY DEF Present, Has
<1> QED
  BY <1>1, <1>2, <1>3 DEF PairingsWhole

LEMMA HearingKept ==
  ASSUME Informed, UNCHANGED <<told, drawn, member, matches>>, DOMAIN jobs \subseteq DOMAIN jobs',
         \A k \in DOMAIN jobs : /\ jobs'[k].type = jobs[k].type
                                /\ jobs'[k].who = jobs[k].who /\ jobs'[k].arg = jobs[k].arg
  PROVE  Informed'
<1>1. ASSUME NEW r, NEW u, HearsOf(r, u) PROVE HearsOf(r, u)'
  <2>1. CASE <<r, u>> \in told
    BY <2>1 DEF HearsOf
  <2>2. CASE \E j \in Pending : j.type = "NOTIFY_MEMBER" /\ j.who = u /\ j.arg = r
    <3>1. PICK k \in DOMAIN jobs : jobs[k].type = "NOTIFY_MEMBER" /\ jobs[k].who = u /\ jobs[k].arg = r
      BY <2>2 DEF Pending
    <3>2. jobs'[k] \in Pending'
      BY DEF Pending
    <3> QED
      BY <3>1, <3>2 DEF HearsOf
  <2>3. CASE \E m \in DOMAIN matches :
                /\ matches[m].round = r /\ u \in matches[m].ends
                /\ matches[m].notified
                   \/ \E j \in Pending : j.type \in {"CREATE_PAIR", "NOTIFY_PAIR"} /\ j.arg = m
    <3>1. PICK m \in DOMAIN matches :
                /\ matches[m].round = r /\ u \in matches[m].ends
                /\ matches[m].notified
                   \/ \E k \in DOMAIN jobs : jobs[k].type \in {"CREATE_PAIR", "NOTIFY_PAIR"} /\ jobs[k].arg = m
      BY <2>3 DEF Pending
    <3>2. \A k \in DOMAIN jobs : jobs'[k] \in Pending'
      BY DEF Pending
    <3> QED
      BY <3>1, <3>2 DEF HearsOf
  <2> QED
    BY <1>1, <2>1, <2>2, <2>3 DEF HearsOf
<1> SUFFICES ASSUME NEW d \in drawn
             PROVE  \/ HearsOf(d[1], d[2])'
                    \/ \E m \in DOMAIN matches : /\ matches[m].round = d[1] /\ d[2] \in matches[m].ends
                                                 /\ \E v \in matches[m].ends : ~Present(v)'
  BY DEF Informed
<1>2. \A v : Present(v)' <=> Present(v)
  BY DEF Present
<1> QED
  BY <1>1, <1>2 DEF Informed

\* The transaction of g goes on with r.
LEMMA MovesInv ==
  ASSUME Inv, NEW g \in Goroutines, NEW r \in Run, Continue(g, r), Busy(g), r.pc # "idle",
         Decision(r, JobOf(g))
  PROVE  Inv'
<1>1. /\ run' = [run EXCEPT ![g] = r] /\ run \in [Goroutines -> Run]
      /\ UNCHANGED <<member, blocks, matches, pairings, told, drawn, redrawn, round, half, jobs,
                      panicked, events>>
  BY DEF Continue, data, Inv, TypeOK
<1>2. run'[g] = r /\ \A h \in Goroutines \ {g} : run'[h] = run[h]
  BY <1>1
<1>3. TypeOK'
  BY <1>1 DEF Inv, TypeOK
<1>4. Locks'
  <2>1. BusyOnes' = BusyOnes
    BY <1>2 DEF BusyOnes, Busy
  <2> QED
    BY <2>1, <1>1, <1>2 DEF Inv, Locks, Busy
<1>5. ParamsOK' /\ DrawnOnce'
  BY <1>1 DEF Inv, ParamsOK, Params, DrawnOnce
<1>6. Decisions'
  <2> SUFFICES ASSUME NEW k \in DOMAIN jobs, NEW h \in Goroutines, jobs[k].taker = h
               PROVE  Decision(run[h], jobs[k])'
    BY <1>1 DEF Decisions
  <2>1. Decision(run'[h], jobs[k])
    <3>1. CASE h = g
      BY <3>1, <1>2, RowOfBusy
    <3>2. CASE h # g
      BY <3>2, <1>2 DEF Inv, Decisions
    <3> QED
      BY <3>1, <3>2
  <2> QED
    BY <2>1, <1>1 DEF Decision, Chosen, Present
<1>7. MatchesOK' /\ PairingsOK' /\ PairingsWhole' /\ Informed'
  BY <1>1, DataKept, WholeKept, HearingKept DEF Inv, TypeOK
<1> QED
  BY <1>3, <1>4, <1>5, <1>6, <1>7 DEF Inv

LEMMA WaitInv ==
  ASSUME Inv, NEW g \in Goroutines, WaitOnMemberJobs(g)
  PROVE  Inv'
<1> DEFINE r == [run[g] EXCEPT !.pc = "draw"]
<1>1. Busy(g) /\ run[g].pc = "exec" /\ JobOf(g).type = "CREATE_MATCHES" /\ Continue(g, r)
  BY DEF WaitOnMemberJobs, Runs, Busy
<1>2. run[g] \in Run /\ Decision(run[g], JobOf(g))
  BY <1>1, RowOfBusy
<1>3. /\ r \in Run /\ r.pc = "draw" /\ r.pairs = run[g].pairs /\ r.alone = run[g].alone
      /\ Chosen(r) = Chosen(run[g])
  BY <1>1, <1>2 DEF Run, Chosen
<1> HIDE DEF r
<1>4. Decision(r, JobOf(g))
  BY <1>1, <1>2, <1>3 DEF Decision
<1> QED
  BY <1>1, <1>3, <1>4, MovesInv

LEMMA PairHasTwo ==
  ASSUME NEW u, NEW v, u # v
  PROVE  Cardinality({u, v}) = 2
<1>1. IsFiniteSet({u}) /\ Cardinality({u}) = 1
  BY FS_Singleton
<1>2. Cardinality({u} \cup {v}) = (IF v \in {u} THEN Cardinality({u}) ELSE Cardinality({u}) + 1)
  BY <1>1, FS_AddElement, Zenon
<1>3. v \notin {u} /\ {u} \cup {v} = {u, v}
  OBVIOUS
<1> QED
  BY <1>1, <1>2, <1>3

\* What the draw returns fits.
LEMMA DrawFits ==
  ASSUME NEW d \in Draws
  PROVE  /\ d \subseteq SUBSET Members /\ Disjoint(d)
         /\ \A e \in d : Fits(e, NoMember)
<1>1. d \in SUBSET {{u, v} : u, v \in Active} /\ Active \subseteq Members /\ Disjoint(d)
  BY DEF Draws, Outcomes, Active, Disjoint
<1>2. ASSUME NEW e \in d
      PROVE  Fits(e, NoMember) /\ e \subseteq Members
  <2>1. PICK a, b \in Active : e = {a, b}
    BY <1>1
  <2>0. PICK u, v \in e : u # v /\ <<u, v>> \in {p \in Active \X Active : Suitable(p[1], p[2])}
    BY DEF Draws, Outcomes
  <2>2. u # v /\ Suitable(u, v)
    BY <2>0
  <2>3. e = {u, v} /\ u \in Members /\ v \in Members
    BY <1>1, <2>1, <2>2
  <2>4. <<u, v>> \notin Refuses /\ <<v, u>> \notin Refuses
    BY <2>2 DEF Suitable
  <2> QED
    BY <2>2, <2>3, <2>4 DEF Fits
<1> QED
  BY <1>1, <1>2

LEMMA DrawInv ==
  ASSUME Inv, NEW g \in Goroutines, DrawMatches(g)
  PROVE  Inv'
<1>1. Busy(g) /\ run[g].pc = "draw" /\ JobOf(g).type = "CREATE_MATCHES"
  BY DEF DrawMatches, Runs, Busy
<1>2. PICK d \in Draws :
        Continue(g, [run[g] EXCEPT !.pc = "done", !.pairs = d, !.alone = Active \ UNION d])
  BY DEF DrawMatches
<1> DEFINE r == [run[g] EXCEPT !.pc = "done", !.pairs = d, !.alone = Active \ UNION d]
<1>3. run[g] \in Run /\ Decision(run[g], JobOf(g)) /\ Params(JobOf(g))
  BY <1>1, RowOfBusy
<1>4. d \subseteq SUBSET Members /\ Disjoint(d) /\ \A e \in d : Fits(e, NoMember)
  BY DrawFits
<1>5. r \in Run /\ r.pc = "done" /\ r.pairs = d /\ Chosen(r) = d /\ Continue(g, r)
  BY <1>2, <1>3, <1>4 DEF Run, Chosen, Active
<1> HIDE DEF r
<1>6. Decision(r, JobOf(g))
  BY <1>1, <1>3, <1>4, <1>5 DEF Decision, Params
<1> QED
  BY <1>1, <1>5, <1>6, MovesInv

LEMMA RefuseInv ==
  ASSUME Inv, NEW g \in Goroutines, RefuseMatch(g)
  PROVE  Inv'
<1>1. Busy(g) /\ run[g].pc = "exec" /\ JobOf(g).type = "CREATE_MATCH"
  BY DEF RefuseMatch, Runs, Busy
<1>2. PICK pc \in {"done", "refused"} : Continue(g, [run[g] EXCEPT !.pc = pc])
  BY DEF RefuseMatch
<1> DEFINE r == [run[g] EXCEPT !.pc = pc]
<1>3. run[g] \in Run /\ Decision(run[g], JobOf(g))
  BY <1>1, RowOfBusy
<1>4. /\ r \in Run /\ r.pc = pc /\ r.pairs = run[g].pairs /\ r.alone = run[g].alone
      /\ Chosen(r) = Chosen(run[g]) /\ Continue(g, r)
  BY <1>1, <1>2, <1>3 DEF Run, Chosen
<1> HIDE DEF r
<1>5. Decision(r, JobOf(g))
  BY <1>1, <1>3, <1>4 DEF Decision
<1> QED
  BY <1>1, <1>4, <1>5, MovesInv

LEMMA FindInv ==
  ASSUME Inv, NEW g \in Goroutines, FindPartner(g)
  PROVE  Inv'
<1> DEFINE u == JobOf(g).who
           r(v) == [run[g] EXCEPT !.pc = "found", !.ends = {u, v}]
           none == [run[g] EXCEPT !.pc = "done"]
<1>1. Busy(g) /\ run[g].pc = "exec" /\ JobOf(g).type = "CREATE_MATCH" /\ round > 0
  BY DEF FindPartner, Runs, Busy
<1>2. run[g] \in Run /\ Decision(run[g], JobOf(g)) /\ Params(JobOf(g))
  BY <1>1, RowOfBusy
<1>3. u \in Members /\ u # NoMember
  BY <1>1, <1>2, PairingAssumption DEF Params
<1>4. CASE Continue(g, none)
  <2>1. /\ none \in Run /\ none.pc = "done" /\ none.pairs = run[g].pairs /\ none.alone = run[g].alone
        /\ Chosen(none) = Chosen(run[g])
    BY <1>1, <1>2 DEF Run, Chosen
  <2> HIDE DEF none
  <2>2. Decision(none, JobOf(g))
    BY <1>1, <1>2, <2>1 DEF Decision
  <2> QED
    BY <1>1, <1>4, <2>1, <2>2, MovesInv
<1>5. ASSUME NEW v \in Active \ (Taken \cup {u}), <<u, v>> \notin Refuses, Continue(g, r(v))
      PROVE  Inv'
  <2>1. v \in Members /\ v # u
    BY <1>5 DEF Active
  <2>2. Fits({u, v}, u)
    BY <1>3, <1>5, <2>1 DEF Fits
  <2>3. /\ r(v) \in Run /\ r(v).pc = "found" /\ r(v).pairs = run[g].pairs /\ r(v).alone = run[g].alone
        /\ Chosen(r(v)) = {{u, v}}
    BY <1>2, <1>3, <2>1 DEF Run, Chosen
  <2> HIDE DEF r
  <2>4. Decision(r(v), JobOf(g))
    BY <1>1, <1>2, <2>2, <2>3 DEF Decision
  <2> QED
    BY <1>1, <1>5, <2>3, <2>4, MovesInv
<1> QED
  BY <1>4, <1>5 DEF FindPartner

LEMMA CheckInv ==
  ASSUME Inv, NEW g \in Goroutines, CheckPending(g)
  PROVE  Inv'
<1>1. Busy(g) /\ run[g].pc = "found"
  BY DEF CheckPending, Busy
<1>2. PICK d \in SUBSET {run[g].ends} : Continue(g, [run[g] EXCEPT !.pc = "done", !.pairs = d])
  BY DEF CheckPending
<1> DEFINE r == [run[g] EXCEPT !.pc = "done", !.pairs = d]
<1>3. run[g] \in Run /\ Decision(run[g], JobOf(g)) /\ JobOf(g).type = "CREATE_MATCH"
  BY <1>1, RowOfBusy DEF Decision
<1>4. Chosen(run[g]) = {run[g].ends}
  BY <1>1 DEF Chosen
<1>5. /\ r \in Run /\ r.pc = "done" /\ r.pairs = d /\ r.alone = run[g].alone
      /\ Chosen(r) \subseteq Chosen(run[g]) /\ Continue(g, r)
  BY <1>2, <1>3, <1>4 DEF Run, Chosen
<1> HIDE DEF r
<1>6. Decision(r, JobOf(g))
  BY <1>3, <1>5 DEF Decision
<1> QED
  BY <1>1, <1>5, <1>6, MovesInv

LEMMA CreatePairInv ==
  ASSUME Inv, NEW g \in Goroutines, CreatePair(g)
  PROVE  Inv'
<1> DEFINE missing == \E u \in matches[JobOf(g).arg].ends : ~Present(u)
           r == [run[g] EXCEPT !.pc = IF missing THEN "done" ELSE "pair"]
<1>1. Busy(g) /\ run[g].pc = "exec" /\ JobOf(g).type = "CREATE_PAIR" /\ Continue(g, r)
  BY DEF CreatePair, Runs, Busy
<1>2. run[g] \in Run /\ Decision(run[g], JobOf(g))
  BY <1>1, RowOfBusy
<1>3. /\ r \in Run /\ r.pc = (IF missing THEN "done" ELSE "pair") /\ r.pairs = run[g].pairs
      /\ r.alone = run[g].alone /\ r.ends = run[g].ends /\ Chosen(r) = Chosen(run[g])
  BY <1>1, <1>2 DEF Run, Chosen
<1> HIDE DEF r
<1>4. Decision(r, JobOf(g))
  BY <1>1, <1>2, <1>3 DEF Decision
<1> QED
  BY <1>1, <1>3, <1>4, MovesInv

LEMMA InsertInv ==
  ASSUME Inv, NEW g \in Goroutines, InsertPairing(g)
  PROVE  Inv'
<1>1. Busy(g) /\ run[g].pc = "pair" /\ JobOf(g).type = "CREATE_PAIR"
  BY DEF InsertPairing, Runs, Busy
<1>2. PICK u \in Unpaired(g) :
        Continue(g, [run[g] EXCEPT !.pc = IF Unpaired(g) = {u} THEN "done" ELSE "pair",
                                  !.ends = @ \cup {u}])
  BY DEF InsertPairing
<1> DEFINE r == [run[g] EXCEPT !.pc = IF Unpaired(g) = {u} THEN "done" ELSE "pair",
                               !.ends = @ \cup {u}]
           ends == matches[JobOf(g).arg].ends
<1>3. run[g] \in Run /\ Decision(run[g], JobOf(g)) /\ Params(JobOf(g))
  BY <1>1, RowOfBusy
<1>4. ends \subseteq Members /\ u \in ends /\ run[g].ends \subseteq ends
  <2>1. JobOf(g).arg \in DOMAIN matches
    BY <1>1, <1>3 DEF Params
  <2>2. Fits(ends, matches[JobOf(g).arg].late)
    BY <2>1 DEF Inv, MatchesOK
  <2>3. run[g].ends \subseteq ends
    BY <1>1, <1>3 DEF Decision
  <2> QED
    BY <2>2, <2>3 DEF Fits, Unpaired
<1>5. /\ r \in Run /\ r.pc = (IF Unpaired(g) = {u} THEN "done" ELSE "pair")
      /\ r.pairs = run[g].pairs /\ r.alone = run[g].alone /\ r.ends = run[g].ends \cup {u}
      /\ Chosen(r) = Chosen(run[g]) /\ Continue(g, r)
  <2> DEFINE pc == IF Unpaired(g) = {u} THEN "done" ELSE "pair"
  <2>1. pc \in {"done", "pair"} /\ run[g].ends \cup {u} \in SUBSET Members
    BY <1>4
  <2>2. r = [run[g] EXCEPT !.pc = pc, !.ends = run[g].ends \cup {u}] /\ Continue(g, r)
    BY <1>2, <1>3 DEF Run
  <2>3. pc = (IF Unpaired(g) = {u} THEN "done" ELSE "pair")
    OBVIOUS
  <2> HIDE DEF pc, r
  <2>4. /\ r \in Run /\ r.pc = pc /\ r.pairs = run[g].pairs /\ r.alone = run[g].alone
        /\ r.ends = run[g].ends \cup {u}
    BY <1>3, <2>1, <2>2 DEF Run
  <2>5. Chosen(r) = Chosen(run[g])
    BY <1>1, <2>1, <2>4 DEF Chosen
  <2> QED
    BY <2>2, <2>3, <2>4, <2>5
<1> HIDE DEF r
<1>6. r.pc = "done" => r.ends = ends
  BY <1>4, <1>5 DEF Unpaired
<1>7. Decision(r, JobOf(g))
  BY <1>1, <1>3, <1>4, <1>5, <1>6 DEF Decision
<1> QED
  BY <1>1, <1>5, <1>7, MovesInv

\* NOTIFY_PAIR and NOTIFY_MEMBER write nothing that others read before the
\* commit; UPDATE_MEMBER and DELETE_MEMBER lock the member.
LEMMA OtherJobsInv ==
  ASSUME Inv, NEW g \in Goroutines, NotifyPair(g) \/ NotifyMember(g) \/ ChangeMember(g)
  PROVE  Inv'
<1>1. /\ Busy(g) /\ run[g].pc = "exec"
      /\ JobOf(g).type \in {"NOTIFY_PAIR", "NOTIFY_MEMBER", "UPDATE_MEMBER", "DELETE_MEMBER"}
  BY DEF NotifyPair, NotifyMember, ChangeMember, Runs, Busy
<1>2. run[g] \in Run /\ Decision(run[g], JobOf(g)) /\ Params(JobOf(g))
  BY <1>1, RowOfBusy
<1>3. \E ends \in SUBSET Members : Continue(g, [run[g] EXCEPT !.pc = "done", !.ends = ends])
  <2>1. CASE NotifyPair(g) \/ NotifyMember(g)
    <3>1. [run[g] EXCEPT !.pc = "done"] = [run[g] EXCEPT !.pc = "done", !.ends = run[g].ends]
      BY <1>2 DEF Run
    <3>2. run[g].ends \in SUBSET Members
      BY <1>2 DEF Run
    <3> QED
      BY <2>1, <3>1, <3>2 DEF NotifyPair, NotifyMember
  <2>2. CASE ChangeMember(g)
    <3>1. JobOf(g).who \in Members
      BY <1>2, <2>2 DEF ChangeMember, Runs, Params
    <3> QED
      BY <2>2, <3>1 DEF ChangeMember
  <2> QED
    BY <2>1, <2>2
<1>4. PICK ends \in SUBSET Members : Continue(g, [run[g] EXCEPT !.pc = "done", !.ends = ends])
  BY <1>3
<1> DEFINE r == [run[g] EXCEPT !.pc = "done", !.ends = ends]
<1>5. /\ r \in Run /\ r.pc = "done" /\ r.pairs = run[g].pairs /\ r.alone = run[g].alone
      /\ Chosen(r) = Chosen(run[g]) /\ Continue(g, r)
  BY <1>1, <1>2, <1>4 DEF Run, Chosen
<1> HIDE DEF r
<1>6. Decision(r, JobOf(g))
  BY <1>1, <1>2, <1>5 DEF Decision
<1> QED
  BY <1>1, <1>5, <1>6, MovesInv
-------------------------------------------------------------------------------
(* Steps that change rows, but no data *)

\* Locks change hands, jobs become due, and jobs are queued; B are the open
\* transactions, which go on as they were.
LEMMA RowsInv ==
  ASSUME Inv, UNCHANGED <<member, matches, pairings, told, drawn, redrawn, round>>,
         blocks' \subseteq Members \X Members, half' \in {1, 2}, events' \in Nat, panicked' \in BOOLEAN,
         jobs' \in Seq(Job), run' \in [Goroutines -> Run],
         OneRowEach(jobs', Goroutines, BusyOnes'),
         \A g \in Goroutines : ~Busy(g)' => run'[g] = NoRun,
         DOMAIN jobs \subseteq DOMAIN jobs',
         \A k \in DOMAIN jobs :
            /\ jobs'[k].type = jobs[k].type /\ jobs'[k].who = jobs[k].who /\ jobs'[k].arg = jobs[k].arg
            /\ jobs[k].due => jobs'[k].due
            /\ jobs'[k].taker # Nobody => jobs'[k].due,
         \A k \in DOMAIN jobs' \ DOMAIN jobs :
            /\ Params(jobs'[k]) /\ jobs'[k].taker = Nobody
            /\ jobs'[k].type \notin {"CREATE_MATCHES", "NOTIFY_PAIR"},
         \A k \in DOMAIN jobs, g \in Goroutines : jobs'[k].taker = g => Decision(run'[g], jobs[k])
  PROVE  Inv'
<1>1. TypeOK'
  BY DEF Inv, TypeOK
<1>2. Locks'
  BY DEF Inv, Locks
<1>3. ParamsOK'
  <2> SUFFICES ASSUME NEW k \in DOMAIN jobs' PROVE Params(jobs[k])'
    BY DEF ParamsOK
  <2>1. CASE k \in DOMAIN jobs
    BY <2>1 DEF Inv, ParamsOK, Params
  <2>2. CASE k \notin DOMAIN jobs
    BY <2>2 DEF Params
  <2> QED
    BY <2>1, <2>2
<1>4. DrawnOnce'
  BY DEF Inv, DrawnOnce
<1>5. Decisions'
  <2> SUFFICES ASSUME NEW k \in DOMAIN jobs', NEW g \in Goroutines, jobs'[k].taker = g
               PROVE  Decision(run[g], jobs[k])'
    BY DEF Decisions
  <2>1. k \in DOMAIN jobs /\ Decision(run'[g], jobs[k])
    BY PairingAssumption
  <2>2. jobs'[k].type = jobs[k].type /\ jobs'[k].who = jobs[k].who /\ jobs'[k].arg = jobs[k].arg
    BY <2>1
  <2> QED
    BY <2>1, <2>2 DEF Decision, Chosen, Present
<1>6. MatchesOK' /\ PairingsOK' /\ PairingsWhole'
  BY DataKept, WholeKept DEF Inv, TypeOK
<1>7. Informed'
  BY HearingKept DEF Inv
<1> QED
  BY <1>1, <1>2, <1>3, <1>4, <1>5, <1>6, <1>7 DEF Inv

LEMMA TakeJobInv ==
  ASSUME Inv, NEW g \in Goroutines, TakeJob(g)
  PROVE  Inv'
<1> DEFINE n == NextJob
<1>1. n \in DOMAIN jobs /\ jobs[n].taker = Nobody /\ jobs[n].due
  BY NextJobAvailable DEF TakeJob, Inv, Available
<1>2. jobs \in Seq(Job) /\ jobs[n] \in Job /\ run \in [Goroutines -> Run]
  BY <1>1 DEF Inv, TypeOK
<1>3. /\ jobs' = [jobs EXCEPT ![n].taker = g] /\ run' = [run EXCEPT ![g].pc = "exec"]
      /\ UNCHANGED <<member, blocks, matches, pairings, told, drawn, redrawn, round, half,
                      panicked, events>>
      /\ ~Busy(g) /\ run[g] = NoRun
  BY DEF TakeJob, data, Inv, Locks
<1> HIDE DEF n
<1>4. /\ DOMAIN jobs' = DOMAIN jobs /\ jobs'[n].taker = g /\ [jobs[n] EXCEPT !.taker = g] \in Job
      /\ \A k \in DOMAIN jobs :
            /\ jobs'[k].type = jobs[k].type /\ jobs'[k].who = jobs[k].who
            /\ jobs'[k].arg = jobs[k].arg /\ jobs'[k].due = jobs[k].due
      /\ \A k \in DOMAIN jobs \ {n} : jobs'[k] = jobs[k]
  BY <1>1, <1>2, <1>3 DEF Job
<1>5. jobs' \in Seq(Job)
  BY <1>1, <1>2, <1>3, <1>4, ExceptSeq
<1> DEFINE r == [NoRun EXCEPT !.pc = "exec"]
<1>6. /\ r \in Run /\ r.pc = "exec" /\ r.pairs = {} /\ r.alone = {} /\ r.ends = {} /\ Chosen(r) = {}
      /\ run' = [run EXCEPT ![g] = r]
  BY <1>2, <1>3, NoRunTyped DEF Run, Chosen
<1> HIDE DEF r
<1>7. run'[g] = r /\ (\A h \in Goroutines \ {g} : run'[h] = run[h]) /\ run' \in [Goroutines -> Run]
  BY <1>2, <1>6
<1>8. BusyOnes' = BusyOnes \cup {g} /\ g \notin BusyOnes
  BY <1>3, <1>6, <1>7 DEF BusyOnes, Busy
<1>9. OneRowEach(jobs', Goroutines, BusyOnes')
  <2>1. OneRowEach(jobs, Goroutines, BusyOnes)
    BY DEF Inv, Locks
  <2>2. jobs[n].taker \notin Goroutines
    BY <1>1, PairingAssumption
  <2> QED
    BY <2>1, <2>2, <1>1, <1>4, <1>8, LockTaken
<1>10. \A k \in DOMAIN jobs, h \in Goroutines : jobs'[k].taker = h => Decision(run'[h], jobs[k])
  <2> TAKE k \in DOMAIN jobs, h \in Goroutines
  <2> HAVE jobs'[k].taker = h
  <2>1. CASE h = g
    BY <2>1, <1>6, <1>7 DEF Decision, Disjoint
  <2>2. CASE h # g
    <3>1. jobs[k].taker = h
      BY <2>2, <1>4
    <3> QED
      BY <2>2, <3>1, <1>7 DEF Inv, Decisions
  <2> QED
    BY <2>1, <2>2
<1>11. \A h \in Goroutines : ~Busy(h)' => run'[h] = NoRun
  BY <1>6, <1>7 DEF Busy, Inv, Locks
<1>12. \A k \in DOMAIN jobs : jobs'[k].taker # Nobody => jobs'[k].due
  BY <1>1, <1>4 DEF Inv, Locks
<1>13. /\ blocks' \subseteq Members \X Members /\ half' \in {1, 2} /\ events' \in Nat
       /\ panicked' \in BOOLEAN
  BY <1>3 DEF Inv, TypeOK
<1> QED
  BY <1>3, <1>4, <1>5, <1>7, <1>9, <1>10, <1>11, <1>12, <1>13, RowsInv

\* Locks are released: of g, or, when the process panics, of everybody.
LEMMA ReleaseInv ==
  ASSUME Inv, NEW G \in SUBSET Goroutines,
         run' = [h \in Goroutines |-> IF h \in G THEN NoRun ELSE run[h]],
         jobs' = [k \in DOMAIN jobs |-> IF jobs[k].taker \in G
                                        THEN [jobs[k] EXCEPT !.taker = Nobody] ELSE jobs[k]],
         panicked' \in BOOLEAN, UNCHANGED <<data, round, half, events>>
  PROVE  Inv'
<1>1. jobs \in Seq(Job) /\ \A k \in DOMAIN jobs : jobs[k] \in Job
  BY ElementOfSeq DEF Inv, TypeOK
<1>2. /\ DOMAIN jobs' = DOMAIN jobs
      /\ \A k \in DOMAIN jobs :
            /\ jobs'[k].type = jobs[k].type /\ jobs'[k].who = jobs[k].who
            /\ jobs'[k].arg = jobs[k].arg /\ jobs'[k].due = jobs[k].due
            /\ jobs'[k].taker = IF jobs[k].taker \in G THEN Nobody ELSE jobs[k].taker
            /\ jobs'[k] \in Job
  BY <1>1 DEF Job
<1>3. jobs' \in Seq(Job)
  BY <1>1, <1>2, IsASeq
<1>4. run' \in [Goroutines -> Run]
  BY NoRunTyped DEF Inv, TypeOK
<1>5. BusyOnes' = BusyOnes \ G
  BY NoRunTyped DEF BusyOnes, Busy
<1>6. OneRowEach(jobs', Goroutines, BusyOnes')
  BY <1>2, <1>5, PairingAssumption DEF Inv, Locks, OneRowEach
<1>7. \A k \in DOMAIN jobs, h \in Goroutines : jobs'[k].taker = h => Decision(run'[h], jobs[k])
  BY <1>2, PairingAssumption DEF Inv, Decisions
<1>8. \A h \in Goroutines : ~Busy(h)' => run'[h] = NoRun
  BY DEF Busy, Inv, Locks
<1>9. \A k \in DOMAIN jobs : jobs'[k].taker # Nobody => jobs'[k].due
  BY <1>2 DEF Inv, Locks
<1>10. /\ UNCHANGED <<member, matches, pairings, told, drawn, redrawn, round>>
       /\ blocks' \subseteq Members \X Members /\ half' \in {1, 2} /\ events' \in Nat
  BY DEF Inv, TypeOK, data
<1> QED
  BY <1>2, <1>3, <1>4, <1>6, <1>7, <1>8, <1>9, <1>10, RowsInv

LEMMA PanicInv ==
  ASSUME Inv, NEW g \in Goroutines, Panic(g)
  PROVE  Inv'
<1>1. \A k \in DOMAIN jobs : jobs[k] \in Job
  BY ElementOfSeq DEF Inv, TypeOK
<1>2. \A k \in DOMAIN jobs : jobs[k].taker \notin Goroutines =>
         [jobs[k] EXCEPT !.taker = Nobody] = jobs[k]
  BY <1>1 DEF Job
<1>3. jobs' = [k \in DOMAIN jobs |-> IF jobs[k].taker \in Goroutines
                                     THEN [jobs[k] EXCEPT !.taker = Nobody] ELSE jobs[k]]
  BY <1>2 DEF Panic
<1>4. run' = [h \in Goroutines |-> IF h \in Goroutines THEN NoRun ELSE run[h]]
  BY DEF Panic
<1>5. panicked' \in BOOLEAN /\ UNCHANGED <<data, round, half, events>>
  BY DEF Panic
<1> QED
  BY <1>3, <1>4, <1>5, ReleaseInv

LEMMA FailInv ==
  ASSUME Inv, NEW g \in Goroutines, Fail(g)
  PROVE  Inv'
<1>1. run' = [h \in Goroutines |-> IF h \in {g} THEN NoRun ELSE run[h]]
  BY DEF Fail, Inv, TypeOK
<1>2. jobs' = [k \in DOMAIN jobs |-> IF jobs[k].taker \in {g}
                                     THEN [jobs[k] EXCEPT !.taker = Nobody] ELSE jobs[k]]
  BY DEF Fail, Released
<1>3. panicked' \in BOOLEAN /\ UNCHANGED <<data, round, half, events>>
  BY DEF Fail, Inv, TypeOK
<1> QED
  BY <1>1, <1>2, <1>3, ReleaseInv

LEMMA RipenInv ==
  ASSUME Inv, NEW n \in DOMAIN jobs, Ripen(n)
  PROVE  Inv'
<1>1. jobs \in Seq(Job) /\ jobs[n] \in Job
  BY ElementOfSeq DEF Inv, TypeOK
<1>2. /\ jobs' = [jobs EXCEPT ![n].due = TRUE]
      /\ UNCHANGED <<member, blocks, matches, pairings, told, drawn, redrawn, round, half, run,
                      panicked, events>>
  BY DEF Ripen, data
<1>3. /\ DOMAIN jobs' = DOMAIN jobs /\ [jobs[n] EXCEPT !.due = TRUE] \in Job
      /\ \A k \in DOMAIN jobs :
            /\ jobs'[k].type = jobs[k].type /\ jobs'[k].who = jobs[k].who
            /\ jobs'[k].arg = jobs[k].arg /\ jobs'[k].taker = jobs[k].taker
            /\ jobs[k].due => jobs'[k].due
  BY <1>1, <1>2 DEF Job
<1>4. jobs' \in Seq(Job)
  BY <1>1, <1>2, <1>3, ExceptSeq
<1>5. BusyOnes' = BusyOnes
  BY <1>2 DEF BusyOnes, Busy
<1>6. OneRowEach(jobs', Goroutines, BusyOnes')
  BY <1>3, <1>5 DEF Inv, Locks, OneRowEach
<1>7. \A h \in Goroutines : ~Busy(h)' => run'[h] = NoRun
  BY <1>2 DEF Busy, Inv, Locks
<1>8. \A k \in DOMAIN jobs, h \in Goroutines : jobs'[k].taker = h => Decision(run'[h], jobs[k])
  BY <1>2, <1>3 DEF Inv, Decisions
<1>9. /\ blocks' \subseteq Members \X Members /\ half' \in {1, 2} /\ events' \in Nat
      /\ panicked' \in BOOLEAN /\ run' \in [Goroutines -> Run]
  BY <1>2 DEF Inv, TypeOK
<1>10. \A k \in DOMAIN jobs : jobs'[k].taker # Nobody => jobs'[k].due
  BY <1>3 DEF Inv, Locks
<1> QED
  BY <1>2, <1>3, <1>4, <1>6, <1>7, <1>8, <1>9, <1>10, RowsInv

\* Handlers queue jobs that change members, and CREATE_MATCH.
LEMMA EventInv ==
  ASSUME Inv, NEW kind, NEW new \in Seq(Job), Event(kind, new),
         \A i \in DOMAIN new : /\ new[i].type \in {"CREATE_MATCH", "UPDATE_MEMBER", "DELETE_MEMBER"}
                               /\ new[i].who \in Members /\ new[i].taker = Nobody,
         blocks' \subseteq Members \X Members
  PROVE  Inv'
<1>1. /\ jobs' = jobs \o new /\ events' = events + 1
      /\ UNCHANGED <<member, matches, pairings, told, drawn, redrawn, round, half, run, panicked>>
  BY DEF Event
<1>2. jobs \in Seq(Job) /\ jobs' \in Seq(Job)
  BY <1>1 DEF Inv, TypeOK
<1>3. /\ DOMAIN jobs \subseteq DOMAIN jobs' /\ \A k \in DOMAIN jobs : jobs'[k] = jobs[k]
      /\ \A k \in DOMAIN jobs' \ DOMAIN jobs : \E i \in DOMAIN new : jobs'[k] = new[i]
  <2>1. DOMAIN jobs = 1..Len(jobs) /\ Len(jobs) \in Nat /\ DOMAIN new = 1..Len(new) /\ Len(new) \in Nat
    BY <1>2
  <2>2. Len(jobs') = Len(jobs) + Len(new) /\ DOMAIN jobs' = 1..Len(jobs')
    BY <1>1, <1>2
  <2>3. \A k \in 1..Len(jobs) : jobs'[k] = jobs[k]
    BY <1>1, <1>2, <2>1
  <2>4. ASSUME NEW k \in DOMAIN jobs' \ DOMAIN jobs PROVE \E i \in DOMAIN new : jobs'[k] = new[i]
    <3>1. k - Len(jobs) \in DOMAIN new /\ k = Len(jobs) + (k - Len(jobs))
      BY <2>1, <2>2
    <3>2. jobs'[k] = new[k - Len(jobs)]
      BY <1>1, <1>2, <2>1, <2>2, <3>1
    <3> QED
      BY <3>1, <3>2
  <2> QED
    BY <2>1, <2>2, <2>3, <2>4
<1>4. \A k \in DOMAIN jobs' \ DOMAIN jobs :
         /\ Params(jobs'[k]) /\ jobs'[k].taker = Nobody
         /\ jobs'[k].type \notin {"CREATE_MATCHES", "NOTIFY_PAIR"}
  BY <1>3 DEF Params
<1>5. BusyOnes' = BusyOnes
  BY <1>1 DEF BusyOnes, Busy
<1>6. OneRowEach(jobs', Goroutines, BusyOnes')
  <2>1. OneRowEach(jobs, Goroutines, BusyOnes)
    BY DEF Inv, Locks
  <2>2. \A k \in DOMAIN jobs : jobs'[k].taker = jobs[k].taker
    BY <1>3
  <2>3. \A k \in DOMAIN jobs' \ DOMAIN jobs : jobs'[k].taker \notin Goroutines
    BY <1>4, PairingAssumption
  <2> QED
    BY <2>1, <2>2, <2>3, <1>3, <1>5, LocksKept
<1>7. \A h \in Goroutines : ~Busy(h)' => run'[h] = NoRun
  BY <1>1 DEF Busy, Inv, Locks
<1>8. \A k \in DOMAIN jobs, h \in Goroutines : jobs'[k].taker = h => Decision(run'[h], jobs[k])
  BY <1>1, <1>3 DEF Inv, Decisions
<1>9. half' \in {1, 2} /\ events' \in Nat /\ panicked' \in BOOLEAN /\ run' \in [Goroutines -> Run]
  BY <1>1 DEF Inv, TypeOK
<1>10. \A k \in DOMAIN jobs : jobs'[k].taker # Nobody => jobs'[k].due
  BY <1>3 DEF Inv, Locks
<1> QED
  BY <1>1, <1>2, <1>3, <1>4, <1>6, <1>7, <1>8, <1>9, <1>10, RowsInv

LEMMA NewJobTyped ==
  ASSUME NEW t \in PairJobs, NEW who \in Members \cup {NoMember}, NEW arg \in Nat
  PROVE  /\ NewJob(t, who, arg) \in Job
         /\ NewJob(t, who, arg).type = t /\ NewJob(t, who, arg).who = who
         /\ NewJob(t, who, arg).arg = arg
         /\ NewJob(t, who, arg).due /\ NewJob(t, who, arg).taker = Nobody
  BY DEF NewJob, Job

LEMMA HandlersInv ==
  ASSUME Inv,
         \/ \E u \in Members : Onboard(u) \/ Leave(u) \/ \E on \in BOOLEAN : UpdateSettings(u, on)
         \/ \E u, v \in Members : Block(u, v)
  PROVE  Inv'
<1> DEFINE late(u) == [NewJob("CREATE_MATCH", u, 0) EXCEPT !.due = FALSE]
<1>1. \A u \in Members, on \in BOOLEAN : /\ Setting(u, on) \in Job /\ Setting(u, on).who = u
                                         /\ Setting(u, on).type = "UPDATE_MEMBER"
                                         /\ Setting(u, on).taker = Nobody
  BY DEF Setting, NewJob, Job, PairJobs
<1>2. \A u \in Members : late(u) \in Job /\ late(u).who = u /\ late(u).type = "CREATE_MATCH"
                         /\ late(u).taker = Nobody
  BY DEF NewJob, Job, PairJobs
<1> HIDE DEF late
<1>3. ASSUME NEW u \in Members, Onboard(u) PROVE Inv'
  <2> DEFINE x == Setting(u, TRUE)
             y == late(u)
             new == <<x, y>>
  <2>1. /\ x \in Job /\ x.type = "UPDATE_MEMBER" /\ x.who = u /\ x.taker = Nobody
        /\ y \in Job /\ y.type = "CREATE_MATCH" /\ y.who = u /\ y.taker = Nobody
    BY <1>1, <1>2
  <2>2. Event("onboard", new)
    BY <1>3 DEF Onboard, late
  <2>3. blocks' \subseteq Members \X Members
    BY <1>3 DEF Onboard, Inv, TypeOK
  <2> HIDE DEF x, y
  <2>4. new \in Seq(Job) /\ \A i \in DOMAIN new : new[i] \in {x, y}
    BY <2>1
  <2> HIDE DEF new
  <2>5. \A i \in DOMAIN new : /\ new[i].type \in {"CREATE_MATCH", "UPDATE_MEMBER", "DELETE_MEMBER"}
                              /\ new[i].who \in Members /\ new[i].taker = Nobody
    BY <2>1, <2>4
  <2> QED
    BY <2>2, <2>3, <2>4, <2>5, EventInv
<1>4. ASSUME NEW u \in Members, Leave(u) PROVE Inv'
  <2> DEFINE j == NewJob("DELETE_MEMBER", u, 0)
             new == <<j>>
  <2>1. j \in Job /\ j.type = "DELETE_MEMBER" /\ j.who = u /\ j.taker = Nobody
    BY NewJobTyped DEF PairJobs
  <2>2. Event("leave", new)
    BY <1>4 DEF Leave
  <2>3. blocks' \subseteq Members \X Members
    BY <1>4 DEF Leave, Inv, TypeOK
  <2> HIDE DEF j
  <2>4. new \in Seq(Job) /\ DOMAIN new = {1} /\ new[1] = j
    BY <2>1
  <2> HIDE DEF new
  <2> QED
    BY <2>1, <2>2, <2>3, <2>4, EventInv
<1>5. ASSUME NEW u \in Members, NEW on \in BOOLEAN, UpdateSettings(u, on) PROVE Inv'
  <2> DEFINE new == <<Setting(u, on)>>
  <2>1. new \in Seq(Job) /\ DOMAIN new = {1} /\ new[1] = Setting(u, on)
    BY <1>1
  <2>2. Event("update", new)
    BY <1>5 DEF UpdateSettings
  <2>3. blocks' \subseteq Members \X Members
    BY <1>5 DEF UpdateSettings, Inv, TypeOK
  <2> HIDE DEF new
  <2> QED
    BY <1>1, <2>1, <2>2, <2>3, EventInv
<1>6. ASSUME NEW u \in Members, NEW v \in Members, Block(u, v) PROVE Inv'
  <2> DEFINE new == <<>>
  <2>1. new \in Seq(Job) /\ DOMAIN new = {}
    BY EmptySeq
  <2>2. Event("block", new)
    BY <1>6 DEF Block
  <2>3. blocks' \subseteq Members \X Members
    BY <1>6 DEF Block, Inv, TypeOK
  <2> HIDE DEF new
  <2> QED
    BY <2>1, <2>2, <2>3, EventInv
<1> QED
  BY <1>3, <1>4, <1>5, <1>6

\* Time passes when no job is due: no transaction is open.
LEMMA TimeInv ==
  ASSUME Inv, StartRound \/ PassHalf
  PROVE  Inv'
<1>1. /\ \A k \in DOMAIN jobs : jobs[k].type # "CREATE_MATCHES" /\ jobs[k].taker = Nobody
      /\ UNCHANGED <<member, blocks, matches, pairings, told, drawn, redrawn, run, panicked, events>>
  <2>1. \A k \in DOMAIN jobs : jobs[k].due => jobs[k].type = "CREATE_PAIR" /\ jobs[k].taker = Nobody
    BY DEF StartRound, PassHalf, Quiet, Stuck, Pending
  <2> QED
    BY <2>1 DEF StartRound, PassHalf, data, Inv, Locks, ParamsOK, Params
<1>2. CASE PassHalf
  <2>1. UNCHANGED <<jobs, round>> /\ half' = 2
    BY <1>2 DEF PassHalf
  <2>2. TypeOK'
    BY <1>1, <2>1 DEF Inv, TypeOK
  <2>3. BusyOnes' = BusyOnes
    BY <1>1 DEF BusyOnes, Busy
  <2>4. Locks' /\ ParamsOK' /\ DrawnOnce' /\ Decisions'
    BY <1>1, <2>1, <2>3, PairingAssumption DEF Inv, Locks, Busy, ParamsOK, Params, DrawnOnce, Decisions
  <2>5. MatchesOK' /\ PairingsOK' /\ PairingsWhole' /\ Informed'
    BY <1>1, <2>1, DataKept, WholeKept, HearingKept DEF Inv, TypeOK
  <2> QED
    BY <2>2, <2>4, <2>5 DEF Inv
<1>3. CASE StartRound
  <2> DEFINE j == NewJob("CREATE_MATCHES", NoMember, round + 1)
  <2>1. round \in Nat /\ jobs \in Seq(Job)
    BY DEF Inv, TypeOK
  <2>2. /\ j \in Job /\ j.type = "CREATE_MATCHES" /\ j.who = NoMember /\ j.due /\ j.taker = Nobody
    BY <2>1, NewJobTyped DEF PairJobs
  <2>3. jobs' = Append(jobs, j) /\ round' = round + 1 /\ half' = 1
    BY <1>3 DEF StartRound
  <2> HIDE DEF j
  <2>4. /\ jobs' \in Seq(Job) /\ DOMAIN jobs \subseteq DOMAIN jobs'
        /\ \A k \in DOMAIN jobs : jobs'[k] = jobs[k]
        /\ \A k \in DOMAIN jobs' \ DOMAIN jobs : jobs'[k] = j
        /\ \A k, m \in DOMAIN jobs' \ DOMAIN jobs : k = m
    BY <2>1, <2>2, <2>3
  <2>5. TypeOK'
    BY <1>1, <2>1, <2>3, <2>4 DEF Inv, TypeOK
  <2>6. BusyOnes' = BusyOnes
    BY <1>1 DEF BusyOnes, Busy
  <2>7. Locks'
    <3>1. OneRowEach(jobs, Goroutines, BusyOnes)
      BY DEF Inv, Locks
    <3>2. \A k \in DOMAIN jobs : jobs'[k].taker = jobs[k].taker
      BY <2>4
    <3>3. \A k \in DOMAIN jobs' \ DOMAIN jobs : jobs'[k].taker \notin Goroutines
      BY <2>2, <2>4, PairingAssumption
    <3>4. OneRowEach(jobs', Goroutines, BusyOnes')
      BY <3>1, <3>2, <3>3, <2>4, <2>6, LocksKept
    <3> QED
      BY <3>4, <1>1, <2>2, <2>4 DEF Inv, Locks, Busy
  <2>8. ParamsOK'
    <3> SUFFICES ASSUME NEW k \in DOMAIN jobs' PROVE Params(jobs[k])'
      BY DEF ParamsOK
    <3>1. CASE k \in DOMAIN jobs
      <4>1. Params(jobs[k]) /\ jobs'[k] = jobs[k] /\ jobs[k].type # "CREATE_MATCHES"
        BY <3>1, <1>1, <2>4 DEF Inv, ParamsOK
      <4>2. \A x \in 1..round : x \in 1..round'
        BY <2>1, <2>3
      <4> QED
        BY <4>1, <4>2, <1>1 DEF Params
    <3>2. CASE k \notin DOMAIN jobs
      BY <3>2, <1>1, <2>1, <2>2, <2>3, <2>4 DEF Params
    <3> QED
      BY <3>1, <3>2
  <2>9. DrawnOnce'
    <3>1. \A m \in DOMAIN matches : matches[m].round < round'
      BY <2>1, <2>3 DEF Inv, MatchesOK
    <3>2. \A k \in DOMAIN jobs' : jobs'[k].type = "CREATE_MATCHES" => k \notin DOMAIN jobs
      BY <1>1, <2>4
    <3> QED
      BY <3>1, <3>2, <1>1, <2>4 DEF DrawnOnce
  <2>10. Decisions'
    BY <1>1, <2>2, <2>4, PairingAssumption DEF Decisions
  <2>11. MatchesOK' /\ PairingsOK' /\ PairingsWhole' /\ Informed'
    BY <1>1, <2>1, <2>2, <2>3, <2>4, DataKept, WholeKept, HearingKept DEF Inv, TypeOK
  <2> QED
    BY <2>5, <2>7, <2>8, <2>9, <2>10, <2>11 DEF Inv
<1> QED
  BY <1>2, <1>3
-------------------------------------------------------------------------------
(* Commit: the matches that are inserted, the jobs that are queued *)

\* The transaction of g ends with the writes t: all it has decided on, with its row
\* saved or not, or, cut short, what it has written so far.
Ends(g, t, saved) ==
    /\ Busy(g) /\ t \in Run /\ saved \in BOOLEAN /\ events' \in Nat
    /\ t.pc \in {"done", "refused"} \/ (~saved /\ t.pc \in {"draw", "pair"})
    /\ Decision(t, JobOf(g))
    /\ Finish(g, t, saved)

LEMMA Committing ==
  ASSUME Inv, NEW g \in Goroutines, NEW t, NEW saved, Ends(g, t, saved)
  PROVE  /\ Busy(g) /\ t \in Run /\ JobOf(g) \in Job
         /\ Decision(t, JobOf(g)) /\ Params(JobOf(g))
         /\ \A k \in DOMAIN jobs : jobs[k].taker = g => JobOf(g) = jobs[k]
         /\ \E k \in DOMAIN jobs : jobs[k].taker = g /\ JobOf(g) = jobs[k]
         /\ Chosen(t) = t.pairs
         /\ IsFiniteSet(t.pairs) /\ IsFiniteSet(t.alone)
<1>1. Busy(g) /\ t \in Run /\ Decision(t, JobOf(g)) /\ t.pc # "found"
  BY DEF Ends
<1>2. Chosen(t) = t.pairs
  BY <1>1 DEF Chosen
<1> QED
  BY <1>1, <1>2, RowOfBusy, MembersFinite

\* The rows of the matches table keep what they say; a match for each pair is added.
LEMMA MatchesAdded ==
  ASSUME Inv, NEW g \in Goroutines, NEW t, NEW saved, Ends(g, t, saved)
  PROVE  /\ matches' \in Seq(Match) /\ Len(matches) \in Nat /\ Cardinality(t.pairs) \in Nat
         /\ DOMAIN matches = 1..Len(matches)
         /\ DOMAIN matches' = 1..(Len(matches) + Cardinality(t.pairs))
         /\ \A m \in DOMAIN matches :
               /\ m \in DOMAIN matches' /\ matches'[m].round = matches[m].round
               /\ matches'[m].ends = matches[m].ends /\ matches'[m].late = matches[m].late
               /\ matches[m].notified => matches'[m].notified
               /\ JobOf(g).type = "NOTIFY_PAIR" /\ JobOf(g).arg = m => matches'[m].notified
               /\ matches'[m].notified =>
                     matches[m].notified \/ (JobOf(g).type = "NOTIFY_PAIR" /\ JobOf(g).arg = m)
         /\ \A m \in DOMAIN matches' \ DOMAIN matches :
               /\ matches'[m].round = round /\ matches'[m].ends \in t.pairs
               /\ matches'[m].late = JobOf(g).who /\ ~matches'[m].notified
         /\ \A m, n \in DOMAIN matches' \ DOMAIN matches :
               matches'[m].ends = matches'[n].ends => m = n
         /\ \A e \in t.pairs : \E k \in 1..Cardinality(t.pairs) :
               Len(matches) + k \in DOMAIN matches' \ DOMAIN matches /\ matches'[Len(matches) + k].ends = e
<1> DEFINE P == t.pairs
           c == Cardinality(P)
           list == Listing(P)
           j == JobOf(g)
           old == Notified(j)
           new == NewMatches(g, t)
           n == Len(matches)
<1>1. t \in Run /\ j \in Job /\ Decision(t, j) /\ Chosen(t) = P /\ IsFiniteSet(P)
  BY Committing
<1>2. /\ c \in Nat /\ list \in [1..c -> P]
      /\ \A i, k \in 1..c : list[i] = list[k] => i = k
      /\ \A x \in P : \E i \in 1..c : list[i] = x
  BY <1>1, ListingOrders
<1>3. matches \in Seq(Match) /\ n \in Nat /\ DOMAIN matches = 1..n /\ round \in Nat
  BY DEF Inv, TypeOK
<1>4. /\ DOMAIN old = 1..n
      /\ \A m \in 1..n :
            /\ old[m] \in Match /\ old[m].round = matches[m].round
            /\ old[m].ends = matches[m].ends /\ old[m].late = matches[m].late
            /\ matches[m].notified => old[m].notified
            /\ j.type = "NOTIFY_PAIR" /\ j.arg = m => old[m].notified
            /\ old[m].notified => matches[m].notified \/ (j.type = "NOTIFY_PAIR" /\ j.arg = m)
  <2>1. \A m \in 1..n : matches[m] \in Match
    BY <1>3, ElementOfSeq
  <2> QED
    BY <2>1, <1>3 DEF Notified, Match
<1>5. /\ DOMAIN new = 1..c
      /\ \A k \in 1..c : new[k] = [round |-> round, ends |-> list[k], notified |-> FALSE, late |-> j.who]
  BY DEF NewMatches
<1>6. matches' = old \o new
  BY DEF Ends, Finish
<1>7. \A e \in P : Cardinality(e) = 2 /\ e \in SUBSET Members
  <2> SUFFICES ASSUME NEW e \in P PROVE Cardinality(e) = 2 /\ e \in SUBSET Members
    OBVIOUS
  <2>1. \E who : Fits(e, who)
    BY <1>1 DEF Decision
  <2>2. PICK u \in Members, v \in Members : e = {u, v} /\ u # v
    BY <2>1 DEF Fits
  <2>3. Cardinality({u, v}) = 2
    BY <2>2, PairHasTwo
  <2> QED
    BY <2>2, <2>3
<1>o. old \in [1..n -> Match]
  <2>1. old = [m \in 1..n |-> old[m]]
    BY <1>3 DEF Notified
  <2> QED
    BY <1>4, <2>1
<1>n. new \in [1..c -> Match]
  <2>1. new = [k \in 1..c |-> new[k]]
    BY DEF NewMatches
  <2>2. \A k \in 1..c : new[k] \in Match
    <3> TAKE k \in 1..c
    <3> DEFINE ends == {e \in SUBSET Members : Cardinality(e) = 2}
    <3>1. list[k] \in ends
      BY <1>2, <1>7
    <3>2. j.who \in Members \cup {NoMember}
      BY <1>1 DEF Job
    <3> HIDE DEF ends, list, j
    <3>3. [round |-> round, ends |-> list[k], notified |-> FALSE, late |-> j.who]
            \in [round: Nat, ends: ends, notified: BOOLEAN, late: Members \cup {NoMember}]
      BY <1>3, <3>1, <3>2
    <3> QED
      BY <1>5, <3>3 DEF Match, ends
  <2> QED
    BY <2>1, <2>2
<1> HIDE DEF c, list, j, old, new, n, P
<1>8. new \in Seq(Match) /\ Len(new) = c /\ old \in Seq(Match) /\ Len(old) = n
  <2>1. new \in Seq(Match) /\ old \in Seq(Match)
    BY <1>2, <1>3, <1>n, <1>o, SeqDef
  <2> QED
    BY <2>1, <1>2, <1>3, <1>n, <1>o
<1>9. /\ matches' \in Seq(Match) /\ DOMAIN matches' = 1..(n + c)
      /\ \A m \in 1..n : matches'[m] = old[m]
      /\ \A k \in 1..c : matches'[n + k] = new[k]
  <2>1. old \o new \in Seq(Match) /\ Len(old \o new) = n + c
    BY <1>8
  <2>2. DOMAIN (old \o new) = 1..(n + c)
    BY <2>1
  <2>3. \A m \in 1..n : (old \o new)[m] = old[m]
    BY <1>8, <1>2, <1>3
  <2>4. \A k \in 1..c : (old \o new)[n + k] = new[k]
    BY <1>8, <1>2, <1>3
  <2> QED
    BY <2>1, <2>2, <2>3, <2>4, <1>6
<1>10. \A m \in 1..n : m \in 1..(n + c)
  BY <1>2, <1>3
<1>11. \A m \in (1..(n + c)) \ (1..n) : m - n \in 1..c /\ m = n + (m - n)
  BY <1>2, <1>3
<1>12. \A k \in 1..c : n + k \in (1..(n + c)) \ (1..n)
  BY <1>2, <1>3
<1>13. \A m \in (1..(n + c)) \ (1..n) :
          /\ matches'[m].round = round /\ matches'[m].ends = list[m - n] /\ list[m - n] \in P
          /\ matches'[m].late = j.who /\ ~matches'[m].notified
  <2> TAKE m \in (1..(n + c)) \ (1..n)
  <2>1. m - n \in 1..c /\ matches'[m] = new[m - n]
    BY <1>9, <1>11
  <2> QED
    BY <2>1, <1>2, <1>5
<1>14. ASSUME NEW m \in (1..(n + c)) \ (1..n), NEW k \in (1..(n + c)) \ (1..n),
              matches'[m].ends = matches'[k].ends
       PROVE  m = k
  <2>1. m - n = k - n
    BY <1>2, <1>11, <1>13, <1>14
  <2> QED
    BY <2>1, <1>2, <1>3
<1>15. ASSUME NEW e \in P
       PROVE  \E k \in 1..c : n + k \in (1..(n + c)) \ (1..n) /\ matches'[n + k].ends = e
  <2>1. PICK k \in 1..c : list[k] = e
    BY <1>2
  <2>2. matches'[n + k].ends = e
    BY <1>5, <1>9, <2>1
  <2> QED
    BY <2>2, <1>12
<1>16. \A m \in 1..n :
          /\ m \in 1..(n + c) /\ matches'[m].round = matches[m].round
          /\ matches'[m].ends = matches[m].ends /\ matches'[m].late = matches[m].late
          /\ matches[m].notified => matches'[m].notified
          /\ j.type = "NOTIFY_PAIR" /\ j.arg = m => matches'[m].notified
          /\ matches'[m].notified => matches[m].notified \/ (j.type = "NOTIFY_PAIR" /\ j.arg = m)
  BY <1>4, <1>9, <1>10
<1> QED
  BY <1>2, <1>3, <1>9, <1>13, <1>14, <1>15, <1>16 DEF P, c, j, n

\* What the commit queues: a NOTIFY_PAIR for the pairings, a CREATE_PAIR for each
\* match, a NOTIFY_MEMBER for everybody who is left alone.
LEMMA JobsQueued ==
  ASSUME Inv, NEW g \in Goroutines, NEW t, NEW saved, Ends(g, t, saved)
  PROVE  /\ NewJobs(g, t) \in Seq(Job)
         /\ \A i \in DOMAIN NewJobs(g, t) :
               /\ NewJobs(g, t)[i].taker = Nobody
               /\ \/ /\ NewJobs(g, t)[i].type = "NOTIFY_PAIR" /\ NewJobs(g, t)[i].arg = JobOf(g).arg
                     /\ JobOf(g).type = "CREATE_PAIR" /\ t.pc = "done" /\ t.ends # {}
                  \/ /\ NewJobs(g, t)[i].type = "CREATE_PAIR"
                     /\ NewJobs(g, t)[i].arg \in DOMAIN matches' \ DOMAIN matches
                  \/ /\ NewJobs(g, t)[i].type = "NOTIFY_MEMBER" /\ NewJobs(g, t)[i].arg = round
                     /\ NewJobs(g, t)[i].who \in t.alone
         /\ JobOf(g).type = "CREATE_PAIR" /\ t.pc = "done" /\ t.ends # {} =>
               \E i \in DOMAIN NewJobs(g, t) :
                  NewJobs(g, t)[i].type = "NOTIFY_PAIR" /\ NewJobs(g, t)[i].arg = JobOf(g).arg
         /\ \A m \in DOMAIN matches' \ DOMAIN matches : \E i \in DOMAIN NewJobs(g, t) :
               NewJobs(g, t)[i].type = "CREATE_PAIR" /\ NewJobs(g, t)[i].arg = m
         /\ \A u \in t.alone : \E i \in DOMAIN NewJobs(g, t) :
               /\ NewJobs(g, t)[i].type = "NOTIFY_MEMBER" /\ NewJobs(g, t)[i].arg = round
               /\ NewJobs(g, t)[i].who = u
<1> DEFINE P == t.pairs
           A == t.alone
           c == Cardinality(P)
           a == Cardinality(A)
           list == Listing(A)
           j == JobOf(g)
           n == Len(matches)
           pair(k) == NewJob("CREATE_PAIR", NoMember, n + k)
           apology(k) == NewJob("NOTIFY_MEMBER", list[k], round)
           news == NewJob("NOTIFY_PAIR", NoMember, j.arg)
           Queued(q, i) ==
               /\ q[i].taker = Nobody
               /\ \/ /\ q[i].type = "NOTIFY_PAIR" /\ q[i].arg = j.arg
                     /\ j.type = "CREATE_PAIR" /\ t.pc = "done" /\ t.ends # {}
                  \/ q[i].type = "CREATE_PAIR" /\ q[i].arg \in DOMAIN matches' \ DOMAIN matches
                  \/ q[i].type = "NOTIFY_MEMBER" /\ q[i].arg = round /\ q[i].who \in A
<1>1. t \in Run /\ j \in Job /\ Decision(t, j) /\ IsFiniteSet(P) /\ IsFiniteSet(A)
  BY Committing
<1>2. c \in Nat /\ n \in Nat /\ round \in Nat /\ j.arg \in Nat
      /\ DOMAIN matches = 1..n /\ DOMAIN matches' = 1..(n + c)
  BY <1>1, MatchesAdded DEF Inv, TypeOK, Job
<1>3. a \in Nat /\ list \in [1..a -> A] /\ \A x \in A : \E i \in 1..a : list[i] = x
  BY <1>1, ListingOrders
<1>4. A \subseteq Members
  BY <1>1 DEF Run
<1>5. \A k \in 1..c : /\ pair(k) \in Job /\ pair(k).taker = Nobody /\ pair(k).type = "CREATE_PAIR"
                      /\ pair(k).arg = n + k
  <2> TAKE k \in 1..c
  <2>1. n + k \in Nat /\ "CREATE_PAIR" \in PairJobs /\ NoMember \in Members \cup {NoMember}
    BY <1>2 DEF PairJobs
  <2> HIDE DEF n
  <2> QED
    BY <2>1, NewJobTyped
<1>6. \A k \in 1..a : /\ apology(k) \in Job /\ apology(k).taker = Nobody
                      /\ apology(k).type = "NOTIFY_MEMBER"
                      /\ apology(k).who = list[k] /\ apology(k).arg = round
  BY <1>2, <1>3, <1>4, NewJobTyped DEF PairJobs
<1>7. news \in Job /\ news.taker = Nobody /\ news.type = "NOTIFY_PAIR" /\ news.arg = j.arg
  BY <1>2, NewJobTyped DEF PairJobs
<1>8. CASE j.type \in {"CREATE_MATCHES", "CREATE_MATCH"}
  <2> DEFINE pq == [k \in 1..c |-> pair(k)]
             aq == [k \in 1..a |-> apology(k)]
             q == pq \o aq
  <2>1. NewJobs(g, t) = q
    <3>1. DOMAIN list = 1..a
      BY <1>3
    <3> QED
      BY <1>8, <3>1 DEF NewJobs
  <2>2. pq \in Seq(Job) /\ Len(pq) = c /\ \A k \in 1..c : pq[k] = pair(k)
    <3>1. pq \in Seq(Job)
      BY <1>2, <1>5, IsASeq
    <3> HIDE DEF pair
    <3> QED
      BY <1>2, <3>1
  <2>3. aq \in Seq(Job) /\ Len(aq) = a /\ \A k \in 1..a : aq[k] = apology(k)
    <3>1. aq \in Seq(Job)
      BY <1>3, <1>6, IsASeq
    <3> HIDE DEF apology
    <3> QED
      BY <1>3, <3>1
  <2> HIDE DEF pq, aq, pair, apology, list, c, a, n
  <2>4. q \in Seq(Job) /\ DOMAIN q = 1..(c + a)
    <3>1. q \in Seq(Job) /\ Len(q) = c + a
      BY <2>2, <2>3
    <3> QED
      BY <3>1
  <2>5. (\A k \in 1..c : q[k] = pq[k]) /\ (\A k \in 1..a : q[c + k] = aq[k])
    <3>1. c \in Nat /\ a \in Nat /\ Len(pq) = c /\ Len(aq) = a /\ pq \in Seq(Job) /\ aq \in Seq(Job)
      BY <2>2, <2>3, <1>2, <1>3
    <3>2. \A k \in 1..c : q[k] = pq[k]
      BY <3>1
    <3>3. \A k \in 1..a : q[c + k] = aq[k]
      BY <3>1
    <3> QED
      BY <3>2, <3>3
  <2>6. (\A k \in 1..c : k \in 1..(c + a)) /\ (\A k \in 1..a : c + k \in 1..(c + a))
        /\ \A i \in 1..(c + a) : i \in 1..c \/ \E k \in 1..a : i = c + k
    <3>1. \A i \in 1..(c + a) : i \notin 1..c => i - c \in 1..a /\ i = c + (i - c)
      BY <1>2, <1>3
    <3> QED
      BY <3>1, <1>2, <1>3
  <2> HIDE DEF q
  <2>7. ASSUME NEW i \in DOMAIN q PROVE Queued(q, i)
    <3>1. CASE i \in 1..c
      <4>1. q[i] = pair(i) /\ n + i \in DOMAIN matches' \ DOMAIN matches
        BY <3>1, <2>2, <2>5, <1>2
      <4> QED
        BY <4>1, <3>1, <1>5
    <3>2. ASSUME NEW k \in 1..a, i = c + k PROVE Queued(q, i)
      <4>1. q[i] = apology(k) /\ list[k] \in A
        BY <3>2, <2>3, <2>5, <1>3
      <4> QED
        BY <4>1, <1>6
    <3> QED
      BY <3>1, <3>2, <2>4, <2>6
  <2>8. ASSUME NEW m \in DOMAIN matches' \ DOMAIN matches
        PROVE  \E i \in DOMAIN q : q[i].type = "CREATE_PAIR" /\ q[i].arg = m
    <3>1. m - n \in 1..c /\ n + (m - n) = m
      BY <1>2
    <3>2. q[m - n] = pair(m - n) /\ m - n \in DOMAIN q
      BY <3>1, <2>2, <2>4, <2>5, <2>6
    <3> QED
      BY <3>1, <3>2, <1>5
  <2>9. ASSUME NEW u \in A
        PROVE  \E i \in DOMAIN q : q[i].type = "NOTIFY_MEMBER" /\ q[i].arg = round /\ q[i].who = u
    <3>1. PICK k \in 1..a : list[k] = u
      BY <1>3
    <3>2. q[c + k] = apology(k) /\ c + k \in DOMAIN q
      BY <2>3, <2>4, <2>5, <2>6
    <3> QED
      BY <3>1, <3>2, <1>6
  <2> QED
    BY <1>8, <2>1, <2>4, <2>7, <2>8, <2>9
<1>9. CASE j.type \notin {"CREATE_MATCHES", "CREATE_MATCH"}
  <2>1. P = {} /\ A = {}
    BY <1>1, <1>9 DEF Decision
  <2>2. c = 0
    BY <2>1, FS_EmptySet
  <2>3. DOMAIN matches' = DOMAIN matches
    BY <1>2, <2>2
  <2>4. CASE j.type = "CREATE_PAIR" /\ t.pc = "done" /\ t.ends # {}
    <3> DEFINE q == <<news>>
    <3>1. NewJobs(g, t) = q
      BY <2>4 DEF NewJobs
    <3> HIDE DEF news
    <3>2. q \in Seq(Job) /\ DOMAIN q = {1} /\ q[1] = news
      BY <1>7
    <3> HIDE DEF q
    <3>3. \A i \in DOMAIN q : Queued(q, i)
      BY <3>2, <1>7, <2>4
    <3>4. \E i \in DOMAIN q : q[i].type = "NOTIFY_PAIR" /\ q[i].arg = j.arg
      BY <3>2, <1>7
    <3> QED
      BY <2>1, <2>3, <3>1, <3>2, <3>3, <3>4
  <2>5. CASE ~(j.type = "CREATE_PAIR" /\ t.pc = "done" /\ t.ends # {})
    <3>1. NewJobs(g, t) = <<>>
      BY <1>9, <2>5 DEF NewJobs
    <3>2. NewJobs(g, t) \in Seq(Job) /\ DOMAIN NewJobs(g, t) = {}
      BY <3>1, EmptySeq
    <3> QED
      BY <2>1, <2>3, <2>5, <3>2
  <2> QED
    BY <2>4, <2>5
<1> QED
  BY <1>8, <1>9

\* The rows that g no longer has locked.
LEMMA RowReleased ==
  ASSUME Inv, NEW g \in Goroutines, NEW k \in DOMAIN jobs
  PROVE  /\ Released(g)[k].type = jobs[k].type /\ Released(g)[k].who = jobs[k].who
         /\ Released(g)[k].arg = jobs[k].arg /\ Released(g)[k].due = jobs[k].due
         /\ Released(g)[k].taker = IF jobs[k].taker = g THEN Nobody ELSE jobs[k].taker
         /\ jobs[k].taker # g => Released(g)[k] = jobs[k]
         /\ Released(g)[k] \in Job
<1>1. jobs[k] \in Job
  BY ElementOfSeq DEF Inv, TypeOK
<1> DEFINE r == Released(g)[k]
<1>2. r = IF jobs[k].taker = g THEN [jobs[k] EXCEPT !.taker = Nobody] ELSE jobs[k]
  BY DEF Released
<1> HIDE DEF r
<1>3. /\ r.type = jobs[k].type /\ r.who = jobs[k].who
      /\ r.arg = jobs[k].arg /\ r.due = jobs[k].due
      /\ r.taker = IF jobs[k].taker = g THEN Nobody ELSE jobs[k].taker
      /\ jobs[k].taker # g => r = jobs[k]
      /\ r \in Job
  BY <1>1, <1>2 DEF Job
<1> QED
  BY <1>3 DEF r

LEMMA RowsReleased ==
  ASSUME Inv, NEW g \in Goroutines
  PROVE  /\ Released(g) \in Seq(Job) /\ DOMAIN Released(g) = DOMAIN jobs
         /\ OneRowEach(Released(g), Goroutines, BusyOnes \ {g})
<1> DEFINE rows == Released(g)
<1>1. rows = [k \in DOMAIN jobs |-> rows[k]] /\ DOMAIN rows = DOMAIN jobs
  BY DEF Released
<1>2. \A k \in DOMAIN jobs :
         /\ rows[k] \in Job
         /\ rows[k].taker = IF jobs[k].taker = g THEN Nobody ELSE jobs[k].taker
  BY RowReleased
<1>3. jobs \in Seq(Job) /\ OneRowEach(jobs, Goroutines, BusyOnes)
  BY DEF Inv, TypeOK, Locks
<1> HIDE DEF rows
<1>4. rows \in Seq(Job)
  BY <1>1, <1>2, <1>3, IsASeq
<1>5. OneRowEach(rows, Goroutines, BusyOnes \ {g})
  BY <1>1, <1>2, <1>3, PairingAssumption, LockReleased
<1> QED
  BY <1>1, <1>4, <1>5 DEF rows

\* The rows after a commit: the other jobs as they were, its own unless it is saved,
\* and what it has queued.
LEMMA CommitRows ==
  ASSUME Inv, NEW g \in Goroutines, NEW t, NEW saved, Ends(g, t, saved)
  PROVE  /\ jobs' \in Seq(Job)
         /\ \E n \in Nat : \E at : TableOf(jobs', Released(g), Kept(g, saved), NewJobs(g, t), n, at)
         /\ OneRowEach(jobs', Goroutines, BusyOnes')
         /\ \A x \in DOMAIN jobs' :
               \/ \E k \in DOMAIN jobs : k \in Kept(g, saved) /\ jobs'[x] = Released(g)[k]
               \/ \E i \in DOMAIN NewJobs(g, t) : jobs'[x] = NewJobs(g, t)[i]
         /\ \A k \in Kept(g, saved) : \E x \in DOMAIN jobs' : jobs'[x] = Released(g)[k]
         /\ \A k \in DOMAIN jobs : jobs[k].taker # g => \E x \in DOMAIN jobs' : jobs'[x] = jobs[k]
         /\ \A i \in DOMAIN NewJobs(g, t) : \E x \in DOMAIN jobs' : jobs'[x] = NewJobs(g, t)[i]
         /\ run' \in [Goroutines -> Run] /\ run'[g] = NoRun
         /\ \A h \in Goroutines \ {g} : run'[h] = run[h]
<1> DEFINE K == Kept(g, saved)
           adds == NewJobs(g, t)
           rows == Released(g)
<1>1. K \subseteq DOMAIN jobs /\ \A k \in DOMAIN jobs : jobs[k].taker # g => k \in K
  BY DEF Kept
<1>2. adds \in Seq(Job) /\ \A i \in DOMAIN adds : adds[i].taker = Nobody
  BY JobsQueued
<1>3. jobs' = Where(rows, K) \o adds /\ run' = [run EXCEPT ![g] = NoRun]
  BY DEF Ends, Finish
<1>4. /\ rows \in Seq(Job) /\ DOMAIN rows = DOMAIN jobs
      /\ OneRowEach(rows, Goroutines, BusyOnes \ {g})
      /\ \A k \in DOMAIN jobs :
            /\ rows[k].taker = IF jobs[k].taker = g THEN Nobody ELSE jobs[k].taker
            /\ jobs[k].taker # g => rows[k] = jobs[k]
  BY RowsReleased, RowReleased
<1>r. run \in [Goroutines -> Run]
  BY DEF Inv, TypeOK
<1> HIDE DEF K, adds, rows
<1>5. jobs' \in Seq(Job) /\ \E n \in Nat : \E at : TableOf(jobs', rows, K, adds, n, at)
  BY <1>1, <1>2, <1>3, <1>4, RowsOfTable
<1>6. PICK n \in Nat : \E at : TableOf(jobs', rows, K, adds, n, at)
  BY <1>5
<1>7. PICK at : TableOf(jobs', rows, K, adds, n, at)
  BY <1>6
<1>8. /\ run' \in [Goroutines -> Run] /\ run'[g] = NoRun
      /\ \A h \in Goroutines \ {g} : run'[h] = run[h]
  BY <1>3, <1>r, NoRunTyped
<1>9. BusyOnes' = BusyOnes \ {g}
  BY <1>8, NoRunTyped DEF BusyOnes, Busy
<1>10. \A i \in DOMAIN adds : adds[i].taker \notin Goroutines
  BY <1>2, PairingAssumption
<1>o. \A k \in DOMAIN rows \ K : rows[k].taker \notin Goroutines
  BY <1>1, <1>4, PairingAssumption
<1>11. OneRowEach(jobs', Goroutines, BusyOnes')
  BY <1>1, <1>4, <1>7, <1>9, <1>10, <1>o, UnlockedReplaced
<1>12. \A x \in DOMAIN jobs' : \/ \E k \in DOMAIN jobs : k \in K /\ jobs'[x] = rows[k]
                               \/ \E i \in DOMAIN adds : jobs'[x] = adds[i]
  BY <1>1, <1>7 DEF TableOf
<1>13. \A k \in K : \E x \in DOMAIN jobs' : jobs'[x] = rows[k]
  BY <1>1, <1>7 DEF TableOf
<1>14. \A i \in DOMAIN adds : \E x \in DOMAIN jobs' : jobs'[x] = adds[i]
  BY <1>7 DEF TableOf
<1>15. \A k \in DOMAIN jobs : jobs[k].taker # g => \E x \in DOMAIN jobs' : jobs'[x] = jobs[k]
  BY <1>1, <1>4, <1>13
<1> QED
  BY <1>5, <1>8, <1>11, <1>12, <1>13, <1>14, <1>15 DEF K, adds, rows

\* Nobody comes back, and pairings are removed only with their member.
LEMMA MembersAfter ==
  ASSUME Inv, NEW g \in Goroutines, NEW t, NEW saved, Ends(g, t, saved)
  PROVE  /\ member' \in [Members -> {"absent", "inactive", "active"}]
         /\ \A u \in Members : Present(u)' => Present(u)
         /\ \A p \in pairings' : p \notin pairings =>
               JobOf(g).type = "CREATE_PAIR" /\ p = <<JobOf(g).arg, p[2]>> /\ p[2] \in t.ends
         /\ \A u \in t.ends : JobOf(g).type = "CREATE_PAIR" => <<JobOf(g).arg, u>> \in pairings'
         /\ \A p \in pairings : p \in pairings' \/ (p[2] \in Members => ~Present(p[2])')
<1> DEFINE j == JobOf(g)
<1>1. j \in Job /\ Params(j)
  BY Committing
<1>2. member \in [Members -> {"absent", "inactive", "active"}]
  BY DEF Inv, TypeOK
<1>3. /\ member' = CASE j.type = "DELETE_MEMBER" -> [member EXCEPT ![j.who] = "absent"]
                     [] j.type = "UPDATE_MEMBER" /\ Present(j.who) ->
                           [member EXCEPT ![j.who] = IF j.on THEN "active" ELSE "inactive"]
                     [] OTHER -> member
      /\ pairings' = CASE j.type = "CREATE_PAIR" -> pairings \cup ({j.arg} \X t.ends)
                       [] j.type = "DELETE_MEMBER" -> {p \in pairings : p[2] # j.who}
                       [] OTHER -> pairings
  BY DEF Ends, Finish
<1>4. j.type \in {"UPDATE_MEMBER", "DELETE_MEMBER"} => j.who \in Members
  BY <1>1 DEF Params
<1> DEFINE Typed == member' \in [Members -> {"absent", "inactive", "active"}]
           NoReturn == \A u \in Members : Present(u)' => Present(u)
           Added == \A p \in pairings' : p \notin pairings =>
                       j.type = "CREATE_PAIR" /\ p = <<j.arg, p[2]>> /\ p[2] \in t.ends
           Paired == \A u \in t.ends : j.type = "CREATE_PAIR" => <<j.arg, u>> \in pairings'
           Removed == \A p \in pairings : p \in pairings' \/ (p[2] \in Members => ~Present(p[2])')
<1> SUFFICES Typed /\ NoReturn /\ Added /\ Paired /\ Removed
  OBVIOUS
<1> HIDE DEF j
<1>5. CASE j.type = "DELETE_MEMBER"
  <2>1. member' = [member EXCEPT ![j.who] = "absent"] /\ pairings' = {p \in pairings : p[2] # j.who}
    BY <1>3, <1>5
  <2>2. member'[j.who] = "absent"
    BY <2>1, <1>2, <1>4, <1>5
  <2>3. Typed /\ NoReturn
    BY <2>1, <1>2, <1>4, <1>5 DEF Present
  <2>4. Added /\ Paired
    BY <2>1, <1>5
  <2>5. Removed
    BY <2>1, <2>2 DEF Present
  <2> QED
    BY <2>3, <2>4, <2>5
<1>6. CASE j.type = "UPDATE_MEMBER" /\ Present(j.who)
  <2>1. /\ member' = [member EXCEPT ![j.who] = IF j.on THEN "active" ELSE "inactive"]
        /\ pairings' = pairings
    BY <1>3, <1>6
  <2>2. Typed /\ NoReturn
    BY <2>1, <1>2, <1>4, <1>6 DEF Present
  <2> QED
    BY <2>1, <2>2, <1>6
<1>7. CASE j.type = "CREATE_PAIR"
  <2>1. member' = member /\ pairings' = pairings \cup ({j.arg} \X t.ends)
    BY <1>3, <1>7
  <2>2. Typed /\ NoReturn
    BY <2>1, <1>2 DEF Present
  <2>3. Added /\ Paired /\ Removed
    BY <2>1, <1>7
  <2> QED
    BY <2>2, <2>3
<1>8. CASE j.type \notin {"DELETE_MEMBER", "CREATE_PAIR"} /\ ~(j.type = "UPDATE_MEMBER" /\ Present(j.who))
  <2>1. member' = member /\ pairings' = pairings
    BY <1>3, <1>8
  <2> QED
    BY <2>1, <1>2, <1>8 DEF Present
<1> QED
  BY <1>5, <1>6, <1>7, <1>8

\* A late match has a participant, and a draw inserts no other.
LEMMA WhoseMatches ==
  ASSUME Inv, NEW g \in Goroutines, NEW t, NEW saved, Ends(g, t, saved), DOMAIN matches' \ DOMAIN matches # {}
  PROVE  /\ round > 0
         /\ \A e \in t.pairs : Fits(e, JobOf(g).who)
         /\ \/ JobOf(g).type = "CREATE_MATCHES" /\ JobOf(g).who = NoMember /\ Disjoint(t.pairs)
            \/ JobOf(g).type = "CREATE_MATCH" /\ JobOf(g).who # NoMember
<1>1. /\ Decision(t, JobOf(g)) /\ Params(JobOf(g)) /\ Chosen(t) = t.pairs
  BY Committing
<1>2. t.pairs # {}
  BY MatchesAdded
<1>3. JobOf(g).type \in {"CREATE_MATCHES", "CREATE_MATCH"}
  BY <1>1, <1>2 DEF Decision
<1>4. round > 0 /\ \A e \in t.pairs : Fits(e, JobOf(g).who)
  BY <1>1, <1>2, <1>3 DEF Decision
<1>5. JobOf(g).type = "CREATE_MATCHES" => JobOf(g).who = NoMember /\ Disjoint(t.pairs)
  BY <1>1 DEF Decision, Params
<1>6. JobOf(g).type = "CREATE_MATCH" => JobOf(g).who # NoMember
  BY <1>1, PairingAssumption DEF Params
<1> QED
  BY <1>3, <1>4, <1>5, <1>6

LEMMA CommitTypes ==
  ASSUME Inv, NEW g \in Goroutines, NEW t, NEW saved, Ends(g, t, saved)
  PROVE  TypeOK'
<1> DEFINE j == JobOf(g)
           r == t
<1>1. r \in Run /\ j \in Job /\ Params(j) /\ Decision(r, j)
  BY Committing
<1>2. r.pairs \subseteq SUBSET Members /\ r.alone \subseteq Members /\ r.ends \subseteq Members
  BY <1>1 DEF Run
<1>3. /\ UNCHANGED <<round, half, panicked>> /\ events' \in Nat
      /\ redrawn' \subseteq redrawn \cup (IF j.type = "CREATE_MATCHES" THEN {round} ELSE {})
      /\ blocks' \subseteq blocks
      /\ told' \subseteq told \cup (IF j.type = "NOTIFY_MEMBER" THEN {<<j.arg, j.who>>} ELSE {})
      /\ drawn' \subseteq drawn \cup
            (IF j.type = "CREATE_MATCHES" THEN {round} \X (r.alone \cup UNION r.pairs) ELSE {})
  BY DEF Ends, Finish
<1>4. member' \in [Members -> {"absent", "inactive", "active"}]
  BY MembersAfter
<1>5. jobs' \in Seq(Job) /\ run' \in [Goroutines -> Run]
  BY CommitRows
<1>6. matches' \in Seq(Match) /\ DOMAIN matches \subseteq DOMAIN matches'
  BY MatchesAdded
<1>7. pairings' \subseteq (DOMAIN matches') \X Members
  <2>1. pairings \subseteq (DOMAIN matches) \X Members
    BY DEF Inv, TypeOK
  <2>2. j.type = "CREATE_PAIR" => j.arg \in DOMAIN matches
    BY <1>1 DEF Params
  <2> SUFFICES ASSUME NEW p \in pairings' PROVE p \in (DOMAIN matches') \X Members
    OBVIOUS
  <2>3. CASE p \in pairings
    BY <2>1, <2>3, <1>6
  <2>4. CASE p \notin pairings
    <3>1. j.type = "CREATE_PAIR" /\ p = <<j.arg, p[2]>> /\ p[2] \in r.ends
      BY <2>4, MembersAfter
    <3>2. j.arg \in DOMAIN matches' /\ p[2] \in Members
      BY <3>1, <2>2, <1>2, <1>6
    <3> QED
      BY <3>1, <3>2
  <2> QED
    BY <2>3, <2>4
<1>8. round \in Nat /\ half \in {1, 2} /\ panicked \in BOOLEAN /\ redrawn \subseteq 1..round
      /\ blocks \subseteq Members \X Members
      /\ told \subseteq (1..round) \X Members /\ drawn \subseteq (1..round) \X Members
  BY DEF Inv, TypeOK
<1>9. told' \subseteq (1..round) \X Members
  <2>1. j.type = "NOTIFY_MEMBER" => <<j.arg, j.who>> \in (1..round) \X Members
    BY <1>1 DEF Params
  <2> HIDE DEF j
  <2> QED
    BY <2>1, <1>3, <1>8
<1>10. drawn' \subseteq (1..round) \X Members
  <2>1. j.type = "CREATE_MATCHES" => round \in 1..round
    BY <1>1, <1>8 DEF Params
  <2>2. r.alone \cup UNION r.pairs \subseteq Members
    BY <1>2
  <2> DEFINE U == r.alone \cup UNION r.pairs
  <2> HIDE DEF j, U
  <2>3. j.type = "CREATE_MATCHES" => {round} \X U \subseteq (1..round) \X Members
    BY <2>1, <2>2 DEF U
  <2>4. drawn' \subseteq drawn \cup (IF j.type = "CREATE_MATCHES" THEN {round} \X U ELSE {})
    BY <1>3 DEF U
  <2> QED
    BY <2>3, <2>4, <1>8
<1>11. redrawn' \subseteq 1..round
  BY <1>1, <1>3, <1>8 DEF Params
<1> HIDE DEF j, r
<1> QED
  BY <1>3, <1>4, <1>5, <1>6, <1>7, <1>8, <1>9, <1>10, <1>11 DEF TypeOK

LEMMA CommitLocks ==
  ASSUME Inv, NEW g \in Goroutines, NEW t, NEW saved, Ends(g, t, saved)
  PROVE  Locks'
<1>1. /\ OneRowEach(jobs', Goroutines, BusyOnes') /\ run'[g] = NoRun
      /\ \A h \in Goroutines \ {g} : run'[h] = run[h]
  BY CommitRows
<1>2. \A h \in Goroutines : ~Busy(h)' => run'[h] = NoRun
  BY <1>1 DEF Inv, Locks, Busy
<1>3. ASSUME NEW x \in DOMAIN jobs', jobs'[x].taker # Nobody PROVE jobs'[x].due
  <2>1. \A i \in DOMAIN NewJobs(g, t) : NewJobs(g, t)[i].taker = Nobody
    BY JobsQueued
  <2>2. PICK k \in DOMAIN jobs : jobs'[x] = Released(g)[k]
    BY <1>3, <2>1, CommitRows
  <2>3. jobs'[x].due = jobs[k].due /\ jobs'[x].taker \in {Nobody, jobs[k].taker}
    BY <2>2, RowReleased
  <2> QED
    BY <1>3, <2>3 DEF Inv, Locks
<1> QED
  BY <1>1, <1>2, <1>3 DEF Locks

LEMMA CommitParams ==
  ASSUME Inv, NEW g \in Goroutines, NEW t, NEW saved, Ends(g, t, saved)
  PROVE  ParamsOK'
<1> SUFFICES ASSUME NEW x \in DOMAIN jobs' PROVE Params(jobs[x])'
  BY DEF ParamsOK
<1>1. DOMAIN matches \subseteq DOMAIN matches' /\ round' = round
  BY MatchesAdded DEF Ends, Finish
<1>2. ASSUME NEW k \in DOMAIN jobs, jobs'[x] = Released(g)[k] PROVE Params(jobs[x])'
  <2>1. Params(jobs[k])
    BY DEF Inv, ParamsOK
  <2>2. /\ jobs'[x].type = jobs[k].type /\ jobs'[x].who = jobs[k].who
        /\ jobs'[x].arg = jobs[k].arg /\ jobs'[x].due = jobs[k].due
    BY <1>2, RowReleased
  <2> QED
    BY <1>1, <2>1, <2>2 DEF Params
<1>3. ASSUME NEW i \in DOMAIN NewJobs(g, t), jobs'[x] = NewJobs(g, t)[i] PROVE Params(jobs[x])'
  <2> DEFINE a == NewJobs(g, t)[i]
  <2>1. Params(JobOf(g)) /\ Decision(t, JobOf(g)) /\ t \in Run
    BY Committing
  <2>2. \/ a.type = "NOTIFY_PAIR" /\ a.arg = JobOf(g).arg /\ JobOf(g).type = "CREATE_PAIR"
        \/ a.type = "CREATE_PAIR" /\ a.arg \in DOMAIN matches' \ DOMAIN matches
        \/ a.type = "NOTIFY_MEMBER" /\ a.arg = round /\ a.who \in t.alone
    BY JobsQueued
  <2>3. JobOf(g).type = "CREATE_PAIR" => JobOf(g).arg \in DOMAIN matches'
    BY <2>1, <1>1 DEF Params
  <2>4. a.type = "NOTIFY_MEMBER" => a.who \in Members /\ a.arg \in 1..round
    <3>1. a.type = "NOTIFY_MEMBER" => JobOf(g).type = "CREATE_MATCHES"
      BY <2>1, <2>2 DEF Decision
    <3>2. JobOf(g).type = "CREATE_MATCHES" => round \in 1..round
      BY <2>1 DEF Params, Inv, TypeOK
    <3>3. t.alone \subseteq Members
      BY <2>1 DEF Run
    <3> QED
      BY <3>1, <3>2, <3>3, <2>2
  <2> HIDE DEF a
  <2> QED
    BY <1>1, <2>2, <2>3, <2>4, <1>3 DEF Params, a
<1> QED
  BY <1>2, <1>3, CommitRows

\* If a CREATE_MATCHES is left, it is not the job that commits, which has then drawn
\* nothing, or it is that job, and the round is redrawn.
LEMMA CommitDrawnOnce ==
  ASSUME Inv, NEW g \in Goroutines, NEW t, NEW saved, Ends(g, t, saved)
  PROVE  DrawnOnce'
<1>1. PICK n \in Nat : \E at : TableOf(jobs', Released(g), Kept(g, saved), NewJobs(g, t), n, at)
  BY CommitRows
<1>2. PICK at : TableOf(jobs', Released(g), Kept(g, saved), NewJobs(g, t), n, at)
  BY <1>1
<1>3. \A i \in DOMAIN NewJobs(g, t) : NewJobs(g, t)[i].type # "CREATE_MATCHES"
  BY JobsQueued
<1>4. ASSUME NEW x \in DOMAIN jobs', jobs'[x].type = "CREATE_MATCHES"
      PROVE  /\ x \in 1..n /\ at[x] \in DOMAIN jobs /\ jobs[at[x]].type = "CREATE_MATCHES"
             /\ saved => jobs[at[x]].taker # g
  <2>1. x \in 1..n /\ at[x] \in Kept(g, saved) /\ jobs'[x] = Released(g)[at[x]]
    BY <1>2, <1>3, <1>4 DEF TableOf
  <2>2. at[x] \in DOMAIN jobs /\ (saved => jobs[at[x]].taker # g)
    BY <2>1 DEF Kept
  <2> QED
    BY <2>1, <2>2, <1>4, RowReleased
<1> SUFFICES ASSUME NEW x \in DOMAIN jobs', jobs'[x].type = "CREATE_MATCHES"
             PROVE  /\ \A y \in DOMAIN jobs' : jobs'[y].type = "CREATE_MATCHES" => y = x
                    /\ \A m \in DOMAIN matches' :
                          matches'[m].late = NoMember => matches'[m].round < round' \/ round' \in redrawn'
  BY DEF DrawnOnce
<1>5. /\ at[x] \in DOMAIN jobs /\ jobs[at[x]].type = "CREATE_MATCHES" /\ x \in 1..n
      /\ saved => jobs[at[x]].taker # g
  BY <1>4
<1>6. ASSUME NEW y \in DOMAIN jobs', jobs'[y].type = "CREATE_MATCHES" PROVE y = x
  <2>1. at[y] \in DOMAIN jobs /\ jobs[at[y]].type = "CREATE_MATCHES" /\ y \in 1..n
    BY <1>4, <1>6
  <2>2. at[y] = at[x]
    BY <1>5, <2>1 DEF Inv, DrawnOnce
  <2> QED
    BY <1>2, <1>5, <2>1, <2>2 DEF TableOf
<1>7. round' = round /\ redrawn \subseteq redrawn'
      /\ (JobOf(g).type = "CREATE_MATCHES" /\ ~saved => round \in redrawn')
  BY DEF Ends, Finish
<1>8. ASSUME NEW m \in DOMAIN matches', matches'[m].late = NoMember, round \notin redrawn'
      PROVE  matches'[m].round < round
  <2>1. JobOf(g).type # "CREATE_MATCHES"
    <3>1. PICK k \in DOMAIN jobs : jobs[k].taker = g /\ JobOf(g) = jobs[k]
      BY Committing
    <3>2. saved \in BOOLEAN
      BY DEF Ends
    <3> QED
      BY <1>5, <1>7, <1>8, <3>1, <3>2 DEF Inv, DrawnOnce
  <2>2. CASE m \in DOMAIN matches
    <3>1. matches[m].late = NoMember => matches[m].round < round
      BY <1>5, <1>7, <1>8, <2>2 DEF Inv, DrawnOnce
    <3> QED
      BY <1>8, <2>2, <3>1, MatchesAdded
  <2>3. CASE m \notin DOMAIN matches
    <3>1. matches'[m].late = JobOf(g).who
      BY <2>3, MatchesAdded
    <3>2. JobOf(g).who # NoMember
      BY <2>1, <2>3, WhoseMatches
    <3> QED
      BY <1>8, <3>1, <3>2
  <2> QED
    BY <2>2, <2>3
<1> QED
  BY <1>6, <1>7, <1>8

\* What others have decided outlives the commit: their match is the same, and who
\* was absent is.
LEMMA CommitDecisions ==
  ASSUME Inv, NEW g \in Goroutines, NEW t, NEW saved, Ends(g, t, saved)
  PROVE  Decisions'
<1> SUFFICES ASSUME NEW x \in DOMAIN jobs', NEW h \in Goroutines, jobs'[x].taker = h
             PROVE  Decision(run[h], jobs[x])'
  BY DEF Decisions
<1>1. \A i \in DOMAIN NewJobs(g, t) : NewJobs(g, t)[i].taker = Nobody
  BY JobsQueued
<1>2. PICK k \in DOMAIN jobs : jobs[k].taker # g /\ jobs'[x] = jobs[k]
  <2>1. PICK k \in DOMAIN jobs : jobs'[x] = Released(g)[k]
    BY <1>1, CommitRows, PairingAssumption
  <2> QED
    BY <2>1, RowReleased, PairingAssumption
<1>3. run'[h] = run[h]
  BY <1>2, CommitRows
<1>4. Decision(run[h], jobs[k]) /\ Params(jobs[k])
  BY <1>2 DEF Inv, Decisions, ParamsOK
<1>5. jobs[k].type = "CREATE_PAIR" =>
         /\ matches'[jobs[k].arg].ends = matches[jobs[k].arg].ends
         /\ matches[jobs[k].arg].ends \subseteq Members
  <2>1. jobs[k].type = "CREATE_PAIR" => jobs[k].arg \in DOMAIN matches
    BY <1>4 DEF Params
  <2>2. \A m \in DOMAIN matches : matches[m].ends \subseteq Members
    <3> TAKE m \in DOMAIN matches
    <3>1. matches[m] \in Match
      BY ElementOfSeq DEF Inv, TypeOK
    <3> QED
      BY <3>1 DEF Match
  <2> QED
    BY <2>1, <2>2, MatchesAdded
<1>6. \A u \in Members : Present(u)' => Present(u)
  BY MembersAfter
<1>7. round' = round /\ run[h] \in Run
  BY DEF Ends, Finish, Inv, TypeOK
<1> QED
  BY <1>2, <1>3, <1>4, <1>5, <1>6, <1>7 DEF Decision, Chosen

LEMMA CommitMatches ==
  ASSUME Inv, NEW g \in Goroutines, NEW t, NEW saved, Ends(g, t, saved)
  PROVE  MatchesOK'
<1> DEFINE j == JobOf(g)
           old == DOMAIN matches
           new == DOMAIN matches' \ DOMAIN matches
<1>1. round' = round /\ round \in Nat /\ redrawn \subseteq redrawn'
  BY DEF Ends, Finish, Inv, TypeOK
<1>2. \A m \in old : /\ matches'[m].round = matches[m].round /\ matches'[m].ends = matches[m].ends
                     /\ matches'[m].late = matches[m].late
  BY MatchesAdded
<1>3. /\ \A m \in old : matches[m].round \in 1..round /\ Fits(matches[m].ends, matches[m].late)
      /\ \A m, n \in old :
            /\ m # n /\ Drawn(m) /\ Drawn(n)
            /\ matches[m].round = matches[n].round /\ matches[m].round \notin redrawn
            => matches[m].ends \cap matches[n].ends = {}
  BY DEF Inv, MatchesOK
<1>4. \A m \in new : /\ matches'[m].round = round /\ matches'[m].ends \in t.pairs
                     /\ matches'[m].late = j.who
  BY MatchesAdded
<1>5. \A m \in new : matches'[m].round \in 1..round /\ Fits(matches'[m].ends, matches'[m].late)
  <2> TAKE m \in new
  <2>1. round > 0 /\ Fits(matches'[m].ends, j.who)
    BY <1>4, WhoseMatches
  <2> QED
    BY <2>1, <1>1, <1>4
<1>6. ASSUME NEW m \in DOMAIN matches', NEW n \in DOMAIN matches', m # n,
             matches'[m].round = matches'[n].round, matches'[m].round \notin redrawn',
             Drawn(m)', Drawn(n)'
      PROVE  matches'[m].ends \cap matches'[n].ends = {}
  <2>1. CASE m \in old /\ n \in old
    BY <2>1, <1>1, <1>2, <1>3, <1>6 DEF Drawn
  <2>2. \A x \in new : Drawn(x)' => j.type = "CREATE_MATCHES" /\ Disjoint(t.pairs)
    BY <1>4, WhoseMatches DEF Drawn
  <2>3. CASE m \in new /\ n \in new
    <3>1. Disjoint(t.pairs) /\ matches'[m].ends # matches'[n].ends
      BY <2>2, <2>3, <1>6, MatchesAdded
    <3> QED
      BY <3>1, <2>3, <1>4 DEF Disjoint
  <2>4. \A x \in new, y \in old :
           Drawn(x)' /\ Drawn(y)' /\ matches'[x].round \notin redrawn'
           => matches'[x].round # matches'[y].round
    <3> SUFFICES ASSUME NEW x \in new, NEW y \in old, Drawn(x)', Drawn(y)', matches'[x].round \notin redrawn'
                 PROVE  matches'[x].round # matches'[y].round
      OBVIOUS
    <3>1. PICK k \in DOMAIN jobs : JobOf(g) = jobs[k]
      BY Committing
    <3>2. jobs[k].type = "CREATE_MATCHES"
      BY <3>1, <2>2
    <3>3. matches[y].late = NoMember
      BY <1>2 DEF Drawn
    <3>4. matches[y].round < round
      BY <3>2, <3>3, <1>1, <1>4 DEF Inv, DrawnOnce
    <3>5. matches[y].round \in 1..round
      BY <1>3
    <3> QED
      BY <3>4, <3>5, <1>1, <1>2, <1>4
  <2> QED
    BY <2>1, <2>3, <2>4, <1>6
<1>7. \A m \in old : Fits(matches'[m].ends, matches'[m].late)
  BY <1>2, <1>3
<1> QED
  BY <1>1, <1>2, <1>3, <1>5, <1>6, <1>7 DEF MatchesOK, Fits, Drawn

LEMMA CommitPairings ==
  ASSUME Inv, NEW g \in Goroutines, NEW t, NEW saved, Ends(g, t, saved)
  PROVE  PairingsOK' /\ PairingsWhole'
<1> DEFINE j == JobOf(g)
<1>1. Params(j) /\ Decision(t, j)
  BY Committing
<1>2. j.type = "CREATE_PAIR" =>
         j.arg \in DOMAIN matches /\ t.ends \subseteq matches[j.arg].ends
  BY <1>1 DEF Params, Decision
<1>3. \A m \in DOMAIN matches : matches'[m].ends = matches[m].ends
  BY MatchesAdded
<1>4. pairings \subseteq (DOMAIN matches) \X Members
  BY DEF Inv, TypeOK
<1>5. \A p \in pairings' : p \notin pairings =>
         j.type = "CREATE_PAIR" /\ p = <<j.arg, p[2]>> /\ p[2] \in t.ends
  BY MembersAfter
<1>6. \A p \in pairings' : p[1] \in DOMAIN matches
  BY <1>2, <1>4, <1>5
<1>7. PairingsOK'
  <2> SUFFICES ASSUME NEW p \in pairings' PROVE p[2] \in matches'[p[1]].ends
    BY DEF PairingsOK
  <2>1. CASE p \in pairings
    BY <2>1, <1>3, <1>6 DEF Inv, PairingsOK
  <2>2. CASE p \notin pairings
    <3>1. j.type = "CREATE_PAIR" /\ p[1] = j.arg /\ p[2] \in t.ends
      BY <2>2, <1>5
    <3> QED
      BY <3>1, <1>2, <1>3
  <2> QED
    BY <2>1, <2>2
<1> DEFINE Whole(m) == \A u \in matches[m].ends : Present(u) => Has(m, u)
           None(m) == \A u \in matches[m].ends : Present(u) => ~Has(m, u)
           Queued(m) == \E k \in DOMAIN jobs : jobs[k].type = "CREATE_PAIR" /\ jobs[k].arg = m
           News(m) == \E k \in DOMAIN jobs : jobs[k].type = "NOTIFY_PAIR" /\ jobs[k].arg = m
           Pairs(m) == j.type = "CREATE_PAIR" /\ j.arg = m
<1>8. \A m : /\ (Queued(m) <=> \E x \in Pending : x.type = "CREATE_PAIR" /\ x.arg = m)
             /\ (Queued(m)' <=> (\E x \in Pending : x.type = "CREATE_PAIR" /\ x.arg = m)')
             /\ (News(m) <=> \E x \in Pending : x.type = "NOTIFY_PAIR" /\ x.arg = m)
             /\ (News(m)' <=> (\E x \in Pending : x.type = "NOTIFY_PAIR" /\ x.arg = m)')
  BY DEF Pending
<1>9. \A m : News(m)' => News(m) \/ (Pairs(m) /\ t.pc = "done" /\ t.ends # {})
  <2> SUFFICES ASSUME NEW x \in DOMAIN jobs', jobs'[x].type = "NOTIFY_PAIR"
               PROVE  \/ News(jobs'[x].arg)
                      \/ Pairs(jobs'[x].arg) /\ t.pc = "done" /\ t.ends # {}
    OBVIOUS
  <2>1. CASE \E k \in DOMAIN jobs : jobs'[x] = Released(g)[k]
    BY <2>1, RowReleased
  <2>2. CASE \E i \in DOMAIN NewJobs(g, t) : jobs'[x] = NewJobs(g, t)[i]
    BY <2>2, JobsQueued
  <2> QED
    BY <2>1, <2>2, CommitRows
<1>10. ASSUME NEW m, News(m) PROVE m \in DOMAIN matches
  <2>1. PICK k \in DOMAIN jobs : jobs[k].type = "NOTIFY_PAIR" /\ jobs[k].arg = m
    BY <1>10
  <2>2. Params(jobs[k])
    BY DEF Inv, ParamsOK
  <2> QED
    BY <2>1, <2>2 DEF Params
<1>11. \A m \in DOMAIN matches : /\ Fits(matches[m].ends, matches[m].late)
                                 /\ matches[m].ends \subseteq Members
  <2>1. \A e, who : Fits(e, who) => e \subseteq Members
    BY DEF Fits
  <2>2. \A m \in DOMAIN matches : Fits(matches[m].ends, matches[m].late)
    BY DEF Inv, MatchesOK
  <2> QED
    BY <2>1, <2>2
<1>12. \A m \in DOMAIN matches, u \in Members :
          /\ Present(u)' => Present(u)
          /\ Has(m, u) /\ Present(u)' => Has(m, u)'
  BY MembersAfter DEF Has
<1>13. ASSUME NEW k \in Kept(g, saved), NEW m, jobs[k].type = "CREATE_PAIR", jobs[k].arg = m
       PROVE  Queued(m)'
  <2>1. k \in DOMAIN jobs
    BY DEF Kept
  <2>2. PICK x \in DOMAIN jobs' : jobs'[x] = Released(g)[k]
    BY CommitRows
  <2>3. jobs'[x].type = "CREATE_PAIR" /\ jobs'[x].arg = m
    BY <1>13, <2>1, <2>2, RowReleased
  <2> QED
    BY <2>3
<1>14. \A m \in DOMAIN matches : Whole(m) \/ (~Introduced(m) /\ (None(m) \/ Queued(m)))
  BY <1>8 DEF Inv, PairingsWhole
<1>15. ASSUME NEW m \in DOMAIN matches'
       PROVE  Whole(m)' \/ (~Introduced(m)' /\ (None(m)' \/ Queued(m)'))
  <2>1. CASE m \notin DOMAIN matches
    <3>1. None(m)'
      BY <2>1, <1>6 DEF Has
    <3>2. ~matches'[m].notified
      BY <2>1, MatchesAdded
    <3>3. ~News(m)'
      BY <2>1, <1>2, <1>9, <1>10
    <3> QED
      BY <3>1, <3>2, <3>3, <1>8 DEF Introduced
  <2>2. CASE m \in DOMAIN matches /\ Pairs(m) /\ t.pc = "done" /\ t.ends # {}
    <3>1. t.ends = matches'[m].ends
      BY <2>2, <1>1, <1>3 DEF Decision
    <3>2. \A u \in matches'[m].ends : Has(m, u)'
      BY <2>2, <3>1, MembersAfter DEF Has
    <3> QED
      BY <3>2
  <2>3. CASE m \in DOMAIN matches /\ ~(Pairs(m) /\ t.pc = "done" /\ t.ends # {})
    <3> USE <2>3
    <3>1. Introduced(m)' => Introduced(m)
      <4>1. matches'[m].notified => matches[m].notified \/ (j.type = "NOTIFY_PAIR" /\ j.arg = m)
        BY MatchesAdded
      <4>2. j.type = "NOTIFY_PAIR" /\ j.arg = m => News(m)
        BY Committing
      <4> QED
        BY <4>1, <4>2, <1>8, <1>9 DEF Introduced
    <3>2. \A u \in matches'[m].ends : u \in Members /\ u \in matches[m].ends
      BY <1>3, <1>11
    <3>3. CASE Whole(m)
      <4>1. \A u \in matches'[m].ends : Present(u)' => Has(m, u)'
        BY <3>2, <3>3, <1>12
      <4> QED
        BY <4>1
    <3>4. CASE ~Introduced(m) /\ \E k \in Kept(g, saved) : jobs[k].type = "CREATE_PAIR" /\ jobs[k].arg = m
      BY <3>1, <3>4, <1>13
    <3>5. CASE ~Introduced(m) /\ ~Pairs(m) /\ (None(m) \/ Queued(m))
      <4>1. ASSUME NEW k \in DOMAIN jobs, jobs[k].type = "CREATE_PAIR", jobs[k].arg = m
            PROVE  k \in Kept(g, saved)
        <5>1. jobs[k].taker # g
          BY <3>5, <4>1, Committing
        <5> QED
          BY <5>1 DEF Kept
      <4>2. \A u \in matches'[m].ends : Has(m, u)' => Has(m, u)
        <5> SUFFICES ASSUME NEW u \in matches'[m].ends, <<m, u>> \in pairings' PROVE <<m, u>> \in pairings
          BY DEF Has
        <5>1. <<m, u>>[1] = m /\ <<m, u>>[2] = u
          OBVIOUS
        <5> QED
          BY <5>1, <1>5, <3>5
      <4>3. CASE None(m)
        BY <3>1, <3>2, <3>5, <4>2, <4>3, <1>12
      <4>4. CASE Queued(m)
        BY <3>4, <3>5, <4>1, <4>4
      <4> QED
        BY <3>5, <4>3, <4>4
    <3>6. CASE ~Introduced(m) /\ Pairs(m)
      <4>1. PICK k \in DOMAIN jobs : jobs[k].taker = g /\ j = jobs[k]
        BY Committing
      <4>2. CASE ~saved
        <5>1. k \in Kept(g, saved)
          BY <4>2 DEF Kept
        <5> QED
          BY <5>1, <4>1, <3>4, <3>6
      <4>3. CASE saved
        <5>1. t.pc = "done" /\ t.ends = {}
          BY <4>3, <3>6, <1>1 DEF Ends, Decision
        <5>2. \E w \in matches[m].ends : ~Present(w)
          BY <5>1, <3>6, <1>1 DEF Decision
        <5>0. \E a, b \in Members : matches[m].ends = {a, b}
          BY <1>11 DEF Fits
        <5>3. \A u, v \in matches[m].ends : Present(u) /\ Present(v) => u = v
          BY <5>0, <5>2
        <5>4. \A u, v \in matches'[m].ends : Present(u)' /\ Present(v)' => u = v
          BY <5>3, <3>2, <1>12
        <5>5. Whole(m)' \/ None(m)'
          BY <5>4
        <5> QED
          BY <5>5, <3>1, <3>6
      <4>4. saved \in BOOLEAN
        BY DEF Ends
      <4> QED
        BY <4>2, <4>3, <4>4
    <3> QED
      BY <3>3, <3>5, <3>6, <1>14
  <2> QED
    BY <2>1, <2>2, <2>3
<1>16. PairingsWhole'
  BY <1>8, <1>15 DEF PairingsWhole
<1> QED
  BY <1>7, <1>16

\* A job that commits hands the news of a match on to the next, or to the members.
LEMMA CommitInformed ==
  ASSUME Inv, NEW g \in Goroutines, NEW t, NEW saved, Ends(g, t, saved)
  PROVE  Informed'
<1> DEFINE j == JobOf(g)
           Gone(r, u) == \E m \in DOMAIN matches :
                            /\ matches[m].round = r /\ u \in matches[m].ends
                            /\ \E v \in matches[m].ends : ~Present(v)
<1>1. Decision(t, j) /\ Params(j) /\ \A k \in DOMAIN jobs : jobs[k].taker = g => j = jobs[k]
  BY Committing
<1>2. \A m \in DOMAIN matches :
         /\ m \in DOMAIN matches' /\ matches'[m].round = matches[m].round
         /\ matches'[m].ends = matches[m].ends
         /\ matches[m].notified => matches'[m].notified
         /\ j.type = "NOTIFY_PAIR" /\ j.arg = m => matches'[m].notified
  BY MatchesAdded
<1>3. \A m \in DOMAIN matches : matches[m].ends \subseteq Members
  <2> TAKE m \in DOMAIN matches
  <2>1. matches[m] \in Match
    BY ElementOfSeq DEF Inv, TypeOK
  <2> QED
    BY <2>1 DEF Match
<1>4. ASSUME NEW r, NEW u, Gone(r, u) PROVE Gone(r, u)'
  <2>1. PICK m \in DOMAIN matches : /\ matches[m].round = r /\ u \in matches[m].ends
                                    /\ \E v \in matches[m].ends : ~Present(v)
    BY <1>4
  <2>2. \E v \in matches[m].ends : ~Present(v)'
    BY <2>1, <1>3, MembersAfter
  <2> QED
    BY <2>1, <2>2, <1>2
<1>5. \A k \in DOMAIN jobs :
         \/ jobs[k].taker = g /\ saved
         \/ \E x \in Pending' : x.type = jobs[k].type /\ x.who = jobs[k].who /\ x.arg = jobs[k].arg
  <2> SUFFICES ASSUME NEW k \in DOMAIN jobs, k \in Kept(g, saved)
               PROVE  \E x \in Pending' : /\ x.type = jobs[k].type /\ x.who = jobs[k].who
                                           /\ x.arg = jobs[k].arg
    BY DEF Kept
  <2>1. PICK n \in DOMAIN jobs' : jobs'[n] = Released(g)[k]
    BY CommitRows
  <2>2. jobs'[n] \in Pending'
    BY DEF Pending
  <2> QED
    BY <2>1, <2>2, RowReleased
<1>6. \A i \in DOMAIN NewJobs(g, t) : NewJobs(g, t)[i] \in Pending'
  BY CommitRows DEF Pending
<1>7. ASSUME NEW r, NEW u, HearsOf(r, u) PROVE HearsOf(r, u)' \/ Gone(r, u)'
  <2>1. CASE <<r, u>> \in told
    <3>1. <<r, u>> \in told'
      BY <2>1 DEF Ends, Finish
    <3> QED
      BY <3>1 DEF HearsOf
  <2>2. ASSUME NEW k \in DOMAIN jobs,
               jobs[k].type = "NOTIFY_MEMBER", jobs[k].who = u, jobs[k].arg = r
        PROVE  HearsOf(r, u)'
    <3>1. CASE jobs[k].taker = g /\ saved
      <4>1. j.type = "NOTIFY_MEMBER" /\ j.who = u /\ j.arg = r
        BY <2>2, <3>1, <1>1
      <4>2. <<r, u>> \in told'
        BY <4>1 DEF Ends, Finish
      <4> QED
        BY <4>2 DEF HearsOf
    <3>2. CASE ~(jobs[k].taker = g /\ saved)
      BY <2>2, <3>2, <1>5 DEF HearsOf
    <3> QED
      BY <3>1, <3>2
  <2>3. ASSUME NEW m \in DOMAIN matches, matches[m].round = r, u \in matches[m].ends,
               matches[m].notified \/ \E x \in Pending : x.type \in {"CREATE_PAIR", "NOTIFY_PAIR"} /\ x.arg = m
        PROVE  HearsOf(r, u)' \/ Gone(r, u)'
    <3>1. m \in DOMAIN matches' /\ matches'[m].round = r /\ u \in matches'[m].ends
      BY <2>3, <1>2
    <3>2. CASE matches'[m].notified
      BY <3>1, <3>2 DEF HearsOf
    <3>3. CASE \E x \in Pending' : x.type \in {"CREATE_PAIR", "NOTIFY_PAIR"} /\ x.arg = m
      BY <3>1, <3>3 DEF HearsOf
    <3>4. ASSUME NEW k \in DOMAIN jobs, jobs[k].type \in {"CREATE_PAIR", "NOTIFY_PAIR"}, jobs[k].arg = m
          PROVE  HearsOf(r, u)' \/ Gone(r, u)'
      <4>1. CASE ~(jobs[k].taker = g /\ saved)
        BY <3>3, <3>4, <4>1, <1>5
      <4>2. CASE jobs[k].taker = g /\ jobs[k].type = "NOTIFY_PAIR"
        BY <3>2, <3>4, <4>2, <1>1, <1>2
      <4>3. CASE jobs[k].taker = g /\ saved /\ jobs[k].type = "CREATE_PAIR"
        <5>1. j.type = "CREATE_PAIR" /\ j.arg = m /\ t.pc = "done"
          BY <3>4, <4>3, <1>1 DEF Ends, Decision
        <5>2. CASE t.ends # {}
          <6>1. \E i \in DOMAIN NewJobs(g, t) : NewJobs(g, t)[i].type = "NOTIFY_PAIR" /\ NewJobs(g, t)[i].arg = m
            BY <5>1, <5>2, JobsQueued
          <6> QED
            BY <6>1, <1>6, <3>3
        <5>3. CASE t.ends = {}
          <6>1. \E v \in matches[m].ends : ~Present(v)
            BY <5>1, <5>3, <1>1 DEF Decision
          <6>2. Gone(r, u)
            BY <2>3, <6>1
          <6> QED
            BY <6>2, <1>4
        <5> QED
          BY <5>2, <5>3
      <4> QED
        BY <3>4, <4>1, <4>2, <4>3
    <3> QED
      BY <2>3, <3>2, <3>4, <1>2 DEF Pending
  <2> QED
    BY <1>7, <2>1, <2>2, <2>3 DEF HearsOf, Pending
<1>8. ASSUME NEW d \in drawn', d \notin drawn PROVE HearsOf(d[1], d[2])'
  <2>1. j.type = "CREATE_MATCHES" /\ d[1] = round /\ d[2] \in t.alone \cup UNION t.pairs
    BY <1>8 DEF Ends, Finish
  <2>2. CASE d[2] \in t.alone
    <3>1. \E i \in DOMAIN NewJobs(g, t) : /\ NewJobs(g, t)[i].type = "NOTIFY_MEMBER"
                                       /\ NewJobs(g, t)[i].arg = round /\ NewJobs(g, t)[i].who = d[2]
      BY <2>2, JobsQueued
    <3> QED
      BY <3>1, <2>1, <1>6 DEF HearsOf
  <2>3. ASSUME NEW e \in t.pairs, d[2] \in e PROVE HearsOf(d[1], d[2])'
    <3>1. PICK k \in 1..Cardinality(t.pairs) :
             Len(matches) + k \in DOMAIN matches' \ DOMAIN matches /\ matches'[Len(matches) + k].ends = e
      BY MatchesAdded
    <3> DEFINE m == Len(matches) + k
    <3>2. m \in DOMAIN matches' \ DOMAIN matches /\ matches'[m].ends = e
      BY <3>1
    <3> HIDE DEF m
    <3>3. matches'[m].round = round
      BY <3>2, MatchesAdded
    <3>4. \E i \in DOMAIN NewJobs(g, t) : NewJobs(g, t)[i].type = "CREATE_PAIR" /\ NewJobs(g, t)[i].arg = m
      BY <3>2, JobsQueued
    <3>5. \E x \in Pending' : x.type \in {"CREATE_PAIR", "NOTIFY_PAIR"} /\ x.arg = m
      BY <3>4, <1>6
    <3> QED
      BY <3>2, <3>3, <3>5, <2>1, <2>3 DEF HearsOf
  <2> QED
    BY <2>1, <2>2, <2>3
<1> SUFFICES ASSUME NEW d \in drawn' PROVE HearsOf(d[1], d[2])' \/ Gone(d[1], d[2])'
  BY DEF Informed
<1>9. CASE d \in drawn
  <2>1. HearsOf(d[1], d[2]) \/ Gone(d[1], d[2])
    BY <1>9 DEF Inv, Informed
  <2> HIDE DEF Gone
  <2> QED
    BY <2>1, <1>4, <1>7
<1> QED
  BY <1>8, <1>9

LEMMA CommitInv ==
  ASSUME Inv, NEW g \in Goroutines, NEW t, NEW saved, Ends(g, t, saved)
  PROVE  Inv'
  BY CommitTypes, CommitLocks, CommitParams, CommitDrawnOnce, CommitDecisions, CommitMatches,
     CommitPairings, CommitInformed DEF Inv

LEMMA CompleteInv ==
  ASSUME Inv, NEW g \in Goroutines, Commit(g) \/ CommitUnsaved(g) \/ CutPair(g)
  PROVE  Inv'
<1>1. Busy(g) /\ events \in Nat
  BY DEF Commit, CommitUnsaved, CutPair, Runs, Busy, Inv, TypeOK
<1>2. run[g] \in Run /\ Decision(run[g], JobOf(g))
  BY <1>1, RowOfBusy
<1>3. CASE Commit(g)
  <2>1. Ends(g, run[g], TRUE)
    BY <1>1, <1>2, <1>3 DEF Ends, Commit
  <2> QED
    BY <2>1, CommitInv
<1>4. CASE CommitUnsaved(g) \/ CutPair(g)
  <2>1. CommitShutdown(g, run[g]) /\ run[g].pc \in {"done", "refused", "pair"}
    BY <1>4 DEF CommitUnsaved, CutPair, Runs
  <2>2. Finish(g, run[g], FALSE) /\ events' = events + 1
    BY <2>1, Zenon DEF CommitShutdown
  <2>3. events' \in Nat
    BY <1>1, <2>2
  <2>4. Ends(g, run[g], FALSE)
    BY <1>1, <1>2, <2>1, <2>2, <2>3 DEF Ends
  <2> QED
    BY <2>4, CommitInv
<1> QED
  BY <1>3, <1>4

LEMMA CutDrawInv ==
  ASSUME Inv, NEW g \in Goroutines, CutDraw(g)
  PROVE  Inv'
<1>1. Busy(g) /\ run[g].pc = "draw" /\ JobOf(g).type = "CREATE_MATCHES" /\ events \in Nat
  BY DEF CutDraw, Runs, Busy, Inv, TypeOK
<1>2. PICK d \in Draws : \E pairs \in SUBSET d, alone \in SUBSET (Active \ UNION d) :
         CommitShutdown(g, [run[g] EXCEPT !.pairs = pairs, !.alone = alone])
  BY DEF CutDraw
<1>3. PICK pairs \in SUBSET d, alone \in SUBSET (Active \ UNION d) :
         CommitShutdown(g, [run[g] EXCEPT !.pairs = pairs, !.alone = alone])
  BY <1>2
<1> DEFINE t == [run[g] EXCEPT !.pairs = pairs, !.alone = alone]
<1>4. run[g] \in Run /\ Decision(run[g], JobOf(g)) /\ Params(JobOf(g))
  BY <1>1, RowOfBusy
<1>5. d \subseteq SUBSET Members /\ Disjoint(d) /\ \A e \in d : Fits(e, NoMember)
  BY DrawFits
<1>6. t \in Run /\ t.pc = "draw" /\ t.pairs = pairs /\ Chosen(t) = pairs
  BY <1>1, <1>4, <1>5 DEF Run, Chosen, Active
<1> HIDE DEF t
<1>7. Finish(g, t, FALSE) /\ events' \in Nat
  <2>1. Finish(g, t, FALSE) /\ events' = events + 1
    <3>1. CommitShutdown(g, t)
      BY <1>3 DEF t
    <3> QED
      BY <3>1, Zenon DEF CommitShutdown
  <2>2. events + 1 \in Nat
    BY <1>1
  <2> QED
    BY <2>1, <2>2, Zenon
<1>8. Disjoint(pairs)
  BY <1>5 DEF Disjoint
<1>9. Decision(t, JobOf(g))
  BY <1>1, <1>4, <1>5, <1>6, <1>8 DEF Decision, Params
<1>10. Ends(g, t, FALSE)
  BY <1>1, <1>6, <1>7, <1>9 DEF Ends
<1> QED
  BY <1>10, CommitInv
-------------------------------------------------------------------------------
(* The invariant, and what follows from it *)

LEMMA NextInv == Inv /\ [Next]_vars => Inv'
<1> SUFFICES ASSUME Inv, [Next]_vars PROVE Inv'
  OBVIOUS
<1>1. CASE StartRound \/ PassHalf
  BY <1>1, TimeInv
<1>2. CASE \/ \E u \in Members : Onboard(u) \/ Leave(u) \/ \E on \in BOOLEAN : UpdateSettings(u, on)
           \/ \E u, v \in Members : Block(u, v)
  BY <1>2, HandlersInv
<1>3. ASSUME NEW k \in DOMAIN jobs, Ripen(k) PROVE Inv'
  BY <1>3, RipenInv
<1>4. ASSUME NEW g \in Goroutines, Step(g) PROVE Inv'
  BY <1>4, TakeJobInv, WaitInv, DrawInv, RefuseInv, FindInv, CheckInv, CreatePairInv, InsertInv,
     OtherJobsInv, PanicInv, CompleteInv, CutDrawInv, FailInv DEF Step
<1>5. CASE UNCHANGED vars
  <2>1. /\ UNCHANGED <<member, matches, pairings, told, drawn, redrawn, round, jobs, run>>
        /\ UNCHANGED <<blocks, half, events, panicked>>
    BY <1>5 DEF vars, data
  <2>2. BusyOnes' = BusyOnes
    BY <2>1 DEF BusyOnes, Busy
  <2>3. OneRowEach(jobs', Goroutines, BusyOnes')
    BY <2>1, <2>2 DEF Inv, Locks
  <2> QED
    BY <2>1, <2>3, RowsInv DEF Inv, TypeOK, Locks, Decisions, Busy
<1> QED
  BY <1>1, <1>2, <1>3, <1>4, <1>5 DEF Next

LEMMA Invariance == Spec => []Inv
<1> QED
  BY InitInv, NextInv, PTL DEF Spec

\* Every reachable state of the pairing is well typed: jobs refer to matches and
\* members that exist, pairings to matches.
THEOREM TypesOK == Spec => []TypeOK
<1>1. Inv => TypeOK
  BY DEF Inv
<1> QED
  BY <1>1, Invariance, PTL

\* The draw of a round gives nobody two partners, for any number of members and
\* goroutines, however often its jobs fail and are retried, unless a shutdown came
\* between the draw and the Save of its job.
THEOREM NobodyGetsTwo == Spec => []OnePartner
<1>1. Inv => OnePartner
  <2> SUFFICES ASSUME Inv, NEW m \in DOMAIN matches, NEW n \in DOMAIN matches, NEW u \in Members,
                      m # n, matches[m].round = matches[n].round, matches[m].round \notin redrawn,
                      matches[m].late = NoMember, matches[n].late = NoMember,
                      Has(m, u), Has(n, u)
               PROVE  FALSE
    BY DEF OnePartner
  <2>1. matches[m].ends \cap matches[n].ends = {}
    BY DEF Inv, MatchesOK, Drawn
  <2>2. \A k \in {m, n} : <<k, u>>[1] = k /\ <<k, u>>[2] = u /\ <<k, u>> \in pairings
    BY DEF Has
  <2>3. u \in matches[m].ends /\ u \in matches[n].ends
    BY <2>2 DEF Inv, PairingsOK
  <2> QED
    BY <2>1, <2>3
<1> QED
  BY <1>1, Invariance, PTL

\* A match has the pairings of both its members who are still there or of none, and
\* is introduced only in the first case, whatever fails, is repeated or is cut short
\* by a shutdown; one that has half of them has its CREATE_PAIR pending.
THEOREM PairsAreWhole == Spec => []PairingsWhole
<1>1. Inv => PairingsWhole
  BY DEF Inv
<1> QED
  BY <1>1, Invariance, PTL

\* Nobody who took part in a draw is forgotten: there is a job that will tell them
\* the outcome until one has, unless a member of the pair left.
THEOREM OutcomeIsTold == Spec => []Informed
<1>1. Inv => Informed
  BY DEF Inv
<1> QED
  BY <1>1, Invariance, PTL

\* All matches respect the gender preferences, but for that of the partner whom
\* CREATE_MATCH finds.
THEOREM PreferencesRespected == Spec => []PreferencesKept
<1>1. Inv => PreferencesKept
  <2> SUFFICES ASSUME Inv, NEW m \in DOMAIN matches,
                      NEW u \in matches[m].ends, NEW v \in matches[m].ends, matches[m].late # v
               PROVE  <<u, v>> \notin Refuses
    BY DEF PreferencesKept
  <2>1. Fits(matches[m].ends, matches[m].late)
    BY DEF Inv, MatchesOK
  <2>2. PICK a, b \in Members :
           /\ matches[m].ends = {a, b} /\ <<a, b>> \notin Refuses
           /\ matches[m].late = NoMember => <<b, a>> \notin Refuses
           /\ matches[m].late # NoMember => matches[m].late = a
    BY <2>1 DEF Fits
  <2> QED
    BY <2>2, PairingAssumption
<1> QED
  BY <1>1, Invariance, PTL
===============================================================================
