--------------------------- MODULE PreferencesProofs ---------------------------
(***************************************************************************)
(* Proofs about what a user asks for, for any number of persons, channels  *)
(* and goroutines, whatever fails or is retried. An open transaction holds *)
(* what the execution of its job decided (Decisions). As long as jobs do   *)
(* not run side by side, only the oldest row is locked, so that the last   *)
(* row about a person or channel is what was asked last, and the tables    *)
(* are right when there is none (InOrder).                                 *)
(***************************************************************************)
EXTENDS Preferences, TableProofs

BusyOnes == {g \in Goroutines : Busy(g)}

\* A transaction has locked one row; there is nothing else to undo.
Locks ==
    /\ OneRowEach(jobs, Goroutines, BusyOnes)
    /\ \A g \in Goroutines : ~Busy(g) => run[g] = NoRun

\* What a row of the jobs table is about.
Params(j) ==
    /\ j.since \subseteq MemberOf
    /\ j.type = "UPDATE_MEMBER" => j.about \in Channels /\ j.settings \in Settings
    /\ j.type # "UPDATE_MEMBER" => j.about \in Targets
ParamsOK == \A k \in DOMAIN jobs : Params(jobs[k])

\* What the transaction r of the job j has decided.
Decision(r, j) ==
    /\ r.pc = "exec" => r.adds = {} /\ r.dels = {} /\ r.update = None
    /\ r.adds # {} => j.type = "BLOCK_MEMBER"
    /\ r.dels # {} => j.type = "UNBLOCK_MEMBER"
    /\ \A d \in r.adds : d[1] \in MemberOf /\ d[2] = j.about
    /\ \A d \in r.dels : d[2] = j.about
    /\ r.update # None => j.type = "UPDATE_MEMBER" /\ r.update = j.about /\ r.update \in MemberOf
    /\ r.pc = "insert" => j.type = "BLOCK_MEMBER" /\ \A c \in j.since : c \in r.todo \/ <<c, j.about>> \in r.adds
    /\ r.pc = "done" /\ ~r.aborted /\ j.type = "BLOCK_MEMBER" /\ j.about \in People =>
          \A c \in j.since : <<c, j.about>> \in r.adds
Decisions == \A k \in DOMAIN jobs, g \in Goroutines :
    jobs[k].taker = g => Decision(run[g], jobs[k])

\* The row k is the last about its person or channel.
LastAbout(k) == \A n \in DOMAIN jobs : n > k => jobs[n].about # jobs[k].about

\* What the transaction r of the row k leaves nothing to do about.
Thorough(r, k) == r.pc = "done" =>
    /\ jobs[k].type = "UNBLOCK_MEMBER" /\ jobs[k].about \in People =>
          \A b \in blocked : b[2] = jobs[k].about => b \in r.dels
    /\ jobs[k].type = "UPDATE_MEMBER" /\ r.update = None =>
          wanted[jobs[k].about] = None \/ ~LastAbout(k)

\* The last row about m is what was asked last; without one the blocks are right.
BlocksInOrder(m) ==
    /\ \A k \in DOMAIN jobs : jobs[k].about = m /\ LastAbout(k) =>
          jobs[k].type = asked[m].last /\ jobs[k].since = asked[m].since
    /\ ~Pending(m) => \A c \in asked[m].since :
          <<c, m>> \in blocked <=> asked[m].last = "BLOCK_MEMBER"

\* The last row about c is what was saved last; without one the settings are right.
SettingsInOrder(c) == wanted[c] # None =>
    /\ c \in MemberOf
    /\ \A k \in DOMAIN jobs : jobs[k].about = c /\ LastAbout(k) => jobs[k].settings = wanted[c]
    /\ ~Pending(c) => /\ settings[c].active = wanted[c].active
                      /\ wanted[c].link # "none" => settings[c].link = wanted[c].link

InOrder ==
    /\ \A k \in DOMAIN jobs : jobs[k].taker # Nobody => k = 1
    /\ \A k \in DOMAIN jobs, g \in Goroutines : jobs[k].taker = g => Thorough(run[g], k)
    /\ \A m \in People : BlocksInOrder(m)
    /\ \A c \in Channels : SettingsInOrder(c)

Inv == TypeOK /\ Locks /\ ParamsOK /\ Decisions /\ (~excuse.overlap => InOrder)
-------------------------------------------------------------------------------
(* Rows and transactions *)

LEMMA NoRunTyped ==
  /\ NoRun \in Run /\ NoRun.pc = "idle"
  /\ NoRun.adds = {} /\ NoRun.dels = {} /\ NoRun.update = None /\ NoRun.aborted = FALSE
  BY DEF NoRun, Run

LEMMA RowOfBusy ==
  ASSUME Inv, NEW g \in Goroutines, Busy(g)
  PROVE  /\ run[g] \in Run /\ JobOf(g) \in Job /\ Decision(run[g], JobOf(g)) /\ Params(JobOf(g))
         /\ \E k \in DOMAIN jobs : jobs[k].taker = g
         /\ \A k \in DOMAIN jobs : jobs[k].taker = g => JobOf(g) = jobs[k]
<1>1. PICK k \in DOMAIN jobs : jobs[k].taker = g
  BY DEF Inv, Locks, OneRowEach, BusyOnes
<1>2. \A n \in DOMAIN jobs : jobs[n].taker = g => n = k
  BY <1>1 DEF Inv, Locks, OneRowEach
<1>3. JobOf(g) = jobs[k]
  BY <1>1, <1>2 DEF JobOf
<1>t. jobs \in Seq(Job) /\ run \in [Goroutines -> Run]
  BY DEF Inv, TypeOK
<1>4. jobs[k] \in Job
  BY <1>t, ElementOfSeq
<1>5. Decision(run[g], jobs[k]) /\ Params(jobs[k])
  BY <1>1 DEF Inv, Decisions, ParamsOK
<1>6. run[g] \in Run
  BY <1>t
<1> QED
  BY <1>1, <1>2, <1>3, <1>4, <1>5, <1>6

\* Rows are changed, and none is added or deleted.
LEMMA RowsChanged ==
  ASSUME NEW S, NEW q \in Seq(S), NEW T, T = [k \in DOMAIN q |-> T[k]],
         \A k \in DOMAIN q : T[k] \in S
  PROVE  T \in Seq(S) /\ DOMAIN T = DOMAIN q /\ Len(T) = Len(q)
<1>1. DOMAIN q = 1..Len(q) /\ Len(q) \in Nat
  OBVIOUS
<1>2. T \in Seq(S)
  BY <1>1, IsASeq
<1>3. DOMAIN T = DOMAIN q
  OBVIOUS
<1> QED
  BY <1>1, <1>2, <1>3

LEMMA InitInv == Init => Inv
<1> SUFFICES ASSUME Init PROVE Inv
  OBVIOUS
<1> DEFINE first == [active |-> TRUE, link |-> "none"]
<1>1. first \in Settings
  BY DEF Settings
<1>2. settings \in [Channels -> {None, first}]
  BY DEF Init
<1> HIDE DEF first
<1>3. settings \in [Channels -> Settings \cup {None}]
  BY <1>1, <1>2
<1>4. /\ blocked = {} /\ jobs = <<>>
      /\ run = [g \in Goroutines |-> NoRun]
      /\ count = [requests |-> 0, moves |-> 0, faults |-> 0]
      /\ asked = [m \in Targets |-> [last |-> "none", since |-> {}]]
      /\ wanted = [c \in Channels |-> None]
      /\ excuse = [overlap |-> FALSE, repeat |-> FALSE]
  BY DEF Init
<1>5. TypeOK
  BY <1>3, <1>4, NoRunTyped, EmptySeq, PreferencesAssumption DEF TypeOK
<1>6. DOMAIN jobs = {} /\ BusyOnes = {}
  BY <1>4, EmptySeq, NoRunTyped DEF BusyOnes, Busy
<1>7. \A m \in People : asked[m].since = {}
  <2>1. People \subseteq Targets
    BY DEF Targets
  <2>2. \A m \in Targets : asked[m] = [last |-> "none", since |-> {}]
    BY <1>4
  <2> QED
    BY <2>1, <2>2
<1>8. \A c \in Channels : wanted[c] = None
  BY <1>4
<1>9. \A g \in Goroutines : run[g] = NoRun
  BY <1>4
<1>10. Locks /\ ParamsOK /\ Decisions
  BY <1>6, <1>9 DEF Locks, OneRowEach, ParamsOK, Decisions
<1>11. InOrder
  BY <1>6, <1>7, <1>8 DEF InOrder, BlocksInOrder, SettingsInOrder
<1> QED
  BY <1>5, <1>10, <1>11 DEF Inv
-------------------------------------------------------------------------------
(* Transactions that go on, and that are rolled back *)

LEMMA MovesInv ==
  ASSUME Inv, NEW g \in Goroutines, NEW r \in Run, Continue(g, r), Busy(g), r.pc # "idle",
         Decision(r, JobOf(g)),
         InOrder => \A k \in DOMAIN jobs : jobs[k].taker = g => Thorough(r, k)
  PROVE  Inv'
<1>1. /\ run' = [run EXCEPT ![g] = r] /\ run \in [Goroutines -> Run]
      /\ UNCHANGED <<settings, blocked, jobs, count, asked, wanted, excuse>>
  BY DEF Continue, Inv, TypeOK
<1>2. run'[g] = r /\ \A h \in Goroutines \ {g} : run'[h] = run[h]
  BY <1>1
<1>3. TypeOK'
  BY <1>1 DEF Inv, TypeOK
<1>4. Locks'
  <2>1. BusyOnes' = BusyOnes
    BY <1>2 DEF BusyOnes, Busy
  <2> QED
    BY <2>1, <1>1, <1>2 DEF Inv, Locks, Busy
<1>5. ParamsOK'
  BY <1>1 DEF Inv, ParamsOK, Params, MemberOf
<1>6. Decisions'
  <2> SUFFICES ASSUME NEW k \in DOMAIN jobs, NEW h \in Goroutines, jobs[k].taker = h
               PROVE  Decision(run'[h], jobs[k])
    BY <1>1 DEF Decisions, Decision, MemberOf
  <2>1. CASE h = g
    BY <2>1, <1>2, RowOfBusy
  <2>2. CASE h # g
    BY <2>2, <1>2 DEF Inv, Decisions
  <2> QED
    BY <2>1, <2>2
<1>7. ~excuse'.overlap => InOrder'
  <2> SUFFICES ASSUME ~excuse.overlap, InOrder PROVE InOrder'
    BY <1>1 DEF Inv
  <2>1. \A m : Pending(m)' <=> Pending(m)
    BY <1>1 DEF Pending
  <2>2. \A k : LastAbout(k)' <=> LastAbout(k)
    BY <1>1 DEF LastAbout
  <2>3. ASSUME NEW k \in DOMAIN jobs, NEW h \in Goroutines, jobs[k].taker = h
        PROVE  Thorough(run[h], k)'
    <3>1. Thorough(run'[h], k)
      BY <1>2, <2>3 DEF InOrder
    <3> QED
      BY <3>1, <2>2, <1>1 DEF Thorough
  <2> QED
    BY <1>1, <2>1, <2>2, <2>3 DEF InOrder, BlocksInOrder, SettingsInOrder, MemberOf
<1> QED
  BY <1>3, <1>4, <1>5, <1>6, <1>7 DEF Inv

LEMMA RollbackInv ==
  ASSUME Inv, NEW g \in Goroutines, Rollback(g),
         count' \in [requests: 0..MaxRequests, moves: 0..MaxMoves, faults: 0..MaxFaults]
  PROVE  Inv'
<1>1. /\ run' = [run EXCEPT ![g] = NoRun] /\ run \in [Goroutines -> Run]
      /\ UNCHANGED <<settings, blocked, asked, wanted, excuse>>
      /\ jobs \in Seq(Job)
  BY DEF Rollback, Inv, TypeOK
<1>2. run'[g] = NoRun /\ \A h \in Goroutines \ {g} : run'[h] = run[h]
  BY <1>1
<1>3. /\ jobs' = [k \in DOMAIN jobs |-> jobs'[k]]
      /\ \A k \in DOMAIN jobs : jobs'[k] = [jobs[k] EXCEPT !.taker = IF @ = g THEN Nobody ELSE @]
  BY DEF Rollback, Released
<1>4. ASSUME NEW k \in DOMAIN jobs
      PROVE  /\ jobs'[k] \in Job
             /\ jobs'[k].taker = IF jobs[k].taker = g THEN Nobody ELSE jobs[k].taker
             /\ jobs'[k].type = jobs[k].type /\ jobs'[k].about = jobs[k].about
             /\ jobs'[k].settings = jobs[k].settings /\ jobs'[k].since = jobs[k].since
  <2>1. jobs[k] \in Job
    BY <1>1, ElementOfSeq
  <2> QED
    BY <2>1, <1>3 DEF Job
<1>5. jobs' \in Seq(Job) /\ DOMAIN jobs' = DOMAIN jobs
  BY <1>1, <1>3, <1>4, RowsChanged
<1>6. TypeOK'
  BY <1>1, <1>5, NoRunTyped DEF Inv, TypeOK
<1>7. Locks'
  <2>1. BusyOnes' = BusyOnes \ {g}
    BY <1>2, NoRunTyped DEF BusyOnes, Busy
  <2>2. Nobody \notin Goroutines
    BY PreferencesAssumption
  <2>3. OneRowEach(jobs', Goroutines, BusyOnes \ {g})
    BY <1>4, <1>5, <2>2, LockReleased DEF Inv, Locks
  <2> QED
    BY <2>1, <2>3, <1>2 DEF Inv, Locks, Busy
<1>8. ParamsOK'
  BY <1>1, <1>4, <1>5 DEF Inv, ParamsOK, Params, MemberOf
<1>9. \A k \in DOMAIN jobs, h \in Goroutines : jobs'[k].taker = h => jobs[k].taker = h /\ run'[h] = run[h]
  BY <1>2, <1>4, PreferencesAssumption
<1>10. Decisions'
  <2> SUFFICES ASSUME NEW k \in DOMAIN jobs, NEW h \in Goroutines, jobs'[k].taker = h
               PROVE  Decision(run[h], jobs[k])'
    BY <1>5 DEF Decisions
  <2>1. Decision(run[h], jobs[k])
    BY <1>9 DEF Inv, Decisions
  <2> QED
    BY <2>1, <1>1, <1>4, <1>9 DEF Decision, MemberOf
<1>11. ~excuse'.overlap => InOrder'
  <2> SUFFICES ASSUME ~excuse.overlap, InOrder PROVE InOrder'
    BY <1>1 DEF Inv
  <2>1. \A m : Pending(m)' <=> Pending(m)
    BY <1>4, <1>5 DEF Pending
  <2>2. \A k \in DOMAIN jobs : LastAbout(k)' <=> LastAbout(k)
    BY <1>4, <1>5 DEF LastAbout
  <2>3. \A k \in DOMAIN jobs' : jobs'[k].taker # Nobody => k = 1
    BY <1>4, <1>5 DEF InOrder
  <2>4. ASSUME NEW k \in DOMAIN jobs, NEW h \in Goroutines, jobs'[k].taker = h
        PROVE  Thorough(run[h], k)'
    <3>1. Thorough(run[h], k) /\ run'[h] = run[h]
      BY <1>9, <2>4 DEF InOrder
    <3> QED
      BY <3>1, <2>2, <1>1, <1>4 DEF Thorough
  <2>5. \A m \in People : BlocksInOrder(m)'
    BY <1>1, <1>4, <1>5, <2>1, <2>2 DEF InOrder, BlocksInOrder
  <2>6. ASSUME NEW c \in Channels PROVE SettingsInOrder(c)'
    <3>1. SettingsInOrder(c)
      BY DEF InOrder
    <3>2. MemberOf' = MemberOf
      BY <1>1 DEF MemberOf
    <3> QED
      BY <3>1, <3>2, <1>1, <1>4, <1>5, <2>1, <2>2 DEF SettingsInOrder
  <2> QED
    BY <1>5, <2>3, <2>4, <2>5, <2>6 DEF InOrder
<1> QED
  BY <1>6, <1>7, <1>8, <1>10, <1>11 DEF Inv
-------------------------------------------------------------------------------
(* The user and the HTTP handlers *)

\* A job is queued that asks about x.
LEMMA QueuedInv ==
  ASSUME Inv, NEW t, NEW x, NEW s, Queue(t, x, s), UNCHANGED <<settings, blocked, run>>,
         NEW j \in Job, j.type = t, j.about = x, j.settings = s, j.since = MemberOf, j.taker = Nobody,
         jobs' = Append(jobs, j), Params(j),
         asked' \in [Targets -> [last: {"none", "BLOCK_MEMBER", "UNBLOCK_MEMBER"}, since: SUBSET Channels]],
         wanted' \in [Channels -> Settings \cup {None}],
         excuse' \in [overlap: BOOLEAN, repeat: BOOLEAN], ~excuse'.overlap => ~excuse.overlap,
         \A m \in Targets \ {x} : asked'[m] = asked[m],
         \A c \in Channels \ {x} : wanted'[c] = wanted[c],
         x \in People => asked'[x].last = t /\ asked'[x].since = MemberOf,
         x \in Channels => x \in MemberOf /\ wanted'[x] = s
  PROVE  Inv'
<1> DEFINE n == Len(jobs) + 1
<1>1. jobs \in Seq(Job) /\ Len(jobs) \in Nat /\ DOMAIN jobs = 1..Len(jobs)
  BY DEF Inv, TypeOK
<1>2. jobs' \in Seq(Job) /\ DOMAIN jobs' = 1..n
  BY <1>1
<1>3. jobs'[n] = j /\ \A k \in DOMAIN jobs : jobs'[k] = jobs[k]
  BY <1>1
<1>4. DOMAIN jobs' = DOMAIN jobs \cup {n} /\ n \notin DOMAIN jobs /\ \A k \in DOMAIN jobs : n > k /\ ~(k > n)
  BY <1>1, <1>2
<1>5. n > n <=> FALSE
  BY <1>1
<1> HIDE DEF n
<1>6. TypeOK'
  <2>1. count' \in [requests: 0..MaxRequests, moves: 0..MaxMoves, faults: 0..MaxFaults]
    BY PreferencesAssumption DEF Queue, Inv, TypeOK
  <2> QED
    BY <1>2, <2>1 DEF Inv, TypeOK
<1>7. Locks'
  <2>1. Nobody \notin Goroutines
    BY PreferencesAssumption
  <2>2. OneRowEach(jobs', Goroutines, BusyOnes)
    BY <1>3, <1>4, <2>1, LocksKept DEF Inv, Locks
  <2> QED
    BY <2>2 DEF Inv, Locks, BusyOnes, Busy
<1>8. MemberOf' = MemberOf
  BY DEF MemberOf
<1>9. ParamsOK'
  BY <1>3, <1>4, <1>8 DEF Inv, ParamsOK, Params
<1>10. \A k \in DOMAIN jobs', h \in Goroutines : jobs'[k].taker = h => k \in DOMAIN jobs /\ jobs[k].taker = h
  BY <1>3, <1>4, PreferencesAssumption
<1>11. Decisions'
  <2> SUFFICES ASSUME NEW k \in DOMAIN jobs, NEW h \in Goroutines, jobs[k].taker = h
               PROVE  Decision(run[h], jobs[k])'
    BY <1>10 DEF Decisions
  <2>1. Decision(run[h], jobs[k])
    BY DEF Inv, Decisions
  <2> QED
    BY <2>1, <1>3, <1>8 DEF Decision
<1>12. ~excuse'.overlap => InOrder'
  <2> SUFFICES ASSUME InOrder PROVE InOrder'
    BY DEF Inv
  <2>1. \A k \in DOMAIN jobs' : jobs'[k].taker # Nobody => k = 1
    BY <1>3, <1>4 DEF InOrder
  <2>2. ASSUME NEW k \in DOMAIN jobs
        PROVE  LastAbout(k)' <=> LastAbout(k) /\ jobs[k].about # x
    BY <1>3, <1>4 DEF LastAbout
  <2>3. ASSUME NEW k \in DOMAIN jobs, NEW h \in Goroutines, jobs[k].taker = h
        PROVE  Thorough(run[h], k)'
    <3>1. Thorough(run[h], k) /\ Params(jobs[k])
      BY <2>3 DEF InOrder, Inv, ParamsOK
    <3> QED
      BY <3>1, <2>2, <1>3 DEF Thorough, Params
  <2>4. \A y : Pending(y)' <=> Pending(y) \/ y = x
    BY <1>3, <1>4 DEF Pending
  <2>5. ASSUME NEW m \in People PROVE BlocksInOrder(m)'
    <3>1. m \in Targets /\ BlocksInOrder(m)
      BY DEF InOrder, Targets
    <3>2. CASE m = x
      BY <3>2, <1>3, <1>4, <2>2, <2>4 DEF BlocksInOrder
    <3>3. CASE m # x
      BY <3>1, <3>3, <1>3, <1>4, <2>2, <2>4 DEF BlocksInOrder
    <3> QED
      BY <3>2, <3>3
  <2>6. ASSUME NEW c \in Channels PROVE SettingsInOrder(c)'
    <3>1. SettingsInOrder(c)
      BY DEF InOrder
    <3>2. CASE c = x
      BY <3>2, <1>3, <1>4, <1>8, <2>2, <2>4 DEF SettingsInOrder
    <3>3. CASE c # x
      BY <3>1, <3>3, <1>3, <1>4, <1>8, <2>2, <2>4 DEF SettingsInOrder
    <3> QED
      BY <3>2, <3>3
  <2> QED
    BY <1>10, <2>1, <2>3, <2>5, <2>6 DEF InOrder
<1> QED
  BY <1>6, <1>7, <1>9, <1>11, <1>12 DEF Inv

LEMMA SelectedInv ==
  ASSUME Inv, NEW t \in {"BLOCK_MEMBER", "UNBLOCK_MEMBER"}, NEW m \in Targets, QueueSelected(t, m)
  PROVE  Inv'
<1> DEFINE j == [type |-> t, about |-> m, settings |-> None, since |-> MemberOf, taker |-> Nobody]
           a == [last |-> t, since |-> MemberOf]
           again == excuse.repeat \/ (t = "BLOCK_MEMBER" /\ asked[m].last = "BLOCK_MEMBER")
<1>1. Queue(t, m, None) /\ jobs' = Append(jobs, j) /\ UNCHANGED <<settings, blocked, run, wanted>>
  BY DEF QueueSelected, Queue
<1>2. /\ j \in Job /\ j.type = t /\ j.about = m /\ j.settings = None /\ j.since = MemberOf
      /\ j.taker = Nobody
  BY DEF Job, MemberOf
<1> HIDE DEF j
<1>3. Params(j)
  BY <1>2 DEF Params
<1>4. a \in [last: {"none", "BLOCK_MEMBER", "UNBLOCK_MEMBER"}, since: SUBSET Channels]
      /\ a.last = t /\ a.since = MemberOf
  BY DEF MemberOf
<1>5. asked' = [asked EXCEPT ![m] = a]
  BY DEF QueueSelected
<1> HIDE DEF a
<1>6. /\ asked' \in [Targets -> [last: {"none", "BLOCK_MEMBER", "UNBLOCK_MEMBER"}, since: SUBSET Channels]]
      /\ asked'[m] = a /\ \A x \in Targets \ {m} : asked'[x] = asked[x]
  BY <1>4, <1>5 DEF Inv, TypeOK
<1>7. excuse' = [excuse EXCEPT !.repeat = again] /\ again \in BOOLEAN
  BY DEF QueueSelected
<1> HIDE DEF again
<1>8. excuse' \in [overlap: BOOLEAN, repeat: BOOLEAN] /\ (~excuse'.overlap => ~excuse.overlap)
  BY <1>7 DEF Inv, TypeOK
<1>9. m \notin Channels
  BY PreferencesAssumption
<1>10. wanted' \in [Channels -> Settings \cup {None}]
  BY <1>1 DEF Inv, TypeOK
<1> QED
  BY <1>1, <1>2, <1>3, <1>4, <1>6, <1>8, <1>9, <1>10, QueuedInv

LEMMA SaveInv ==
  ASSUME Inv, NEW c \in Channels, SaveSettings(c)
  PROVE  Inv'
<1>1. PICK s \in Forms : Queue("UPDATE_MEMBER", c, s) /\ wanted' = [wanted EXCEPT ![c] = s]
  BY DEF SaveSettings
<1> DEFINE j == [type |-> "UPDATE_MEMBER", about |-> c, settings |-> s, since |-> MemberOf, taker |-> Nobody]
<1>2. c \in MemberOf /\ UNCHANGED <<settings, blocked, run, asked, excuse>>
  BY DEF SaveSettings
<1>3. s \in Settings
  BY PreferencesAssumption
<1>4. jobs' = Append(jobs, j)
  BY <1>1 DEF Queue
<1>5. /\ j \in Job /\ j.type = "UPDATE_MEMBER" /\ j.about = c /\ j.settings = s /\ j.since = MemberOf
      /\ j.taker = Nobody
  BY <1>3 DEF Job, MemberOf
<1> HIDE DEF j
<1>6. Params(j)
  BY <1>3, <1>5 DEF Params
<1>7. /\ wanted' \in [Channels -> Settings \cup {None}]
      /\ wanted'[c] = s /\ \A x \in Channels \ {c} : wanted'[x] = wanted[x]
  BY <1>1, <1>3 DEF Inv, TypeOK
<1>8. c \notin People
  BY PreferencesAssumption DEF Targets
<1>9. /\ asked' \in [Targets -> [last: {"none", "BLOCK_MEMBER", "UNBLOCK_MEMBER"}, since: SUBSET Channels]]
      /\ excuse' \in [overlap: BOOLEAN, repeat: BOOLEAN]
  BY <1>2 DEF Inv, TypeOK
<1> QED
  BY <1>1, <1>2, <1>4, <1>5, <1>6, <1>7, <1>8, <1>9, QueuedInv

LEMMA JoinInv ==
  ASSUME Inv, NEW c \in Channels, Join(c)
  PROVE  Inv'
<1> DEFINE row == [active |-> FALSE, link |-> "none"]
<1>1. /\ c \notin MemberOf /\ settings' = [settings EXCEPT ![c] = row]
      /\ UNCHANGED <<blocked, jobs, run, asked, wanted, excuse>>
  BY DEF Join
<1>2. row \in Settings /\ row # None
  <2>1. row \in Settings
    BY DEF Settings
  <2> HIDE DEF row
  <2> QED
    BY <2>1, PreferencesAssumption
<1> HIDE DEF row
<1>3. settings \in [Channels -> Settings \cup {None}] /\ blocked \subseteq {r \in Row : settings[r[1]] # None}
  BY DEF Inv, TypeOK
<1>4. /\ settings' \in [Channels -> Settings \cup {None}]
      /\ settings'[c] = row /\ \A x \in Channels \ {c} : settings'[x] = settings[x]
  BY <1>1, <1>2, <1>3
<1>5. MemberOf' = MemberOf \cup {c}
  BY <1>2, <1>4 DEF MemberOf
<1>6. TypeOK'
  <2>1. count' \in [requests: 0..MaxRequests, moves: 0..MaxMoves, faults: 0..MaxFaults]
    BY PreferencesAssumption DEF Join, Inv, TypeOK
  <2>2. blocked' \subseteq {r \in Row : settings'[r[1]] # None}
    <3> SUFFICES ASSUME NEW r \in blocked PROVE r \in Row /\ settings'[r[1]] # None
      BY <1>1
    <3>1. r \in Row /\ r[1] \in Channels /\ settings[r[1]] # None
      BY <1>3 DEF Row
    <3>2. r[1] # c
      BY <1>1, <3>1 DEF MemberOf
    <3> QED
      BY <1>4, <3>1, <3>2
  <2> QED
    BY <1>1, <1>4, <2>1, <2>2 DEF Inv, TypeOK
<1>7. Locks'
  BY <1>1 DEF Inv, Locks, BusyOnes, Busy
<1>8. ParamsOK'
  BY <1>1, <1>5 DEF Inv, ParamsOK, Params
<1>9. Decisions'
  <2> SUFFICES ASSUME NEW k \in DOMAIN jobs, NEW h \in Goroutines, jobs[k].taker = h
               PROVE  Decision(run[h], jobs[k])'
    BY <1>1 DEF Decisions
  <2>1. Decision(run[h], jobs[k])
    BY DEF Inv, Decisions
  <2> QED
    BY <2>1, <1>1, <1>5 DEF Decision
<1>10. ~excuse'.overlap => InOrder'
  <2> SUFFICES ASSUME InOrder PROVE InOrder'
    BY <1>1 DEF Inv
  <2>1. \A m : Pending(m)' <=> Pending(m)
    BY <1>1 DEF Pending
  <2>2. \A k : LastAbout(k)' <=> LastAbout(k)
    BY <1>1 DEF LastAbout
  <2>3. \A m \in People : BlocksInOrder(m)'
    BY <1>1, <2>1, <2>2 DEF InOrder, BlocksInOrder
  <2>4. ASSUME NEW x \in Channels PROVE SettingsInOrder(x)'
    <3>1. SettingsInOrder(x)
      BY DEF InOrder
    <3>2. wanted[x] # None => x # c /\ settings'[x] = settings[x]
      BY <3>1, <1>1, <1>4 DEF SettingsInOrder
    <3> QED
      BY <3>1, <3>2, <1>1, <1>5, <2>1, <2>2 DEF SettingsInOrder
  <2>5. \A k \in DOMAIN jobs, h \in Goroutines : jobs[k].taker = h => Thorough(run[h], k)'
    BY <1>1, <2>2 DEF InOrder, Thorough
  <2> QED
    BY <1>1, <2>3, <2>4, <2>5 DEF InOrder
<1> QED
  BY <1>6, <1>7, <1>8, <1>9, <1>10 DEF Inv

LEMMA LeaveInv ==
  ASSUME Inv, NEW c \in Channels, Leave(c)
  PROVE  Inv'
<1>1. /\ settings' = [settings EXCEPT ![c] = None]
      /\ blocked' = {r \in blocked : r[1] # c}
      /\ wanted' = [wanted EXCEPT ![c] = None]
      /\ UNCHANGED <<run, excuse>>
  BY DEF Leave
<1>2. \A g \in Goroutines : run[g].update # c /\ \A r \in run[g].adds \cup run[g].dels : r[1] # c
  BY DEF Leave
<1>3. /\ settings \in [Channels -> Settings \cup {None}] /\ blocked \subseteq {r \in Row : settings[r[1]] # None}
      /\ jobs \in Seq(Job) /\ wanted \in [Channels -> Settings \cup {None}]
      /\ asked \in [Targets -> [last: {"none", "BLOCK_MEMBER", "UNBLOCK_MEMBER"}, since: SUBSET Channels]]
  BY DEF Inv, TypeOK
<1>4. /\ settings' \in [Channels -> Settings \cup {None}]
      /\ settings'[c] = None /\ \A x \in Channels \ {c} : settings'[x] = settings[x]
  BY <1>1, <1>3
<1>5. MemberOf' = MemberOf \ {c}
  BY <1>4 DEF MemberOf
<1>6. /\ wanted' \in [Channels -> Settings \cup {None}]
      /\ wanted'[c] = None /\ \A x \in Channels \ {c} : wanted'[x] = wanted[x]
  BY <1>1, <1>3
<1>7. /\ jobs' = [k \in DOMAIN jobs |-> jobs'[k]]
      /\ \A k \in DOMAIN jobs : jobs'[k] = [jobs[k] EXCEPT !.since = @ \ {c}]
  BY DEF Leave
<1>8. ASSUME NEW k \in DOMAIN jobs
      PROVE  /\ jobs'[k] \in Job /\ jobs'[k].since = jobs[k].since \ {c}
             /\ jobs'[k].type = jobs[k].type /\ jobs'[k].about = jobs[k].about
             /\ jobs'[k].settings = jobs[k].settings /\ jobs'[k].taker = jobs[k].taker
  <2>1. jobs[k] \in Job
    BY <1>3, ElementOfSeq
  <2> QED
    BY <2>1, <1>7 DEF Job
<1>9. jobs' \in Seq(Job) /\ DOMAIN jobs' = DOMAIN jobs
  BY <1>3, <1>7, <1>8, RowsChanged
<1>10. /\ asked' = [m \in Targets |-> asked'[m]]
       /\ \A m \in Targets : asked'[m] = [asked[m] EXCEPT !.since = @ \ {c}]
  BY DEF Leave
<1>11. ASSUME NEW m \in Targets
       PROVE  /\ asked'[m] \in [last: {"none", "BLOCK_MEMBER", "UNBLOCK_MEMBER"}, since: SUBSET Channels]
              /\ asked'[m].last = asked[m].last /\ asked'[m].since = asked[m].since \ {c}
  BY <1>3, <1>10
<1>12. asked' \in [Targets -> [last: {"none", "BLOCK_MEMBER", "UNBLOCK_MEMBER"}, since: SUBSET Channels]]
  BY <1>10, <1>11
<1>13. TypeOK'
  <2>1. count' \in [requests: 0..MaxRequests, moves: 0..MaxMoves, faults: 0..MaxFaults]
    <3>1. count' = [count EXCEPT !.moves = @ + 1] /\ count.moves < MaxMoves
      BY DEF Leave
    <3> QED
      BY <3>1, PreferencesAssumption DEF Inv, TypeOK
  <2>2. blocked' \subseteq {r \in Row : settings'[r[1]] # None}
    <3> SUFFICES ASSUME NEW r \in blocked, r[1] # c PROVE r \in Row /\ settings'[r[1]] # None
      BY <1>1
    <3>1. r \in Row /\ r[1] \in Channels /\ settings[r[1]] # None
      BY <1>3 DEF Row
    <3> QED
      BY <1>4, <3>1
  <2> QED
    BY <1>1, <1>4, <1>6, <1>9, <1>12, <2>1, <2>2 DEF Inv, TypeOK
<1>14. Locks'
  <2>1. Nobody \notin Goroutines
    BY PreferencesAssumption
  <2>2. OneRowEach(jobs', Goroutines, BusyOnes)
    BY <1>8, <1>9, <2>1, LocksKept DEF Inv, Locks
  <2> QED
    BY <2>2, <1>1 DEF Inv, Locks, BusyOnes, Busy
<1>15. ParamsOK'
  BY <1>5, <1>8, <1>9 DEF Inv, ParamsOK, Params
<1>16. Decisions'
  <2> SUFFICES ASSUME NEW k \in DOMAIN jobs, NEW h \in Goroutines, jobs[k].taker = h
               PROVE  Decision(run[h], jobs[k])'
    BY <1>8, <1>9 DEF Decisions
  <2>1. Decision(run[h], jobs[k])
    BY DEF Inv, Decisions
  <2> QED
    BY <2>1, <1>1, <1>2, <1>5, <1>8 DEF Decision
<1>17. ~excuse'.overlap => InOrder'
  <2> SUFFICES ASSUME InOrder PROVE InOrder'
    BY <1>1 DEF Inv
  <2>1. \A m : Pending(m)' <=> Pending(m)
    BY <1>8, <1>9 DEF Pending
  <2>2. \A k \in DOMAIN jobs : LastAbout(k)' <=> LastAbout(k)
    BY <1>8, <1>9 DEF LastAbout
  <2>3. ASSUME NEW m \in People PROVE BlocksInOrder(m)'
    <3>1. m \in Targets /\ BlocksInOrder(m)
      BY DEF InOrder, Targets
    <3>2. \A k \in DOMAIN jobs' : jobs'[k].about = m /\ LastAbout(k)' =>
            jobs'[k].type = asked'[m].last /\ jobs'[k].since = asked'[m].since
      <4> SUFFICES ASSUME NEW k \in DOMAIN jobs, jobs[k].about = m, LastAbout(k)
                   PROVE  jobs'[k].type = asked'[m].last /\ jobs'[k].since = asked'[m].since
        BY <1>8, <1>9, <2>2
      <4>1. jobs[k].type = asked[m].last /\ jobs[k].since = asked[m].since
        BY <3>1 DEF BlocksInOrder
      <4> QED
        BY <4>1, <3>1, <1>8, <1>11
    <3>3. ~Pending(m) => \A x \in asked'[m].since : <<x, m>> \in blocked' <=> asked'[m].last = "BLOCK_MEMBER"
      BY <3>1, <1>1, <1>11 DEF BlocksInOrder
    <3> QED
      BY <3>2, <3>3, <2>1 DEF BlocksInOrder
  <2>4. ASSUME NEW x \in Channels PROVE SettingsInOrder(x)'
    <3>1. SettingsInOrder(x)
      BY DEF InOrder
    <3>2. CASE x = c
      BY <3>2, <1>6 DEF SettingsInOrder
    <3>3. CASE x # c
      BY <3>1, <3>3, <1>4, <1>5, <1>6, <1>8, <1>9, <2>1, <2>2 DEF SettingsInOrder
    <3> QED
      BY <3>2, <3>3
  <2>5. ASSUME NEW k \in DOMAIN jobs, NEW h \in Goroutines, jobs[k].taker = h
        PROVE  Thorough(run[h], k)'
    <3>1. Thorough(run[h], k) /\ Params(jobs[k])
      BY <2>5 DEF InOrder, Inv, ParamsOK
    <3> QED
      BY <3>1, <1>1, <1>6, <1>8, <2>2 DEF Thorough, Params
  <2> QED
    BY <1>8, <1>9, <2>3, <2>4, <2>5 DEF InOrder
<1> QED
  BY <1>13, <1>14, <1>15, <1>16, <1>17 DEF Inv
-------------------------------------------------------------------------------
(* Job functions *)

LEMMA TakeJobInv ==
  ASSUME Inv, NEW g \in Goroutines, TakeJob(g)
  PROVE  Inv'
<1> DEFINE r == [NoRun EXCEPT !.pc = "exec"]
           next == NextJob
           overlap == excuse.overlap \/ \E h \in Goroutines : Busy(h)
<1>1. /\ ~Busy(g) /\ run' = [run EXCEPT ![g] = r] /\ jobs' = [jobs EXCEPT ![next].taker = g]
      /\ UNCHANGED <<settings, blocked, count, asked, wanted>>
  BY DEF TakeJob
<1>2. /\ r \in Run /\ r.pc = "exec" /\ r.adds = {} /\ r.dels = {} /\ r.update = None
  BY DEF NoRun, Run
<1> HIDE DEF r
<1>3. run \in [Goroutines -> Run] /\ jobs \in Seq(Job) /\ excuse \in [overlap: BOOLEAN, repeat: BOOLEAN]
  BY DEF Inv, TypeOK
<1>4. run'[g] = r /\ \A h \in Goroutines \ {g} : run'[h] = run[h]
  BY <1>1, <1>3
<1>5. next \in Available /\ \A k \in Available : next <= k
  <2>1. Available # {} /\ Available \subseteq Nat
    BY <1>3 DEF TakeJob, Available
  <2>2. \E x \in Available : \A y \in Available : x <= y
    BY <2>1, LeastOfNats
  <2> QED
    BY <2>2 DEF NextJob
<1>6. next \in DOMAIN jobs /\ jobs[next].taker = Nobody
  BY <1>5 DEF Available
<1> HIDE DEF next
<1>7. /\ jobs' = [k \in DOMAIN jobs |-> jobs'[k]]
      /\ \A k \in DOMAIN jobs : jobs'[k] = IF k = next THEN [jobs[k] EXCEPT !.taker = g] ELSE jobs[k]
  BY <1>1
<1>8. ASSUME NEW k \in DOMAIN jobs
      PROVE  /\ jobs'[k] \in Job /\ jobs'[k].since = jobs[k].since
             /\ jobs'[k].type = jobs[k].type /\ jobs'[k].about = jobs[k].about
             /\ jobs'[k].settings = jobs[k].settings
             /\ jobs'[k].taker = IF k = next THEN g ELSE jobs[k].taker
  <2>1. jobs[k] \in Job
    BY <1>3, ElementOfSeq
  <2> QED
    BY <2>1, <1>7 DEF Job
<1>9. jobs' \in Seq(Job) /\ DOMAIN jobs' = DOMAIN jobs
  BY <1>3, <1>7, <1>8, RowsChanged
<1>10. overlap \in BOOLEAN
  BY <1>3
<1>11. excuse' = [excuse EXCEPT !.overlap = overlap]
  BY DEF TakeJob
<1>12. excuse' \in [overlap: BOOLEAN, repeat: BOOLEAN] /\ excuse'.overlap = overlap
  <2> HIDE DEF overlap
  <2> QED
    BY <1>3, <1>10, <1>11
<1>13. TypeOK'
  BY <1>1, <1>2, <1>3, <1>9, <1>12 DEF Inv, TypeOK
<1>14. BusyOnes' = BusyOnes \cup {g}
  BY <1>2, <1>4 DEF BusyOnes, Busy
<1>15. Locks'
  <2>1. Nobody \notin Goroutines /\ g \notin BusyOnes
    BY <1>1, PreferencesAssumption DEF BusyOnes
  <2>2. OneRowEach(jobs', Goroutines, BusyOnes \cup {g})
    BY <1>6, <1>8, <1>9, <2>1, LockTaken DEF Inv, Locks
  <2> QED
    BY <2>2, <1>2, <1>4, <1>14 DEF Inv, Locks, Busy
<1>16. MemberOf' = MemberOf
  BY <1>1 DEF MemberOf
<1>17. ParamsOK'
  BY <1>8, <1>9, <1>16 DEF Inv, ParamsOK, Params
<1>18. \A k \in DOMAIN jobs, h \in Goroutines : jobs'[k].taker = h =>
          \/ h = g
          \/ h # g /\ jobs[k].taker = h
  BY <1>8
<1>19. Decisions'
  <2> SUFFICES ASSUME NEW k \in DOMAIN jobs, NEW h \in Goroutines, jobs'[k].taker = h
               PROVE  Decision(run[h], jobs[k])'
    BY <1>9 DEF Decisions
  <2>1. CASE h = g
    BY <2>1, <1>2, <1>4 DEF Decision
  <2>2. CASE h # g
    <3>1. Decision(run[h], jobs[k]) /\ run'[h] = run[h]
      BY <2>2, <1>4, <1>18 DEF Inv, Decisions
    <3> QED
      BY <3>1, <1>8, <1>16 DEF Decision
  <2> QED
    BY <2>1, <2>2
<1>20. ~excuse'.overlap => InOrder'
  <2> SUFFICES ASSUME ~overlap PROVE InOrder'
    BY <1>12
  <2>1. InOrder /\ \A h \in Goroutines : ~Busy(h)
    BY DEF Inv
  <2>2. \A k \in DOMAIN jobs : jobs[k].taker = Nobody
    <3> TAKE k \in DOMAIN jobs
    <3>1. jobs[k] \in Job
      BY <1>3, ElementOfSeq
    <3>2. jobs[k].taker \notin Goroutines
      BY <2>1 DEF Inv, Locks, OneRowEach, BusyOnes
    <3> QED
      BY <3>1, <3>2 DEF Job
  <2>3. next = 1
    <3>1. 1 \in DOMAIN jobs /\ next \in Nat \ {0}
      BY <1>3, <1>6
    <3>2. 1 \in Available
      BY <3>1, <2>2 DEF Available
    <3> QED
      BY <3>1, <3>2, <1>5
  <2>4. \A k \in DOMAIN jobs' : jobs'[k].taker # Nobody => k = 1
    BY <1>8, <1>9, <2>2, <2>3
  <2>5. ASSUME NEW k \in DOMAIN jobs, NEW h \in Goroutines, jobs'[k].taker = h
        PROVE  Thorough(run[h], k)'
    <3>1. run'[h].pc # "done"
      BY <2>5, <2>2, <1>2, <1>4, <1>18, PreferencesAssumption
    <3> QED
      BY <3>1 DEF Thorough
  <2>6. \A m : Pending(m)' <=> Pending(m)
    BY <1>8, <1>9 DEF Pending
  <2>7. \A k \in DOMAIN jobs : LastAbout(k)' <=> LastAbout(k)
    BY <1>8, <1>9 DEF LastAbout
  <2>8. \A m \in People : BlocksInOrder(m)'
    BY <1>1, <1>8, <1>9, <2>1, <2>6, <2>7 DEF InOrder, BlocksInOrder
  <2>9. ASSUME NEW c \in Channels PROVE SettingsInOrder(c)'
    <3>1. SettingsInOrder(c)
      BY <2>1 DEF InOrder
    <3> QED
      BY <3>1, <1>1, <1>8, <1>9, <1>16, <2>6, <2>7 DEF SettingsInOrder
  <2> QED
    BY <1>9, <2>4, <2>5, <2>8, <2>9 DEF InOrder
<1> QED
  BY <1>13, <1>15, <1>17, <1>19, <1>20 DEF Inv

LEMMA RejectInv ==
  ASSUME Inv, NEW g \in Goroutines, Reject(g)
  PROVE  Inv'
<1> DEFINE r == [run[g] EXCEPT !.pc = "done", !.outcome = "FAILED"]
<1>1. Busy(g) /\ run[g].pc = "exec" /\ JobOf(g).about = Self /\ Continue(g, r)
  BY DEF Reject
<1>2. /\ run[g] \in Run /\ Decision(run[g], JobOf(g)) /\ Params(JobOf(g))
      /\ \A k \in DOMAIN jobs : jobs[k].taker = g => JobOf(g) = jobs[k]
  BY <1>1, RowOfBusy
<1>3. r \in Run /\ r.pc = "done" /\ r.adds = run[g].adds /\ r.dels = run[g].dels /\ r.update = run[g].update
  BY <1>2 DEF Run
<1> HIDE DEF r
<1>4. Self \notin People /\ Self \notin Channels
  BY PreferencesAssumption DEF Targets
<1>5. Decision(r, JobOf(g))
  BY <1>1, <1>2, <1>3, <1>4 DEF Decision
<1>6. \A k \in DOMAIN jobs : jobs[k].taker = g => Thorough(r, k)
  BY <1>1, <1>2, <1>4 DEF Thorough, Params
<1> QED
  BY <1>1, <1>3, <1>5, <1>6, MovesInv

LEMMA ListChannelsInv ==
  ASSUME Inv, NEW g \in Goroutines, ListChannels(g)
  PROVE  Inv'
<1> DEFINE r == [run[g] EXCEPT !.pc = "done"]
           s == [run[g] EXCEPT !.pc = "insert", !.todo = MemberOf]
<1>1. /\ Busy(g) /\ run[g].pc = "exec" /\ JobOf(g).type = "BLOCK_MEMBER"
      /\ IF JobOf(g).about \in Bots \/ MemberOf = {} THEN Continue(g, r) ELSE Continue(g, s)
  BY DEF ListChannels, Runs
<1>2. /\ run[g] \in Run /\ Decision(run[g], JobOf(g)) /\ Params(JobOf(g))
      /\ \A k \in DOMAIN jobs : jobs[k].taker = g => JobOf(g) = jobs[k]
  BY <1>1, RowOfBusy
<1>3. r \in Run /\ r.pc = "done" /\ r.adds = run[g].adds /\ r.dels = run[g].dels /\ r.update = run[g].update
  BY <1>2 DEF Run
<1>4. /\ s \in Run /\ s.pc = "insert" /\ s.todo = MemberOf
      /\ s.adds = run[g].adds /\ s.dels = run[g].dels /\ s.update = run[g].update
  BY <1>2 DEF Run, MemberOf
<1> HIDE DEF r, s
<1>5. ASSUME NEW n \in {r, s} PROVE \A k \in DOMAIN jobs : jobs[k].taker = g => Thorough(n, k)
  BY <1>1, <1>2 DEF Thorough
<1>6. CASE JobOf(g).about \in Bots \/ MemberOf = {}
  <2>1. JobOf(g).about \notin People \/ JobOf(g).since = {}
    BY <1>2, <1>6, PreferencesAssumption DEF Params
  <2>2. Decision(r, JobOf(g))
    BY <1>1, <1>2, <1>3, <2>1 DEF Decision
  <2> QED
    BY <1>1, <1>3, <1>5, <1>6, <2>2, MovesInv
<1>7. CASE ~(JobOf(g).about \in Bots \/ MemberOf = {})
  <2>1. Decision(s, JobOf(g))
    BY <1>1, <1>2, <1>4 DEF Decision, Params
  <2> QED
    BY <1>1, <1>4, <1>5, <1>7, <2>1, MovesInv
<1> QED
  BY <1>6, <1>7

LEMMA InsertRowInv ==
  ASSUME Inv, NEW g \in Goroutines, InsertRow(g)
  PROVE  Inv'
<1>1. run[g].pc = "insert" /\ Busy(g)
  BY DEF InsertRow, Busy
<1>2. PICK c \in run[g].todo :
        LET b == <<c, JobOf(g).about>> IN
        /\ c \in MemberOf
        /\ IF b \in blocked
           THEN Continue(g, [run[g] EXCEPT !.pc = "done", !.aborted = TRUE])
           ELSE Continue(g, [run[g] EXCEPT !.adds = @ \cup {b}, !.todo = @ \ {c},
                              !.pc = IF run[g].todo = {c} THEN "done" ELSE "insert"])
  BY DEF InsertRow
<1> DEFINE b == <<c, JobOf(g).about>>
           r == [run[g] EXCEPT !.pc = "done", !.aborted = TRUE]
           s == [run[g] EXCEPT !.adds = @ \cup {b}, !.todo = @ \ {c},
                               !.pc = IF run[g].todo = {c} THEN "done" ELSE "insert"]
<1>3. /\ run[g] \in Run /\ Decision(run[g], JobOf(g)) /\ Params(JobOf(g))
      /\ \A k \in DOMAIN jobs : jobs[k].taker = g => JobOf(g) = jobs[k]
  BY <1>1, RowOfBusy
<1>4. JobOf(g).type = "BLOCK_MEMBER" /\ b \in Row
  BY <1>1, <1>2, <1>3 DEF Decision, Params, Row, MemberOf
<1>5. /\ r \in Run /\ r.pc = "done" /\ r.aborted /\ r.adds = run[g].adds /\ r.dels = run[g].dels
      /\ r.update = run[g].update
  BY <1>3 DEF Run
<1> DEFINE todo == run[g].todo \ {c}
           adds == run[g].adds \cup {b}
           pc == IF run[g].todo = {c} THEN "done" ELSE "insert"
<1>6. todo \in SUBSET Channels /\ adds \in SUBSET Row /\ pc \in {"done", "insert"}
  BY <1>3, <1>4 DEF Run
<1>7. s = [run[g] EXCEPT !.adds = adds, !.todo = todo, !.pc = pc]
  BY <1>3 DEF Run
<1>8. /\ s \in Run /\ s.pc = pc /\ s.todo = todo /\ s.adds = adds
      /\ s.dels = run[g].dels /\ s.update = run[g].update
  <2> HIDE DEF s, todo, adds, pc
  <2> QED
    BY <1>3, <1>6, <1>7 DEF Run
<1>9. IF b \in blocked THEN Continue(g, r) ELSE Continue(g, s)
  BY <1>2
<1> HIDE DEF r, s
<1>10. ASSUME NEW n \in {r, s} PROVE \A k \in DOMAIN jobs : jobs[k].taker = g => Thorough(n, k)
  BY <1>3, <1>4 DEF Thorough
<1>11. CASE b \in blocked
  <2>1. Decision(r, JobOf(g))
    BY <1>1, <1>3, <1>4, <1>5 DEF Decision
  <2> QED
    BY <1>1, <1>5, <1>9, <1>10, <1>11, <2>1, MovesInv
<1>12. CASE b \notin blocked
  <2>1. \A x \in JobOf(g).since : x \in todo \/ <<x, JobOf(g).about>> \in adds
    BY <1>1, <1>3 DEF Decision
  <2>2. pc = "done" => todo = {}
    OBVIOUS
  <2>3. \A d \in adds : d[1] \in MemberOf /\ d[2] = JobOf(g).about
    BY <1>2, <1>3 DEF Decision
  <2> HIDE DEF todo, adds, pc, b
  <2>4. Decision(s, JobOf(g))
    BY <1>1, <1>3, <1>4, <1>6, <1>8, <2>1, <2>2, <2>3 DEF Decision
  <2> QED
    BY <1>1, <1>6, <1>8, <1>9, <1>10, <1>12, <2>4, MovesInv
<1> QED
  BY <1>11, <1>12

LEMMA UnblockInv ==
  ASSUME Inv, NEW g \in Goroutines, UnblockMember(g)
  PROVE  Inv'
<1> DEFINE rows == {b \in blocked : b[2] = JobOf(g).about}
           r == [run[g] EXCEPT !.pc = "done", !.dels = rows]
<1>1. Busy(g) /\ run[g].pc = "exec" /\ JobOf(g).type = "UNBLOCK_MEMBER" /\ Continue(g, r)
  BY DEF UnblockMember, Runs
<1>2. /\ run[g] \in Run /\ Decision(run[g], JobOf(g))
      /\ \A k \in DOMAIN jobs : jobs[k].taker = g => JobOf(g) = jobs[k]
  BY <1>1, RowOfBusy
<1>3. rows \in SUBSET Row /\ \A b \in blocked : b \in rows <=> b[2] = JobOf(g).about
  BY DEF Inv, TypeOK
<1>4. \A b \in rows : b[2] = JobOf(g).about
  OBVIOUS
<1> HIDE DEF rows
<1>5. r \in Run /\ r.pc = "done" /\ r.adds = run[g].adds /\ r.dels = rows /\ r.update = run[g].update
  BY <1>2, <1>3 DEF Run
<1> HIDE DEF r
<1>6. Decision(r, JobOf(g))
  BY <1>1, <1>2, <1>4, <1>5 DEF Decision
<1>7. \A k \in DOMAIN jobs : jobs[k].taker = g => Thorough(r, k)
  BY <1>1, <1>2, <1>3, <1>5 DEF Thorough
<1> QED
  BY <1>1, <1>5, <1>6, <1>7, MovesInv

LEMMA UpdateInv ==
  ASSUME Inv, NEW g \in Goroutines, UpdateMember(g)
  PROVE  Inv'
<1> DEFINE c == JobOf(g).about
           u == IF c \in MemberOf THEN c ELSE None
           r == [run[g] EXCEPT !.pc = "done", !.update = u]
<1>1. Busy(g) /\ run[g].pc = "exec" /\ JobOf(g).type = "UPDATE_MEMBER" /\ Continue(g, r)
  BY DEF UpdateMember, Runs
<1>2. /\ run[g] \in Run /\ Decision(run[g], JobOf(g)) /\ Params(JobOf(g))
      /\ \A k \in DOMAIN jobs : jobs[k].taker = g => JobOf(g) = jobs[k]
  BY <1>1, RowOfBusy
<1>3. c \in Channels /\ c # None
  BY <1>1, <1>2, PreferencesAssumption DEF Params
<1>4. u \in Channels \cup {None} /\ (u # None => u = c /\ u \in MemberOf) /\ (u = None => c \notin MemberOf)
  BY <1>3
<1> HIDE DEF u
<1>5. r \in Run /\ r.pc = "done" /\ r.adds = run[g].adds /\ r.dels = run[g].dels /\ r.update = u
  BY <1>2, <1>4 DEF Run
<1> HIDE DEF r
<1>6. Decision(r, JobOf(g))
  BY <1>1, <1>2, <1>4, <1>5 DEF Decision
<1>7. ASSUME InOrder PROVE \A k \in DOMAIN jobs : jobs[k].taker = g => Thorough(r, k)
  <2>1. u = None => wanted[c] = None
    BY <1>3, <1>4, <1>7 DEF InOrder, SettingsInOrder
  <2> QED
    BY <1>1, <1>2, <1>5, <2>1 DEF Thorough
<1> QED
  BY <1>1, <1>5, <1>6, <1>7, MovesInv
-------------------------------------------------------------------------------
(* The commit *)

\* What is written.
Written(g, j) ==
    /\ blocked' = (blocked \cup run[g].adds) \ run[g].dels
    /\ settings' \in [Channels -> Settings \cup {None}]
    /\ \A c \in Channels :
          settings'[c] = IF run[g].update = c THEN Merge(settings[c], j.settings) ELSE settings[c]
    /\ run'[g] = NoRun /\ \A h \in Goroutines \ {g} : run'[h] = run[h]

\* What is left of the rows.
Committed(g, j, at) ==
    /\ Selects(jobs', jobs, Others(g), at)
    /\ jobs' \in Seq(Job) /\ Len(jobs') \in Nat
    /\ Written(g, j)

LEMMA MergeTyped ==
  ASSUME NEW old \in Settings, NEW new \in Settings
  PROVE  /\ Merge(old, new) \in Settings
         /\ Merge(old, new).active = new.active
         /\ new.link # "none" => Merge(old, new).link = new.link
  BY DEF Merge, Settings

LEMMA WriteDone ==
  ASSUME Inv, NEW g \in Goroutines, Write(g)
  PROVE  Written(g, JobOf(g))
<1> DEFINE j == JobOf(g)
           u == run[g].update
           merged == Merge(settings[u], j.settings)
<1>1. Busy(g) /\ run' = [run EXCEPT ![g] = NoRun]
  BY DEF Write, Busy
<1>2. run[g] \in Run /\ j \in Job /\ Decision(run[g], j) /\ Params(j)
  BY <1>1, RowOfBusy
<1>3. settings \in [Channels -> Settings \cup {None}] /\ jobs \in Seq(Job) /\ run \in [Goroutines -> Run]
  BY DEF Inv, TypeOK
<1>5. run'[g] = NoRun /\ \A h \in Goroutines \ {g} : run'[h] = run[h]
  BY <1>1, <1>3
<1>6. blocked' = (blocked \cup run[g].adds) \ run[g].dels
  BY DEF Write
<1>7. settings' = IF u = None THEN settings ELSE [settings EXCEPT ![u] = merged]
  BY DEF Write
<1>8. u # None => u \in Channels /\ u \in MemberOf /\ merged \in Settings
  <2> SUFFICES ASSUME u # None PROVE u \in Channels /\ u \in MemberOf /\ merged \in Settings
    OBVIOUS
  <2>1. u \in Channels /\ settings[u] # None /\ u \in MemberOf /\ j.type = "UPDATE_MEMBER"
    BY <1>2 DEF Decision, MemberOf
  <2>2. settings[u] \in Settings /\ j.settings \in Settings
    BY <1>2, <1>3, <2>1 DEF Params
  <2> QED
    BY <2>1, <2>2, MergeTyped
<1> HIDE DEF merged
<1>9. /\ settings' \in [Channels -> Settings \cup {None}]
      /\ \A c \in Channels : settings'[c] = IF u = c THEN merged ELSE settings[c]
  <2>1. CASE u = None
    <3>1. \A c \in Channels : u # c
      BY <2>1, PreferencesAssumption
    <3> QED
      BY <2>1, <3>1, <1>3, <1>7
  <2>2. CASE u # None
    BY <2>2, <1>3, <1>7, <1>8
  <2> QED
    BY <2>1, <2>2
<1>10. \A c \in Channels : settings'[c] = IF u = c THEN Merge(settings[c], j.settings) ELSE settings[c]
  BY <1>9 DEF merged
<1> QED
  BY <1>5, <1>6, <1>9, <1>10 DEF Written

LEMMA CommitDone ==
  ASSUME Inv, NEW g \in Goroutines, Commit(g)
  PROVE  \E at : Committed(g, JobOf(g), at)
<1>1. jobs \in Seq(Job) /\ jobs' = Where(jobs, Others(g))
  BY DEF Commit, Inv, TypeOK
<1>2. jobs' \in Seq(Job) /\ \E at : Selects(jobs', jobs, Others(g), at)
  BY <1>1, WhereKeeps DEF Others
<1>3. Len(jobs') \in Nat
  BY <1>2
<1>4. Written(g, JobOf(g))
  BY WriteDone DEF Commit
<1> QED
  BY <1>2, <1>3, <1>4 DEF Committed

\* The writes keep the tables well typed, and the user in the same channels.
LEMMA WriteTyped ==
  ASSUME Inv, NEW g \in Goroutines, Write(g)
  PROVE  /\ MemberOf' = MemberOf
         /\ settings' \in [Channels -> Settings \cup {None}]
         /\ blocked' \subseteq {b \in Row : settings'[b[1]] # None}
         /\ run' \in [Goroutines -> Run]
<1> DEFINE j == JobOf(g)
           r == run[g]
<1>1. r \in Run /\ Decision(r, j) /\ Params(j)
  <2>1. Busy(g)
    BY DEF Write, Busy
  <2> QED
    BY <2>1, RowOfBusy
<1>2. Written(g, j)
  BY WriteDone
<1> HIDE DEF j, r
<1>3. MemberOf' = MemberOf
  <2> SUFFICES ASSUME NEW c \in Channels PROVE settings'[c] # None <=> settings[c] # None
    BY DEF MemberOf
  <2>1. CASE r.update = c
    <3>1. c \in MemberOf /\ j.type = "UPDATE_MEMBER"
      BY <1>1, <2>1, PreferencesAssumption DEF Decision
    <3>2. settings[c] \in Settings /\ j.settings \in Settings
      BY <1>1, <3>1 DEF Params, MemberOf, Inv, TypeOK
    <3>3. settings'[c] \in Settings
      BY <1>2, <2>1, <3>2, MergeTyped DEF Written, r
    <3> QED
      BY <3>2, <3>3, PreferencesAssumption
  <2>2. CASE r.update # c
    BY <1>2, <2>2 DEF Written, r
  <2> QED
    BY <2>1, <2>2
<1>4. blocked' \subseteq {b \in Row : settings'[b[1]] # None}
  <2> SUFFICES ASSUME NEW b \in blocked \cup r.adds PROVE b \in Row /\ settings'[b[1]] # None
    BY <1>2 DEF Written, r
  <2>1. b \in Row /\ b[1] \in Channels
    BY <1>1 DEF Inv, TypeOK, Run, Row
  <2>2. b[1] \in MemberOf
    BY <2>1, <1>1 DEF Inv, TypeOK, Decision, MemberOf
  <2> QED
    BY <2>1, <2>2, <1>3 DEF MemberOf
<1>5. run' \in [Goroutines -> Run]
  BY NoRunTyped DEF Write, Inv, TypeOK
<1> QED
  BY <1>2, <1>3, <1>4, <1>5 DEF Written

LEMMA CommitInv ==
  ASSUME Inv, NEW g \in Goroutines, Commit(g)
  PROVE  Inv'
<1> DEFINE j == JobOf(g)
           r == run[g]
<1>1. Busy(g) /\ r.pc = "done" /\ ~r.aborted /\ UNCHANGED <<count, asked, wanted, excuse>>
  BY DEF Commit, Write, Busy
<1>2. /\ r \in Run /\ j \in Job /\ Decision(r, j) /\ Params(j)
      /\ \A k \in DOMAIN jobs : jobs[k].taker = g => j = jobs[k]
  BY <1>1, RowOfBusy
<1>3. PICK own \in DOMAIN jobs : jobs[own].taker = g /\ jobs[own] = j
  BY <1>1, RowOfBusy
<1>4. PICK at : Committed(g, j, at)
  BY CommitDone
<1> HIDE DEF j, r
<1>5. /\ jobs' \in Seq(Job) /\ DOMAIN jobs' \subseteq Nat /\ DOMAIN jobs \subseteq Nat
      /\ at \in [DOMAIN jobs' -> Others(g)]
      /\ \A i \in DOMAIN jobs' : jobs'[i] = jobs[at[i]]
      /\ \A i, n \in DOMAIN jobs' : i < n => at[i] < at[n]
      /\ \A k \in Others(g) : \E i \in DOMAIN jobs' : at[i] = k
  BY <1>4 DEF Committed, Selects, Inv, TypeOK
<1>6. \A i \in DOMAIN jobs' : at[i] \in DOMAIN jobs /\ jobs[at[i]].taker # g
  BY <1>5 DEF Others
<1>7. MemberOf' = MemberOf
  BY WriteTyped DEF Commit
<1>8. TypeOK'
  BY <1>1, <1>5, WriteTyped DEF Inv, TypeOK, Commit
<1>9. run'[g] = NoRun /\ \A h \in Goroutines \ {g} : run'[h] = run[h]
  BY <1>4 DEF Committed, Written
<1>10. Locks'
  <2>1. BusyOnes' = BusyOnes \ {g}
    BY <1>9, NoRunTyped DEF BusyOnes, Busy
  <2>2. TableOf(jobs', jobs, Others(g), <<>>, Len(jobs'), at)
    BY <1>4, SelectsTable DEF Committed, Others, Inv, TypeOK
  <2>3. Others(g) \subseteq DOMAIN jobs /\ \A k \in DOMAIN jobs : k \in Others(g) <=> jobs[k].taker # g
    BY DEF Others
  <2>4. Len(jobs') \in Nat /\ DOMAIN <<>> = {}
    BY <1>4 DEF Committed
  <2>5. OneRowEach(jobs', Goroutines, BusyOnes \ {g})
    BY <2>2, <2>3, <2>4, LockCommitted DEF Inv, Locks
  <2> QED
    BY <2>1, <2>5, <1>9 DEF Inv, Locks, Busy
<1>11. ParamsOK'
  BY <1>5, <1>6, <1>7 DEF Inv, ParamsOK, Params
<1>12. Decisions'
  <2> SUFFICES ASSUME NEW i \in DOMAIN jobs', NEW h \in Goroutines, jobs'[i].taker = h
               PROVE  Decision(run[h], jobs[i])'
    BY DEF Decisions
  <2>1. h # g /\ jobs[at[i]].taker = h /\ at[i] \in DOMAIN jobs
    BY <1>5, <1>6
  <2>2. Decision(run[h], jobs[at[i]])
    BY <2>1 DEF Inv, Decisions
  <2>3. run'[h] = run[h] /\ jobs'[i] = jobs[at[i]]
    BY <1>5, <1>9, <2>1
  <2> QED
    BY <2>2, <2>3, <1>7 DEF Decision
<1>13. ~excuse'.overlap => InOrder'
  <2> SUFFICES ASSUME InOrder PROVE InOrder'
    BY <1>1 DEF Inv
  <2>1. own = 1 /\ g # Nobody
    BY <1>3, PreferencesAssumption DEF InOrder
  <2>2. \A k \in DOMAIN jobs : k # 1 => k \in Others(g) /\ jobs[k].taker = Nobody
    BY <2>1, PreferencesAssumption DEF InOrder, Others
  <2>3. \A i \in DOMAIN jobs' : at[i] \in DOMAIN jobs /\ at[i] # 1 /\ jobs'[i].taker = Nobody
    BY <1>3, <1>5, <1>6, <2>1, <2>2
  <2>4. ASSUME NEW i \in DOMAIN jobs', LastAbout(i)' PROVE LastAbout(at[i])
    <3> SUFFICES ASSUME NEW k \in DOMAIN jobs, k > at[i] PROVE jobs[k].about # jobs[at[i]].about
      BY DEF LastAbout
    <3>1. k # 1
      <4>1. at[i] \in DOMAIN jobs /\ at[i] # 1
        BY <2>3
      <4>2. at[i] \in Nat \ {0} /\ k \in Nat
        BY <4>1 DEF Inv, TypeOK
      <4> QED
        BY <4>1, <4>2
    <3>2. PICK n \in DOMAIN jobs' : at[n] = k
      BY <3>1, <2>2, <1>5
    <3>3. n > i
      <4>1. n \in Nat /\ i \in Nat /\ at[n] \in Nat /\ at[i] \in Nat /\ at[i] < at[n]
        BY <3>2, <1>5, <1>6
      <4>2. n # i /\ ~(n < i)
        BY <4>1, <1>5
      <4> QED
        BY <4>1, <4>2
    <3>4. jobs'[n].about # jobs'[i].about
      BY <2>4, <3>3 DEF LastAbout
    <3> QED
      BY <3>2, <3>4, <1>5
  <2>5. ASSUME NEW x, ~Pending(x)' PROVE \A k \in DOMAIN jobs : jobs[k].about = x => k = 1
    <3> SUFFICES ASSUME NEW k \in DOMAIN jobs, k # 1 PROVE jobs[k].about # x
      OBVIOUS
    <3>1. PICK n \in DOMAIN jobs' : at[n] = k
      BY <2>2, <1>5
    <3> QED
      BY <2>5, <3>1, <1>5 DEF Pending
  <2>6. ASSUME NEW x, ~Pending(x)' PROVE Pending(x) => j.about = x /\ LastAbout(1)
    <3> SUFFICES ASSUME Pending(x) PROVE j.about = x /\ LastAbout(1)
      OBVIOUS
    <3>1. jobs[1].about = x
      BY <2>5, <2>6 DEF Pending
    <3>2. \A k \in DOMAIN jobs : k > 1 => jobs[k].about # x
      BY <2>5, <2>6, <1>5
    <3> QED
      BY <3>1, <3>2, <2>1, <1>3 DEF LastAbout
  <2>7. Thorough(r, 1)
    BY <1>3, <2>1 DEF InOrder, r
  <2>8. ASSUME NEW m \in People PROVE BlocksInOrder(m)'
    <3>1. BlocksInOrder(m)
      BY DEF InOrder
    <3>2. ASSUME NEW i \in DOMAIN jobs', jobs'[i].about = m, LastAbout(i)'
          PROVE  jobs'[i].type = asked[m].last /\ jobs'[i].since = asked[m].since
      BY <3>1, <3>2, <2>3, <2>4, <1>5 DEF BlocksInOrder
    <3>3. ASSUME ~Pending(m)', NEW c \in asked[m].since
          PROVE  <<c, m>> \in blocked' <=> asked[m].last = "BLOCK_MEMBER"
      <4>1. blocked' = (blocked \cup r.adds) \ r.dels
        BY <1>4 DEF Committed, Written, r
      <4>2. CASE j.about # m
        <5>1. ~Pending(m) /\ <<c, m>> \notin r.adds /\ <<c, m>> \notin r.dels
          BY <4>2, <3>3, <2>6, <1>2 DEF Decision
        <5> QED
          BY <5>1, <4>1, <3>1, <3>3 DEF BlocksInOrder
      <4>3. CASE j.about = m
        <5>1. j.type = asked[m].last /\ j.since = asked[m].since
          BY <4>3, <3>1, <3>3, <2>1, <2>5, <1>3 DEF BlocksInOrder, LastAbout
        <5>2. m \notin Channels
          BY PreferencesAssumption DEF Targets
        <5>3. CASE j.type = "BLOCK_MEMBER"
          BY <5>1, <5>3, <4>1, <4>3, <3>3, <1>1, <1>2 DEF Decision
        <5>4. CASE j.type = "UNBLOCK_MEMBER"
          <6>1. r.adds = {} /\ \A b \in blocked : b[2] = m => b \in r.dels
            BY <5>4, <4>3, <2>1, <2>7, <1>1, <1>2, <1>3 DEF Decision, Thorough
          <6>2. <<c, m>> \notin blocked'
            BY <6>1, <4>1
          <6> QED
            BY <6>2, <5>1, <5>4
        <5> QED
          BY <5>2, <5>3, <5>4, <4>3, <1>2 DEF Job, Params
      <4> QED
        BY <4>2, <4>3
    <3> QED
      BY <3>2, <3>3, <1>1 DEF BlocksInOrder
  <2>9. ASSUME NEW c \in Channels PROVE SettingsInOrder(c)'
    <3> SUFFICES ASSUME wanted[c] # None
                 PROVE  /\ c \in MemberOf
                        /\ \A i \in DOMAIN jobs' : jobs'[i].about = c /\ LastAbout(i)' => jobs'[i].settings = wanted[c]
                        /\ ~Pending(c)' => /\ settings'[c].active = wanted[c].active
                                           /\ wanted[c].link # "none" => settings'[c].link = wanted[c].link
      BY <1>1, <1>7 DEF SettingsInOrder
    <3>1. SettingsInOrder(c)
      BY DEF InOrder
    <3>2. c \in MemberOf
      BY <3>1 DEF SettingsInOrder
    <3>3. ASSUME NEW i \in DOMAIN jobs', jobs'[i].about = c, LastAbout(i)'
          PROVE  jobs'[i].settings = wanted[c]
      BY <3>1, <3>3, <2>3, <2>4, <1>5 DEF SettingsInOrder
    <3>4. settings'[c] = IF r.update = c THEN Merge(settings[c], j.settings) ELSE settings[c]
      BY <1>4 DEF Committed, Written, r
    <3>5. ASSUME ~Pending(c)'
          PROVE  /\ settings'[c].active = wanted[c].active
                 /\ wanted[c].link # "none" => settings'[c].link = wanted[c].link
      <4>1. CASE j.about # c
        <5>1. ~Pending(c) /\ r.update # c
          BY <4>1, <3>5, <2>6, <1>2, PreferencesAssumption DEF Decision
        <5> QED
          BY <5>1, <3>1, <3>4 DEF SettingsInOrder
      <4>2. CASE j.about = c
        <5>1. j.settings = wanted[c] /\ LastAbout(1)
          BY <4>2, <3>1, <3>5, <2>1, <2>5, <1>3 DEF SettingsInOrder, LastAbout
        <5>2. j.type = "UPDATE_MEMBER"
          BY <4>2, <1>2, PreferencesAssumption DEF Params
        <5>3. r.update = c
          <6>1. r.update # None
            BY <5>1, <5>2, <4>2, <2>1, <2>7, <1>1, <1>3 DEF Thorough
          <6> QED
            BY <6>1, <4>2, <1>2 DEF Decision
        <5>4. settings[c] \in Settings /\ j.settings \in Settings
          BY <3>2, <5>2, <1>2 DEF MemberOf, Params, Inv, TypeOK
        <5> QED
          BY <5>1, <5>3, <5>4, <3>4, MergeTyped
      <4> QED
        BY <4>1, <4>2
    <3> QED
      BY <3>2, <3>3, <3>5
  <2>10. \A i \in DOMAIN jobs', h \in Goroutines : jobs'[i].taker # h
    BY <2>3, PreferencesAssumption
  <2> QED
    BY <2>3, <2>8, <2>9, <2>10 DEF InOrder
<1> QED
  BY <1>8, <1>10, <1>11, <1>12, <1>13 DEF Inv

\* Without the Save the row is kept: it is still the first of those about its person
\* or channel, and says what it has written.
LEMMA UnsavedInv ==
  ASSUME Inv, NEW g \in Goroutines, CommitUnsaved(g)
  PROVE  Inv'
<1> DEFINE j == JobOf(g)
           r == run[g]
<1>1. Write(g) /\ Busy(g) /\ UNCHANGED <<asked, wanted>>
  BY DEF CommitUnsaved, Write, Busy
<1>2. /\ r \in Run /\ j \in Job /\ Decision(r, j) /\ Params(j)
      /\ \A k \in DOMAIN jobs : jobs[k].taker = g => j = jobs[k]
  BY <1>1, RowOfBusy
<1>3. PICK own \in DOMAIN jobs : jobs[own].taker = g /\ jobs[own] = j
  BY <1>1, RowOfBusy
<1>4. Written(g, j)
  BY <1>1, WriteDone
<1>5. /\ jobs' = [k \in DOMAIN jobs |-> jobs'[k]] /\ jobs \in Seq(Job)
      /\ \A k \in DOMAIN jobs : jobs'[k] = [jobs[k] EXCEPT !.taker = IF @ = g THEN Nobody ELSE @]
  BY DEF CommitUnsaved, Released, Inv, TypeOK
<1>6. ASSUME NEW k \in DOMAIN jobs
      PROVE  /\ jobs'[k] \in Job
             /\ jobs'[k].taker = IF jobs[k].taker = g THEN Nobody ELSE jobs[k].taker
             /\ jobs'[k].type = jobs[k].type /\ jobs'[k].about = jobs[k].about
             /\ jobs'[k].settings = jobs[k].settings /\ jobs'[k].since = jobs[k].since
  <2>1. jobs[k] \in Job
    BY <1>5, ElementOfSeq
  <2> QED
    BY <2>1, <1>5 DEF Job
<1>7. jobs' \in Seq(Job) /\ DOMAIN jobs' = DOMAIN jobs
  BY <1>5, <1>6, RowsChanged
<1> HIDE DEF j, r
<1>8. MemberOf' = MemberOf
  BY <1>1, WriteTyped
<1>9. TypeOK'
  <2>1. count' \in [requests: 0..MaxRequests, moves: 0..MaxMoves, faults: 0..MaxFaults]
    BY PreferencesAssumption DEF CommitUnsaved, Inv, TypeOK
  <2>2. excuse' \in [overlap: BOOLEAN, repeat: BOOLEAN]
    BY DEF CommitUnsaved, Inv, TypeOK
  <2> QED
    BY <1>1, <1>7, <2>1, <2>2, WriteTyped DEF Inv, TypeOK
<1>10. run'[g] = NoRun /\ \A h \in Goroutines \ {g} : run'[h] = run[h]
  BY <1>4 DEF Written
<1>11. Locks'
  <2>1. BusyOnes' = BusyOnes \ {g}
    BY <1>10, NoRunTyped DEF BusyOnes, Busy
  <2>2. OneRowEach(jobs', Goroutines, BusyOnes \ {g})
    BY <1>6, <1>7, PreferencesAssumption, LockReleased DEF Inv, Locks
  <2> QED
    BY <2>1, <2>2, <1>10 DEF Inv, Locks, Busy
<1>12. ParamsOK'
  BY <1>6, <1>7, <1>8 DEF Inv, ParamsOK, Params
<1>13. \A k \in DOMAIN jobs, h \in Goroutines : jobs'[k].taker = h => jobs[k].taker = h /\ run'[h] = run[h]
  BY <1>6, <1>10, PreferencesAssumption
<1>14. Decisions'
  <2> SUFFICES ASSUME NEW k \in DOMAIN jobs, NEW h \in Goroutines, jobs'[k].taker = h
               PROVE  Decision(run[h], jobs[k])'
    BY <1>7 DEF Decisions
  <2>1. Decision(run[h], jobs[k])
    BY <1>13 DEF Inv, Decisions
  <2> QED
    BY <2>1, <1>6, <1>8, <1>13 DEF Decision
<1>15. ~excuse'.overlap => InOrder'
  <2> SUFFICES ASSUME InOrder PROVE InOrder'
    BY DEF CommitUnsaved, Inv, TypeOK
  <2>1. own = 1 /\ g # Nobody
    BY <1>3, PreferencesAssumption DEF InOrder
  <2>2. ASSUME NEW k \in DOMAIN jobs' PROVE jobs'[k].taker = Nobody
    <3>1. CASE k = 1
      BY <3>1, <2>1, <1>3, <1>6
    <3>2. CASE k # 1
      <4>1. jobs[k].taker = Nobody
        BY <3>2, <1>7 DEF InOrder
      <4> QED
        BY <4>1, <2>1, <1>6, <1>7
    <3> QED
      BY <3>1, <3>2
  <2>3. \A x : Pending(x)' <=> Pending(x)
    BY <1>6, <1>7 DEF Pending
  <2>4. \A k \in DOMAIN jobs : LastAbout(k)' <=> LastAbout(k)
    BY <1>6, <1>7 DEF LastAbout
  <2>5. Pending(j.about)
    BY <1>3 DEF Pending
  <2>6. ASSUME NEW m \in People PROVE BlocksInOrder(m)'
    <3>1. BlocksInOrder(m)
      BY DEF InOrder
    <3>2. ASSUME ~Pending(m), NEW c \in asked[m].since
          PROVE  <<c, m>> \in blocked' <=> <<c, m>> \in blocked
      <4>1. j.about # m
        BY <2>5, <3>2
      <4>2. <<c, m>> \notin r.adds /\ <<c, m>> \notin r.dels
        BY <4>1, <1>2 DEF Decision
      <4> QED
        BY <4>2, <1>4 DEF Written, r
    <3> QED
      BY <3>1, <3>2, <1>1, <1>6, <1>7, <2>3, <2>4 DEF BlocksInOrder
  <2>7. ASSUME NEW c \in Channels PROVE SettingsInOrder(c)'
    <3>1. SettingsInOrder(c)
      BY DEF InOrder
    <3>2. ~Pending(c) => settings'[c] = settings[c]
      <4> SUFFICES ASSUME ~Pending(c) PROVE settings'[c] = settings[c]
        OBVIOUS
      <4>1. j.about # c
        BY <2>5
      <4>2. r.update # c
        BY <4>1, <1>2, PreferencesAssumption DEF Decision
      <4> QED
        BY <4>2, <1>4 DEF Written, r
    <3> QED
      BY <3>1, <3>2, <1>1, <1>6, <1>7, <1>8, <2>3, <2>4 DEF SettingsInOrder
  <2> QED
    BY <1>7, <2>2, <2>6, <2>7, PreferencesAssumption DEF InOrder
<1> QED
  BY <1>9, <1>11, <1>12, <1>14, <1>15 DEF Inv
-------------------------------------------------------------------------------
(* The specification *)

LEMMA StepInv ==
  ASSUME Inv, NEW g \in Goroutines, Step(g) \/ CommitUnsaved(g) \/ Fail(g)
  PROVE  Inv'
<1>1. CASE CommitAborted(g) \/ GiveUp(g) \/ Fail(g)
  <2>1. Rollback(g)
    BY <1>1 DEF CommitAborted, GiveUp, Fail
  <2>2. count' \in [requests: 0..MaxRequests, moves: 0..MaxMoves, faults: 0..MaxFaults]
    BY <1>1, PreferencesAssumption DEF CommitAborted, GiveUp, Fail, Inv, TypeOK
  <2> QED
    BY <2>1, <2>2, RollbackInv
<1> QED
  BY <1>1, TakeJobInv, RejectInv, ListChannelsInv, InsertRowInv, UnblockInv, UpdateInv, CommitInv,
     UnsavedInv DEF Step

LEMMA StutterInv == Inv /\ UNCHANGED vars => Inv'
<1> SUFFICES ASSUME Inv, UNCHANGED vars PROVE Inv'
  OBVIOUS
<1>1. UNCHANGED <<settings, blocked, jobs, run, count, asked, wanted, excuse>>
  BY DEF vars
<1>2. TypeOK' /\ Locks' /\ ParamsOK'
  BY <1>1 DEF Inv, TypeOK, Locks, BusyOnes, Busy, ParamsOK, Params, MemberOf
<1>3. Decisions'
  BY <1>1 DEF Inv, Decisions, Decision, MemberOf
<1>4. ~excuse'.overlap => InOrder'
  BY <1>1 DEF Inv, InOrder, Thorough, LastAbout, BlocksInOrder, SettingsInOrder, Pending, MemberOf
<1> QED
  BY <1>2, <1>3, <1>4 DEF Inv

LEMMA NextInv == Inv /\ [Next]_vars => Inv'
<1> SUFFICES ASSUME Inv, [Next]_vars PROVE Inv'
  OBVIOUS
<1>1. CASE \E m \in Targets : UpsertMemberBlockList(m) \/ UpsertMemberUnblockList(m)
  BY <1>1, SelectedInv DEF UpsertMemberBlockList, UpsertMemberUnblockList
<1>2. CASE \E c \in Channels : SaveSettings(c) \/ Join(c) \/ Leave(c)
  BY <1>2, SaveInv, JoinInv, LeaveInv
<1>3. CASE \E g \in Goroutines : Step(g) \/ CommitUnsaved(g) \/ Fail(g)
  BY <1>3, StepInv
<1> QED
  BY <1>1, <1>2, <1>3, StutterInv DEF Next

LEMMA Invariance == Spec => []Inv
  BY InitInv, NextInv, PTL DEF Spec

\* The variables have their types, for all persons, channels, goroutines, requests
\* and faults; a row of blocked_members refers to a row of members.
THEOREM TypesOK == Spec => []TypeOK
<1>1. Inv => TypeOK
  BY DEF Inv
<1> QED
  BY <1>1, Invariance, PTL

\* The last word counts, for all persons, channels, goroutines, requests and
\* faults: when nothing about a person is pending and jobs have not run side by
\* side, the blocks are what was asked last; and so for the settings of a channel.
THEOREM LastWordsCount == Spec => []LastWordCounts
<1>1. Inv => LastWordCounts
  BY DEF Inv, InOrder, BlocksInOrder, SettingsInOrder, LastWordCounts
<1> QED
  BY <1>1, Invariance, PTL

\* A row is gone when its transaction commits, and only then.
LEMMA OnlyCommitDeletes ==
  ASSUME Inv, Next, Len(jobs') < Len(jobs)
  PROVE  \E h \in Goroutines : Commit(h)
<1>1. jobs \in Seq(Job) /\ jobs' \in Seq(Job)
  <2>1. Inv'
    BY NextInv
  <2> QED
    BY <2>1 DEF Inv, TypeOK
<1>2. ASSUME DOMAIN jobs' = DOMAIN jobs PROVE FALSE
  <2>1. Len(jobs) \in DOMAIN jobs' /\ DOMAIN jobs' = 1..Len(jobs') /\ Len(jobs) \in Nat /\ Len(jobs') \in Nat
    BY <1>1, <1>2
  <2> QED
    BY <2>1
<1>3. ASSUME NEW j, jobs' = Append(jobs, j) PROVE FALSE
  <2>1. Len(jobs') = Len(jobs) + 1 /\ Len(jobs) \in Nat
    BY <1>1, <1>3
  <2> QED
    BY <2>1
<1>4. CASE \E m \in Targets : UpsertMemberBlockList(m) \/ UpsertMemberUnblockList(m)
  BY <1>3, <1>4 DEF UpsertMemberBlockList, UpsertMemberUnblockList, QueueSelected, Queue
<1>5. CASE \E c \in Channels : SaveSettings(c) \/ Join(c) \/ Leave(c)
  BY <1>2, <1>3, <1>5 DEF SaveSettings, Queue, Join, Leave
<1>6. ASSUME NEW h \in Goroutines, Step(h) \/ CommitUnsaved(h) \/ Fail(h) PROVE Commit(h)
  <2>1. CASE CommitAborted(h) \/ GiveUp(h) \/ Fail(h) \/ CommitUnsaved(h)
    <3>1. DOMAIN jobs' = DOMAIN jobs
      BY <2>1 DEF CommitAborted, GiveUp, Fail, Rollback, CommitUnsaved, Released
    <3> QED
      BY <3>1, <1>2
  <2>2. CASE TakeJob(h)
    <3>1. DOMAIN jobs' = DOMAIN jobs
      BY <2>2 DEF TakeJob
    <3> QED
      BY <3>1, <1>2
  <2>3. CASE Reject(h) \/ ListChannels(h) \/ InsertRow(h) \/ UnblockMember(h) \/ UpdateMember(h)
    <3>1. jobs' = jobs
      BY <2>3 DEF Reject, ListChannels, InsertRow, UnblockMember, UpdateMember, Continue
    <3> QED
      BY <3>1, <1>2
  <2> QED
    BY <1>6, <2>1, <2>2, <2>3 DEF Step
<1> QED
  BY <1>4, <1>5, <1>6 DEF Next

LEMMA BlocksWritten ==
  ASSUME Inv, Next, NEW g \in Goroutines,
         Runs(g, "BLOCK_MEMBER"), JobOf(g).about \in People,
         Len(jobs') < Len(jobs), run'[g].pc = "idle"
  PROVE  \A c \in JobOf(g).since : <<c, JobOf(g).about>> \in blocked'
<1>1. PICK h \in Goroutines : Commit(h)
  BY OnlyCommitDeletes
<1>2. Busy(g) /\ JobOf(g).type = "BLOCK_MEMBER"
  BY DEF Runs
<1>3. h = g
  BY <1>1, <1>2, CommitDone DEF Committed, Written, Busy
<1>4. Decision(run[g], JobOf(g)) /\ run[g].pc = "done" /\ ~run[g].aborted
  BY <1>1, <1>2, <1>3, RowOfBusy DEF Commit, Write
<1>5. \A c \in JobOf(g).since : <<c, JobOf(g).about>> \in run[g].adds
  BY <1>2, <1>4 DEF Decision
<1>6. run[g].dels = {}
  BY <1>2, <1>4 DEF Decision
<1>7. blocked' = (blocked \cup run[g].adds) \ run[g].dels
  BY <1>1, <1>3 DEF Commit, Write
<1> QED
  BY <1>5, <1>6, <1>7

\* A BLOCK_MEMBER that completes has blocked the person in every channel that the
\* user has been in since it was queued, whatever runs next to it.
THEOREM EveryChannelIsBlocked == Spec => BlockedEverywhere
<1>1. Inv /\ [Next]_vars =>
        [\A g \in Goroutines :
            /\ Runs(g, "BLOCK_MEMBER") /\ JobOf(g).about \in People
            /\ Len(jobs') < Len(jobs) /\ run'[g].pc = "idle"
            => \A c \in JobOf(g).since : <<c, JobOf(g).about>> \in blocked']_vars
  BY BlocksWritten
<1> QED
  BY <1>1, Invariance, PTL DEF Spec, BlockedEverywhere
===============================================================================
