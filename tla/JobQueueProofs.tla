---------------------------- MODULE JobQueueProofs ----------------------------
(***************************************************************************)
(* Proofs about JobQueue: types, exclusive ownership of rows, that a job   *)
(* takes effect exactly once when the context of its goroutine is never    *)
(* cancelled, and that the queue then implements JobLedger.                *)
(***************************************************************************)
EXTENDS JobQueue, TLAPS

-------------------------------------------------------------------------------
(* Facts about the helpers *)

LEMMA NewRowType ==
    ASSUME TypeOK, NEW t \in JobTypes, NEW c \in Channels \cup {NoChannel}, NEW d \in Nat
    PROVE  NewRow(t, c, d) \in Row
BY DEF NewRow, Row, TypeOK

LEMMA PlacementType ==
    ASSUME NEW R, NEW f \in Placements(R)
    PROVE  /\ DOMAIN f \subseteq Ids
           /\ \A n \in DOMAIN f : f[n] \in R /\ status[n] = "ABSENT"
<1>1. PICK N \in SUBSET {i \in Ids : status[i] = "ABSENT"} : f \in [N -> R]
  BY DEF Placements
<1>2. QED BY <1>1

LEMMA TxType ==
    ASSUME TypeOK, NEW g \in Goroutines
    PROVE  /\ \A C \in SUBSET Ids : [tx EXCEPT ![g].cancels = C] \in [Goroutines -> Tx]
           /\ \A c \in {"keep", "add", "delete"} : [tx EXCEPT ![g].chan = c] \in [Goroutines -> Tx]
           /\ \A o \in Terminal : [tx EXCEPT ![g].outcome = o] \in [Goroutines -> Tx]
           /\ [tx EXCEPT ![g].aborted = TRUE] \in [Goroutines -> Tx]
           /\ [tx EXCEPT ![g].saved = TRUE] \in [Goroutines -> Tx]
<1> USE DEF TypeOK
<1>1. tx[g] \in Tx
  OBVIOUS
<1>2. /\ \A C \in SUBSET Ids : [tx[g] EXCEPT !.cancels = C] \in Tx
      /\ \A c \in {"keep", "add", "delete"} : [tx[g] EXCEPT !.chan = c] \in Tx
      /\ \A o \in Terminal : [tx[g] EXCEPT !.outcome = o] \in Tx
  BY <1>1 DEF Tx
<1>3. [tx[g] EXCEPT !.aborted = TRUE] \in Tx
  BY <1>1 DEF Tx
<1>4. [tx[g] EXCEPT !.saved = TRUE] \in Tx
  BY <1>1 DEF Tx
<1>5. QED BY <1>2, <1>3, <1>4

LEMMA EndsType ==
    ASSUME TypeOK, NEW g \in Goroutines, Ends(g)
    PROVE  /\ pc' \in [Goroutines -> PCs]
           /\ job' \in [Goroutines -> Ids \cup {NoId}]
           /\ loopOf' \in [Goroutines -> Loops \cup {NoLoop}]
           /\ tx' \in [Goroutines -> Tx]
           /\ lock' \in [Ids -> Goroutines \cup {NoGoroutine}]
<1>1. EmptyTx \in Tx
  BY DEF EmptyTx, Tx, Terminal
<1>2. QED BY <1>1 DEF TypeOK, Ends, PCs

LEMMA RollbackType ==
    ASSUME TypeOK, NEW g \in Goroutines, Rollback(g)
    PROVE  TypeOK'
<1>1. BlankRow \in Row
  BY DEF BlankRow, Row, JobTypes
<1>2. QED BY <1>1, EndsType DEF TypeOK, Rollback, Status, processVars

-------------------------------------------------------------------------------
(* Ownership: the inductive strengthening of OneHolder and NoLeak *)

\* A working goroutine holds its row, which is PENDING.
HoldsRow ==
    \A g \in Goroutines : Working(g) =>
        job[g] \in Ids /\ lock[job[g]] = g /\ status[job[g]] = "PENDING"

\* Before its sweep a goroutine has written nothing; afterwards it holds every
\* row it cancelled, and that row is PENDING.
HoldsCancelled ==
    \A g \in Goroutines :
        /\ pc[g] \in {"idle", "spawned", "begun", "locked", "exec"} => tx[g].cancels = {}
        /\ pc[g] \in {"swept", "save", "commit"} =>
              \A i \in tx[g].cancels : lock[i] = g /\ status[i] = "PENDING"

Ownership == TypeOK /\ HoldsRow /\ HoldsCancelled /\ NoLeak

\* A step of g leaves the other goroutines and the rows they hold alone.
OthersKept(g) ==
    /\ \A h \in Goroutines \ {g} : pc'[h] = pc[h] /\ job'[h] = job[h] /\ tx'[h] = tx[h]
    /\ \A i \in Ids :
          /\ lock[i] \notin {g, NoGoroutine} => lock'[i] = lock[i] /\ status'[i] = status[i]
          /\ lock[i] \in {g, NoGoroutine} => lock'[i] \in {g, NoGoroutine}

\* The conjuncts of Ownership for g itself and the rows it holds after its step.
OwnKept(g) ==
    /\ Working(g)' => job'[g] \in Ids /\ lock'[job'[g]] = g /\ status'[job'[g]] = "PENDING"
    /\ pc'[g] \in {"idle", "spawned", "begun", "locked", "exec"} => tx'[g].cancels = {}
    /\ pc'[g] \in {"swept", "save", "commit"} =>
          \A i \in tx'[g].cancels : lock'[i] = g /\ status'[i] = "PENDING"
    /\ \A i \in Ids : lock'[i] = g => Working(g)' /\ status'[i] \in {"PENDING", "HIDDEN"}
    /\ \A i \in Ids : status'[i] = "HIDDEN" /\ lock'[i] \in {g, NoGoroutine} =>
          lock'[i] = g /\ pc'[g] \in {"save", "commit"}

LEMMA TypeInit == Init => TypeOK
<1>1. BlankRow \in Row /\ EmptyTx \in Tx
  BY DEF BlankRow, Row, JobTypes, EmptyTx, Tx, Terminal
<1>2. QED BY <1>1 DEF Init, TypeOK, Status, PCs

LEMMA TypeNext == TypeOK /\ HoldsRow /\ [Next]_vars => TypeOK'
<1> SUFFICES ASSUME TypeOK, HoldsRow, [Next]_vars PROVE TypeOK'
  OBVIOUS
<1>1. CASE Start
  <2>1. \A i \in Ids : NewRow("SYNC_CHANNELS", NoChannel, now) \in Row
    BY NewRowType DEF TypeOK, JobTypes
  <2>2. QED BY <1>1, <2>1 DEF TypeOK, Start, Status
<1>2. ASSUME NEW t \in HandlerTypes \cap Types, NEW c \in Channels, Enqueue(t, c)
      PROVE  TypeOK'
  <2>1. \A d \in DueTimes(t) : NewRow(t, c, d) \in Row
    BY NewRowType, QueueAssumption DEF TypeOK, DueTimes
  <2>2. QED BY <1>2, <2>1 DEF TypeOK, Enqueue, Status
<1>3. CASE Advance
  BY <1>3 DEF TypeOK, Advance
<1>4. ASSUME NEW g \in Goroutines, NEW l \in Loops, Tick(g, l) PROVE TypeOK'
  BY <1>4 DEF TypeOK, Tick, PCs, tableVars, processVars
<1>5. ASSUME NEW g \in Goroutines, ProcessJob(g) PROVE TypeOK'
  <2> USE DEF tableVars, processVars
  <2>1. CASE Begin(g)
    BY <2>1 DEF TypeOK, Begin, PCs
  <2>2. CASE BeginFails(g) \/ NoJob(g) \/ RunError(g) \/ CommitFails(g)
    BY <2>2, RollbackType DEF BeginFails, NoJob, RunError, CommitFails
  <2>3. CASE TakeJob(g)
    BY <2>3 DEF TypeOK, TakeJob, PCs, NextJobs, Available
  <2>4. CASE ChannelMissing(g)
    BY <2>4, TxType DEF TypeOK, ChannelMissing, PCs, Terminal
  <2>5. CASE Execute(g)
    <3>1. UNCHANGED tx \/ tx' = [tx EXCEPT ![g].aborted = TRUE]
      BY <2>5 DEF Execute
    <3>2. tx \in [Goroutines -> Tx] /\ [tx EXCEPT ![g].aborted = TRUE] \in [Goroutines -> Tx]
      BY TxType DEF TypeOK
    <3>3. tx' \in [Goroutines -> Tx]
      BY <3>1, <3>2
    <3>4. QED BY <2>5, <3>3 DEF TypeOK, Execute, PCs
  <2>6. CASE BeginSweep(g)
    BY <2>6, TxType DEF TypeOK, BeginSweep, PCs, SweepTargets
  <2>7. CASE EndSweep(g)
    <3>1. {i \in tx[g].cancels : status[i] = "PENDING"} \in SUBSET Ids
      BY DEF TypeOK, Tx
    <3>2. QED BY <2>7, <3>1, TxType DEF TypeOK, EndSweep, PCs
  <2>8. CASE RunOk(g) \/ RunPartial(g)
    <3>1. Working(g) /\ Writes(g) /\ row[job[g]] \in Row
      BY <2>8 DEF RunOk, RunPartial, Ready, Working, HoldsRow, TypeOK
    <3>2. PICK S \in SUBSET (Queues(row[job[g]].type) \cap Types),
               c \in ChildChannels(row[job[g]].chan) :
          \E D \in SUBSET (S \cap Deferred) :
          \E f \in Placements(NewRows(S, D, c)) :
             /\ status' = [n \in Ids |-> IF n \in DOMAIN f THEN "HIDDEN" ELSE status[n]]
             /\ row' = [n \in Ids |-> IF n \in DOMAIN f THEN f[n] ELSE row[n]]
             /\ lock' = [n \in Ids |-> IF n \in DOMAIN f THEN g ELSE lock[n]]
      BY <3>1 DEF Writes
    <3>3. PICK D \in SUBSET (S \cap Deferred) :
          \E f \in Placements(NewRows(S, D, c)) :
             /\ status' = [n \in Ids |-> IF n \in DOMAIN f THEN "HIDDEN" ELSE status[n]]
             /\ row' = [n \in Ids |-> IF n \in DOMAIN f THEN f[n] ELSE row[n]]
             /\ lock' = [n \in Ids |-> IF n \in DOMAIN f THEN g ELSE lock[n]]
      BY <3>2
    <3>a. PICK f \in Placements(NewRows(S, D, c)) :
             /\ status' = [n \in Ids |-> IF n \in DOMAIN f THEN "HIDDEN" ELSE status[n]]
             /\ row' = [n \in Ids |-> IF n \in DOMAIN f THEN f[n] ELSE row[n]]
             /\ lock' = [n \in Ids |-> IF n \in DOMAIN f THEN g ELSE lock[n]]
      BY <3>3
    <3>4. c \in Channels \cup {NoChannel} /\ S \subseteq JobTypes
      BY <3>1, QueueAssumption DEF ChildChannels, Row
    <3>5. NewRows(S, D, c) \subseteq Row
      <4>1. \A t \in S : (IF t \in D THEN now + 1 ELSE now) \in Nat
        BY DEF TypeOK
      <4>2. QED BY <3>4, <4>1, NewRowType DEF NewRows
    <3>6. \A n \in DOMAIN f : f[n] \in Row
      BY <3>5, PlacementType
    <3>7. tx' \in [Goroutines -> Tx]
      <4>1. \A t \in JobTypes : ChannelWrite(t) \in {"keep", "add", "delete"}
        BY DEF ChannelWrite
      <4>2. QED BY <3>1, <4>1, TxType DEF Writes, Row
    <3>8. status' \in [Ids -> Status] /\ lock' \in [Ids -> Goroutines \cup {NoGoroutine}]
      BY <3>a DEF TypeOK, Status
    <3>9. row' \in [Ids -> Row]
      BY <3>a, <3>6 DEF TypeOK
    <3>10. QED BY <3>1, <3>7, <3>8, <3>9 DEF Writes, TypeOK, PCs
  <2>9. CASE RunSwallowed(g)
    BY <2>9, TxType DEF TypeOK, RunSwallowed, PCs
  <2>10. CASE RunInvalid(g)
    BY <2>10, TxType DEF TypeOK, RunInvalid, PCs, Terminal
  <2>11. CASE Save(g)
    <3>1. \/ UNCHANGED tx
          \/ tx' = [tx EXCEPT ![g].aborted = TRUE]
          \/ tx' = [tx EXCEPT ![g].saved = TRUE]
      BY <2>11 DEF Save
    <3>a. /\ [tx EXCEPT ![g].aborted = TRUE] \in [Goroutines -> Tx]
          /\ [tx EXCEPT ![g].saved = TRUE] \in [Goroutines -> Tx]
      BY TxType
    <3>b. tx \in [Goroutines -> Tx]
      BY DEF TypeOK
    <3>2. tx' \in [Goroutines -> Tx]
      BY <3>1, <3>a, <3>b, Zenon
    <3>3. QED BY <2>11, <3>2 DEF TypeOK, Save, PCs
  <2>12. CASE Commit(g)
    <3>1. tx[g].outcome \in Terminal /\ Working(g)
      BY <2>12 DEF TypeOK, Tx, Commit, Working
    <3>2. row[job[g]] \in Row /\ job[g] \in Ids
      BY <3>1 DEF HoldsRow, TypeOK
    <3>3. status' \in [Ids -> Status]
      BY <2>12, <3>1 DEF Commit, TypeOK, Status, Terminal
    <3>4. channels' \subseteq Channels
      BY <2>12, <3>2 DEF Commit, TypeOK, Row
    <3>5. applied' \in [Ids -> 0..2]
      BY <2>12, <3>2 DEF Commit, TypeOK
    <3>6. QED BY <2>12, <3>3, <3>4, <3>5, EndsType DEF Commit, TypeOK
  <2>13. QED
    BY <1>5, <2>1, <2>2, <2>3, <2>4, <2>5, <2>6, <2>7, <2>8, <2>9, <2>10, <2>11, <2>12
       DEF ProcessJob
<1>6. CASE Shutdown
  BY <1>6 DEF TypeOK, Shutdown, tableVars
<1>7. ASSUME NEW l \in Loops, StopLoop(l) PROVE TypeOK'
  BY <1>7 DEF TypeOK, StopLoop, tableVars
<1>8. CASE Crash
  <2>1. BlankRow \in Row /\ EmptyTx \in Tx
    BY DEF BlankRow, Row, JobTypes, EmptyTx, Tx, Terminal
  <2>2. QED BY <1>8, <2>1 DEF TypeOK, Crash, Status, PCs
<1>9. CASE UNCHANGED vars
  BY <1>9 DEF TypeOK, vars
<1>10. QED
  BY <1>1, <1>2, <1>3, <1>4, <1>5, <1>6, <1>7, <1>8, <1>9 DEF Next

LEMMA StepOfOne ==
    ASSUME Ownership, NEW g \in Goroutines, OthersKept(g), OwnKept(g), TypeOK'
    PROVE  HoldsRow' /\ HoldsCancelled' /\ NoLeak'
<1>1. HoldsRow'
  <2> SUFFICES ASSUME NEW h \in Goroutines, Working(h)'
               PROVE  job'[h] \in Ids /\ lock'[job'[h]] = h /\ status'[job'[h]] = "PENDING"
    BY DEF HoldsRow
  <2>1. CASE h = g
    BY <2>1 DEF OwnKept
  <2>2. CASE h # g
    BY <2>2, QueueAssumption DEF OthersKept, Ownership, HoldsRow, Working
  <2>3. QED BY <2>1, <2>2
<1>2. HoldsCancelled'
  <2> SUFFICES ASSUME NEW h \in Goroutines
               PROVE  /\ pc'[h] \in {"idle", "spawned", "begun", "locked", "exec"} => tx'[h].cancels = {}
                      /\ pc'[h] \in {"swept", "save", "commit"} =>
                            \A i \in tx'[h].cancels : lock'[i] = h /\ status'[i] = "PENDING"
    BY DEF HoldsCancelled
  <2>1. CASE h = g
    BY <2>1 DEF OwnKept
  <2>2. CASE h # g
    <3>1. tx[h].cancels \subseteq Ids
      BY DEF Ownership, TypeOK, Tx
    <3>2. QED BY <2>2, <3>1, QueueAssumption DEF OthersKept, Ownership, HoldsCancelled
  <2>3. QED BY <2>1, <2>2
<1>3. NoLeak'
  <2> SUFFICES ASSUME NEW i \in Ids
               PROVE  /\ lock'[i] # NoGoroutine =>
                            Working(lock[i])' /\ status'[i] \in {"PENDING", "HIDDEN"}
                      /\ status'[i] = "HIDDEN" =>
                            lock'[i] # NoGoroutine /\ pc'[lock'[i]] \in {"save", "commit"}
    BY DEF NoLeak
  <2>1. CASE lock'[i] \in {g, NoGoroutine}
    BY <2>1, QueueAssumption DEF OwnKept, Working
  <2>2. CASE lock'[i] \notin {g, NoGoroutine}
    <3>1. lock[i] = lock'[i] /\ status[i] = status'[i] /\ lock[i] \in Goroutines \ {g}
      BY <2>2 DEF OthersKept, Ownership, TypeOK
    <3>2. QED BY <3>1, <2>2 DEF OthersKept, Ownership, NoLeak, Working
  <2>3. QED BY <2>1, <2>2
<1>4. QED BY <1>1, <1>2, <1>3

LEMMA RollbackKeeps ==
    ASSUME Ownership, NEW g \in Goroutines, Rollback(g)
    PROVE  OthersKept(g) /\ OwnKept(g)
<1> USE DEF Ownership, TypeOK
<1>1. OthersKept(g)
  BY DEF OthersKept, Rollback, Ends, Inserted
<1>2. OwnKept(g)
  BY QueueAssumption DEF OwnKept, Rollback, Ends, Inserted, Working, EmptyTx, NoLeak
<1>3. QED BY <1>1, <1>2

LEMMA WritesHide ==
    ASSUME NEW g, Writes(g)
    PROVE  \E N \in SUBSET Ids :
              /\ \A n \in N : status[n] = "ABSENT"
              /\ status' = [n \in Ids |-> IF n \in N THEN "HIDDEN" ELSE status[n]]
              /\ lock' = [n \in Ids |-> IF n \in N THEN g ELSE lock[n]]
<1> DEFINE Placed(f) ==
       /\ status' = [n \in Ids |-> IF n \in DOMAIN f THEN "HIDDEN" ELSE status[n]]
       /\ lock' = [n \in Ids |-> IF n \in DOMAIN f THEN g ELSE lock[n]]
<1>1. PICK S \in SUBSET (Queues(row[job[g]].type) \cap Types) :
        \E D \in SUBSET (S \cap Deferred) :
        \E c \in ChildChannels(row[job[g]].chan) :
        \E f \in Placements(NewRows(S, D, c)) : Placed(f)
  BY DEF Writes
<1>2. PICK D \in SUBSET (S \cap Deferred) :
        \E c \in ChildChannels(row[job[g]].chan) :
        \E f \in Placements(NewRows(S, D, c)) : Placed(f)
  BY <1>1
<1>3. PICK c \in ChildChannels(row[job[g]].chan) :
        \E f \in Placements(NewRows(S, D, c)) : Placed(f)
  BY <1>2
<1>4. PICK f \in Placements(NewRows(S, D, c)) : Placed(f)
  BY <1>3
<1>5. DOMAIN f \in SUBSET Ids /\ \A n \in DOMAIN f : status[n] = "ABSENT"
  BY PlacementType
<1>6. QED BY <1>4, <1>5

LEMMA WritesKeeps ==
    ASSUME Ownership, NEW g \in Goroutines, pc[g] \in {"exec", "swept"}, Writes(g)
    PROVE  OthersKept(g) /\ OwnKept(g)
<1> USE DEF Ownership, TypeOK
<1>1. PICK N \in SUBSET Ids :
        /\ \A n \in N : status[n] = "ABSENT"
        /\ status' = [n \in Ids |-> IF n \in N THEN "HIDDEN" ELSE status[n]]
        /\ lock' = [n \in Ids |-> IF n \in N THEN g ELSE lock[n]]
  BY WritesHide
<1>2. \A n \in N : lock[n] = NoGoroutine
  BY <1>1 DEF NoLeak
<1>3. tx'[g].cancels = tx[g].cancels /\ job'[g] = job[g] /\ pc'[g] = "save"
  BY DEF Writes, Tx
<1>4. OthersKept(g)
  BY <1>1, <1>2 DEF OthersKept, Writes
<1>5. OwnKept(g)
  <2>1. Working(g) /\ job[g] \in Ids /\ lock[job[g]] = g /\ status[job[g]] = "PENDING"
    BY DEF Working, HoldsRow
  <2>2. \A i \in tx[g].cancels : i \in Ids /\ lock[i] = g /\ status[i] = "PENDING"
    BY DEF HoldsCancelled, Tx
  <2>3. \A i \in Ids : status[i] = "HIDDEN" => lock[i] # NoGoroutine
    BY DEF NoLeak
  <2>4. \A i \in Ids : lock[i] = g => status[i] \in {"PENDING", "HIDDEN"}
    BY QueueAssumption DEF NoLeak
  <2>5. QED BY <1>1, <1>2, <1>3, <2>1, <2>2, <2>3, <2>4, QueueAssumption DEF OwnKept, Working
<1>6. QED BY <1>4, <1>5

\* A step of g that moves it between states of the same kind: locks, rows and
\* what it is to cancel stay.
LEMMA QuietKeeps ==
    ASSUME Ownership, NEW g \in Goroutines,
           UNCHANGED <<status, lock, job>>,
           \A h \in Goroutines \ {g} : pc'[h] = pc[h] /\ tx'[h] = tx[h],
           tx'[g].cancels = tx[g].cancels,
           Working(g)' = Working(g),
           pc'[g] \in {"swept", "save", "commit"} /\ tx[g].cancels # {} =>
               pc[g] \in {"swept", "save", "commit"},
           pc'[g] \in {"idle", "spawned", "begun", "locked", "exec"} =>
               pc[g] \in {"idle", "spawned", "begun", "locked", "exec"},
           pc[g] \in {"save", "commit"} => pc'[g] \in {"save", "commit"}
    PROVE  OthersKept(g) /\ OwnKept(g)
<1> USE DEF Ownership, TypeOK
<1>1. OthersKept(g)
  BY DEF OthersKept
<1>2. Working(g)' => job'[g] \in Ids /\ lock'[job'[g]] = g /\ status'[job'[g]] = "PENDING"
  BY DEF HoldsRow
<1>3. pc'[g] \in {"idle", "spawned", "begun", "locked", "exec"} => tx'[g].cancels = {}
  BY DEF HoldsCancelled
<1>4. pc'[g] \in {"swept", "save", "commit"} =>
          \A i \in tx'[g].cancels : lock'[i] = g /\ status'[i] = "PENDING"
  BY DEF HoldsCancelled
<1>5. \A i \in Ids : lock'[i] = g => Working(g)' /\ status'[i] \in {"PENDING", "HIDDEN"}
  BY QueueAssumption DEF NoLeak
<1>6. \A i \in Ids : status'[i] = "HIDDEN" /\ lock'[i] \in {g, NoGoroutine} =>
          lock'[i] = g /\ pc'[g] \in {"save", "commit"}
  BY QueueAssumption DEF NoLeak
<1>7. QED BY <1>1, <1>2, <1>3, <1>4, <1>5, <1>6 DEF OwnKept

LEMMA CommitKeeps ==
    ASSUME Ownership, NEW g \in Goroutines, Commit(g)
    PROVE  OthersKept(g) /\ OwnKept(g)
<1> USE DEF Ownership, TypeOK
<1>1. /\ pc[g] = "commit" /\ Working(g)
      /\ job[g] \in Ids /\ lock[job[g]] = g
      /\ \A i \in tx[g].cancels : lock[i] = g
      /\ Inserted(g) \subseteq {i \in Ids : lock[i] = g}
  BY DEF Commit, Working, HoldsRow, HoldsCancelled, Inserted
<1>2. \A i \in Ids : lock[i] # g => status'[i] = status[i]
  BY <1>1 DEF Commit
<1>3. OthersKept(g)
  BY <1>2, QueueAssumption DEF OthersKept, Commit, Ends
<1>4. \A i \in Ids : status'[i] = "HIDDEN" => status[i] = "HIDDEN" /\ lock[i] # g
  <2> SUFFICES ASSUME NEW i \in Ids, status'[i] = "HIDDEN"
               PROVE  status[i] = "HIDDEN" /\ lock[i] # g
    OBVIOUS
  <2>1. tx[g].outcome \in Terminal
    BY DEF Tx
  <2>2. status[i] = "HIDDEN"
    BY <2>1 DEF Commit, Terminal
  <2>3. i \notin Inserted(g)
    BY DEF Commit
  <2>4. QED BY <2>2, <2>3 DEF Inserted
<1>5. pc'[g] = "idle" /\ tx'[g].cancels = {} /\ \A i \in Ids : lock'[i] # g
  BY QueueAssumption DEF Commit, Ends, EmptyTx
<1>6. \A i \in Ids : status[i] = "HIDDEN" /\ lock[i] # g => lock'[i] \notin {g, NoGoroutine}
  BY <1>5 DEF NoLeak, Commit, Ends
<1>7. OwnKept(g)
  BY <1>4, <1>5, <1>6 DEF OwnKept, Working
<1>8. QED BY <1>3, <1>7

LEMMA SweepKeeps ==
    ASSUME Ownership, NEW g \in Goroutines, EndSweep(g)
    PROVE  OthersKept(g) /\ OwnKept(g)
<1> USE DEF Ownership, TypeOK
<1> DEFINE hit == {i \in tx[g].cancels : status[i] = "PENDING"}
<1>1. /\ pc[g] = "sweep" /\ pc'[g] = "swept"
      /\ tx[g] \in Tx /\ hit \subseteq Ids
      /\ tx' = [tx EXCEPT ![g].cancels = hit] /\ tx'[g].cancels = hit
      /\ lock' = [i \in Ids |-> IF i \in hit THEN g ELSE lock[i]]
      /\ \A i \in hit : lock[i] \in {g, NoGoroutine}
      /\ status' = status /\ job' = job
      /\ \A h \in Goroutines \ {g} : pc'[h] = pc[h] /\ tx'[h] = tx[h]
  BY DEF EndSweep, Tx, tableVars
<1>2. Working(g) /\ job[g] \in Ids /\ lock[job[g]] = g /\ status[job[g]] = "PENDING"
  BY <1>1 DEF Working, HoldsRow
<1>3. OthersKept(g)
  <2> HIDE DEF hit
  <2>1. QED BY <1>1 DEF OthersKept
<1>4. \A i \in Ids : lock[i] = g => status[i] = "PENDING"
  BY <1>1, QueueAssumption DEF NoLeak
<1>5. \A i \in Ids : status[i] = "HIDDEN" => lock[i] \notin {g, NoGoroutine} /\ i \notin hit
  BY <1>1, <1>4 DEF NoLeak
<1>6. \A i \in Ids : lock'[i] = g => status[i] = "PENDING"
  BY <1>1, <1>4
<1>7. \A i \in hit : lock'[i] = g /\ status[i] = "PENDING"
  BY <1>1
<1>8. lock'[job[g]] = g
  BY <1>1, <1>2
<1>9. \A i \in Ids : status[i] = "HIDDEN" => lock'[i] \notin {g, NoGoroutine}
  BY <1>1, <1>5
<1>10. OwnKept(g)
  <2> HIDE DEF hit
  <2>1. QED BY <1>1, <1>2, <1>6, <1>7, <1>8, <1>9 DEF OwnKept, Working
<1>11. QED BY <1>3, <1>10

\* Every step of a goroutine keeps what the others hold and what it holds.
LEMMA StepKeeps ==
    ASSUME Ownership, NEW g \in Goroutines, ProcessJob(g)
    PROVE  OthersKept(g) /\ OwnKept(g)
<1> USE DEF Ownership, tableVars, processVars
<1>a. tx[g] \in Tx /\ pc \in [Goroutines -> PCs] /\ tx \in [Goroutines -> Tx]
  BY DEF TypeOK
<1>1. CASE Begin(g)
  BY <1>1, <1>a, QuietKeeps DEF Begin, Working
<1>2. CASE BeginFails(g) \/ NoJob(g) \/ RunError(g) \/ CommitFails(g)
  BY <1>2, RollbackKeeps DEF BeginFails, NoJob, RunError, CommitFails
<1>3. CASE TakeJob(g)
  <2>1. PICK i \in Ids : /\ status[i] = "PENDING" /\ lock[i] = NoGoroutine
                          /\ lock' = [lock EXCEPT ![i] = g] /\ job' = [job EXCEPT ![g] = i]
    BY <1>3 DEF TakeJob, NextJobs, Available
  <2>2. pc[g] = "begun" /\ tx[g].cancels = {} /\ \A j \in Ids : lock[j] # g
    BY <1>3, QueueAssumption DEF TakeJob, HoldsCancelled, NoLeak, Working
  <2>3. OthersKept(g)
    BY <1>3, <2>1, QueueAssumption DEF OthersKept, TakeJob, TypeOK
  <2>4. /\ pc'[g] = "locked" /\ job'[g] = i /\ lock'[i] = g
        /\ \A j \in Ids \ {i} : lock'[j] = lock[j]
        /\ tx' = tx /\ status' = status
    BY <1>3, <2>1 DEF TakeJob, TypeOK
  <2>5. \A j \in Ids : status[j] = "HIDDEN" => lock[j] # NoGoroutine
    BY DEF NoLeak
  <2>6. OwnKept(g)
    BY <2>1, <2>2, <2>4, <2>5 DEF OwnKept, Working
  <2>7. QED BY <2>3, <2>6
<1>4. CASE ChannelMissing(g) \/ RunInvalid(g)
  <2>1. \E o \in Terminal : tx' = [tx EXCEPT ![g].outcome = o]
    BY <1>4 DEF ChannelMissing, RunInvalid, Terminal
  <2>2. tx'[g].cancels = tx[g].cancels /\ \A h \in Goroutines \ {g} : tx'[h] = tx[h]
    BY <2>1, <1>a DEF Tx
  <2>3. tx[g].cancels = {}
    BY <1>4 DEF ChannelMissing, RunInvalid, HoldsCancelled
  <2>4. CASE ChannelMissing(g)
    BY <2>4, <1>a, <2>2, <2>3, QuietKeeps DEF ChannelMissing, Working
  <2>5. CASE RunInvalid(g)
    BY <2>5, <1>a, <2>2, <2>3, QuietKeeps DEF RunInvalid, Working
  <2>6. QED BY <1>4, <2>4, <2>5
<1>5. CASE Execute(g) \/ RunSwallowed(g) \/ Save(g)
  <2>1. \/ tx' = tx
        \/ tx' = [tx EXCEPT ![g].aborted = TRUE]
        \/ tx' = [tx EXCEPT ![g].saved = TRUE]
    BY <1>5 DEF Execute, RunSwallowed, Save
  <2>2. tx'[g].cancels = tx[g].cancels /\ \A h \in Goroutines \ {g} : tx'[h] = tx[h]
    BY <2>1, <1>a DEF Tx
  <2>3. CASE Execute(g)
    BY <2>3, <1>a, <2>2, QuietKeeps DEF Execute, Working
  <2>4. CASE RunSwallowed(g)
    <3>1. tx[g].cancels = {} \/ pc[g] = "swept"
      BY <2>4 DEF RunSwallowed, Ready, HoldsCancelled
    <3>2. QED BY <2>4, <1>a, <2>2, <3>1, QuietKeeps DEF RunSwallowed, Ready, Working
  <2>5. CASE Save(g)
    BY <2>5, <1>a, <2>2, QuietKeeps DEF Save, Working
  <2>6. QED BY <1>5, <2>3, <2>4, <2>5
<1>6. CASE BeginSweep(g)
  <2>1. /\ pc[g] = "exec" /\ pc' = [pc EXCEPT ![g] = "sweep"]
        /\ status' = status /\ lock' = lock /\ job' = job
        /\ \A h \in Goroutines \ {g} : tx'[h] = tx[h]
    BY <1>6, <1>a DEF BeginSweep
  <2>2. OthersKept(g)
    BY <2>1, <1>a DEF OthersKept, TypeOK
  <2>3. OwnKept(g)
    BY <2>1, <1>a, QueueAssumption DEF OwnKept, Working, HoldsRow, NoLeak
  <2>4. QED BY <2>2, <2>3
<1>7. CASE EndSweep(g)
  BY <1>7, SweepKeeps
<1>8. CASE RunOk(g) \/ RunPartial(g)
  BY <1>8, WritesKeeps DEF RunOk, RunPartial, Ready
<1>9. CASE Commit(g)
  BY <1>9, CommitKeeps
<1>10. QED BY <1>1, <1>2, <1>3, <1>4, <1>5, <1>6, <1>7, <1>8, <1>9 DEF ProcessJob

LEMMA OwnershipInit == Init => Ownership
<1> SUFFICES ASSUME Init PROVE Ownership
  OBVIOUS
<1>1. TypeOK
  BY TypeInit
<1>2. HoldsRow /\ HoldsCancelled /\ NoLeak
  BY DEF Init, HoldsRow, HoldsCancelled, NoLeak, Working, EmptyTx
<1>3. QED BY <1>1, <1>2 DEF Ownership

LEMMA OwnershipNext == Ownership /\ [Next]_vars => Ownership'
<1> SUFFICES ASSUME Ownership, [Next]_vars PROVE Ownership'
  OBVIOUS
<1> USE DEF Ownership
<1>1. TypeOK'
  BY TypeNext
<1>2. CASE Start
  <2>1. UNCHANGED <<lock, pc, job, tx>>
    BY <1>2 DEF Start
  <2>2. \A i \in Ids : status'[i] = status[i] \/ (status[i] = "ABSENT" /\ status'[i] = "PENDING")
    BY <1>2 DEF Start, TypeOK
  <2>3. QED BY <1>1, <2>1, <2>2, QueueAssumption DEF TypeOK, Tx, HoldsRow, HoldsCancelled, NoLeak, Working
<1>3. ASSUME NEW t, NEW c, Enqueue(t, c) PROVE Ownership'
  <2>1. UNCHANGED <<lock, pc, job, tx>>
    BY <1>3 DEF Enqueue
  <2>2. \A i \in Ids : status'[i] = status[i] \/ (status[i] = "ABSENT" /\ status'[i] = "PENDING")
    BY <1>3 DEF Enqueue, TypeOK
  <2>3. QED BY <1>1, <2>1, <2>2, QueueAssumption DEF TypeOK, Tx, HoldsRow, HoldsCancelled, NoLeak, Working
<1>4. ASSUME NEW g \in Goroutines, NEW l \in Loops, Tick(g, l) PROVE Ownership'
  <2>1. OthersKept(g) /\ OwnKept(g)
    BY <1>4, QuietKeeps DEF Tick, Working, tableVars, TypeOK
  <2>2. QED BY <1>1, <2>1, StepOfOne
<1>5. ASSUME NEW g \in Goroutines, ProcessJob(g) PROVE Ownership'
  BY <1>1, <1>5, StepKeeps, StepOfOne
<1>6. ASSUME UNCHANGED <<status, lock, pc, job, tx>> PROVE Ownership'
  BY <1>1, <1>6 DEF HoldsRow, HoldsCancelled, NoLeak, Working
<1>7. ASSUME NEW l, StopLoop(l) PROVE Ownership'
  BY <1>6, <1>7 DEF StopLoop, tableVars
<1>8. CASE Crash
  BY <1>1, <1>8 DEF Crash, HoldsRow, HoldsCancelled, NoLeak, Working, EmptyTx
<1>9. CASE Advance \/ Shutdown \/ UNCHANGED vars
  BY <1>6, <1>9 DEF Advance, Shutdown, tableVars, vars
<1>10. QED BY <1>2, <1>3, <1>4, <1>5, <1>7, <1>8, <1>9 DEF Next

\* Ownership is an inductive invariant of the queue under every fault.
THEOREM OwnershipInvariant == Spec => []Ownership
BY OwnershipInit, OwnershipNext, PTL DEF Spec

\* The variables keep their types.
THEOREM TypesOK == Spec => []TypeOK
<1>1. Ownership => TypeOK
  BY DEF Ownership
<1>2. QED BY <1>1, OwnershipInvariant, PTL

\* GetNextJob never hands one row to two goroutines, whatever the number of
\* goroutines, loops, connections and faults.
THEOREM ExclusiveJobs == Spec => []OneHolder
<1>1. Ownership => OneHolder
  BY DEF Ownership, HoldsRow, OneHolder
<1>2. QED BY <1>1, OwnershipInvariant, PTL

\* No path through processJob leaks a row lock or an uncommitted row.
THEOREM LocksReleased == Spec => []NoLeak
<1>1. Ownership => NoLeak
  BY DEF Ownership
<1>2. QED BY <1>1, OwnershipInvariant, PTL

-------------------------------------------------------------------------------
(* Completed rows *)

LEMMA FinalNext ==
    ASSUME Ownership, [Next]_vars, NEW i \in Ids, status[i] \in Terminal
    PROVE  status'[i] = status[i]
<1> USE DEF Ownership, Terminal
<1>1. lock[i] = NoGoroutine /\ status[i] \notin {"ABSENT", "HIDDEN", "PENDING"}
  BY DEF NoLeak
<1>2. CASE Start \/ \E t \in HandlerTypes \cap Types, c \in Channels : Enqueue(t, c)
  BY <1>1, <1>2 DEF Start, Enqueue, TypeOK
<1>3. ASSUME NEW g \in Goroutines, ProcessJob(g) PROVE status'[i] = status[i]
  <2>1. CASE Commit(g)
    <3>1. job[g] \in Ids /\ lock[job[g]] = g /\ \A n \in tx[g].cancels : lock[n] = g
      BY <2>1 DEF Commit, Working, HoldsRow, HoldsCancelled
    <3>2. i # job[g] /\ i \notin tx[g].cancels /\ i \notin Inserted(g)
      BY <1>1, <3>1, QueueAssumption DEF Inserted
    <3>3. QED BY <2>1, <3>2 DEF Commit
  <2>2. CASE RunOk(g) \/ RunPartial(g)
    BY <1>1, <2>2, WritesHide DEF RunOk, RunPartial
  <2>3. CASE Rollback(g)
    BY <1>1, <2>3 DEF Rollback, Inserted
  <2>4. CASE UNCHANGED status
    BY <2>4
  <2>5. QED
    BY <1>3, <2>1, <2>2, <2>3, <2>4
       DEF ProcessJob, Begin, BeginFails, TakeJob, NoJob, ChannelMissing, Execute, BeginSweep,
           EndSweep, RunSwallowed, RunInvalid, RunError, Save, CommitFails, tableVars
<1>4. CASE Crash
  BY <1>1, <1>4 DEF Crash
<1>5. CASE UNCHANGED status
  BY <1>5
<1>6. QED
  BY <1>2, <1>3, <1>4, <1>5 DEF Next, Advance, Tick, Shutdown, StopLoop, tableVars, vars

\* A completed row keeps its status for ever: neither the sweeps, the late Save
\* nor the rollback of another transaction changes it.
THEOREM CompletionIsFinal == Spec => CompletedIsFinal
<1>1. Ownership /\ [Next]_vars =>
        [\A i \in Ids : status[i] \in Terminal => status'[i] = status[i]]_vars
  BY FinalNext
<1>2. QED BY <1>1, OwnershipInvariant, PTL DEF Spec, CompletedIsFinal

LEMMA NeverLostNext ==
    ASSUME Ownership, NeverLost, [Next]_vars
    PROVE  NeverLost'
<1> USE DEF Ownership, TypeOK, NeverLost
<1> SUFFICES ASSUME NEW i \in Ids, status'[i] = "SUCCEEDED" PROVE applied'[i] >= 1
  OBVIOUS
<1>1. CASE status[i] = "SUCCEEDED" /\ applied'[i] = applied[i]
  BY <1>1
<1>2. CASE Start \/ \E t \in HandlerTypes \cap Types, c \in Channels : Enqueue(t, c)
  BY <1>1, <1>2 DEF Start, Enqueue
<1>3. ASSUME NEW g \in Goroutines, ProcessJob(g) PROVE applied'[i] >= 1
  <2>1. CASE Commit(g)
    <3>1. /\ job[g] \in Ids
          /\ applied[i] \in 0..2 /\ applied'[i] \in {applied[i], applied[i] + 1}
      BY <2>1 DEF Commit, Working, HoldsRow
    <3>2. CASE status[i] = "SUCCEEDED"
      BY <3>1, <3>2
    <3>3. CASE status[i] # "SUCCEEDED"
      <4>1. i = job[g] /\ tx[g].outcome = "SUCCEEDED"
        BY <2>1, <3>3 DEF Commit
      <4>2. QED BY <2>1, <3>1, <4>1 DEF Commit
    <3>4. QED BY <3>2, <3>3
  <2>2. CASE RunOk(g) \/ RunPartial(g)
    BY <1>1, <2>2, WritesHide DEF RunOk, RunPartial, Writes
  <2>3. CASE Rollback(g)
    BY <1>1, <2>3 DEF Rollback, Inserted
  <2>4. CASE UNCHANGED tableVars
    BY <1>1, <2>4 DEF tableVars
  <2>5. QED
    BY <1>3, <2>1, <2>2, <2>3, <2>4
       DEF ProcessJob, Begin, BeginFails, TakeJob, NoJob, ChannelMissing, Execute, BeginSweep,
           EndSweep, RunSwallowed, RunInvalid, RunError, Save, CommitFails
<1>4. CASE Crash
  BY <1>1, <1>4 DEF Crash
<1>5. CASE UNCHANGED <<status, applied>>
  BY <1>1, <1>5
<1>6. QED
  BY <1>2, <1>3, <1>4, <1>5 DEF Next, Advance, Tick, Shutdown, StopLoop, tableVars, vars

\* Under every fault a row only says SUCCEEDED when its job's writes were committed.
THEOREM SuccessTookEffect == Spec => []NeverLost
<1>1. Init => NeverLost
  BY DEF Init, NeverLost
<1>2. QED BY <1>1, NeverLostNext, OwnershipInvariant, PTL DEF Spec

-------------------------------------------------------------------------------
(* Exactly once: without a shutdown no context is cancelled, so the status is *)
(* saved in every transaction that can commit.                                *)

NeverCancelled ==
    /\ closed => \A l \in Loops : loop[l] = "stopped"
    /\ \A g \in Goroutines : pc[g] # "idle" => loopOf[g] \in Loops /\ loop[loopOf[g]] = "running"

\* What the transaction of a goroutine holds at each stage of processJob.
RecordedOf(g) ==
    /\ tx[g].saved => pc[g] = "commit"
    /\ pc[g] = "commit" => tx[g].saved \/ tx[g].aborted
    /\ tx[g].outcome # "SUCCEEDED" =>
          pc[g] \in {"save", "commit"} /\ tx[g].cancels = {} /\ Inserted(g) = {}

Recorded == \A g \in Goroutines : RecordedOf(g)

Effects == Ownership /\ NeverCancelled /\ Recorded

LEMMA NeverCancelledNext ==
    ASSUME "shutdown" \notin Faults, TypeOK, NeverCancelled, [Next]_vars
    PROVE  NeverCancelled'
<1>1. CASE Start
  BY <1>1 DEF Start, NeverCancelled
<1>2. ASSUME NEW g \in Goroutines, NEW l \in Loops, Tick(g, l) PROVE NeverCancelled'
  BY <1>2 DEF Tick, NeverCancelled, processVars, TypeOK
<1>3. ASSUME NEW g \in Goroutines, ProcessJob(g) PROVE NeverCancelled'
  <2>1. UNCHANGED <<loop, closed>>
    BY <1>3 DEF ProcessJob, Begin, BeginFails, TakeJob, NoJob, ChannelMissing, Execute, BeginSweep,
           EndSweep, RunSwallowed, RunInvalid, RunError, Save, Commit, CommitFails, RunOk,
           RunPartial, Writes, Rollback, processVars
  <2>2. \A h \in Goroutines \ {g} : pc'[h] = pc[h] /\ loopOf'[h] = loopOf[h]
    BY <1>3 DEF ProcessJob, Begin, BeginFails, TakeJob, NoJob, ChannelMissing, Execute, BeginSweep,
           EndSweep, RunSwallowed, RunInvalid, RunError, Save, Commit, CommitFails, RunOk,
           RunPartial, Writes, Rollback, Ends, TypeOK
  <2>3. pc'[g] = "idle" \/ (pc[g] # "idle" /\ loopOf' = loopOf)
    BY <1>3 DEF ProcessJob, Begin, BeginFails, TakeJob, NoJob, ChannelMissing, Execute, BeginSweep,
           EndSweep, RunSwallowed, RunInvalid, RunError, Save, Commit, CommitFails, RunOk,
           RunPartial, Ready, Writes, Rollback, Ends, TypeOK
  <2>4. QED BY <2>1, <2>2, <2>3 DEF NeverCancelled
<1>4. CASE Crash
  BY <1>4 DEF Crash, NeverCancelled
<1>5. ASSUME NEW l \in Loops, StopLoop(l) PROVE NeverCancelled'
  BY <1>5 DEF StopLoop, NeverCancelled
<1>6. CASE Advance \/ UNCHANGED vars \/ \E t \in HandlerTypes \cap Types, c \in Channels : Enqueue(t, c)
  BY <1>6 DEF Advance, Enqueue, vars, NeverCancelled
<1>7. QED BY <1>1, <1>2, <1>3, <1>4, <1>5, <1>6 DEF Next, Shutdown

LEMMA RecordedStep ==
    ASSUME Effects, NEW g \in Goroutines, ProcessJob(g)
    PROVE  RecordedOf(g)'
<1> USE DEF Effects, Recorded, RecordedOf
<1>a. tx[g] \in Tx /\ pc \in [Goroutines -> PCs] /\ tx \in [Goroutines -> Tx]
  BY DEF Ownership, TypeOK
<1>b. pc[g] # "idle" => ~Cancelled(g)
  BY DEF NeverCancelled, Cancelled
<1>c. tx[g].outcome = "SUCCEEDED" \/ pc[g] \in {"save", "commit"}
  OBVIOUS
<1>1. CASE Rollback(g) \/ Commit(g)
  BY <1>1, <1>a DEF Rollback, Commit, Ends, EmptyTx
<1>2. CASE Begin(g) \/ TakeJob(g)
  BY <1>2, <1>a DEF Begin, TakeJob
<1>3. CASE ChannelMissing(g) \/ RunInvalid(g)
  <2>1. /\ pc[g] \in {"locked", "exec"} /\ pc'[g] = "save" /\ lock' = lock /\ status' = status
        /\ \E o \in Terminal : tx' = [tx EXCEPT ![g].outcome = o]
    BY <1>3, <1>a DEF ChannelMissing, RunInvalid, Terminal, tableVars
  <2>2. ~tx'[g].saved /\ tx'[g].cancels = {}
    BY <2>1, <1>a DEF Tx, Ownership, HoldsCancelled
  <2>3. Inserted(g)' = {}
    BY <2>1, QueueAssumption DEF Inserted, Ownership, NoLeak
  <2>4. QED BY <2>1, <2>2, <2>3
<1>4. CASE Execute(g) \/ RunSwallowed(g)
  <2>1. /\ pc[g] \in {"locked", "exec", "swept"} /\ pc'[g] \in {"exec", "save"}
        /\ tx' = tx \/ tx' = [tx EXCEPT ![g].aborted = TRUE]
    BY <1>4, <1>a DEF Execute, RunSwallowed, Ready
  <2>2. tx'[g].saved = tx[g].saved /\ tx'[g].outcome = tx[g].outcome
    BY <2>1, <1>a DEF Tx
  <2>3. QED BY <2>1, <2>2, <1>c
<1>5. CASE BeginSweep(g) \/ EndSweep(g)
  <2>1. /\ pc[g] \in {"exec", "sweep"} /\ pc'[g] \in {"sweep", "swept"}
        /\ \E C : tx' = [tx EXCEPT ![g].cancels = C]
    BY <1>5, <1>a DEF BeginSweep, EndSweep
  <2>2. tx'[g].saved = tx[g].saved /\ tx'[g].outcome = tx[g].outcome
    BY <2>1, <1>a DEF Tx
  <2>3. QED BY <2>1, <2>2, <1>c
<1>6. CASE RunOk(g) \/ RunPartial(g)
  <2>1. /\ pc[g] \in {"exec", "swept"} /\ pc'[g] = "save"
        /\ \E c : tx' = [tx EXCEPT ![g].chan = c]
    BY <1>6, <1>a DEF RunOk, RunPartial, Ready, Writes
  <2>2. tx'[g].saved = tx[g].saved /\ tx'[g].outcome = tx[g].outcome
    BY <2>1, <1>a DEF Tx
  <2>3. QED BY <2>1, <2>2, <1>c
<1>7. CASE Save(g)
  <2>1. pc[g] = "save" /\ pc'[g] = "commit" /\ lock' = lock /\ status' = status
    BY <1>7, <1>a DEF Save, tableVars
  <2>2. \/ tx[g].aborted /\ tx' = tx
        \/ tx' = [tx EXCEPT ![g].saved = TRUE]
        \/ tx' = [tx EXCEPT ![g].aborted = TRUE]
    BY <1>7, <1>b, <2>1 DEF Save
  <2>3. /\ tx'[g].saved \/ tx'[g].aborted
        /\ tx'[g].outcome = tx[g].outcome /\ tx'[g].cancels = tx[g].cancels
    BY <2>2, <1>a DEF Tx
  <2>4. QED BY <2>1, <2>3 DEF Inserted
<1>8. QED
  BY <1>1, <1>2, <1>3, <1>4, <1>5, <1>6, <1>7
     DEF ProcessJob, BeginFails, NoJob, RunError, CommitFails

LEMMA RecordedNext ==
    ASSUME Effects, [Next]_vars
    PROVE  Recorded'
<1> USE DEF Effects, Recorded
<1>1. ASSUME UNCHANGED <<pc, tx, lock>>,
             \A i \in Ids : status'[i] = "HIDDEN" => status[i] = "HIDDEN"
      PROVE  Recorded'
  BY <1>1 DEF RecordedOf, Inserted
<1>2. CASE Start \/ \E t \in HandlerTypes \cap Types, c \in Channels : Enqueue(t, c)
  <2>1. UNCHANGED <<pc, tx, lock>>
    BY <1>2 DEF Start, Enqueue
  <2>2. \A i \in Ids : status'[i] \in {status[i], "PENDING"}
    BY <1>2 DEF Start, Enqueue, Ownership, TypeOK
  <2>3. QED BY <1>1, <2>1, <2>2
<1>3. ASSUME NEW g \in Goroutines, NEW l \in Loops, Tick(g, l) PROVE Recorded'
  BY <1>3 DEF Tick, RecordedOf, Inserted, tableVars, Ownership, TypeOK
<1>4. ASSUME NEW g \in Goroutines, ProcessJob(g) PROVE Recorded'
  <2>1. RecordedOf(g)'
    BY <1>4, RecordedStep
  <2>2. OthersKept(g)
    BY <1>4, StepKeeps
  <2>3. ASSUME NEW h \in Goroutines \ {g} PROVE RecordedOf(h)'
    <3>1. pc'[h] = pc[h] /\ tx'[h] = tx[h] /\ RecordedOf(h)
      BY <2>2 DEF OthersKept
    <3>2. Inserted(h)' \subseteq Inserted(h)
      BY <2>2, QueueAssumption DEF OthersKept, Inserted
    <3>3. QED BY <3>1, <3>2 DEF RecordedOf
  <2>4. QED BY <2>1, <2>3
<1>5. CASE Crash
  BY <1>5 DEF Crash, RecordedOf, EmptyTx, Inserted
<1>6. CASE Advance \/ Shutdown \/ (\E l \in Loops : StopLoop(l)) \/ UNCHANGED vars
  BY <1>1, <1>6 DEF Advance, Shutdown, StopLoop, vars, tableVars
<1>7. QED BY <1>2, <1>3, <1>4, <1>5, <1>6 DEF Next

LEMMA EffectsInvariant ==
    ASSUME "shutdown" \notin Faults
    PROVE  Spec => []Effects
<1>1. Init => Effects
  BY OwnershipInit DEF Init, Effects, NeverCancelled, Recorded, RecordedOf, EmptyTx
<1>2. Effects /\ [Next]_vars => Effects'
  BY OwnershipNext, NeverCancelledNext, RecordedNext DEF Effects, Ownership
<1>3. QED BY <1>1, <1>2, PTL DEF Spec

LEMMA OnceNext ==
    ASSUME Effects, Effects', ExactlyOnce, [Next]_vars
    PROVE  ExactlyOnce'
<1> USE DEF Effects, Ownership, TypeOK
<1>1. ASSUME UNCHANGED applied,
             \A i \in Ids : status'[i] = "SUCCEEDED" <=> status[i] = "SUCCEEDED"
      PROVE  ExactlyOnce'
  BY <1>1 DEF ExactlyOnce
<1>2. CASE Start \/ \E t \in HandlerTypes \cap Types, c \in Channels : Enqueue(t, c)
  <2>1. applied' = applied /\ \A i \in Ids : status'[i] = status[i] \/ (status[i] = "ABSENT" /\ status'[i] = "PENDING")
    BY <1>2 DEF Start, Enqueue
  <2>2. QED BY <1>1, <2>1
<1>3. ASSUME NEW g \in Goroutines, ProcessJob(g) PROVE ExactlyOnce'
  <2>1. CASE Commit(g)
    <3> DEFINE i == job[g]
    <3>1. /\ pc[g] = "commit" /\ i \in Ids /\ lock[i] = g /\ status[i] = "PENDING"
          /\ tx[g].saved /\ tx[g].outcome \in Terminal
          /\ \A n \in tx[g].cancels : status[n] = "PENDING"
          /\ \A n \in Inserted(g) : status[n] = "HIDDEN"
      BY <2>1 DEF Commit, Working, HoldsRow, HoldsCancelled, Recorded, RecordedOf, Tx, Inserted
    <3>2. applied[i] = 0 /\ status'[i] = tx[g].outcome
      BY <2>1, <3>1 DEF Commit, ExactlyOnce
    <3>3. applied'[i] = IF tx[g].outcome = "SUCCEEDED" THEN 1 ELSE 0
      BY <2>1, <3>1, <3>2 DEF Commit
    <3>4. \A n \in Ids \ {i} : /\ applied'[n] = applied[n]
                               /\ status'[n] = "SUCCEEDED" <=> status[n] = "SUCCEEDED"
      BY <2>1, <3>1 DEF Commit
    <3>5. QED BY <3>2, <3>3, <3>4 DEF ExactlyOnce
  <2>2. CASE RunOk(g) \/ RunPartial(g)
    <3>1. applied' = applied
      BY <2>2 DEF RunOk, RunPartial, Writes
    <3>2. \A i \in Ids : status'[i] = status[i] \/ (status[i] = "ABSENT" /\ status'[i] = "HIDDEN")
      BY <2>2, WritesHide DEF RunOk, RunPartial
    <3>3. QED BY <1>1, <3>1, <3>2
  <2>3. CASE Rollback(g)
    BY <1>1, <2>3 DEF Rollback, Inserted
  <2>4. CASE UNCHANGED tableVars
    BY <1>1, <2>4 DEF tableVars
  <2>5. QED
    BY <1>3, <2>1, <2>2, <2>3, <2>4
       DEF ProcessJob, Begin, BeginFails, TakeJob, NoJob, ChannelMissing, Execute, BeginSweep,
           EndSweep, RunSwallowed, RunInvalid, RunError, Save, CommitFails
<1>4. CASE Crash
  BY <1>1, <1>4 DEF Crash
<1>5. CASE UNCHANGED <<status, applied>>
  BY <1>1, <1>5
<1>6. QED
  BY <1>2, <1>3, <1>4, <1>5 DEF Next, Advance, Tick, Shutdown, StopLoop, tableVars, vars

\* Without a shutdown - whatever the crashes, the failing jobs, the failing
\* statements and commits - a job's writes are committed exactly once if it
\* SUCCEEDED and never otherwise.
THEOREM JobsRunExactlyOnce ==
    ASSUME "shutdown" \notin Faults
    PROVE  Spec => []ExactlyOnce
<1>1. Init => ExactlyOnce
  BY DEF Init, ExactlyOnce
<1>2. QED BY <1>1, OnceNext, EffectsInvariant, PTL DEF Spec

-------------------------------------------------------------------------------
(* Refinement: without a shutdown the queue implements JobLedger *)

\* A commit is one atomic step of the ledger.
LEMMA CommitImplements ==
    ASSUME Effects, ExactlyOnce, NEW g \in Goroutines, Commit(g)
    PROVE  Ledger!Next
<1> USE DEF Effects, Ownership, TypeOK
<1> DEFINE i == job[g]
           S == Inserted(g)
           C == tx[g].cancels \ {i}
<1>1. /\ pc[g] = "commit" /\ i \in Ids /\ status[i] = "PENDING"
      /\ tx[g].saved /\ tx[g].outcome \in Terminal
      /\ tx[g].cancels \subseteq Ids /\ \A n \in tx[g].cancels : status[n] = "PENDING"
      /\ S \subseteq Ids /\ \A n \in S : status[n] = "HIDDEN"
      /\ applied[i] = 0
  BY DEF Commit, Working, HoldsRow, HoldsCancelled, Recorded, RecordedOf, Tx, Inserted, ExactlyOnce
<1>2. status' = [n \in Ids |-> IF n \in S THEN "PENDING"
                              ELSE IF n = i THEN tx[g].outcome
                              ELSE IF n \in C THEN "CANCELED" ELSE status[n]]
  BY <1>1 DEF Commit
<1>3. Visible' = [n \in Ids |-> IF n \in S THEN "PENDING"
                              ELSE IF n = i THEN tx[g].outcome
                              ELSE IF n \in C THEN "CANCELED" ELSE Visible[n]]
  BY <1>1, <1>2 DEF Visible, Terminal
<1>4. Visible[i] = "PENDING" /\ i \notin S /\ (\A n \in C : Visible[n] = "PENDING") /\ \A n \in S : Visible[n] = "ABSENT"
  BY <1>1 DEF Visible
<1>5. CASE tx[g].outcome = "SUCCEEDED"
  <2>1. applied' = [applied EXCEPT ![i] = @ + 1]
    BY <1>1, <1>5 DEF Commit
  <2>2. Visible' = [Ledger!After(S, C) EXCEPT ![i] = "SUCCEEDED"]
    BY <1>3, <1>4, <1>5 DEF Ledger!After
  <2>3. i \in Ledger!Pending /\ S \subseteq Ledger!Absent /\ C \subseteq Ledger!Pending \ {i}
    BY <1>1, <1>4 DEF Ledger!Pending, Ledger!Absent
  <2>4. Ledger!Succeed(i, S, C)
    BY <2>1, <2>2, <2>3 DEF Ledger!Succeed
  <2>5. QED BY <1>1, <2>4 DEF Ledger!Next
<1>6. CASE tx[g].outcome # "SUCCEEDED"
  <2>1. applied' = applied /\ tx[g].outcome \in {"FAILED", "CANCELED"}
    BY <1>1, <1>6 DEF Commit, Terminal
  <2>2. S = {} /\ C = {}
    BY <1>6 DEF Recorded, RecordedOf
  <2>3. Visible' = [Visible EXCEPT ![i] = tx[g].outcome]
    BY <1>1, <1>3, <2>2 DEF Visible
  <2>4. Ledger!Reject(i)
    BY <1>1, <1>4, <2>1, <2>3 DEF Ledger!Reject, Ledger!Pending
  <2>5. QED BY <1>1, <2>4 DEF Ledger!Next
<1>7. QED BY <1>5, <1>6

LEMMA StepImplements ==
    ASSUME Effects, ExactlyOnce, [Next]_vars
    PROVE  [Ledger!Next]_(Ledger!vars)
<1> USE DEF Ledger!vars
<1>1. ASSUME NEW i \in Ids, status[i] = "ABSENT", status' = [status EXCEPT ![i] = "PENDING"],
             applied' = applied
      PROVE  Ledger!Next
  <2>1. Visible' = Ledger!After({i}, {}) /\ Visible[i] = "ABSENT"
    BY <1>1 DEF Visible, Ledger!After, Effects, Ownership, TypeOK
  <2>2. Ledger!Queue({i})
    BY <1>1, <2>1 DEF Ledger!Queue, Ledger!Absent
  <2>3. QED BY <2>2 DEF Ledger!Next
<1>2. CASE Start \/ \E t \in HandlerTypes \cap Types, c \in Channels : Enqueue(t, c)
  <2>1. CASE UNCHANGED <<status, applied>>
    BY <2>1 DEF Visible
  <2>2. CASE \E i \in Ids : status[i] = "ABSENT" /\ status' = [status EXCEPT ![i] = "PENDING"] /\ applied' = applied
    BY <1>1, <2>2
  <2>3. QED BY <1>2, <2>1, <2>2 DEF Start, Enqueue
<1>3. ASSUME NEW g \in Goroutines, ProcessJob(g) PROVE [Ledger!Next]_(Ledger!vars)
  <2>1. CASE Commit(g)
    BY <2>1, CommitImplements
  <2>2. CASE RunOk(g) \/ RunPartial(g)
    <3>1. applied' = applied
      BY <2>2 DEF RunOk, RunPartial, Writes
    <3>2. Visible' = Visible
      BY <2>2, WritesHide DEF RunOk, RunPartial, Visible
    <3>3. QED BY <3>1, <3>2
  <2>3. CASE Rollback(g)
    <3>1. Visible' = Visible
      BY <2>3 DEF Rollback, Inserted, Visible
    <3>2. QED BY <2>3, <3>1 DEF Rollback
  <2>4. CASE UNCHANGED tableVars
    BY <2>4 DEF tableVars, Visible
  <2>5. QED
    BY <1>3, <2>1, <2>2, <2>3, <2>4
       DEF ProcessJob, Begin, BeginFails, TakeJob, NoJob, ChannelMissing, Execute, BeginSweep,
           EndSweep, RunSwallowed, RunInvalid, RunError, Save, CommitFails
<1>4. CASE Crash
  BY <1>4 DEF Crash, Visible
<1>5. CASE UNCHANGED <<status, applied>>
  BY <1>5 DEF Visible
<1>6. QED
  BY <1>2, <1>3, <1>4, <1>5 DEF Next, Advance, Tick, Shutdown, StopLoop, tableVars, vars

\* Without a shutdown the workers, their transactions, retries and crashes
\* implement the ledger: every job is completed in one atomic step.
THEOREM QueueImplementsLedger ==
    ASSUME "shutdown" \notin Faults
    PROVE  Spec => ImplementsLedger
<1>1. Init => Ledger!Init
  BY DEF Init, Ledger!Init, Visible
<1>2. Effects /\ ExactlyOnce /\ [Next]_vars => [Ledger!Next]_(Ledger!vars)
  BY StepImplements
<1>3. QED
  BY <1>1, <1>2, EffectsInvariant, JobsRunExactlyOnce, PTL DEF Spec, ImplementsLedger, Ledger!Spec
===============================================================================
