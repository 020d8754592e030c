------------------------------ MODULE MCJobQueue ------------------------------
(* Instances of JobQueue for TLC. *)
EXTENDS JobQueue, TLC

NoShutdown == FaultKinds \ {"shutdown"}

\* A channel's life: created, its rounds rescheduled, deleted.
ChannelTypes == {"ADD_CHANNEL", "UPDATE_CHANNEL", "DELETE_CHANNEL", "CREATE_ROUND", "SYNC_CHANNELS"}
\* A type whose rows sweep each other's, one that is validated, and one of low
\* priority that keeps failing when its participant has left.
MixedTypes == {"DELETE_CHANNEL", "BLOCK_MEMBER", "CREATE_MATCH"}
LeftParticipant == {"CREATE_MATCH"}

\* The process starts on a table in which earlier processes left rows, of any of
\* the types and due by now.
Leftover ==
    /\ status \in [Ids -> {"ABSENT", "PENDING"}]
    /\ row \in [Ids -> {BlankRow} \cup
                      {[type |-> t, chan |-> IF t \in NoChannelID THEN NoChannel ELSE c,
                        at |-> 0, due |-> 0] : t \in Types, c \in Channels}]
    /\ \A i \in Ids : status[i] = "ABSENT" <=> row[i] = BlankRow
    /\ channels \in SUBSET Channels
    /\ lock = [i \in Ids |-> NoGoroutine]
    /\ pc = [g \in Goroutines |-> "idle"]
    /\ job = [g \in Goroutines |-> NoId]
    /\ loopOf = [g \in Goroutines |-> NoLoop]
    /\ tx = [g \in Goroutines |-> EmptyTx]
    /\ loop = [l \in Loops |-> "stopped"]
    /\ closed = TRUE
    /\ now = 0
    /\ applied = [i \in Ids |-> 0]

RestartSpec == Leftover /\ [][Next]_vars /\ Fairness

Symmetry == Permutations(Ids) \cup Permutations(Goroutines) \cup Permutations(Loops)
-------------------------------------------------------------------------------
(* What a comment says and the code does not do (see the README) *)

\* The doc of the field Worker.concurrency: "the number of jobs to process at
\* a time" (worker.go:45). A tick starts a goroutine whether or not the
\* previous ones have ended, so the code exceeds it.
ConcurrencyBound ==
    Cardinality({g \in Goroutines : Working(g)}) <= Cardinality(Loops)
===============================================================================
