------------------------------- MODULE JobLedger -------------------------------
(***************************************************************************)
(* What the job queue promises, without workers, transactions or locks:    *)
(* each job is queued, then completed once, in one atomic step that also   *)
(* makes its writes, the jobs it queues and the jobs it cancels visible.   *)
(***************************************************************************)
EXTENDS Naturals

CONSTANT Ids

VARIABLES
    ledger,     \* status of each job
    runs        \* how often the writes of each job took effect

vars == <<ledger, runs>>

Init ==
    /\ ledger = [i \in Ids |-> "ABSENT"]
    /\ runs = [i \in Ids |-> 0]

\* The ledger after the jobs of S are queued, those of C cancelled.
After(S, C) ==
    [n \in Ids |-> IF n \in S THEN "PENDING" ELSE IF n \in C THEN "CANCELED" ELSE ledger[n]]

Absent  == {i \in Ids : ledger[i] = "ABSENT"}
Pending == {i \in Ids : ledger[i] = "PENDING"}

Queue(S) ==
    /\ S \subseteq Absent
    /\ ledger' = After(S, {})
    /\ UNCHANGED runs

\* Job i takes effect: completed, with the jobs it queues and cancels.
Succeed(i, S, C) ==
    /\ i \in Pending /\ S \subseteq Absent /\ C \subseteq Pending \ {i}
    /\ ledger' = [After(S, C) EXCEPT ![i] = "SUCCEEDED"]
    /\ runs' = [runs EXCEPT ![i] = @ + 1]

\* Job i is completed without effect.
Reject(i) ==
    /\ i \in Pending
    /\ ledger' \in {[ledger EXCEPT ![i] = s] : s \in {"FAILED", "CANCELED"}}
    /\ UNCHANGED runs

Next ==
    \/ \E S \in SUBSET Ids : Queue(S)
    \/ \E i \in Ids, S, C \in SUBSET Ids : Succeed(i, S, C)
    \/ \E i \in Ids : Reject(i)

Spec == Init /\ [][Next]_vars
===============================================================================
