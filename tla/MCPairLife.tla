------------------------------ MODULE MCPairLife ------------------------------
(* Instances of PairLife for TLC. *)
EXTENDS PairLife, TLC

Symmetry == Permutations(Goroutines) \cup Permutations(Members) \cup Permutations(Handlers)
-------------------------------------------------------------------------------
(* What the code does not do (see the README) *)

\* SettledIsSpared does not hold of every pair whose answer is recorded: the handler
\* may have failed to replace the buttons of the second check-in.
RecordedIsSpared ==
    [][hasMet => \A g \in Goroutines : run'[g] # run[g] => Spares(g)]_vars

\* NotAskedAgain after a shutdown that left NOTIFY_PAIR to be run again: it queues
\* the check-ins that the answer has cancelled.
NeverAskedAgain == [][settled => Len(checks') = Len(checks)]_vars
===============================================================================
