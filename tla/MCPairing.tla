------------------------------ MODULE MCPairing -------------------------------
(* Instances of Pairing for TLC. *)
EXTENDS Pairing, TLC

CONSTANTS a, b, c, d

\* a prefers partners unlike b, and the late joiner d partners unlike c.
Refusals == {<<a, b>>, <<d, c>>}

\* The members are told apart by their ids, the goroutines by nothing.
Symmetry == Permutations(Goroutines)
-------------------------------------------------------------------------------
(* What the comments say and the code does not do (see the README) *)

\* Every member in the draw who is still there hears of the outcome. CREATE_PAIR
\* "failed to retrieved member IDs" (job_create_pair.go:50) and returns nil when
\* the partner has left: the match is lost without an error.
NobodyForgotten == \A m \in drawn : Present(m[2]) => HearsOf(m[1], m[2])

\* "CreateMatches creates matches between active participants for a round"
\* (job_create_matches.go:29): a shutdown after the draw and before the Save leaves
\* the row PENDING, and the members are drawn once more.
NobodyDrawnTwice ==
    \A m, n \in DOMAIN matches : \A u \in Members :
        m # n /\ matches[m].late = NoMember /\ matches[n].late = NoMember
        => ~(Has(m, u) /\ Has(n, u))

\* "CreatePair creates a pairing between 2 matched participants" (job_create_pair.go:24):
\* after a shutdown between the INSERTs only one is there, and every retry meets it.
NoHalfPairing ==
    \A m \in DOMAIN matches : \A u, v \in matches[m].ends : Has(m, u) /\ Present(v) => Has(m, v)

\* waitOnMemberJobs waits for "all pending member modification jobs for a specific
\* channel to complete before proceeding" (waiter.go:15): none is left at the end.
MemberJobsDone ==
    [][\A g \in Goroutines : run[g].pc = "exec" /\ run'[g].pc = "draw" =>
          \A j \in Pending : j.type \notin {"UPDATE_MEMBER", "DELETE_MEMBER"}]_vars

\* "NotifyPair notifies a pair of chat-roulette participants" (job_notify_pair.go:43):
\* it does not end the process, and again each time it is executed.
NeverPanics == ~panicked
===============================================================================
