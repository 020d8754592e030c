------------------------------- MODULE Outcomes -------------------------------
(* What a draw can return: the promise of GetRandomMatchesV4 to CREATE_MATCHES, *)
(* which Matching keeps (MatchingProofs) and Pairing relies on.                  *)

\* The sets of disjoint pairs of members who suit each other (<<u, v>> in suits),
\* with no such pair among the members left over.
Outcomes(members, suits) ==
    {d \in SUBSET {{u, v} : u, v \in members} :
        /\ \A e \in d : \E u, v \in e : u # v /\ <<u, v>> \in suits
        /\ \A e, f \in d : e # f => e \cap f = {}
        /\ \A u, v \in members \ UNION d : u # v => <<u, v>> \notin suits}
===============================================================================
