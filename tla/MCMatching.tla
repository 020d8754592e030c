------------------------------ MODULE MCMatching ------------------------------
(* Instances of Matching for TLC. *)
EXTENDS Matching, TLC

Person(prefers, gender, mode) ==
    [active |-> TRUE, prefers |-> prefers, gender |-> gender, mode |-> mode]

\* Members who differ in what the draw looks at: three have the preference, two
\* have not, one is inactive.
Crowd == {Person(TRUE, "male", "virtual"), Person(TRUE, "male", "physical"),
          Person(TRUE, "female", "virtual"),
          Person(FALSE, "male", "virtual"), Person(FALSE, "female", "physical"),
          [Person(FALSE, "male", "hybrid") EXCEPT !.active = FALSE]}

Edges == {e \in Members \X Members : e[1] # e[2]}
UpTo(n, S) == {s \in SUBSET S : Cardinality(s) <= n}

NoBlocks == {{}}
OneBlock == UpTo(1, Edges)
NobodyMet == {{}}
OneMet == UpTo(1, {{e[1], e[2]} : e \in Edges})

AllChanges == {"update", "block", "unblock"}

Symmetry == Permutations(Members)
-------------------------------------------------------------------------------
(* What the comments say and the code does not do (see the README) *)

\* "To maximize the number of matches" (line 14): no other way to pair the active
\* members makes more pairs. The greedy draw does not promise that.
Drawings ==
    {d \in SUBSET {{u, v} : u, v \in Members} :
        /\ \A e \in d : \E u, v \in e : e = {u, v} /\ Suitable(u, v)
        /\ \A e, f \in d : e # f => e \cap f = {}}
AsManyAsPossible ==
    phase = "done" => \A d \in Drawings : Cardinality(d) <= Cardinality(pairs)

\* "preferring new matches over repeat matches from previous rounds" (line 12): the draw
\* does for the member who searches. The one who is found may have met that member
\* before while somebody left alone would have been a better partner.
FoundContent ==
    Undisturbed =>
        \A p \in pairs, x \in alone :
            Suitable(p[2], x) => Drawback(p[2], p[1]) <= Drawback(p[2], x)
===============================================================================
