------------------------------- MODULE MCRounds -------------------------------
(* Instances of Rounds for TLC, and the dates of its rounds on real months. *)
EXTENDS Rounds, TLC

C == INSTANCE Calendar

Symmetry == Permutations(Goroutines)

\* The loops of NextMonth, day by day: the first day of the weekday, and how many.
ASSUME LoopsOfNextMonth ==
    \A L, M \in C!MonthLengths : \A d \in 1..L :
        LET SameWeekday(x) == (L - d + x) % 7 = 0
            first == CHOOSE x \in 1..M : SameWeekday(x) /\ \A y \in 1..x - 1 : ~SameWeekday(y)
        IN /\ C!FirstWeekday(L, d) = first
           /\ C!Occurrences(M, first) = Cardinality({x \in 1..M : SameWeekday(x)})

\* The cases of TestNextMonth: both lengths, the day, the day expected.
ASSUME CasesOfNextMonth ==
    \A c \in {<<30, 31, 4, 2>>, <<30, 31, 11, 9>>, <<30, 31, 16, 21>>,
              <<31, 30, 28, 25>>, <<31, 31, 28, 25>>, <<31, 30, 2, 6>>,
              <<31, 30, 26, 30>>, <<31, 29, 1, 5>>, <<31, 29, 25, 29>>} :
        C!NextMonth(c[1], c[2], c[3]) = c[4]
===============================================================================
