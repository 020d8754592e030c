---------------------------- MODULE MatchingProofs ----------------------------
(***************************************************************************)
(* Proofs about the draw, for any set of members, settings, block lists    *)
(* and histories. Disjoint is inductive whatever other jobs commit during  *)
(* the draw; Draw and BestTaken are until one does.                        *)
(***************************************************************************)
EXTENDS Matching, Outcomes, TLAPS

\* v_matched_users has both ends of every pair, so no search returns them again.
Disjoint ==
    /\ TypeOK
    /\ \A p \in pairs : p[1] \in used /\ p[2] \in used
    /\ OnePartnerEach

\* Where the loops are: the first visits members who have the preference and
\* leaves none of them free; the second visits everybody who is left.
Loops ==
    /\ seen = profile
    /\ todo \subseteq Active(profile)
    /\ phase = "preference" => \A u \in todo : profile[u].prefers
    /\ \A u \in Active(profile) : profile[u].prefers =>
          u \in used \/ (phase = "preference" /\ u \in todo)
    /\ phase # "preference" => Active(profile) \subseteq used \cup todo \cup alone
    /\ phase = "done" => todo = {}

\* Who is not paired: everyone who would have suited a member left alone is.
Left ==
    /\ alone \subseteq Active(profile)
    /\ used \subseteq Paired \cup alone
    /\ Paired \cap alone = {}
    /\ \A u \in alone, v \in Members : Suitable(u, v) => v \in Paired

AllSuitable == \A p \in pairs : Suitable(p[1], p[2])

Draw == Disjoint /\ Loops /\ AllSuitable /\ Left

Drawing == Disjoint /\ (Undisturbed => Draw)
-------------------------------------------------------------------------------
(* Any draw *)

LEMMA DisjointInit == Init => Disjoint
  BY MatchingAssumption DEF Init, Disjoint, TypeOK, OnePartnerEach, Active

\* A pair of free members, added to the pairs.
LEMMA DisjointPair ==
  ASSUME Disjoint, NEW u \in Members, NEW m \in Members, Pair(u, m)
  PROVE  Disjoint'
<1>1. m \in Active(profile) /\ m \notin used /\ m # u /\ u \notin used
  BY DEF Pair, Best, Candidates
<1>2. TypeOK'
  BY DEF Disjoint, TypeOK, Pair, Visit
<1>3. \A p \in pairs' : p[1] \in used' /\ p[2] \in used'
  BY DEF Disjoint, Pair
<1>4. OnePartnerEach'
  <2> SUFFICES ASSUME NEW p \in pairs', NEW q \in pairs'
               PROVE  p[1] # p[2] /\ (p # q => Ends(p) \cap Ends(q) = {})
    BY DEF OnePartnerEach
  <2>1. pairs' = pairs \cup {<<u, m>>}
    BY DEF Pair
  <2>2. \A r \in pairs : u \notin Ends(r) /\ m \notin Ends(r)
    BY <1>1 DEF Disjoint, Ends
  <2>3. Ends(<<u, m>>) = {u, m}
    BY DEF Ends
  <2> QED
    BY <1>1, <2>1, <2>2, <2>3 DEF Disjoint, OnePartnerEach
<1> QED
  BY <1>2, <1>3, <1>4 DEF Disjoint

LEMMA DisjointNext == Disjoint /\ [Next]_vars => Disjoint'
<1> SUFFICES ASSUME Disjoint, [Next]_vars
             PROVE  Disjoint'
  OBVIOUS
<1> USE DEF Disjoint, TypeOK, OnePartnerEach
<1>1. ASSUME NEW u \in Members, Skip(u) PROVE Disjoint'
  BY <1>1 DEF Skip, Visit
<1>2. ASSUME NEW u \in Members, LeaveAlone(u) PROVE Disjoint'
  BY <1>2 DEF LeaveAlone, Visit
<1>3. ASSUME NEW u \in Members, NEW m \in Members, Pair(u, m) PROVE Disjoint'
  BY <1>3, DisjointPair
<1>4. CASE StartRest
  BY <1>4 DEF StartRest, Active
<1>5. CASE Return
  BY <1>5 DEF Return
<1>6. ASSUME NEW u \in Members, NEW p \in Profiles, UpdateMember(u, p) PROVE Disjoint'
  BY <1>6, MatchingAssumption DEF UpdateMember, Change, draw
<1>7. ASSUME NEW u \in Members, NEW v \in Members, BlockMember(u, v) PROVE Disjoint'
  BY <1>7 DEF BlockMember, Change, draw
<1>8. ASSUME NEW u \in Members, NEW v \in Members, UnblockMember(u, v) PROVE Disjoint'
  BY <1>8 DEF UnblockMember, Change, draw
<1>9. CASE UNCHANGED vars
  BY <1>9 DEF vars
<1> QED
  BY <1>1, <1>2, <1>3, <1>4, <1>5, <1>6, <1>7, <1>8, <1>9 DEF Next

\* Every draw keeps the types of its state.
THEOREM TypesOK == Spec => []TypeOK
<1>1. Disjoint => TypeOK
  BY DEF Disjoint
<1> QED
  BY DisjointInit, DisjointNext, <1>1, PTL DEF Spec

\* Whatever is committed while the draw runs, nobody is drawn twice.
THEOREM NobodyDrawnTwice == Spec => []OnePartnerEach
<1>1. Disjoint => OnePartnerEach
  BY DEF Disjoint
<1> QED
  BY DisjointInit, DisjointNext, <1>1, PTL DEF Spec
-------------------------------------------------------------------------------
(* A draw while nothing else is committed *)

LEMMA SuitableSymmetric ==
  ASSUME NEW u, NEW v, Suitable(u, v)
  PROVE  Suitable(v, u)
  BY DEF Suitable, Unblocked

\* Nobody's settings and blocks change, whatever the loops do.
LEMMA SuitableKept ==
  ASSUME UNCHANGED <<profile, blocks>>
  PROVE  \A u, v \in Members : Suitable(u, v)' <=> Suitable(u, v)
  BY DEF Suitable, Unblocked

\* A free member and a candidate suit each other.
LEMMA CandidateSuitable ==
  ASSUME Disjoint, Loops, NEW u \in todo, u \notin used, NEW m \in Members
  PROVE  m \in Candidates(u) <=> Suitable(u, m) /\ m \notin used
<1>1. u \in Active(profile) /\ seen = profile
  BY DEF Loops
<1>2. CASE phase = "preference"
  <2>1. profile[u].prefers
    BY <1>2 DEF Loops
  <2> QED
    BY <1>1, <1>2, <2>1 DEF Candidates, Suitable, Active
<1>3. CASE phase # "preference"
  <2>1. ~profile[u].prefers
    BY <1>1, <1>3 DEF Loops
  <2>2. m \in Active(profile) /\ m \notin used => ~profile[m].prefers
    BY <1>3 DEF Loops
  <2> QED
    BY <1>1, <1>3, <2>1, <2>2 DEF Candidates, Suitable, Active
<1> QED
  BY <1>2, <1>3

LEMMA PairedIn ==
  \A x : x \in Paired <=> \E p \in pairs : x = p[1] \/ x = p[2]
  BY DEF Paired, Ends

LEMMA PairedGrows ==
  ASSUME NEW u \in Members, NEW m \in Members, pairs' = pairs \cup {<<u, m>>}
  PROVE  Paired' = Paired \cup {u, m}
<1>1. ASSUME NEW x
      PROVE  x \in Paired' <=> \E p \in pairs' : x = p[1] \/ x = p[2]
  BY DEF Paired, Ends
<1>2. ASSUME NEW x
      PROVE  x \in Paired' <=> x \in Paired \cup {u, m}
  <2>1. \A p : p = <<u, m>> => p[1] = u /\ p[2] = m
    OBVIOUS
  <2> QED
    BY <1>1, <2>1, PairedIn
<1> QED
  BY <1>2

LEMMA DrawInit == Init => Draw
  BY DisjointInit DEF Draw, Init, Loops, Left, Paired, Ends, AllSuitable, Active

\* A member visited after having been paired, or left alone, by the first loop.
LEMMA DrawSkip ==
  ASSUME Draw, NEW u \in Members, Skip(u), Disjoint'
  PROVE  Draw'
<1>1. UNCHANGED <<profile, blocks, seen, phase, used, pairs, alone>>
  BY DEF Skip, Visit
<1>2. Loops'
  BY <1>1 DEF Draw, Loops, Skip, Visit, Active
<1>3. (AllSuitable /\ Left)'
  BY <1>1 DEF Draw, Left, Paired, Ends, Suitable, Unblocked, Active, AllSuitable
<1> QED
  BY <1>2, <1>3 DEF Draw

LEMMA DrawPair ==
  ASSUME Draw, NEW u \in Members, NEW m \in Members, Pair(u, m), Disjoint'
  PROVE  Draw'
<1> USE DEF Draw
<1>1. /\ u \in todo /\ u \notin used /\ m \notin used
      /\ Suitable(u, m)
  <2>1. u \in todo /\ u \notin used /\ m \in Candidates(u)
    BY DEF Pair, Visit, Best
  <2> QED
    BY <2>1, CandidateSuitable
<1>2. /\ UNCHANGED <<profile, blocks, seen, phase, alone>>
      /\ todo' = todo \ {u} /\ used' = used \cup {u, m}
      /\ pairs' = pairs \cup {<<u, m>>}
  BY DEF Pair, Visit
<1>3. Loops'
  BY <1>2 DEF Loops, Active
<1>4. AllSuitable'
  BY <1>1, <1>2, SuitableKept DEF AllSuitable, Disjoint, TypeOK
<1>5. Paired' = Paired \cup {u, m} /\ Paired \subseteq used
  BY <1>2, PairedGrows, PairedIn DEF Disjoint
<1>6. u \notin alone /\ m \notin alone
  \* Had u been left alone, m would be paired, and the other way round.
  BY <1>1, <1>5, SuitableSymmetric DEF Left
<1>7. Left'
  <2>1. (\A x \in alone, v \in Members : Suitable(x, v) => v \in Paired)'
    BY <1>2, <1>5, SuitableKept DEF Left, Disjoint, TypeOK
  <2> QED
    BY <1>2, <1>5, <1>6, <2>1 DEF Left, Active
<1> QED
  BY <1>3, <1>4, <1>7

LEMMA DrawLeaveAlone ==
  ASSUME Draw, NEW u \in Members, LeaveAlone(u), Disjoint'
  PROVE  Draw'
<1> USE DEF Draw
<1>1. u \in todo /\ u \notin used /\ Candidates(u) = {}
  BY DEF LeaveAlone, Visit
<1>2. /\ UNCHANGED <<profile, blocks, seen, phase, pairs>>
      /\ todo' = todo \ {u} /\ alone' = alone \cup {u}
      /\ used' = IF phase = "preference" THEN used \cup {u} ELSE used
  BY DEF LeaveAlone, Visit
<1>3. Loops'
  BY <1>1, <1>2 DEF Loops, Active
<1>4. AllSuitable'
  BY <1>2, SuitableKept DEF AllSuitable, Disjoint, TypeOK
<1>5. Paired' = Paired /\ Paired \subseteq used
  BY <1>2, PairedIn DEF Disjoint, Paired, Ends
<1>6. \A v \in Members : Suitable(u, v) => v \in Paired
  <2> SUFFICES ASSUME NEW v \in Members, Suitable(u, v) PROVE v \in Paired
    OBVIOUS
  <2>1. v \in used
    BY <1>1, CandidateSuitable
  <2>2. v \notin alone
    \* v would have taken u.
    BY <1>1, <1>5, SuitableSymmetric DEF Left
  <2> QED
    BY <2>1, <2>2 DEF Left
<1>7. u \in Active(profile)
  BY <1>1 DEF Loops
<1>8. Left'
  <2>1. (\A x \in alone, v \in Members : Suitable(x, v) => v \in Paired)'
    BY <1>2, <1>5, <1>6, SuitableKept DEF Left, Disjoint, TypeOK
  <2> QED
    BY <1>1, <1>2, <1>5, <1>7, <2>1 DEF Left, Active
<1> QED
  BY <1>3, <1>4, <1>8

LEMMA DrawNext ==
  ASSUME Draw, [Next]_vars, changed = 0, changed' = 0
  PROVE  Draw'
<1>0. Disjoint'
  BY DisjointNext DEF Draw
<1>1. ASSUME NEW u \in Members, Skip(u) PROVE Draw'
  BY <1>0, <1>1, DrawSkip
<1>2. ASSUME NEW u \in Members, LeaveAlone(u) PROVE Draw'
  BY <1>0, <1>2, DrawLeaveAlone
<1>3. ASSUME NEW u \in Members, NEW m \in Members, Pair(u, m) PROVE Draw'
  BY <1>0, <1>3, DrawPair
<1>4. CASE StartRest
  BY <1>0, <1>4 DEF StartRest, Draw, Loops, Left, AllSuitable, Paired, Ends, Suitable,
                    Unblocked, Active
<1>5. CASE Return
  BY <1>0, <1>5 DEF Return, Draw, Loops, Left, AllSuitable, Paired, Ends, Suitable,
                    Unblocked, Active
<1>6. CASE UNCHANGED vars
  BY <1>6, <1>0 DEF vars, Draw, Loops, Left, AllSuitable, Paired, Ends, Suitable,
                    Unblocked, Active
<1>7. ASSUME NEW kind PROVE ~Change(kind)
  BY DEF Change
<1> QED
  BY <1>1, <1>2, <1>3, <1>4, <1>5, <1>6, <1>7
  DEF Next, UpdateMember, BlockMember, UnblockMember

LEMMA DrawingInit == Init => Drawing
  BY DisjointInit, DrawInit DEF Drawing

\* The changes are counted, so that a draw that is undisturbed has always been.
LEMMA DrawingNext == Drawing /\ [Next]_vars => Drawing'
<1> SUFFICES ASSUME Drawing, [Next]_vars
             PROVE  Drawing'
  OBVIOUS
<1>1. Disjoint'
  BY DisjointNext DEF Drawing
<1>2. changed \in Nat
  BY DEF Drawing, Disjoint, TypeOK
<1>3. changed' = changed \/ changed' = changed + 1
  BY DEF Next, Skip, LeaveAlone, Pair, Visit, StartRest, Return, UpdateMember, BlockMember,
         UnblockMember, Change, vars
<1>4. changed' = 0 => changed = 0
  BY <1>2, <1>3
<1> QED
  BY <1>1, <1>4, DrawNext DEF Drawing, Undisturbed

\* Until a change is committed, neither a block nor anybody's wish for a partner of
\* the same gender is disregarded, although the second loop never looks at genders.
THEOREM OnlySuitablePairs == Spec => []PairsSuitable
<1>1. Drawing => PairsSuitable
  BY DEF Drawing, Draw, AllSuitable, PairsSuitable
<1> QED
  BY DrawingInit, DrawingNext, <1>1, PTL DEF Spec

\* When the function returns and nothing was committed meanwhile, every active
\* member is paired or returned alone, and never both.
THEOREM EverybodyIsTold == Spec => []EveryoneOnce
<1>1. Drawing => EveryoneOnce
  <2> SUFFICES ASSUME Drawing, Undisturbed
               PROVE  Paired \cap alone = {} /\ (phase = "done" => Paired \cup alone = Active(profile))
    BY DEF EveryoneOnce
  <2>0. Draw
    BY DEF Drawing
  <2>1. Paired \cap alone = {}
    BY <2>0 DEF Draw, Left
  <2>2. alone \subseteq Active(profile)
    BY <2>0 DEF Draw, Left
  <2>3. Paired \subseteq Active(profile)
    BY <2>0, PairedIn DEF Draw, AllSuitable, Suitable, Active, Disjoint, TypeOK
  <2>4. phase = "done" => Active(profile) \subseteq Paired \cup alone
    BY <2>0 DEF Draw, Left, Loops
  <2> QED
    BY <2>1, <2>2, <2>3, <2>4
<1> QED
  BY DrawingInit, DrawingNext, <1>1, PTL DEF Spec

\* The draw is maximal until a change is committed: no two members who suit each
\* other are both left alone.
THEOREM NoPairIsMissed == Spec => []NoPairLeft
<1>1. Drawing => NoPairLeft
  BY DEF Drawing, Draw, Left, NoPairLeft, Disjoint, TypeOK
<1> QED
  BY DrawingInit, DrawingNext, <1>1, PTL DEF Spec
-------------------------------------------------------------------------------
(* What Pairing relies on *)

Suits == {p \in Members \X Members : Suitable(p[1], p[2])}
OutcomeReturned ==
    Undisturbed /\ phase = "done" => {Ends(p) : p \in pairs} \in Outcomes(Active(profile), Suits)

LEMMA DrawIsAnOutcome ==
  ASSUME Draw, phase = "done", NoPairLeft, Undisturbed
  PROVE  {Ends(p) : p \in pairs} \in Outcomes(Active(profile), Suits)
<1> DEFINE d == {Ends(p) : p \in pairs}
           A == Active(profile)
<1>0. TypeOK /\ pairs \subseteq Members \X Members /\ A \subseteq Members
  BY DEF Draw, Disjoint, TypeOK, Active
<1>1. \A p \in pairs : /\ p = <<p[1], p[2]>> /\ p[1] \in A /\ p[2] \in A
                       /\ p[1] # p[2] /\ <<p[1], p[2]>> \in Suits
  BY <1>0 DEF Draw, AllSuitable, Suitable, Active, Suits
<1>2. d \in SUBSET {{u, v} : u, v \in A}
  <2>1. ASSUME NEW p \in pairs
        PROVE  \E u, v \in A : Ends(p) = {u, v}
    BY <1>1 DEF Ends
  <2> QED
    BY <2>1
<1>3. \A e \in d : \E u, v \in e : u # v /\ <<u, v>> \in Suits
  BY <1>1 DEF Ends
<1>4. \A e, f \in d : e # f => e \cap f = {}
  BY DEF Draw, Disjoint, OnePartnerEach
<1>5. ASSUME NEW u \in A \ UNION d, NEW v \in A \ UNION d, u # v
      PROVE  <<u, v>> \notin Suits
  <2>1. Paired = UNION d
    BY DEF Paired
  <2>2. A \subseteq used \cup alone /\ used \subseteq Paired \cup alone
    BY DEF Draw, Loops, Left
  <2>3. u \in alone /\ v \in alone
    BY <1>5, <2>1, <2>2
  <2>4. ~Suitable(u, v)
    BY <2>3 DEF NoPairLeft
  <2> QED
    BY <2>4 DEF Suits
<1> HIDE DEF d, A
<1>6. d \in Outcomes(A, Suits)
  BY <1>2, <1>3, <1>4, <1>5 DEF Outcomes
<1> QED
  BY <1>6 DEF d, A

\* Unless a change is committed meanwhile, the function returns one of the sets of
\* pairs that Pairing's Draws chooses from: what is proved of Pairing holds of the
\* draw as the loops carry it out.
THEOREM ReturnsAnOutcome == Spec => []OutcomeReturned
<1>1. Drawing => OutcomeReturned
  <2>1. Drawing => NoPairLeft
    BY DEF Drawing, Draw, Left, NoPairLeft, Disjoint, TypeOK
  <2> QED
    BY <2>1, DrawIsAnOutcome DEF Drawing, OutcomeReturned
<1> QED
  BY DrawingInit, DrawingNext, <1>1, PTL DEF Spec
-------------------------------------------------------------------------------
(* The choice of a partner *)

\* Nobody who is not paired would have been better for the first of a pair.
BestTaken ==
    \A p \in pairs, x \in Members :
        Suitable(p[1], x) /\ x \notin Paired => Drawback(p[1], p[2]) <= Drawback(p[1], x)

\* Of two pairs, the one drawn first left nothing better behind.
Envies(p, q) == \E x \in Ends(q) : Rather(p, x)
FirstContent == \A p, q \in pairs : ~Envies(p, q) \/ ~Envies(q, p)

Choosing == Drawing /\ (Undisturbed => BestTaken /\ FirstContent)

LEMMA DrawbackTyped ==
  \A u, x : Drawback(u, x) \in Nat /\ Bit(phase = "preference" /\ ~profile[x].prefers) \in {0, 1}
<1> TAKE u, y
<1>1. \A x : /\ Bit(~Compatible(seen[u].mode, profile[x].mode)) \in {0, 1}
             /\ Bit({u, x} \in met) \in {0, 1}
             /\ Bit(phase = "preference" /\ ~profile[x].prefers) \in {0, 1}
  <2> TAKE x
  <2>1. Bit(~Compatible(seen[u].mode, profile[x].mode)) \in {0, 1}
    BY DEF Bit
  <2>2. Bit({u, x} \in met) \in {0, 1}
    BY DEF Bit
  <2>3. Bit(phase = "preference" /\ ~profile[x].prefers) \in {0, 1}
    BY DEF Bit
  <2> QED
    BY <2>1, <2>2, <2>3
<1>2. \A x : Drawback(u, x) \in Nat
  <2> TAKE x
  <2> DEFINE b1 == Bit(~Compatible(seen[u].mode, profile[x].mode))
             b2 == Bit({u, x} \in met)
  <2>1. b1 \in {0, 1} /\ b2 \in {0, 1}
    BY <1>1
  <2>2. Drawback(u, x) = 2 * b1 + b2
    BY DEF Drawback
  <2> HIDE DEF b1, b2
  <2> QED
    BY <2>1, <2>2
<1> QED
  BY <1>1, <1>2

\* The last key of ORDER BY does not outweigh the first two.
LEMMA RankOrders ==
  ASSUME NEW u, NEW m, NEW n, Rank(u, m) <= Rank(u, n)
  PROVE  Drawback(u, m) <= Drawback(u, n)
<1> DEFINE bit(x) == Bit(phase = "preference" /\ ~profile[x].prefers)
<1>3. Rank(u, m) = 2 * Drawback(u, m) + bit(m) /\ Rank(u, n) = 2 * Drawback(u, n) + bit(n)
  BY DEF Rank
<1>4. bit(m) \in {0, 1} /\ bit(n) \in {0, 1}
  BY DrawbackTyped
<1>5. Drawback(u, m) \in Nat /\ Drawback(u, n) \in Nat
  BY DrawbackTyped
<1> HIDE DEF bit
<1> QED
  BY <1>3, <1>4, <1>5

\* A step that leaves the pairs alone, or adds one.
LEMMA BestKept ==
  ASSUME BestTaken, FirstContent, UNCHANGED <<profile, blocks, met, seen, pairs>>
  PROVE  BestTaken' /\ FirstContent'
<1>1. \A v, x : Drawback(v, x)' = Drawback(v, x)
  BY DEF Drawback
<1>2. \A v, x : Suitable(v, x)' <=> Suitable(v, x)
  BY DEF Suitable, Unblocked
<1>3. Paired' = Paired
  BY DEF Paired, Ends
<1>4. \A p, x : Rather(p, x)' <=> Rather(p, x)
  BY <1>1, <1>2 DEF Rather
<1> QED
  BY <1>1, <1>2, <1>3, <1>4 DEF BestTaken, FirstContent, Envies, Ends

LEMMA BestPair ==
  ASSUME Draw, BestTaken, FirstContent, NEW u \in Members, NEW m \in Members, Pair(u, m)
  PROVE  BestTaken' /\ FirstContent'
<1>1. /\ u \in todo /\ u \notin used /\ m \in Candidates(u)
      /\ \A n \in Candidates(u) : Rank(u, m) <= Rank(u, n)
      /\ UNCHANGED <<profile, blocks, met, seen>> /\ pairs' = pairs \cup {<<u, m>>}
  BY DEF Pair, Visit, Best
<1>2. Paired' = Paired \cup {u, m} /\ Paired \subseteq used
  BY <1>1, PairedGrows, PairedIn DEF Draw, Disjoint
<1>3. \A v, x : Drawback(v, x)' = Drawback(v, x)
  BY <1>1 DEF Drawback
<1>4. \A v, x : Suitable(v, x)' <=> Suitable(v, x)
  BY <1>1 DEF Suitable, Unblocked
<1>5. ASSUME NEW x \in Members, Suitable(u, x), x \notin Paired
      PROVE  Drawback(u, m) <= Drawback(u, x)
  <2>1. x \notin alone
    \* Had x been left alone, u would be paired.
    BY <1>1, <1>2, <1>5, SuitableSymmetric DEF Draw, Left
  <2>2. x \notin used
    BY <1>5, <2>1 DEF Draw, Left
  <2>3. x \in Candidates(u)
    BY <1>1, <1>5, <2>2, CandidateSuitable DEF Draw
  <2> QED
    BY <1>1, <2>3, RankOrders
<1>6. BestTaken'
  <2> SUFFICES ASSUME NEW p \in pairs', NEW x \in Members, Suitable(p[1], x), x \notin Paired, x \notin {u, m}
               PROVE  Drawback(p[1], p[2]) <= Drawback(p[1], x)
    BY <1>2, <1>3, <1>4 DEF BestTaken
  <2>1. CASE p \in pairs
    BY <2>1 DEF BestTaken
  <2>2. CASE p = <<u, m>>
    BY <1>5, <2>2
  <2> QED
    BY <1>1, <2>1, <2>2
<1>7. u \notin Paired /\ m \notin Paired
  BY <1>1, <1>2 DEF Candidates
<1> DEFINE n == <<u, m>>
<1>8. \A p, x : Rather(p, x)' <=> Rather(p, x)
  BY <1>3, <1>4 DEF Rather
<1>9. \A p, q : Envies(p, q)' <=> Envies(p, q)
  BY <1>8 DEF Envies, Ends
<1>10. ASSUME NEW p \in pairs, NEW x \in {u, m} PROVE ~Rather(p, x)
  \* Both were free when p was drawn.
  <2> SUFFICES ASSUME Suitable(p[1], x) PROVE ~(Drawback(p[1], x) < Drawback(p[1], p[2]))
    BY DEF Rather
  <2>1. Drawback(p[1], p[2]) <= Drawback(p[1], x)
    BY <1>7, <1>10 DEF BestTaken
  <2> QED
    BY <2>1, DrawbackTyped
<1>11. ASSUME NEW p \in pairs PROVE ~Envies(p, n)
  <2>1. Ends(n) = {u, m}
    BY DEF Ends
  <2> QED
    BY <1>10, <2>1 DEF Envies
<1>12. ~Envies(n, n)
  <2>1. Ends(n) = {u, m} /\ n[1] = u /\ n[2] = m
    BY DEF Ends
  <2>2. ~Rather(n, u)
    BY <2>1 DEF Rather, Suitable
  <2>3. ~Rather(n, m)
    <3>1. ~(Drawback(u, m) < Drawback(u, m))
      BY DrawbackTyped
    <3> QED
      BY <2>1, <3>1 DEF Rather
  <2> QED
    BY <2>1, <2>2, <2>3 DEF Envies
<1> HIDE DEF n
<1>13. pairs' = pairs \cup {n}
  BY <1>1 DEF n
<1>14. FirstContent'
  <2> SUFFICES ASSUME NEW p \in pairs', NEW q \in pairs'
               PROVE  ~Envies(p, q) \/ ~Envies(q, p)
    BY <1>9 DEF FirstContent
  <2> QED
    BY <1>11, <1>12, <1>13 DEF FirstContent
<1> QED
  BY <1>6, <1>14

LEMMA BestNext ==
  ASSUME Draw, BestTaken, FirstContent, [Next]_vars, changed = 0, changed' = 0
  PROVE  BestTaken' /\ FirstContent'
<1>1. ASSUME NEW u \in Members, Skip(u) \/ LeaveAlone(u) PROVE BestTaken' /\ FirstContent'
  BY <1>1, BestKept DEF Skip, LeaveAlone, Visit
<1>2. ASSUME NEW u \in Members, NEW m \in Members, Pair(u, m) PROVE BestTaken' /\ FirstContent'
  BY <1>2, BestPair
<1>3. CASE StartRest \/ Return \/ UNCHANGED vars
  <2>1. seen' = seen /\ UNCHANGED <<profile, blocks, met, pairs>>
    BY <1>3 DEF StartRest, Return, vars, Draw, Loops
  <2> QED
    BY <2>1, BestKept
<1>4. ASSUME NEW kind PROVE ~Change(kind)
  BY DEF Change
<1> QED
  BY <1>1, <1>2, <1>3, <1>4 DEF Next, UpdateMember, BlockMember, UnblockMember

LEMMA ChoosingNext == Choosing /\ [Next]_vars => Choosing'
<1> SUFFICES ASSUME Choosing, [Next]_vars
             PROVE  Choosing'
  OBVIOUS
<1>1. Drawing'
  BY DrawingNext DEF Choosing
<1>2. changed \in Nat
  BY DEF Choosing, Drawing, Disjoint, TypeOK
<1>3. changed' = changed \/ changed' = changed + 1
  BY DEF Next, Skip, LeaveAlone, Pair, Visit, StartRest, Return, UpdateMember, BlockMember,
         UnblockMember, Change, vars
<1>4. changed' = 0 => changed = 0
  BY <1>2, <1>3
<1> QED
  BY <1>1, <1>4, BestNext DEF Choosing, Drawing, Undisturbed

\* Until a change is committed, no member who searched was given somebody met before,
\* or of another connection mode, while a better partner was left alone; and the
\* searchers of two pairs would not both rather have somebody of the other's, in
\* whatever order the loops visit the members.
THEOREM NobodyEnvied == Spec => []SearchersContent
<1>1. Init => Choosing
  BY DrawingInit DEF Init, Choosing, BestTaken, FirstContent
<1>2. Choosing => SearchersContent
  <2> SUFFICES ASSUME Choosing, Undisturbed
               PROVE  /\ \A p \in pairs, x \in alone : ~Rather(p, x)
                      /\ \A p, q \in pairs : \A x \in Ends(q), y \in Ends(p) : ~(Rather(p, x) /\ Rather(q, y))
    BY DEF SearchersContent
  <2>1. BestTaken /\ FirstContent /\ Left /\ alone \subseteq Members
    BY DEF Choosing, Drawing, Draw, Disjoint, TypeOK
  <2>2. ASSUME NEW p \in pairs, NEW x \in alone PROVE ~Rather(p, x)
    <3>1. Suitable(p[1], x) => Drawback(p[1], p[2]) <= Drawback(p[1], x)
      BY <2>1, <2>2 DEF BestTaken, Left
    <3> QED
      BY <3>1, DrawbackTyped DEF Rather
  <2> QED
    BY <2>1, <2>2 DEF FirstContent, Envies
<1> QED
  BY <1>1, <1>2, ChoosingNext, PTL DEF Spec
===============================================================================
