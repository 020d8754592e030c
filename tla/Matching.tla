------------------------------- MODULE Matching -------------------------------
(***************************************************************************)
(* GetRandomMatchesV4: the draw that CREATE_MATCHES makes among the active *)
(* members of a channel. A first loop pairs the members who want a partner *)
(* of their own gender, a second loop pairs the rest; both visit members   *)
(* in random order and take the best partner that is still free.           *)
(*                                                                         *)
(* The function is VOLATILE PL/pgSQL in a READ COMMITTED transaction: the  *)
(* rows a loop visits are those of the snapshot taken when it starts, but  *)
(* each search for a partner sees what UPDATE_MEMBER, BLOCK_MEMBER and     *)
(* UNBLOCK_MEMBER jobs have committed since (the actions of Changes).      *)
(***************************************************************************)
EXTENDS Naturals, FiniteSets

CONSTANTS
    Members,     \* the members of the channel, by user_id
    Profiles,    \* the settings members have in the instance
    BlockLists,  \* the contents of blocked_members at the start
    Histories,   \* which members were paired in earlier rounds
    Changes,     \* what commits during the draw: {"update", "block", "unblock"}
    MaxChanges   \* bound on these changes

Modes == {"virtual", "physical", "hybrid"}
Profile == [active: BOOLEAN, prefers: BOOLEAN, gender: {"male", "female"}, mode: Modes]

ASSUME MatchingAssumption ==
    /\ Profiles \subseteq Profile
    /\ \A b \in BlockLists : b \subseteq {e \in Members \X Members : e[1] # e[2]}
    /\ \A h \in Histories : h \subseteq SUBSET Members
    /\ Changes \subseteq {"update", "block", "unblock"}
    /\ MaxChanges \in Nat

VARIABLES
    profile,    \* the members table: is_active, has_gender_preference, gender, mode
    blocks,     \* blocked_members: <<u, v>> when u blocks v
    met,        \* the sets {u, v} with pairings of one match of an earlier round
    phase,      \* the loop that runs: "preference", "rest", or "done"
    todo,       \* members the loop has yet to visit
    seen,       \* the members table in the loop's snapshot
    used,       \* v_matched_users
    pairs,      \* rows returned with a partner
    alone,      \* participants returned without one
    changed     \* number of changes so far

vars == <<profile, blocks, met, phase, todo, seen, used, pairs, alone, changed>>
draw == <<phase, todo, seen, used, pairs, alone>>

TypeOK ==
    /\ profile \in [Members -> Profile] /\ seen \in [Members -> Profile]
    /\ blocks \subseteq Members \X Members
    /\ met \subseteq SUBSET Members
    /\ phase \in {"preference", "rest", "done"}
    /\ todo \subseteq Members /\ used \subseteq Members /\ alone \subseteq Members
    /\ pairs \subseteq Members \X Members
    /\ changed \in Nat
-------------------------------------------------------------------------------
(* The search for a partner *)

Active(table) == {u \in Members : table[u].active}

\* Neither of u and v has blocked the other.
Unblocked(u, v) == <<u, v>> \notin blocks /\ <<v, u>> \notin blocks

Compatible(a, b) == a = "hybrid" \/ b = "hybrid" \/ a = b

\* Mutant of Candidates: only the blocks of u itself.
CandidatesOneWay(u) ==
    {m \in Active(profile) \ (used \cup {u}) :
        /\ <<u, m>> \notin blocks
        /\ phase = "preference" => profile[m].gender = seen[u].gender}

\* Mutant of Candidates: only new partners.
CandidatesNew(u) ==
    {m \in Active(profile) \ (used \cup {u}) :
        /\ Unblocked(u, m) /\ {u, m} \notin met
        /\ phase = "preference" => profile[m].gender = seen[u].gender}

\* The WHERE clause: the members u can be paired with.
Candidates(u) ==
    {m \in Active(profile) \ (used \cup {u}) :
        /\ Unblocked(u, m)
        /\ phase = "preference" => profile[m].gender = seen[u].gender}

\* The ORDER BY clause: compatible modes, then new partners, then, in the first
\* loop, members who have the preference too.
Bit(b) == IF b THEN 1 ELSE 0
Drawback(u, m) ==
    2 * Bit(~Compatible(seen[u].mode, profile[m].mode)) + Bit({u, m} \in met)
Rank(u, m) == 2 * Drawback(u, m) + Bit(phase = "preference" /\ ~profile[m].prefers)

\* Mutant of Best: ORDER BY RANDOM() alone.
BestAny(u) == Candidates(u)

\* LIMIT 1, at random among the best.
Best(u) == {m \in Candidates(u) : \A n \in Candidates(u) : Rank(u, m) <= Rank(u, n)}
-------------------------------------------------------------------------------
(* The loops *)

Visit(u) ==
    /\ u \in todo
    /\ todo' = todo \ {u}
    /\ UNCHANGED <<profile, blocks, met, phase, seen, changed>>

Skip(u) ==
    /\ u \in used
    /\ Visit(u)
    /\ UNCHANGED <<used, pairs, alone>>

\* Mutant of Pair: the loop does not skip v_matched_users.
PairAgain(u, m) ==
    /\ m \in Best(u)
    /\ Visit(u)
    /\ used' = used \cup {u, m}
    /\ pairs' = pairs \cup {<<u, m>>}
    /\ UNCHANGED alone

Pair(u, m) ==
    /\ u \notin used
    /\ m \in Best(u)
    /\ Visit(u)
    /\ used' = used \cup {u, m}
    /\ pairs' = pairs \cup {<<u, m>>}
    /\ UNCHANGED alone

\* Mutant of LeaveAlone: the first loop does not add u to v_matched_users.
LeaveAloneUnused(u) ==
    /\ u \notin used
    /\ Candidates(u) = {}
    /\ Visit(u)
    /\ alone' = alone \cup {u}
    /\ UNCHANGED <<used, pairs>>

\* Mutant of LeaveAlone: the row (u, NULL) instead of u.
LeaveAloneRow(u) ==
    /\ u \notin used
    /\ Candidates(u) = {}
    /\ Visit(u)
    /\ alone' = alone \cup {<<u>>}
    /\ UNCHANGED <<used, pairs>>

\* Only the first loop adds a member without a partner to v_matched_users.
LeaveAlone(u) ==
    /\ u \notin used
    /\ Candidates(u) = {}
    /\ Visit(u)
    /\ used' = IF phase = "preference" THEN used \cup {u} ELSE used
    /\ alone' = alone \cup {u}
    /\ UNCHANGED pairs

\* The second loop starts, with a new snapshot.
StartRest ==
    /\ phase = "preference" /\ todo = {}
    /\ phase' = "rest"
    /\ todo' = Active(profile) \ used
    /\ seen' = profile
    /\ UNCHANGED <<profile, blocks, met, used, pairs, alone, changed>>

Return ==
    /\ phase = "rest" /\ todo = {}
    /\ phase' = "done"
    /\ UNCHANGED <<profile, blocks, met, todo, seen, used, pairs, alone, changed>>
-------------------------------------------------------------------------------
(* What other jobs commit meanwhile *)

Change(kind) ==
    /\ kind \in Changes /\ changed < MaxChanges
    /\ changed' = changed + 1
    /\ UNCHANGED <<met, draw>>

UpdateMember(u, p) ==
    /\ Change("update")
    /\ profile' = [profile EXCEPT ![u] = p]
    /\ UNCHANGED blocks

BlockMember(u, v) ==
    /\ Change("block") /\ u # v
    /\ blocks' = blocks \cup {<<u, v>>}
    /\ UNCHANGED profile

UnblockMember(u, v) ==
    /\ Change("unblock")
    /\ blocks' = blocks \ {<<u, v>>}
    /\ UNCHANGED profile
-------------------------------------------------------------------------------
Init ==
    /\ profile \in [Members -> Profiles]
    /\ blocks \in BlockLists /\ met \in Histories
    /\ phase = "preference"
    /\ todo = {u \in Active(profile) : profile[u].prefers}
    /\ seen = profile
    /\ used = {} /\ pairs = {} /\ alone = {}
    /\ changed = 0

Next ==
    \/ \E u \in Members : Skip(u) \/ LeaveAlone(u) \/ \E m \in Members : Pair(u, m)
    \/ StartRest
    \/ Return
    \/ \E u \in Members, p \in Profiles : UpdateMember(u, p)
    \/ \E u, v \in Members : BlockMember(u, v) \/ UnblockMember(u, v)

Spec == Init /\ [][Next]_vars
-------------------------------------------------------------------------------
(* Properties *)

Ends(p) == {p[1], p[2]}
Paired == UNION {Ends(p) : p \in pairs}

\* u and v may be paired: neither blocked the other, and one who wants a partner
\* of the same gender gets one.
Suitable(u, v) ==
    /\ u # v
    /\ profile[u].active /\ profile[v].active
    /\ Unblocked(u, v)
    /\ profile[u].prefers \/ profile[v].prefers => profile[u].gender = profile[v].gender

\* Nobody has two partners in a draw, or themselves, whatever other jobs commit
\* between the searches: every match becomes a CREATE_PAIR job.
OnePartnerEach ==
    \A p, q \in pairs : p[1] # p[2] /\ (p # q => Ends(p) \cap Ends(q) = {})

\* No other job has committed a change since the draw began.
Undisturbed == changed = 0

\* The draw ends with every active member either paired or returned alone, so
\* everybody is told: nobody is dropped between the two loops or told twice.
EveryoneOnce ==
    Undisturbed => /\ Paired \cap alone = {}
                   /\ phase = "done" => Paired \cup alone = Active(profile)

\* Both members of a pair can have each other for partner. The second loop does
\* not look at genders: it relies on the first loop having left nobody behind
\* who has the preference.
PairsSuitable == Undisturbed => \A p \in pairs : Suitable(p[1], p[2])

\* No two members who could have been paired are both left without a partner.
NoPairLeft == Undisturbed => \A u, v \in alone : ~Suitable(u, v)

\* The one of p who searched could have been paired with x, and better.
Rather(p, x) == Suitable(p[1], x) /\ Drawback(p[1], x) < Drawback(p[1], p[2])

\* Who searched for a partner, and so had the choice, has no reason to complain of a
\* member left alone; and no two who searched would both rather have somebody of the
\* other's pair, as the draw keeps the best for whoever comes first. Of those who were
\* found, p[2], it says nothing: they may have been met before by the one who found
\* them while a better partner is left alone.
SearchersContent ==
    Undisturbed =>
        /\ \A p \in pairs, x \in alone : ~Rather(p, x)
        /\ \A p, q \in pairs : \A x \in Ends(q), y \in Ends(p) : ~(Rather(p, x) /\ Rather(q, y))
===============================================================================
