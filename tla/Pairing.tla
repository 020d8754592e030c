------------------------------- MODULE Pairing --------------------------------
(***************************************************************************)
(* How the members of a channel get a partner in each round. CREATE_MATCHES*)
(* draws pairs among the active members (Matching); members who complete   *)
(* their onboarding during a round ask for a CREATE_MATCH; both insert     *)
(* matches and queue a CREATE_PAIR for each, which inserts the pairings and*)
(* queues the NOTIFY_PAIR. Meanwhile members change their settings, block  *)
(* each other and leave the channel.                                       *)
(*                                                                         *)
(* Jobs run on several goroutines, each in a READ COMMITTED transaction:   *)
(* run[g] is what the transaction of g will write when it commits. A round *)
(* has two halves and passes from one to the next when no job is due.      *)
(***************************************************************************)
EXTENDS JobTypes, Tables, Outcomes, Sequences

CONSTANTS
    Members,
    LateJoiners,    \* the members who have yet to complete their onboarding
    Refuses,        \* <<u, v>>: u prefers the same gender, which v has not
    Goroutines, Nobody, NoMember,
    Events,         \* a subset of {"onboard", "update", "leave", "block"}
    MaxEvents,      \* bound on them and on the shutdowns
    Faults,         \* a subset of {"error", "timeout", "shutdown"}
    MaxRounds       \* bound on the rounds

ASSUME PairingAssumption ==
    /\ IsFiniteSet(Members) /\ LateJoiners \subseteq Members
    /\ Refuses \subseteq Members \X Members /\ \A u \in Members : <<u, u>> \notin Refuses
    /\ Nobody \notin Goroutines /\ NoMember \notin Members
    /\ Events \subseteq {"onboard", "update", "leave", "block"}
    /\ Faults \subseteq {"error", "timeout", "shutdown"}
    /\ MaxEvents \in Nat /\ MaxRounds \in Nat

VARIABLES
    member,     \* the members table: is_active, or "absent"
    blocks,     \* the blocked_members table
    round, half,
    matches,    \* the matches table, by id
    pairings,   \* the pairings table: <<match, member>>
    jobs,       \* the PENDING rows of the jobs table, by created_at
    run,        \* the open transaction of each goroutine
    told,       \* <<round, u>>: u was told that there is no partner
    drawn,      \* <<round, u>>: u took part in the draw
    redrawn,    \* the rounds whose draw was committed, but not the end of the job
    panicked,   \* a job function indexed a slice out of range
    events

data == <<member, blocks, matches, pairings, told, drawn, redrawn>>
vars == <<data, round, half, jobs, run, panicked, events>>

PairJobs == {"CREATE_MATCHES", "CREATE_MATCH", "CREATE_PAIR", "NOTIFY_PAIR", "NOTIFY_MEMBER",
             "UPDATE_MEMBER", "DELETE_MEMBER"}
Job == [type: PairJobs, who: Members \cup {NoMember}, arg: Nat, on: BOOLEAN,
        due: BOOLEAN, taker: Goroutines \cup {Nobody}]
\* late: history, whose CREATE_MATCH inserted it, NoMember if the draw did.
Match == [round: Nat, ends: {e \in SUBSET Members : Cardinality(e) = 2}, notified: BOOLEAN,
          late: Members \cup {NoMember}]

\* pairs: the matches to insert; alone: the members to notify; ends: the members
\* whose pairing CREATE_PAIR inserted, the pair CREATE_MATCH found.
Run == [pc: {"idle", "exec", "draw", "found", "refused", "pair", "done"},
        pairs: SUBSET SUBSET Members, alone: SUBSET Members, ends: SUBSET Members]
NoRun == [pc |-> "idle", pairs |-> {}, alone |-> {}, ends |-> {}]

TypeOK ==
    /\ member \in [Members -> {"absent", "inactive", "active"}]
    /\ blocks \subseteq Members \X Members
    /\ round \in Nat /\ half \in {1, 2} /\ events \in Nat
    /\ matches \in Seq(Match)
    /\ pairings \subseteq (DOMAIN matches) \X Members
    /\ jobs \in Seq(Job)
    /\ run \in [Goroutines -> Run]
    /\ told \subseteq (1..round) \X Members /\ drawn \subseteq (1..round) \X Members
    /\ redrawn \subseteq 1..round /\ panicked \in BOOLEAN
-------------------------------------------------------------------------------
(* Helpers *)

Pending == {jobs[k] : k \in DOMAIN jobs}
Busy(g) == run[g].pc # "idle"
JobOf(g) == CHOOSE j \in Pending : j.taker = g
Runs(g, t, pc) == run[g].pc = pc /\ JobOf(g).type = t

Has(m, u) == <<m, u>> \in pairings
Present(u) == member[u] # "absent"
Active == {u \in Members : member[u] = "active"}
Unblocked(u, v) == <<u, v>> \notin blocks /\ <<v, u>> \notin blocks
Suitable(u, v) == Unblocked(u, v) /\ {<<u, v>>, <<v, u>>} \cap Refuses = {}

\* GetNextJob: the due, unlocked row of the highest priority, the oldest first.
Available == {k \in DOMAIN jobs : jobs[k].due /\ jobs[k].taker = Nobody}
NextJob == CHOOSE k \in Available : \A m \in Available \ {k} :
    \/ Priority(jobs[k].type) > Priority(jobs[m].type)
    \/ Priority(jobs[k].type) = Priority(jobs[m].type) /\ k < m

NewJob(t, who, arg) ==
    [type |-> t, who |-> who, arg |-> arg, on |-> FALSE, due |-> TRUE, taker |-> Nobody]

\* The elements of S in some order.
Listing(S) == CHOOSE s \in [1..Cardinality(S) -> S] : \A i, j \in DOMAIN s : s[i] = s[j] => i = j

\* Mutant of Draws: v_matched_users is not kept.
DrawsOverlapping ==
    {d \in SUBSET {{u, v} : u, v \in Active} :
        /\ \A e \in d : \E u, v \in e : u # v /\ Suitable(u, v)
        /\ \A u, v \in Active \ UNION d : u # v => ~Suitable(u, v)}

\* Mutant of Draws: the gender preference is not looked at.
DrawsAnyGender ==
    {d \in SUBSET {{u, v} : u, v \in Active} :
        /\ \A e \in d : \E u, v \in e : u # v /\ Unblocked(u, v)
        /\ \A e, f \in d : e # f => e \cap f = {}}

\* What GetRandomMatchesV4 can return (MatchingProofs!ReturnsAnOutcome).
Draws == Outcomes(Active, {p \in Active \X Active : Suitable(p[1], p[2])})

\* The members with a pairing in the current round.
Taken == {p[2] : p \in {q \in pairings : matches[q[1]].round = round}}

\* MidPoint of the first CREATE_ROUND that succeeded, the channel's first, and
\* the next round; round r starts at 2(r - 1).
PastMidPoint == round <= 2 * (round - 1) + (half - 1)

\* Another transaction, of a job of one of these types, holds the row of member u.
Locked(g, u, types) ==
    \E h \in Goroutines \ {g}, t \in types :
        (Runs(h, t, "pair") \/ Runs(h, t, "done")) /\ u \in run[h].ends

\* g goes on with its transaction.
Continue(g, r) ==
    /\ run' = [run EXCEPT ![g] = r]
    /\ UNCHANGED <<data, round, half, jobs, panicked, events>>
-------------------------------------------------------------------------------
(* Time, members and handlers *)

\* A CREATE_PAIR some of whose pairings are there: it meets them at each retry.
Stuck(j) == j.type = "CREATE_PAIR" /\ j.taker = Nobody /\ \E u \in Members : Has(j.arg, u)

\* The worker keeps up, but for those.
Quiet == \A j \in Pending : j.due => Stuck(j)

\* CREATE_ROUND queues a CREATE_MATCHES; see Rounds.
StartRound ==
    /\ Quiet /\ round < MaxRounds /\ (round = 0 \/ half = 2)
    /\ round' = round + 1 /\ half' = 1
    /\ jobs' = Append(jobs, NewJob("CREATE_MATCHES", NoMember, round + 1))
    /\ UNCHANGED <<data, run, panicked, events>>

PassHalf ==
    /\ Quiet /\ round > 0 /\ half = 1
    /\ half' = 2
    /\ UNCHANGED <<data, round, jobs, run, panicked, events>>

Event(kind, new) ==
    /\ kind \in Events /\ events < MaxEvents
    /\ events' = events + 1
    /\ jobs' = jobs \o new
    /\ UNCHANGED <<member, matches, pairings, told, drawn, redrawn, round, half, run, panicked>>

Setting(u, on) == [NewJob("UPDATE_MEMBER", u, 0) EXCEPT !.on = on]

\* The last step of the onboarding: SetMemberIsActive, then QueueCreateMatchJob,
\* which is due in ten minutes.
Onboard(u) ==
    /\ u \in LateJoiners /\ Present(u)
    /\ Event("onboard", <<Setting(u, TRUE),
                          [NewJob("CREATE_MATCH", u, 0) EXCEPT !.due = FALSE]>>)
    /\ UNCHANGED blocks

Ripen(k) ==
    /\ ~jobs[k].due
    /\ jobs' = [jobs EXCEPT ![k].due = TRUE]
    /\ UNCHANGED <<data, round, half, run, panicked, events>>

\* updateMemberHandler: the settings page.
UpdateSettings(u, on) ==
    /\ Present(u)
    /\ Event("update", <<Setting(u, on)>>)
    /\ UNCHANGED blocks

\* Slack's member_left_channel event.
Leave(u) ==
    /\ Present(u)
    /\ Event("leave", <<NewJob("DELETE_MEMBER", u, 0)>>)
    /\ UNCHANGED blocks

\* A BLOCK_MEMBER job commits.
Block(u, v) ==
    /\ u # v /\ Present(u)
    /\ Event("block", <<>>)
    /\ blocks' = blocks \cup {<<u, v>>}
-------------------------------------------------------------------------------
(* Job functions *)

TakeJob(g) ==
    /\ ~Busy(g) /\ Available # {}
    /\ jobs' = [jobs EXCEPT ![NextJob].taker = g]
    /\ run' = [run EXCEPT ![g].pc = "exec"]
    /\ UNCHANGED <<data, round, half, panicked, events>>

\* CreateMatches: waitOnMemberJobs looks for pending ADD_MEMBER, DELETE_MEMBER
\* and UPDATE_MATCH jobs of the channel, for up to 30 seconds.
WaitOnMemberJobs(g) ==
    /\ Runs(g, "CREATE_MATCHES", "exec")
    /\ "timeout" \in Faults \/ \A j \in Pending : j.type # "DELETE_MEMBER"
    /\ Continue(g, [run[g] EXCEPT !.pc = "draw"])

\* CreateMatches: the draw, then a loop over it that inserts the matches and jobs;
\* nobody sees them before the commit. CutDraw is the end of an incomplete loop.
DrawMatches(g) ==
    /\ Runs(g, "CREATE_MATCHES", "draw")
    /\ \E d \in Draws :
          Continue(g, [run[g] EXCEPT !.pc = "done", !.pairs = d, !.alone = Active \ UNION d])

\* CreateMatch: no active round, or too late ...
RefuseMatch(g) ==
    /\ Runs(g, "CREATE_MATCH", "exec")
    /\ \/ round = 0 /\ Continue(g, [run[g] EXCEPT !.pc = "done"])
       \/ round > 0 /\ PastMidPoint /\ Continue(g, [run[g] EXCEPT !.pc = "refused"])

\* Mutant of FindPartner: the participant is not left out of the search.
FindPartnerSelf(g) ==
    /\ Runs(g, "CREATE_MATCH", "exec")
    /\ round > 0 /\ ~PastMidPoint
    /\ LET u == JobOf(g).who
           partners == {v \in Active \ Taken : <<u, v>> \notin Refuses}
       IN
       /\ Present(u)
       /\ IF partners = {}
          THEN Continue(g, [run[g] EXCEPT !.pc = "done"])
          ELSE \E v \in partners : Continue(g, [run[g] EXCEPT !.pc = "found", !.ends = {u, v}])

\* ... or the search for a partner among the active members without a pairing
\* in this round. It looks at neither blocks nor the partner's preference, nor
\* at the participant's own pairings.
FindPartner(g) ==
    /\ Runs(g, "CREATE_MATCH", "exec")
    /\ round > 0 /\ ~PastMidPoint
    /\ LET u == JobOf(g).who
           partners == {v \in Active \ (Taken \cup {u}) : <<u, v>> \notin Refuses}
       IN
       /\ Present(u)
       /\ IF partners = {}
          THEN Continue(g, [run[g] EXCEPT !.pc = "done"])
          ELSE \E v \in partners : Continue(g, [run[g] EXCEPT !.pc = "found", !.ends = {u, v}])

\* CreateMatch: "Verify that the selected partner has not already been matched".
CheckPending(g) ==
    /\ run[g].pc = "found"
    /\ LET matched == \E j \in Pending :
              j.type = "CREATE_PAIR" /\ matches[j.arg].ends \cap run[g].ends # {}
       IN Continue(g, [run[g] EXCEPT !.pc = "done", !.pairs = IF matched THEN {} ELSE {run[g].ends}])

\* CreatePair looks up both members; one who is missing is no error.
CreatePair(g) ==
    /\ Runs(g, "CREATE_PAIR", "exec")
    /\ LET missing == \E u \in matches[JobOf(g).arg].ends : ~Present(u)
       IN Continue(g, [run[g] EXCEPT !.pc = IF missing THEN "done" ELSE "pair"])

\* The members whose pairing CreatePair has yet to insert.
Unpaired(g) == matches[JobOf(g).arg].ends \ run[g].ends

\* Mutant of InsertPairing: the loop ends after the first member.
InsertOnePairing(g) ==
    /\ Runs(g, "CREATE_PAIR", "pair")
    /\ \E u \in Unpaired(g) :
          /\ Present(u) /\ ~Has(JobOf(g).arg, u) /\ ~Locked(g, u, {"DELETE_MEMBER"})
          /\ Continue(g, [run[g] EXCEPT !.pc = "done", !.ends = @ \cup {u}])

\* CreatePair: the pairing of one of them, then of the other. The foreign key waits
\* for a DELETE of the member, and it for the foreign key.
InsertPairing(g) ==
    /\ Runs(g, "CREATE_PAIR", "pair")
    /\ \E u \in Unpaired(g) :
          /\ Present(u) /\ ~Has(JobOf(g).arg, u) /\ ~Locked(g, u, {"DELETE_MEMBER"})
          /\ Continue(g, [run[g] EXCEPT !.pc = IF Unpaired(g) = {u} THEN "done" ELSE "pair",
                                        !.ends = @ \cup {u}])

\* NotifyPair reads both members; participants[1] panics when one is missing,
\* which ends the process and, with it, every transaction. The process restarts.
NotifyPair(g) ==
    /\ Runs(g, "NOTIFY_PAIR", "exec")
    /\ \A u \in matches[JobOf(g).arg].ends : Present(u)
    /\ Continue(g, [run[g] EXCEPT !.pc = "done"])

Panic(g) ==
    /\ Runs(g, "NOTIFY_PAIR", "exec")
    /\ \E u \in matches[JobOf(g).arg].ends : ~Present(u)
    /\ panicked' = TRUE
    /\ run' = [h \in Goroutines |-> NoRun]
    /\ jobs' = [k \in DOMAIN jobs |-> [jobs[k] EXCEPT !.taker = Nobody]]
    /\ UNCHANGED <<data, round, half, events>>

\* NotifyMember apologises to a member; it does not look at the members table.
NotifyMember(g) ==
    /\ Runs(g, "NOTIFY_MEMBER", "exec")
    /\ Continue(g, [run[g] EXCEPT !.pc = "done"])

\* UpdateMember and DeleteMember.
ChangeMember(g) ==
    /\ \/ /\ Runs(g, "UPDATE_MEMBER", "exec")
          /\ ~Locked(g, JobOf(g).who, {"UPDATE_MEMBER", "DELETE_MEMBER"})
       \/ /\ Runs(g, "DELETE_MEMBER", "exec")
          /\ ~Locked(g, JobOf(g).who, {"UPDATE_MEMBER", "DELETE_MEMBER", "CREATE_PAIR"})
    /\ Continue(g, [run[g] EXCEPT !.pc = "done", !.ends = {JobOf(g).who}])
-------------------------------------------------------------------------------
(* The end of a transaction *)

\* The matches the writes r insert, and the jobs they queue.
NewMatches(g, r) ==
    [k \in 1..Cardinality(r.pairs) |->
        [round |-> round, ends |-> Listing(r.pairs)[k], notified |-> FALSE, late |-> JobOf(g).who]]
NewJobs(g, r) ==
    LET j == JobOf(g)
        n == Len(matches)
        list == Listing(r.alone)
    IN CASE j.type = "CREATE_PAIR" /\ r.pc = "done" /\ r.ends # {} ->
              <<NewJob("NOTIFY_PAIR", NoMember, j.arg)>>
         [] j.type \in {"CREATE_MATCHES", "CREATE_MATCH"} ->
              [k \in 1..Cardinality(r.pairs) |-> NewJob("CREATE_PAIR", NoMember, n + k)]
              \o [k \in DOMAIN list |-> NewJob("NOTIFY_MEMBER", list[k], round)]
         [] OTHER -> <<>>

\* The rows that stay PENDING when g commits: its own only without the Save.
Kept(g, saved) == {k \in DOMAIN jobs : saved => jobs[k].taker # g}

\* The rows, none of them locked by g any more.
Released(g) ==
    [k \in DOMAIN jobs |->
        IF jobs[k].taker = g THEN [jobs[k] EXCEPT !.taker = Nobody] ELSE jobs[k]]

\* The matches, notified by j if it is a NOTIFY_PAIR.
Notified(j) ==
    [m \in DOMAIN matches |->
        IF j.type = "NOTIFY_PAIR" /\ m = j.arg THEN [matches[m] EXCEPT !.notified = TRUE]
                                               ELSE matches[m]]

\* g commits the writes r.
Finish(g, r, saved) ==
    /\ jobs' = Where(Released(g), Kept(g, saved)) \o NewJobs(g, r)
    /\ LET j == JobOf(g) IN
       /\ matches' = Notified(j) \o NewMatches(g, r)
       /\ member' = CASE j.type = "DELETE_MEMBER" -> [member EXCEPT ![j.who] = "absent"]
                      [] j.type = "UPDATE_MEMBER" /\ Present(j.who) ->
                            [member EXCEPT ![j.who] = IF j.on THEN "active" ELSE "inactive"]
                      [] OTHER -> member
       /\ pairings' = CASE j.type = "CREATE_PAIR" -> pairings \cup ({j.arg} \X r.ends)
                        [] j.type = "DELETE_MEMBER" -> {p \in pairings : p[2] # j.who}
                        [] OTHER -> pairings
       /\ blocks' = IF j.type = "DELETE_MEMBER" THEN {b \in blocks : b[1] # j.who} ELSE blocks
       /\ told' = IF j.type = "NOTIFY_MEMBER" THEN told \cup {<<j.arg, j.who>>} ELSE told
       /\ drawn' = IF j.type = "CREATE_MATCHES"
                   THEN drawn \cup ({round} \X (r.alone \cup UNION r.pairs)) ELSE drawn
       /\ redrawn' = IF j.type = "CREATE_MATCHES" /\ ~saved THEN redrawn \cup {round} ELSE redrawn
    /\ run' = [run EXCEPT ![g] = NoRun]
    /\ UNCHANGED <<round, half, panicked>>

Commit(g) ==
    /\ run[g].pc \in {"done", "refused"}
    /\ Finish(g, run[g], TRUE)
    /\ UNCHANGED events

\* A shutdown cancels the context: neither the statements nor the Save that follow
\* reach the database; the Commit, which has no context, does.
CommitShutdown(g, r) ==
    /\ "shutdown" \in Faults /\ events < MaxEvents
    /\ events' = events + 1
    /\ Finish(g, r, FALSE)

\* It comes before the Save, ...
CommitUnsaved(g) == run[g].pc \in {"done", "refused"} /\ CommitShutdown(g, run[g])

\* ... before CREATE_MATCHES could queue a NOTIFY_MEMBER, in a loop over the draw
\* that is in no order: CreateMatches returns errors.Wrap(result.Error), which is
\* nil, and what the loop has done is committed. Or it comes ...
CutDraw(g) ==
    /\ Runs(g, "CREATE_MATCHES", "draw")
    /\ \E d \in Draws : \E pairs \in SUBSET d, alone \in SUBSET (Active \ UNION d) :
          /\ alone # Active \ UNION d
          /\ CommitShutdown(g, [run[g] EXCEPT !.pairs = pairs, !.alone = alone])

\* ... before an INSERT of CREATE_PAIR, which returns a nil error as well.
CutPair(g) == Runs(g, "CREATE_PAIR", "pair") /\ CommitShutdown(g, run[g])

\* Mutant of Fail: the job is completed as FAILED.
FailForGood(g) ==
    /\ Busy(g)
    /\ "error" \in Faults
    /\ run' = [run EXCEPT ![g] = NoRun]
    /\ jobs' = Where(jobs, Kept(g, TRUE))
    /\ UNCHANGED <<data, round, half, panicked, events>>

\* CREATE_MATCH without its participant, or an INSERT that violates the primary key
\* of pairings or its foreign key. CreatePair returns nil in that case, but its
\* transaction is aborted: neither the Save nor the Commit does anything.
Fails(g) ==
    \/ Runs(g, "CREATE_MATCH", "exec") /\ ~Present(JobOf(g).who)
    \/ /\ Runs(g, "CREATE_PAIR", "pair")
       /\ \E u \in Unpaired(g) : ~Present(u) \/ Has(JobOf(g).arg, u)

\* An error: the transaction is rolled back, the row stays PENDING.
Fail(g) ==
    /\ Busy(g)
    /\ "error" \in Faults \/ Fails(g)
    /\ run' = [run EXCEPT ![g] = NoRun]
    /\ jobs' = Released(g)
    /\ UNCHANGED <<data, round, half, panicked, events>>
-------------------------------------------------------------------------------
Init ==
    /\ member = [u \in Members |-> IF u \in LateJoiners THEN "inactive" ELSE "active"]
    /\ blocks = {} /\ round = 0 /\ half = 1 /\ events = 0
    /\ matches = <<>> /\ pairings = {} /\ jobs = <<>>
    /\ run = [g \in Goroutines |-> NoRun]
    /\ told = {} /\ drawn = {} /\ redrawn = {} /\ panicked = FALSE

Step(g) ==
    \/ TakeJob(g) \/ WaitOnMemberJobs(g) \/ DrawMatches(g)
    \/ RefuseMatch(g) \/ FindPartner(g) \/ CheckPending(g)
    \/ CreatePair(g) \/ InsertPairing(g)
    \/ NotifyPair(g) \/ Panic(g) \/ NotifyMember(g) \/ ChangeMember(g)
    \/ Commit(g) \/ CommitUnsaved(g) \/ CutDraw(g) \/ CutPair(g) \/ Fail(g)

Next ==
    \/ StartRound \/ PassHalf
    \/ \E u \in Members : Onboard(u) \/ Leave(u) \/ \E on \in BOOLEAN : UpdateSettings(u, on)
    \/ \E u, v \in Members : Block(u, v)
    \/ \E k \in DOMAIN jobs : Ripen(k)
    \/ \E g \in Goroutines : Step(g)

Spec == Init /\ [][Next]_vars
-------------------------------------------------------------------------------
(* Properties *)

\* Nobody gets two partners from the draw of a round, although the draw and its pairs
\* are jobs of their own that fail, are retried and run side by side; unless a
\* shutdown came after the draw and before the Save, when the round is drawn again
\* (a late match may add another partner too, see the README).
OnePartner ==
    \A m, n \in DOMAIN matches : \A u \in Members :
        /\ m # n /\ matches[m].round = matches[n].round /\ matches[m].round \notin redrawn
        /\ matches[m].late = NoMember /\ matches[n].late = NoMember
        => ~(Has(m, u) /\ Has(n, u))

\* The pair of m has been introduced to each other, or will be.
Introduced(m) ==
    matches[m].notified \/ \E j \in Pending : j.type = "NOTIFY_PAIR" /\ j.arg = m

\* A match has the pairings of both its members who have not left since, or none, and
\* a pair is introduced only with both; a shutdown may leave half of them, but the
\* CREATE_PAIR is not done then: neither its retries nor a leave turn half a pairing
\* into a match.
PairingsWhole ==
    \A m \in DOMAIN matches :
        LET present == {u \in matches[m].ends : Present(u)} IN
        \/ \A u \in present : Has(m, u)
        \/ /\ ~Introduced(m)
           /\ \/ \A u \in present : ~Has(m, u)
              \/ \E j \in Pending : j.type = "CREATE_PAIR" /\ j.arg = m

\* u took part in the draw of round r and knows the outcome, or will.
HearsOf(r, u) ==
    \/ <<r, u>> \in told
    \/ \E j \in Pending : j.type = "NOTIFY_MEMBER" /\ j.who = u /\ j.arg = r
    \/ \E m \in DOMAIN matches :
          /\ matches[m].round = r /\ u \in matches[m].ends
          /\ matches[m].notified
             \/ \E j \in Pending : j.type \in {"CREATE_PAIR", "NOTIFY_PAIR"} /\ j.arg = m

\* Every member in the draw hears of a partner or of having none, unless one of
\* the pair leaves the channel first: no error or retry loses a match.
Informed ==
    \A d \in drawn :
        \/ HearsOf(d[1], d[2])
        \/ \E m \in DOMAIN matches : /\ matches[m].round = d[1] /\ d[2] \in matches[m].ends
                                     /\ \E v \in matches[m].ends : ~Present(v)

\* Members can "only match with the same gender" (README.md:21): nobody's preference is
\* disregarded, except that of the partner whom a late participant is given.
PreferencesKept ==
    \A m \in DOMAIN matches : \A u, v \in matches[m].ends :
        matches[m].late # v => <<u, v>> \notin Refuses

\* "There must be more than half of the time remaining in the round"
\* (job_create_match.go:58): a late match is refused in the second half only.
RefusedInSecondHalf == \A g \in Goroutines : run[g].pc = "refused" => half = 2

===============================================================================
