------------------------------ MODULE RoundChain ------------------------------
(***************************************************************************)
(* What the rounds of an enabled channel promise to its members: one date  *)
(* for the next round, at which a round starts that is drawn once and that *)
(* sets the date of the round after it; a round ends once, when the next   *)
(* one is near. Jobs, transactions and retries do not appear; Rounds is    *)
(* shown to implement this.                                                *)
(***************************************************************************)
EXTENDS Naturals, Sequences

CONSTANTS
    Interval,   \* ticks between two rounds
    EndBefore   \* ticks between the end of a round and the next one

VARIABLES
    dates,      \* the dates at which a round is to start
    shown,      \* the date the settings page shows
    history,    \* the rounds of the channel
    clock

chainVars == <<dates, shown, history, clock>>

Started(t) == [ended |-> FALSE, at |-> t, matchings |-> 1]

Init == dates = <<>> /\ shown = 0 /\ history = <<>> /\ clock = 0

\* The admin enables the channel with the date of its first round.
Enable ==
    /\ dates = <<>>
    /\ shown' \in Nat /\ dates' = <<shown'>>
    /\ UNCHANGED <<history, clock>>

\* The admin chooses another date for the round to come.
Reschedule ==
    /\ Len(dates) = 1
    /\ shown' \in Nat /\ dates' = <<shown'>>
    /\ UNCHANGED <<history, clock>>

\* The date has come and the last round is over: the next one starts.
StartRound ==
    /\ Len(dates) = 1 /\ dates[1] <= clock
    /\ \A k \in DOMAIN history : history[k].ended
    /\ history' = Append(history, Started(clock))
    /\ shown' = dates[1] + Interval /\ dates' = <<shown'>>
    /\ UNCHANGED clock

\* The round ends, no earlier than EndBefore before an interval is over.
EndRound ==
    /\ \E k \in DOMAIN history :
          /\ ~history[k].ended
          /\ history[k].at + Interval <= clock + EndBefore
          /\ history' = [history EXCEPT ![k].ended = TRUE]
    /\ UNCHANGED <<dates, shown, clock>>

Pass == clock' = clock + 1 /\ UNCHANGED <<dates, shown, history>>

Next == Enable \/ Reschedule \/ StartRound \/ EndRound \/ Pass

Spec == Init /\ [][Next]_chainVars
===============================================================================
