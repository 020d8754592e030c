-------------------------------- MODULE Calendar --------------------------------
(***************************************************************************)
(* The dates of rounds: timex.go and schedule.go. A date is the day of a   *)
(* month whose length, and that of the next month, are parameters; of the  *)
(* week only the distance between days matters. Times of day are minutes.  *)
(***************************************************************************)
EXTENDS Integers, FiniteSets

MonthLengths == 28..31

\* Day d of a month is the first, second, ... of its weekday.
Ordinal(d) == (d - 1) \div 7 + 1

\* The first day of the next month, of length L the present one, with the weekday of d.
FirstWeekday(L, d) == ((d - L - 1) % 7) + 1

\* How often the weekday of day f of the first week occurs in a month of length M.
Occurrences(M, f) == IF f + 28 <= M THEN 5 ELSE 4

\* NextMonth: "current month has 4 weeks, but next month has 5 weeks".
NextOrdinal(L, M, d) ==
    IF Ordinal(d) = 4 /\ Occurrences(M, FirstWeekday(L, d)) = 5 THEN 5 ELSE Ordinal(d)

\* The day of the next month; one above its length is in the month after it.
NextMonth(L, M, d) == FirstWeekday(L, d) + (NextOrdinal(L, M, d) - 1) * 7

\* FormatMonthlyOccurrence: the label the admin is shown.
Occurrence(d) == IF Ordinal(d) <= 3 THEN Ordinal(d) ELSE "last"

Intervals == {7, 14, 21, 28, 30} \* 30 is Monthly

\* NextChatRouletteRound: days from a round on day d to the next one.
DaysToNextRound(interval, L, M, d) ==
    IF interval = 30 THEN L - d + NextMonth(L, M, d) ELSE interval

\* NextWeekday: days from a day of weekday from to the next one of weekday to.
DaysToWeekday(from, to) ==
    CASE from < to -> to - from [] from > to -> 7 - (from - to) [] OTHER -> 7

Hour == 60
Day  == 24 * Hour

\* MidPoint: the day of the middle, at the hour of t2.
MidPoint(t1, t2) ==
    LET middle == t1 + (t2 - t1) \div 2
    IN (middle \div Day) * Day + ((t2 % Day) \div Hour) * Hour
===============================================================================
