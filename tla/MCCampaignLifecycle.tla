------------------------ MODULE MCCampaignLifecycle ------------------------
(***************************************************************************)
(* The lifecycle on a real calendar: its clock shows three instants around *)
(* the windows of a schedule, and NextSend is what SendWindow computes.    *)
(***************************************************************************)
EXTENDS CampaignLifecycle, SendWindow, FiniteSetsExt

(* The last Friday of the month at 11:00.                                  *)
LastFriday == [monthly |-> TRUE, weekday |-> 4, nth |-> 5, clock |-> 660]

Instant(y, m, d, minute) == DayNumber(y, m, d) * MinutesPerDay + minute

(* The clock: a minute before February's slot in 2027, which has no fifth  *)
(* Friday, that slot, and March's.                                         *)
Clock == [t \in 0..2 |->
  CASE t = 0 -> Instant(2027, 2, 26, 659)
    [] t = 1 -> Instant(2027, 2, 26, 660)
    [] t = 2 -> Instant(2027, 3, 26, 660)]

MonthNumber(t) == CHOOSE i \in (2027 * 12)..(2027 * 12 + 11) : InMonth(Clock[t], i)

(* Each of them waits for the next; the last window is beyond the bound.   *)
MCNextSend == [t \in Time |-> t + 1]

(* That is what next_send_after makes of the three instants.               *)
ASSUME WindowsAreComputed == \A t \in 0..2 :
  LET window == NextSendAfter(Clock[t], MonthNumber(t), LastFriday)
  IN  IF t < 2 THEN window = Clock[MCNextSend[t]] ELSE window > Clock[2]

(* The nth weekday by counting: the nth of the month's days that fall on   *)
(* it, or the last of them when there are fewer.                           *)
CountedWeekday(y, m, w, n) ==
  LET days == {d \in 1..DaysInMonth(y, m) : Weekday(DayNumber(y, m, d)) = w}
  IN  IF Cardinality(days) < n THEN Max(days)
      ELSE CHOOSE d \in days : Cardinality({e \in days : e <= d}) = n

(* _nth_weekday_of_month against counting, over a leap year, a year that   *)
(* begins after one and the common year of a century.                      *)
ASSUME NthWeekdayCounts ==
  \A y \in {1900, 2024, 2027}, m \in Months, w \in 0..6, n \in 1..5 :
    NthWeekday(y, m, w, n) = CountedWeekday(y, m, w, n)

(* 1 January 2024 was a Monday, 29 February a Thursday.                    *)
ASSUME KnownDays ==
  Weekday(DayNumber(2024, 1, 1)) = 0 /\ Weekday(DayNumber(2024, 2, 29)) = 3
=============================================================================
