---------------------------- MODULE SendWindow ----------------------------
(***************************************************************************)
(* When an approved campaign may go out (AgentSettings.next_send_after in  *)
(* config/settings.py).                                                    *)
(*                                                                         *)
(* An instant is a wall-clock minute of the configured zone: the code      *)
(* compares two datetimes that carry the same ZoneInfo, which Python does  *)
(* by their wall-clock fields, whatever the clocks did in between.         *)
(*                                                                         *)
(* A schedule is [monthly, weekday, nth, clock]: weekday 0 is Monday, nth  *)
(* is 1..5, clock is send_time in minutes.                                 *)
(***************************************************************************)
EXTENDS Integers

MinutesPerDay == 1440
Months == 1..12

Schedules == [monthly : BOOLEAN, weekday : 0..6, nth : 1..5, clock : 0..1439]

(* The proleptic Gregorian calendar of datetime and calendar.              *)
Leap(y) == (y % 4) = 0 /\ ((y % 100) # 0 \/ (y % 400) = 0)

DaysInMonth(y, m) ==
  IF m = 2 THEN IF Leap(y) THEN 29 ELSE 28
  ELSE IF m \in {4, 6, 9, 11} THEN 30 ELSE 31

DaysBeforeYear(y) ==
  (y - 1) * 365 + (y - 1) \div 4 - (y - 1) \div 100 + (y - 1) \div 400

DaysBeforeMonth(y, m) ==
  LET common == <<0, 31, 59, 90, 120, 151, 181, 212, 243, 273, 304, 334>>[m]
  IN  IF m > 2 /\ Leap(y) THEN common + 1 ELSE common

(* date.toordinal: day 1 is 1 January of year 1, a Monday.                 *)
DayNumber(y, m, d) == DaysBeforeYear(y) + DaysBeforeMonth(y, m) + d

Weekday(n) == (n - 1) % 7

-----------------------------------------------------------------------------
(* _nth_weekday_of_month before it is clamped.                             *)
Unclamped(y, m, weekday, nth) ==
  1 + ((weekday - Weekday(DayNumber(y, m, 1))) % 7) + (nth - 1) * 7

(* _nth_weekday_of_month: the loop that steps back by weeks steps at most  *)
(* once (UnclampedBound in SendWindowProofs).                              *)
NthWeekday(y, m, weekday, nth) ==
  LET day == Unclamped(y, m, weekday, nth)
  IN  IF day > DaysInMonth(y, m) THEN day - 7 ELSE day

(* The year and month of month number i, counted from year 0.              *)
YearOf(i)  == i \div 12
MonthOf(i) == (i % 12) + 1

(* _add_months works on month numbers; the first day and the slot of one.  *)
FirstDay(i) == DayNumber(YearOf(i), MonthOf(i), 1)
Slot(i, s) ==
  LET day == NthWeekday(YearOf(i), MonthOf(i), s.weekday, s.nth)
  IN  (FirstDay(i) + day - 1) * MinutesPerDay + s.clock

Day(t) == t \div MinutesPerDay

InMonth(t, i) == FirstDay(i) <= Day(t) /\ Day(t) < FirstDay(i + 1)

(* next_send_after, for an instant t in month i: the clock time of today   *)
(* or tomorrow, or the slot of this month or the next.                     *)
NextSendAfter(t, i, s) ==
  IF s.monthly
  THEN IF Slot(i, s) > t THEN Slot(i, s) ELSE Slot(i + 1, s)
  ELSE LET today == Day(t) * MinutesPerDay + s.clock
       IN  IF today > t THEN today ELSE today + MinutesPerDay
=============================================================================
