------------------------------ MODULE Calendar ------------------------------
(***************************************************************************)
(* A reference for Timestamps: the proleptic Gregorian calendar, walked.   *)
(* It starts on 1970-01-01, which is day 0, and goes from one New Year to  *)
(* the next or the previous one, or to the day after.  Whoever walks needs *)
(* only the length of the months and which years are leap years.           *)
(***************************************************************************)
EXTENDS Timestamps

CONSTANTS
  FirstYear, LastYear,  \* bound: the New Years that are visited
  Walked,               \* bound: the years that are walked day by day
  Seconds,              \* clock times of the texts that are parsed
  Offsets               \* zones of the texts that are parsed

ASSUME CalendarAssumption ==
  /\ FirstYear \in Int /\ LastYear \in Int
  /\ Walked \subseteq Int
  /\ Seconds \subseteq ClockTime /\ Offsets \subseteq Zone

VARIABLES date, day

NewYear(y) == [y |-> y, m |-> 1, d |-> 1]

Init == date = NewYear(1970) /\ day = 0

\* A leap year is one whose February has a 29th: every fourth, but of the
\* full centuries only every fourth.
YearLength(y) ==
  IF \E k \in {4, 400} : y % k = 0 /\ (k = 4 => y % 100 # 0) THEN 366 ELSE 365

Lengths == <<31, 28, 31, 30, 31, 30, 31, 31, 30, 31, 30, 31>>
MonthLength(y, m) ==
  IF m = 2 /\ YearLength(y) = 366 THEN 29 ELSE Lengths[m]

NextYear ==
  /\ date = NewYear(date.y) /\ date.y < LastYear
  /\ date' = NewYear(date.y + 1) /\ day' = day + YearLength(date.y)

PreviousYear ==
  /\ date = NewYear(date.y) /\ date.y > FirstYear
  /\ date' = NewYear(date.y - 1) /\ day' = day - YearLength(date.y - 1)

\* The day after, the month after, or New Year.
Tomorrow ==
  /\ date.y \in Walked
  /\ date' = IF date.d < MonthLength(date.y, date.m)
               THEN [date EXCEPT !.d = @ + 1]
             ELSE IF date.m < 12
               THEN [y |-> date.y, m |-> date.m + 1, d |-> 1]
             ELSE NewYear(date.y + 1)
  /\ day' = day + 1

Next == NextYear \/ PreviousYear \/ Tomorrow

Spec == Init /\ [][Next]_<<date, day>>

-----------------------------------------------------------------------------
\* Both conversions agree with the calendar on every day that is walked, the
\* years before 0 and the ends of eras included (time.rs:209-231).
CivilAgrees ==
  /\ days_from_civil(date.y, date.m, date.d) = day
  /\ civil_from_days(day) = date

\* Text of this date at a clock time in a zone.
Text(sec, off) ==
  [y |-> date.y, m |-> date.m, d |-> date.d, sec |-> sec, off |-> off]

\* The UTC date of that text lies before the year 0 or after the year 9999.
LeavesCalendar(sec, off) ==
  \/ date = NewYear(0) /\ sec < off
  \/ date = [y |-> 9999, m |-> 12, d |-> 31] /\ sec - off >= SecondsPerDay

\* "the journal replays losslessly": an instant the parser takes prints as a
\* text that it reads back as the same instant -- but for the instants that a
\* zone pushes over an end of the calendar, whose text it refuses.  A journal
\* line that holds one of those is not read back (TrustStore: Unreadable).
ReadsBackExactly ==
  \A sec \in Seconds, off \in Offsets :
    LET t == Parse(Text(sec, off)) IN
    t # Refused =>
      Parse(Display(t)) = IF LeavesCalendar(sec, off) THEN Refused ELSE t
=============================================================================
