----------------------------- MODULE Timestamps -----------------------------
(***************************************************************************)
(* src/time.rs: instants, the text they are parsed from and the text they  *)
(* are printed as.                                                         *)
(*                                                                         *)
(* The code keeps seconds since 1970-01-01T00:00:00Z in an i64.  Here an   *)
(* instant is <<days since then, second of that day>>, the two halves that *)
(* Display takes apart with div_euclid and rem_euclid.  A text is a record *)
(* of its fields; off is its zone in seconds.  What cannot be a field of   *)
(* the strict syntax (a year that is not four digits) is what Written      *)
(* refuses.                                                                *)
(***************************************************************************)
EXTENDS Integers

SecondsPerDay == 86400

\* i64 division, which truncates towards zero.
Quot(a, b) == IF a >= 0 THEN a \div b ELSE -((-a) \div b)

is_leap_year(y) == (y % 4 = 0 /\ y % 100 # 0) \/ y % 400 = 0

days_in_month(y, m) ==
  CASE m \in {1, 3, 5, 7, 8, 10, 12} -> 31
    [] m \in {4, 6, 9, 11}           -> 30
    [] m = 2                         -> IF is_leap_year(y) THEN 29 ELSE 28
    [] OTHER                         -> 0

\* The day a date's year of 365.2425 days starts on, counted from its own
\* 1 March, and the part of the year before month m.
YearDays(yoe) == yoe * 365 + yoe \div 4 - yoe \div 100
MonthDays(mp) == (153 * mp + 2) \div 5

\* Mutant: the era of a year before 0 is not rounded down.
days_from_civil_truncated(y, m, d) ==
  LET yy  == IF m <= 2 THEN y - 1 ELSE y
      era == Quot(yy, 400)
      mp  == IF m > 2 THEN m - 3 ELSE m + 9
  IN  era * 146097 + YearDays(yy - era * 400) + MonthDays(mp) + d - 1 - 719468

days_from_civil(y, m, d) ==
  LET yy  == IF m <= 2 THEN y - 1 ELSE y
      era == Quot(IF yy >= 0 THEN yy ELSE yy - 399, 400)
      mp  == IF m > 2 THEN m - 3 ELSE m + 9
  IN  era * 146097 + YearDays(yy - era * 400) + MonthDays(mp) + d - 1 - 719468

YearOfEra(doe) ==
  (doe - doe \div 1460 + doe \div 36524 - doe \div 146096) \div 365

\* The date of day doe of an era.
CivilInEra(era, doe) ==
  LET yoe == YearOfEra(doe)
      doy == doe - YearDays(yoe)
      mp  == (5 * doy + 2) \div 153
      m   == IF mp < 10 THEN mp + 3 ELSE mp - 9
      y   == yoe + era * 400
  IN  [y |-> IF m <= 2 THEN y + 1 ELSE y, m |-> m, d |-> doy - MonthDays(mp) + 1]

civil_from_days(z) ==
  LET zz  == z + 719468
      era == Quot(IF zz >= 0 THEN zz ELSE zz - 146096, 146097)
  IN  CivilInEra(era, zz - era * 146097)

-----------------------------------------------------------------------------
Refused == "refused"

\* "00".."23", "00".."59" and "00".."59"; a zone of less than a day.
ClockTime == 0..(SecondsPerDay - 1)
Zone == {z \in -(SecondsPerDay - 60)..(SecondsPerDay - 60) : z % 60 = 0}

\* The fields the syntax can hold.
Written(t) ==
  /\ t.y \in 0..9999
  /\ t.m \in 1..12
  /\ t.d >= 1 /\ t.d <= days_in_month(t.y, t.m)
  /\ t.sec \in ClockTime
  /\ t.off \in Zone

\* Mutant: the zone is left out.
ParseLocal(t) ==
  IF Written(t) THEN <<days_from_civil(t.y, t.m, t.d), t.sec>> ELSE Refused

\* The zone is taken off, which may lead into the day before or after.
Parse(t) ==
  IF ~Written(t) THEN Refused
  ELSE LET s == t.sec - t.off
       IN  <<days_from_civil(t.y, t.m, t.d) + s \div SecondsPerDay,
             s % SecondsPerDay>>

\* Display: always in UTC, whatever the text it was parsed from.
Display(i) ==
  LET c == civil_from_days(i[1])
  IN  [y |-> c.y, m |-> c.m, d |-> c.d, sec |-> i[2], off |-> 0]
=============================================================================
