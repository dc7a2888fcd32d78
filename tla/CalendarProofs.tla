--------------------------- MODULE CalendarProofs ---------------------------
(***************************************************************************)
(* The two conversions of src/time.rs agree with the calendar on every     *)
(* day, whatever years the bounds of a run leave out: a civil date is got  *)
(* back from its day number, and the day number goes up by one from each   *)
(* day to the next.  So an instant that was parsed is printed as a text    *)
(* that is read back as the same instant.  Leaves with large numbers name a *)
(* solver, and the numbers Zenon would meet have names: it does not get    *)
(* past them.                                                              *)
(***************************************************************************)
EXTENDS Calendar, TLAPS

\* The year of an era is a century, a four-year period of it and a year of
\* that; only the last year of a period with a leap day has a 366th day.
LEMMA YearSplit ==
  ASSUME NEW yoe \in 0..399
  PROVE  \E c \in 0..3, q \in 0..24, r \in 0..3 :
           /\ yoe = 100 * c + 4 * q + r
           /\ YearDays(yoe) = 36524 * c + 1461 * q + 365 * r
<1> DEFINE c == yoe \div 100
           q == (yoe - 100 * c) \div 4
           r == yoe - 100 * c - 4 * q
<1>1. c \in 0..3 /\ q \in 0..24 /\ r \in 0..3
  BY Z3
<1>2. yoe = 100 * c + 4 * q + r
  BY <1>1, Z3
<1>3. yoe \div 4 = 25 * c + q
  BY <1>1, Z3
<1>4. YearDays(yoe) = 36524 * c + 1461 * q + 365 * r
  BY <1>1, <1>2, <1>3, Z3 DEF YearDays
<1> QED BY <1>1, <1>2, <1>4, Z3

\* A day of an era, counted from its first one, and the year it falls in.
IsDayOfEra(yoe, doy) ==
  \E doe \in Int : /\ doe = YearDays(yoe) + doy
                  /\ doe >= 0 /\ doe <= 146096
                  /\ YearOfEra(doe) = yoe

\* Only the last day of February of a leap year is the 366th of its year.
IsLeapDayOnly(yoe, doy) ==
  doy = 365 => (yoe + 1) % 4 = 0 /\ ((yoe + 1) % 100 # 0 \/ yoe = 399)

\* The year of an era is got back from the day of the era.
LEMMA YearOfEraInverts ==
  ASSUME NEW yoe \in 0..399, NEW doy \in 0..365,
         IsLeapDayOnly(yoe, doy)
  PROVE  IsDayOfEra(yoe, doy)
<1>1. PICK c \in 0..3, q \in 0..24, r \in 0..3 :
        /\ yoe = 100 * c + 4 * q + r
        /\ YearDays(yoe) = 36524 * c + 1461 * q + 365 * r
  BY YearSplit, SMT
<1>2. doy = 365 => r = 3 /\ (q = 24 => c = 3)
  BY <1>1, Z3 DEF IsLeapDayOnly
<1>3. PICK doe \in Int : doe = 36524 * c + 1461 * q + 365 * r + doy
  BY SMT
<1>4. doe >= 0 /\ doe <= 146096
  BY <1>2, <1>3, SMT
<1>5. (doe - doe \div 1460 + doe \div 36524 - doe \div 146096) \div 365
        = 100 * c + 4 * q + r
  BY <1>2, <1>3, Z3
<1>6. YearDays(yoe) + doy = doe
  BY <1>1, <1>3, SMT
<1>7. YearOfEra(doe) = yoe
  BY <1>1, <1>5, SMT DEF YearOfEra
<1> QED BY <1>4, <1>6, <1>7, SMT DEF IsDayOfEra

\* A month of a year that starts on 1 March, and the days before it.
IsDayOfYear(mp, d, doy) ==
  /\ doy \in 0..365
  /\ doy = 365 <=> mp = 11 /\ d = 29
  /\ (5 * doy + 2) \div 153 = mp

\* The month is got back from the day of its year, which ends with February.
LEMMA MonthInverts ==
  ASSUME NEW mp \in 0..11, NEW d \in 1..31,
         mp \in {1, 3, 6, 8} => d <= 30, mp = 11 => d <= 29
  PROVE  IsDayOfYear(mp, d, MonthDays(mp) + d - 1)
  BY Z3 DEF MonthDays, IsDayOfYear

\* Which month of the year that starts on 1 March month m is, and its length.
MarchMonth(m) == IF m > 2 THEN m - 3 ELSE m + 9

\* The months from March on, and how many days the short ones have.
LEMMA MonthLengths ==
  ASSUME NEW y \in Int, NEW m \in 1..12, NEW d \in 1..days_in_month(y, m)
  PROVE  /\ MarchMonth(m) \in 0..11 /\ d \in 1..31
         /\ MarchMonth(m) \in {1, 3, 6, 8} => d <= 30
         /\ MarchMonth(m) = 11 => d <= 29 /\ (d = 29 => is_leap_year(y))
         /\ m = IF MarchMonth(m) < 10 THEN MarchMonth(m) + 3
                                      ELSE MarchMonth(m) - 9
  BY SMT DEF days_in_month, MarchMonth

\* The era of a year, rounded down by way of a division that truncates.
EraOf(yy) == Quot(IF yy >= 0 THEN yy ELSE yy - 399, 400)

IsEraOf(era, yy) == era \in Int /\ yy - era * 400 \in 0..399

\* The era of a year is rounded down, also before the year 0.
LEMMA EraOfYear ==
  ASSUME NEW yy \in Int
  PROVE  IsEraOf(EraOf(yy), yy)
<1>1. EraOf(yy) \in Int
  BY SMT DEF EraOf, Quot
<1>2. yy - EraOf(yy) * 400 \in 0..399
  BY Z3 DEF EraOf, Quot
<1> QED BY <1>1, <1>2, SMT DEF IsEraOf

\* The era of a day is rounded down, also before the year 0.
LEMMA EraOfDay ==
  ASSUME NEW era \in Int, NEW doe \in Int, NEW zz \in Int,
         doe >= 0, doe <= 146096, zz = era * 146097 + doe
  PROVE  Quot(IF zz >= 0 THEN zz ELSE zz - 146096, 146097) = era
<1>1. zz >= 0 <=> era >= 0
  BY Z3
<1>2. CASE era >= 0
  <2>1. zz \div 146097 = era
    BY Z3
  <2> QED BY <1>1, <1>2, <2>1, SMT DEF Quot
<1>3. CASE ~(era >= 0)
  <2>1. zz - 146096 < 0
    BY <1>3, Z3
  <2>2. -((-(zz - 146096)) \div 146097) = era
    BY <1>3, Z3
  <2> QED BY <1>1, <1>3, <2>1, <2>2, SMT DEF Quot
<1> QED BY <1>2, <1>3, SMT

-----------------------------------------------------------------------------
Date == {c \in [y : Int, m : 1..12, d : 1..31] : c.d <= days_in_month(c.y, c.m)}

\* The day before 1 March of year yy starts after.
DaysBefore(yy) == 365 * yy + yy \div 4 - yy \div 100 + yy \div 400

\* The year a date counts in: January and February belong to the one before.
MarchYear(y, m) == IF m <= 2 THEN y - 1 ELSE y

\* The day number of a date by way of its era.
IsDated(y, m, d) ==
  \E era \in Int, yoe \in 0..399 :
    /\ MarchYear(y, m) = era * 400 + yoe
    /\ era * 146097 + YearDays(yoe) = DaysBefore(MarchYear(y, m))
    /\ days_from_civil(y, m, d) =
         era * 146097 + YearDays(yoe)
           + MonthDays(MarchMonth(m)) + d - 1 - 719468

\* days_from_civil counts the days of the eras and years before the date.
LEMMA DaysFromCivil ==
  ASSUME NEW y \in Int, NEW m \in 1..12, NEW d \in Int
  PROVE  IsDated(y, m, d)
<1>1. PICK yy \in Int : yy = MarchYear(y, m)
  BY SMT DEF MarchYear
<1>2. PICK era \in Int : era = EraOf(yy) /\ yy - era * 400 \in 0..399
  <2>1. IsEraOf(EraOf(yy), yy)
    BY EraOfYear, Zenon
  <2>2. EraOf(yy) \in Int /\ yy - EraOf(yy) * 400 \in 0..399
    BY <2>1, SMT DEF IsEraOf
  <2> QED BY <2>2, Zenon
<1>3. PICK yoe \in 0..399 : yoe = yy - era * 400
  BY <1>2, SMT
<1>4. era * 146097 + YearDays(yoe) = DaysBefore(yy)
  BY <1>3, Z3 DEF YearDays, DaysBefore
<1>5. days_from_civil(y, m, d) =
        era * 146097 + YearDays(yoe)
          + MonthDays(MarchMonth(m)) + d - 1 - 719468
  BY <1>1, <1>2, <1>3, SMT DEF days_from_civil, MarchMonth, MarchYear, EraOf
<1>6. yy = era * 400 + yoe
  BY <1>3, SMT
<1> QED BY <1>1, <1>4, <1>5, <1>6, SMT DEF IsDated

\* From one 1 March to the next there are as many days as the code and the
\* calendar say the year has.
LEMMA YearSteps ==
  ASSUME NEW y \in Int
  PROVE  /\ DaysBefore(y) \in Int
         /\ DaysBefore(y) - DaysBefore(y - 1) =
              IF is_leap_year(y) THEN 366 ELSE 365
         /\ YearLength(y) = IF is_leap_year(y) THEN 366 ELSE 365
<1>1. DaysBefore(y) \in Int
  BY SMT DEF DaysBefore
<1>2. DaysBefore(y) - DaysBefore(y - 1) = IF is_leap_year(y) THEN 366 ELSE 365
  BY Z3 DEF DaysBefore, is_leap_year
<1>3. YearLength(y) = IF is_leap_year(y) THEN 366 ELSE 365
  BY SMT DEF YearLength, is_leap_year
<1> QED BY <1>1, <1>2, <1>3, SMT

\* A date is got back from its day number.
LEMMA CivilInverts ==
  ASSUME NEW c \in Date
  PROVE  civil_from_days(days_from_civil(c.y, c.m, c.d)) = c
<1>1. PICK y \in Int, m \in 1..12, d \in 1..31 :
        c = [y |-> y, m |-> m, d |-> d] /\ d <= days_in_month(y, m)
  BY Zenon DEF Date
<1>2. d \in 1..days_in_month(y, m)
  BY <1>1, SMT DEF days_in_month
<1> DEFINE mp == MarchMonth(m)
           doy == MonthDays(mp) + d - 1
<1>3. /\ mp \in 0..11
      /\ mp \in {1, 3, 6, 8} => d <= 30
      /\ mp = 11 => d <= 29 /\ (d = 29 => is_leap_year(y))
      /\ m = IF mp < 10 THEN mp + 3 ELSE mp - 9
  BY <1>2, MonthLengths, Zenon
<1>4. /\ doy \in 0..365
      /\ doy = 365 <=> mp = 11 /\ d = 29
      /\ (5 * doy + 2) \div 153 = mp
  <2>1. (mp \in {1, 3, 6, 8} => d <= 30) /\ (mp = 11 => d <= 29)
    BY <1>3, Zenon
  <2>2. IsDayOfYear(mp, d, MonthDays(mp) + d - 1)
    BY <1>3, <2>1, MonthInverts, Zenon
  <2> QED BY <2>2, SMT DEF IsDayOfYear
<1>5. PICK era \in Int, yoe \in 0..399 :
        /\ MarchYear(y, m) = era * 400 + yoe
        /\ days_from_civil(y, m, d) =
             era * 146097 + YearDays(yoe) + MonthDays(mp) + d - 1 - 719468
  <2>1. IsDated(y, m, d)
    BY DaysFromCivil, SMT
  <2> QED BY <2>1, SMT DEF IsDated
<1>6. IsLeapDayOnly(yoe, doy)
  <2>1. SUFFICES ASSUME doy = 365
                 PROVE  (yoe + 1) % 4 = 0 /\ ((yoe + 1) % 100 # 0 \/ yoe = 399)
    BY Zenon DEF IsLeapDayOnly
  <2>2. m = 2 /\ is_leap_year(y)
    <3> HIDE DEF mp, doy
    <3> QED BY <1>3, <1>4, <2>1, SMT
  <2>3. y = era * 400 + yoe + 1
    BY <1>5, <2>2, SMT DEF MarchYear
  <2> QED BY <2>2, <2>3, Z3 DEF is_leap_year
<1>7. PICK doe \in Int : /\ doe = YearDays(yoe) + doy
                         /\ doe >= 0 /\ doe <= 146096
                         /\ YearOfEra(doe) = yoe
  <2>1. doy \in 0..365
    BY <1>4, SMT
  <2>2. IsDayOfEra(yoe, doy)
    BY <1>6, <2>1, YearOfEraInverts, Zenon
  <2> QED BY <2>2, SMT DEF IsDayOfEra
<1>8. PICK z \in Int : z = days_from_civil(y, m, d) /\ z + 719468 = era * 146097 + doe
  <2>1. days_from_civil(y, m, d) = era * 146097 + doe - 719468
    <3>1. YearDays(yoe) \in Int /\ MonthDays(mp) \in Int
      BY SMT DEF YearDays, MonthDays, MarchMonth
    <3> HIDE DEF mp
    <3> QED BY <1>5, <1>7, <3>1, SMT
  <2> QED BY <2>1, SMT
<1>9. civil_from_days(z) = CivilInEra(era, doe)
  <2>1. PICK zz \in Int : zz = z + 719468 /\ zz = era * 146097 + doe
    BY <1>8, SMT
  <2>2. Quot(IF zz >= 0 THEN zz ELSE zz - 146096, 146097) = era
    BY <1>7, <2>1, EraOfDay, SMT
  <2>3. zz - era * 146097 = doe
    BY <2>1, SMT
  <2> QED BY <2>1, <2>2, <2>3, SMT DEF civil_from_days
<1>10. doe - YearDays(yoe) = doy
  <2> HIDE DEF doy
  <2> QED BY <1>4, <1>7, SMT DEF YearDays
<1>11. CivilInEra(era, doe) =
         [y |-> IF m <= 2 THEN yoe + era * 400 + 1 ELSE yoe + era * 400,
          m |-> m, d |-> doy - MonthDays(mp) + 1]
  <2> HIDE DEF doy, mp
  <2> QED BY <1>3, <1>4, <1>7, <1>10, SMT DEF CivilInEra
<1>12. doy - MonthDays(mp) + 1 = d
  BY SMT DEF MonthDays, MarchMonth
<1>13. (IF m <= 2 THEN yoe + era * 400 + 1 ELSE yoe + era * 400) = y
  BY <1>5, SMT DEF MarchYear
<1> HIDE DEF doy, mp
<1> QED BY <1>1, <1>8, <1>9, <1>11, <1>12, <1>13, SMT

-----------------------------------------------------------------------------
\* The length of a month in the calendar is the one the code goes by.
LEMMA MonthLengthAgrees ==
  ASSUME NEW y \in Int, NEW m \in 1..12
  PROVE  MonthLength(y, m) = days_in_month(y, m) /\ MonthLength(y, m) \in 28..31
<1>1. YearLength(y) = 366 <=> is_leap_year(y)
  BY YearSteps, SMT
<1> QED BY <1>1, SMT DEF MonthLength, Lengths, days_in_month

IsNumbered(y, m, d) ==
  /\ DaysBefore(MarchYear(y, m)) \in Int
  /\ days_from_civil(y, m, d) =
       DaysBefore(MarchYear(y, m)) + MonthDays(MarchMonth(m)) + d - 719469

\* The day number of every date, without eras.
LEMMA DayNumber ==
  ASSUME NEW y \in Int, NEW m \in 1..12, NEW d \in Int
  PROVE  IsNumbered(y, m, d)
<1>1. IsDated(y, m, d)
  BY DaysFromCivil, SMT
<1>2. PICK era \in Int, yoe \in 0..399 :
        /\ era * 146097 + YearDays(yoe) = DaysBefore(MarchYear(y, m))
        /\ days_from_civil(y, m, d) =
             era * 146097 + YearDays(yoe)
               + MonthDays(MarchMonth(m)) + d - 1 - 719468
  BY <1>1, SMT DEF IsDated
<1>3. DaysBefore(MarchYear(y, m)) \in Int /\ MonthDays(MarchMonth(m)) \in Int
  BY SMT DEF DaysBefore, MarchYear, MonthDays, MarchMonth
<1> QED BY <1>2, <1>3, SMT DEF IsNumbered

\* The walk is on a date of the calendar and has counted its days right.
WalkInv ==
  /\ date \in Date
  /\ day \in Int
  /\ days_from_civil(date.y, date.m, date.d) = day

\* From one New Year to the next the day number grows by the year's length.
LEMMA NewYearStep ==
  ASSUME NEW y \in Int
  PROVE  /\ NewYear(y) \in Date
         /\ days_from_civil(y + 1, 1, 1) = days_from_civil(y, 1, 1) + YearLength(y)
<1>1. NewYear(y) \in Date
  BY SMT DEF NewYear, Date, days_in_month
<1>2. IsNumbered(y + 1, 1, 1) /\ IsNumbered(y, 1, 1)
  <2>1. y + 1 \in Int /\ 1 \in 1..12 /\ 1 \in Int
    BY SMT
  <2> QED BY <2>1, DayNumber, Zenon
<1>3. days_from_civil(y + 1, 1, 1) - days_from_civil(y, 1, 1)
        = DaysBefore(y) - DaysBefore(y - 1)
  BY <1>2, SMT DEF IsNumbered, MarchYear, MarchMonth, MonthDays, DaysBefore
<1>4. DaysBefore(y) - DaysBefore(y - 1) = YearLength(y) /\ YearLength(y) \in Int
  BY YearSteps, SMT
<1>5. days_from_civil(y + 1, 1, 1) \in Int /\ days_from_civil(y, 1, 1) \in Int
  BY <1>2, SMT DEF IsNumbered, MonthDays, MarchMonth
<1> QED BY <1>1, <1>3, <1>4, <1>5, SMT

\* The date after c, as the walk goes on to it, and the date before.
DateAfter(c) ==
  IF c.d < MonthLength(c.y, c.m) THEN [y |-> c.y, m |-> c.m, d |-> c.d + 1]
  ELSE IF c.m < 12 THEN [y |-> c.y, m |-> c.m + 1, d |-> 1]
  ELSE NewYear(c.y + 1)

DateBefore(c) ==
  IF c.d > 1 THEN [y |-> c.y, m |-> c.m, d |-> c.d - 1]
  ELSE IF c.m > 1
    THEN [y |-> c.y, m |-> c.m - 1, d |-> days_in_month(c.y, c.m - 1)]
  ELSE [y |-> c.y - 1, m |-> 12, d |-> 31]

\* c is a date of the calendar and n is its day number.
IsDay(c, n) ==
  /\ c \in Date /\ n \in Int
  /\ days_from_civil(c.y, c.m, c.d) = n

\* The date after the one of day n is the one of day n + 1.
LEMMA DayAfter ==
  ASSUME NEW c, NEW n, IsDay(c, n)
  PROVE  IsDay(DateAfter(c), n + 1)
<1>1. PICK y \in Int, m \in 1..12, d \in 1..31 :
        c = [y |-> y, m |-> m, d |-> d] /\ d <= days_in_month(y, m)
  BY Zenon DEF IsDay, Date
<1>2. n \in Int /\ days_from_civil(y, m, d) = n
  BY <1>1, SMT DEF IsDay
<1>3. MonthLength(y, m) = days_in_month(y, m) /\ MonthLength(y, m) \in 28..31
  BY MonthLengthAgrees, SMT
<1>4. IsNumbered(y, m, d)
  <2>1. d \in Int
    BY SMT
  <2> QED BY <2>1, DayNumber, Zenon
<1>5. CASE d < MonthLength(y, m)
  <2>1. DateAfter(c) = [y |-> y, m |-> m, d |-> d + 1]
    BY <1>1, <1>5, SMT DEF DateAfter
  <2>2. IsNumbered(y, m, d + 1)
    <3>1. d + 1 \in Int
      BY SMT
    <3> QED BY <3>1, DayNumber, Zenon
  <2>3. days_from_civil(y, m, d + 1) = n + 1
    BY <1>2, <1>4, <2>2, SMT DEF IsNumbered, MonthDays, MarchMonth
  <2>4. DateAfter(c) \in Date
    BY <1>3, <1>5, <2>1, SMT DEF Date
  <2> QED BY <1>2, <2>1, <2>3, <2>4, SMT DEF IsDay
<1>6. CASE ~(d < MonthLength(y, m)) /\ m < 12
  <2>1. DateAfter(c) = [y |-> y, m |-> m + 1, d |-> 1]
    BY <1>1, <1>6, SMT DEF DateAfter
  <2>2. IsNumbered(y, m + 1, 1)
    <3>1. m + 1 \in 1..12 /\ 1 \in Int
      BY <1>6, SMT
    <3> QED BY <3>1, DayNumber, Zenon
  <2>3. d = days_in_month(y, m)
    BY <1>1, <1>3, <1>6, SMT
  <2>4. DaysBefore(y) - DaysBefore(y - 1) = IF is_leap_year(y) THEN 366 ELSE 365
    BY YearSteps, SMT
  <2>5. DaysBefore(y) \in Int /\ DaysBefore(y - 1) \in Int
    BY SMT DEF DaysBefore
  <2>6. days_from_civil(y, m + 1, 1) = n + 1
    BY <1>2, <1>4, <1>6, <2>2, <2>3, <2>4, <2>5, SMTT(30)
       DEF IsNumbered, MonthDays, MarchMonth, MarchYear, days_in_month
  <2>7. DateAfter(c) \in Date
    BY <1>6, <2>1, SMT DEF Date, days_in_month
  <2> QED BY <1>2, <2>1, <2>6, <2>7, SMT DEF IsDay
<1>7. CASE ~(d < MonthLength(y, m)) /\ ~(m < 12)
  <2>1. DateAfter(c) = NewYear(y + 1) /\ m = 12
    BY <1>1, <1>7, SMT DEF DateAfter
  <2>2. IsNumbered(y + 1, 1, 1)
    <3>1. y + 1 \in Int /\ 1 \in 1..12 /\ 1 \in Int
      BY SMT
    <3> QED BY <3>1, DayNumber, Zenon
  <2>3. d = 31
    BY <1>1, <1>3, <1>7, <2>1, SMT DEF days_in_month
  <2>4. days_from_civil(y + 1, 1, 1) = n + 1
    BY <1>2, <1>4, <2>1, <2>2, <2>3, SMT
       DEF IsNumbered, MonthDays, MarchMonth, MarchYear
  <2>5. NewYear(y + 1) \in Date
    BY NewYearStep, SMT
  <2> QED BY <1>2, <2>1, <2>4, <2>5, SMT DEF IsDay, NewYear
<1> QED BY <1>5, <1>6, <1>7, Zenon

\* The date before the one of day n is the one of day n - 1.
LEMMA DayBefore ==
  ASSUME NEW c, NEW n, IsDay(c, n)
  PROVE  IsDay(DateBefore(c), n - 1)
<1>1. PICK y \in Int, m \in 1..12, d \in 1..31 :
        c = [y |-> y, m |-> m, d |-> d] /\ d <= days_in_month(y, m)
  BY Zenon DEF IsDay, Date
<1>2. n \in Int
  BY Zenon DEF IsDay
<1>3. DateBefore(c) \in Date
  BY <1>1, SMT DEF DateBefore, Date, days_in_month
<1>4. DateAfter(DateBefore(c)) = c
  <2>1. CASE d > 1
    <3>1. MonthLength(y, m) = days_in_month(y, m)
      BY MonthLengthAgrees, SMT
    <3>2. DateBefore(c) = [y |-> y, m |-> m, d |-> d - 1]
      BY <1>1, <2>1, SMT DEF DateBefore
    <3>3. d - 1 < MonthLength(y, m)
      BY <1>1, <3>1, SMT DEF days_in_month
    <3>4. DateAfter(DateBefore(c)) = [y |-> y, m |-> m, d |-> d - 1 + 1]
      BY <3>2, <3>3, SMT DEF DateAfter
    <3> QED BY <1>1, <3>4, SMT
  <2>2. CASE ~(d > 1) /\ m > 1
    <3>1. PICK p \in 1..12 : p = m - 1
      BY <2>2, SMT
    <3>2. MonthLength(y, p) = days_in_month(y, p) /\ MonthLength(y, p) \in Int
      BY MonthLengthAgrees, SMT
    <3>3. DateBefore(c) = [y |-> y, m |-> p, d |-> MonthLength(y, p)]
      BY <1>1, <2>2, <3>1, <3>2, SMT DEF DateBefore
    <3>4. DateAfter(DateBefore(c)) = [y |-> y, m |-> m, d |-> 1]
      BY <3>1, <3>2, <3>3, SMT DEF DateAfter
    <3> QED BY <1>1, <2>2, <3>4, SMT
  <2>3. CASE ~(d > 1) /\ ~(m > 1)
    <3>1. DateBefore(c) = [y |-> y - 1, m |-> 12, d |-> 31]
      BY <1>1, <2>3, SMT DEF DateBefore
    <3>2. MonthLength(y - 1, 12) = 31
      BY SMT DEF MonthLength, Lengths
    <3>3. DateAfter(DateBefore(c)) = NewYear(y - 1 + 1)
      BY <3>1, <3>2, SMT DEF DateAfter
    <3> QED BY <1>1, <2>3, <3>3, SMT DEF NewYear
  <2> QED BY <2>1, <2>2, <2>3, Zenon
<1>5. PICK k \in Int :
        k = days_from_civil(DateBefore(c).y, DateBefore(c).m, DateBefore(c).d)
  <2>1. PICK y1 \in Int, m1 \in 1..12, d1 \in 1..31 :
          DateBefore(c) = [y |-> y1, m |-> m1, d |-> d1]
    BY <1>3, Zenon DEF Date
  <2>2. d1 \in Int
    BY SMT
  <2>3. IsNumbered(y1, m1, d1)
    BY <2>2, DayNumber, Zenon
  <2>4. days_from_civil(y1, m1, d1) \in Int
    BY <2>2, <2>3, SMT DEF IsNumbered, MonthDays, MarchMonth
  <2> QED BY <2>1, <2>4, SMT
<1>6. IsDay(DateBefore(c), k)
  BY <1>3, <1>5, Zenon DEF IsDay
<1>7. IsDay(c, k + 1)
  BY <1>4, <1>6, DayAfter, Zenon
<1>8. k = n - 1
  BY <1>2, <1>5, <1>7, SMT DEF IsDay
<1> QED BY <1>6, <1>8, SMT

\* The walk never leaves the calendar and never loses count.
LEMMA WalkStays == Spec => []WalkInv
<1>1. Init => WalkInv
  <2> SUFFICES ASSUME Init PROVE WalkInv
    OBVIOUS
  <2>1. NewYear(1970) \in Date
    BY NewYearStep, SMT
  <2>2. days_from_civil(1970, 1, 1) = 0
    BY Z3 DEF days_from_civil, YearDays, MonthDays, Quot
  <2> QED BY <2>1, <2>2, SMT DEF Init, WalkInv, NewYear
<1>2. WalkInv /\ [Next]_<<date, day>> => WalkInv'
  <2> SUFFICES ASSUME WalkInv, [Next]_<<date, day>> PROVE WalkInv'
    OBVIOUS
  <2>1. PICK y \in Int, m \in 1..12, d \in 1..31 :
          date = [y |-> y, m |-> m, d |-> d] /\ d <= days_in_month(y, m)
    BY Zenon DEF WalkInv, Date
  <2>2. day \in Int /\ days_from_civil(y, m, d) = day
    BY <2>1, SMT DEF WalkInv
  <2>3. CASE NextYear
    <3>1. m = 1 /\ d = 1 /\ date' = NewYear(y + 1) /\ day' = day + YearLength(y)
      BY <2>1, <2>3, SMT DEF NextYear, NewYear
    <3>2. days_from_civil(y + 1, 1, 1) = days_from_civil(y, 1, 1) + YearLength(y)
      BY NewYearStep, SMT
    <3>3. NewYear(y + 1) \in Date
      BY NewYearStep, SMT
    <3>4. YearLength(y) \in Int
      BY SMT DEF YearLength
    <3> QED BY <2>2, <3>1, <3>2, <3>3, <3>4, SMT DEF WalkInv, NewYear
  <2>4. CASE PreviousYear
    <3>1. /\ m = 1 /\ d = 1 /\ date' = NewYear(y - 1)
          /\ day' = day - YearLength(y - 1)
      BY <2>1, <2>4, SMT DEF PreviousYear, NewYear
    <3>2. PICK yy \in Int : yy = y - 1 /\ yy + 1 = y
      BY SMT
    <3>3. /\ NewYear(yy) \in Date
          /\ days_from_civil(yy + 1, 1, 1) = days_from_civil(yy, 1, 1) + YearLength(yy)
      BY NewYearStep, SMT
    <3>4. YearLength(yy) \in Int /\ days_from_civil(yy, 1, 1) \in Int
      <4>1. IsNumbered(yy, 1, 1)
        <5>1. 1 \in 1..12 /\ 1 \in Int
          BY SMT
        <5> QED BY <5>1, DayNumber, Zenon
      <4> QED BY <4>1, SMT DEF YearLength, IsNumbered, MonthDays, MarchMonth
    <3> QED BY <2>2, <3>1, <3>2, <3>3, <3>4, SMT DEF WalkInv, NewYear
  <2>5. CASE Tomorrow
    <3>1. date' = DateAfter(date) /\ day' = day + 1
      <4>1. date.d = d /\ date.m = m /\ date.y = y
        BY <2>1, SMT
      <4>2. day' = day + 1
        BY <2>5, Zenon DEF Tomorrow
      <4>3. date' = IF d < MonthLength(y, m)
                      THEN [y |-> y, m |-> m, d |-> d + 1]
                    ELSE IF m < 12 THEN [y |-> y, m |-> m + 1, d |-> 1]
                    ELSE NewYear(y + 1)
        BY <2>1, <2>5, SMT DEF Tomorrow
      <4> QED BY <4>1, <4>2, <4>3, Zenon DEF DateAfter
    <3>2. IsDay(date, day)
      BY Zenon DEF WalkInv, IsDay
    <3>3. IsDay(DateAfter(date), day + 1)
      BY <3>2, DayAfter, Zenon
    <3> QED BY <3>1, <3>3, Zenon DEF IsDay, WalkInv
  <2>6. CASE UNCHANGED <<date, day>>
    BY <2>6, Zenon DEF WalkInv
  <2> QED BY <2>3, <2>4, <2>5, <2>6, Zenon DEF Next
<1> QED BY <1>1, <1>2, PTL DEF Spec

\* Both conversions agree with the calendar on every day the walk can reach,
\* however far it goes (time.rs:209-231).
THEOREM CalendarCorrect == Spec => []CivilAgrees
<1>1. WalkInv => CivilAgrees
  BY CivilInverts, Zenon DEF WalkInv, CivilAgrees
<1> QED BY <1>1, WalkStays, PTL

-----------------------------------------------------------------------------
\* The UTC date of an instant that a text of date c can name.
DateIn(c, k) ==
  IF k = -1 THEN DateBefore(c) ELSE IF k = 1 THEN DateAfter(c) ELSE c

\* k is the day, counted from its own, that a text's zone pushes it into, and
\* r is the clock time there.
IsShifted(s, k, r) ==
  /\ k \in {-1, 0, 1} /\ r \in ClockTime
  /\ s \div SecondsPerDay = k /\ s % SecondsPerDay = r
  /\ k = -1 <=> s < 0
  /\ k = 1 <=> s >= SecondsPerDay

\* A zone pushes a clock time by at most a day, either way.
LEMMA ZoneShifts ==
  ASSUME NEW sec \in ClockTime, NEW off \in Zone
  PROVE  /\ sec \in Int /\ off \in Int
         /\ \E k, r \in Int : IsShifted(sec - off, k, r)
<1>1. PICK D \in Int : D = SecondsPerDay /\ D > 60
  BY SMT DEF SecondsPerDay
<1>2. sec \in Int /\ sec >= 0 /\ sec < D
  BY <1>1, SMT DEF ClockTime
<1>3. off \in Int /\ off >= -(D - 60) /\ off <= D - 60
  BY <1>1, SMT DEF Zone
<1>4. PICK s \in Int : s = sec - off /\ s > 0 - D /\ s < 2 * D
  BY <1>1, <1>2, <1>3, SMT
<1>5. ClockTime = 0..(D - 1)
  BY <1>1, Zenon DEF ClockTime
<1>6. CASE s < 0
  <2>1. s \div SecondsPerDay = -1 /\ s % SecondsPerDay = s + D
    BY <1>1, <1>4, <1>6, Z3 DEF SecondsPerDay
  <2>2. s + D \in 0..(D - 1) /\ ~(s >= D) /\ -1 # 1 /\ s + D \in Int /\ -1 \in Int
    BY <1>1, <1>4, <1>6, SMT
  <2>3. IsShifted(s, -1, s + D)
    BY <1>1, <1>5, <1>6, <2>1, <2>2, SMT DEF IsShifted
  <2> QED BY <1>2, <1>3, <1>4, <2>2, <2>3, Zenon
<1>7. CASE ~(s < 0) /\ ~(s >= D)
  <2>1. s \div SecondsPerDay = 0 /\ s % SecondsPerDay = s
    BY <1>1, <1>4, <1>7, Z3 DEF SecondsPerDay
  <2>2. s \in 0..(D - 1) /\ 0 \in Int
    BY <1>1, <1>4, <1>7, SMT
  <2>3. IsShifted(s, 0, s)
    BY <1>1, <1>5, <1>7, <2>1, <2>2, SMT DEF IsShifted
  <2> QED BY <1>2, <1>3, <1>4, <2>2, <2>3, Zenon
<1>8. CASE s >= D
  <2>1. s \div SecondsPerDay = 1 /\ s % SecondsPerDay = s - D
    BY <1>1, <1>4, <1>8, Z3 DEF SecondsPerDay
  <2>2. s - D \in 0..(D - 1) /\ ~(s < 0) /\ 1 # -1 /\ s - D \in Int /\ 1 \in Int
    BY <1>1, <1>4, <1>8, SMT
  <2>3. IsShifted(s, 1, s - D)
    BY <1>1, <1>5, <1>8, <2>1, <2>2, SMT DEF IsShifted
  <2> QED BY <1>2, <1>3, <1>4, <2>2, <2>3, Zenon
<1> QED BY <1>6, <1>7, <1>8, Zenon

\* The days around a date are the days of the dates around it.
LEMMA DayIn ==
  ASSUME NEW c, NEW n, IsDay(c, n), NEW k \in {-1, 0, 1}
  PROVE  IsDay(DateIn(c, k), n + k)
<1>1. n \in Int
  BY Zenon DEF IsDay
<1>2. CASE k = -1
  <2>1. IsDay(DateBefore(c), n - 1)
    BY DayBefore, Zenon
  <2>2. n - 1 = n + k
    BY <1>1, <1>2, SMT
  <2> QED BY <1>2, <2>1, <2>2, Zenon DEF DateIn
<1>3. CASE k = 0
  <2>1. n + k = n /\ DateIn(c, k) = c
    BY <1>1, <1>3, SMT DEF DateIn
  <2> QED BY <2>1, Zenon
<1>4. CASE k = 1
  <2>1. IsDay(DateAfter(c), n + 1)
    BY DayAfter, Zenon
  <2>2. DateIn(c, k) = DateAfter(c)
    BY <1>4, SMT DEF DateIn
  <2> QED BY <1>4, <2>1, <2>2, Zenon
<1> QED BY <1>2, <1>3, <1>4, Zenon

\* The years the syntax can hold, and the date they end with.
Years == 0..9999
LastDate == [y |-> 9999, m |-> 12, d |-> 31]

\* All of the years the syntax holds have one before them but the first,
LEMMA YearBefore ==
  ASSUME NEW y \in Years
  PROVE  y \in Int /\ (y - 1 \in Years <=> y # 0)
<1>1. y \in Int /\ y >= 0 /\ y <= 9999
  BY SMT DEF Years
<1>2. CASE y = 0
  <2>1. ~(y - 1 >= 0)
    BY <1>2, SMT
  <2>2. y - 1 \in Years => y - 1 >= 0
    BY <1>1, SMT DEF Years
  <2> QED BY <1>1, <1>2, <2>1, <2>2, SMT
<1>3. CASE y # 0
  <2>1. y - 1 \in Int /\ 0 <= y - 1 /\ y - 1 <= 9999
    BY <1>1, <1>3, SMT
  <2>2. y - 1 \in Years
    BY <2>1, SMT DEF Years
  <2> QED BY <1>1, <1>3, <2>2, SMT
<1> QED BY <1>2, <1>3, SMT

\* and one after them but the last.
LEMMA YearAfter ==
  ASSUME NEW y \in Years
  PROVE  y + 1 \in Years <=> y # 9999
<1>1. y \in Int /\ y >= 0 /\ y <= 9999
  BY SMT DEF Years
<1>2. y + 1 \in Years => y + 1 <= 9999
  BY <1>1, SMT DEF Years
<1>3. y # 9999 => y + 1 \in Int /\ 0 <= y + 1 /\ y + 1 <= 9999
  BY <1>1, SMT
<1>4. y # 9999 => y + 1 \in Years
  BY <1>3, SMT DEF Years
<1> QED BY <1>1, <1>2, <1>4, SMT

\* What Written asks of a text, field by field.
LEMMA WrittenFields ==
  ASSUME NEW t
  PROVE  Written(t) <=>
           /\ t.y \in Years /\ t.m \in 1..12
           /\ t.d >= 1 /\ t.d <= days_in_month(t.y, t.m)
           /\ t.sec \in ClockTime /\ t.off \in Zone
BY SMT DEF Written, Years

\* Of the dates around one of the years 0 to 9999, the day before 0000-01-01
\* and the day after 9999-12-31 are the only ones in another year than those.
LEMMA YearIn ==
  ASSUME NEW c \in Date, c.y \in Years, NEW k \in {-1, 0, 1}
  PROVE  DateIn(c, k).y \in Years <=>
           ~ \/ c = NewYear(0) /\ k = -1
             \/ c = LastDate /\ k = 1
<1>1. PICK y \in Int, m \in 1..12, d \in 1..31 :
        c = [y |-> y, m |-> m, d |-> d] /\ d <= days_in_month(y, m)
  BY Zenon DEF Date
<1>2. y \in Years
  BY <1>1, SMT
<1>3. MonthLength(y, m) = days_in_month(y, m)
  BY MonthLengthAgrees, SMT
<1>4. CASE k = -1
  <2>1. DateIn(c, k).y = IF d = 1 /\ m = 1 THEN y - 1 ELSE y
    BY <1>1, <1>4, SMT DEF DateIn, DateBefore
  <2>2. c = NewYear(0) <=> y = 0 /\ m = 1 /\ d = 1
    BY <1>1, SMT DEF NewYear
  <2>3. y - 1 \in Years <=> y # 0
    BY <1>2, YearBefore, Zenon
  <2>4. k # 1
    BY <1>4, SMT
  <2> QED BY <1>2, <1>4, <2>1, <2>2, <2>3, <2>4, Zenon
<1>5. CASE k = 0
  <2>1. k # 1 /\ k # -1 /\ DateIn(c, k).y = y
    BY <1>1, <1>5, SMT DEF DateIn
  <2> QED BY <1>2, <2>1, Zenon
<1>6. CASE k = 1
  <2>1. m = 12 => days_in_month(y, m) = 31
    BY SMT DEF days_in_month
  <2>2. DateIn(c, k).y = IF d = 31 /\ m = 12 THEN y + 1 ELSE y
    BY <1>1, <1>3, <1>6, <2>1, SMT DEF DateIn, DateAfter, NewYear
  <2>3. c = LastDate <=> y = 9999 /\ m = 12 /\ d = 31
    BY <1>1, SMT DEF LastDate
  <2>4. y + 1 \in Years <=> y # 9999
    BY <1>2, YearAfter, SMT
  <2>5. k # -1
    BY <1>6, SMT
  <2> QED BY <1>2, <1>6, <2>2, <2>3, <2>4, <2>5, SMT
<1> QED BY <1>4, <1>5, <1>6, SMT

\* A text in UTC is read as the day of its date and its own clock time.
LEMMA ReadInUtc ==
  ASSUME NEW e, NEW n, IsDay(e, n), NEW r \in ClockTime
  PROVE  Parse(Display(<<n, r>>)) =
           IF e.y \in Years THEN <<n, r>> ELSE Refused
<1>1. PICK y \in Int, m \in 1..12, d \in 1..31 :
        e = [y |-> y, m |-> m, d |-> d] /\ d <= days_in_month(y, m)
  BY Zenon DEF IsDay, Date
<1>2. n \in Int /\ days_from_civil(y, m, d) = n
  BY <1>1, SMT DEF IsDay
<1>3. civil_from_days(n) = e
  BY CivilInverts, Zenon DEF IsDay
<1>4. Display(<<n, r>>) = [y |-> y, m |-> m, d |-> d, sec |-> r, off |-> 0]
  BY <1>1, <1>3, SMT DEF Display
<1>5. PICK u : u = [y |-> y, m |-> m, d |-> d, sec |-> r, off |-> 0]
  BY Zenon
<1>6. PICK D \in Int : D = SecondsPerDay /\ D > 60
  BY SMT DEF SecondsPerDay
<1>7. r \in Int /\ r >= 0 /\ r < D /\ r - 0 = r
  BY <1>6, SMT DEF ClockTime
<1>8. r \div SecondsPerDay = 0 /\ r % SecondsPerDay = r
  BY <1>6, <1>7, Z3 DEF SecondsPerDay
<1>9. u.y = y /\ u.m = m /\ u.d = d /\ u.sec = r /\ u.off = 0
  BY <1>5, SMT
<1>10. Written(u) <=> y \in Years
  <2>1. 0 \in Zone
    BY <1>6, SMT DEF Zone
  <2>2. d >= 1
    BY SMT
  <2> QED BY <1>1, <1>9, <2>1, <2>2, WrittenFields, Zenon
<1>11. Written(u) => Parse(u) = <<n, r>>
  <2>1. u.sec - u.off = r
    BY <1>7, <1>9, SMT
  <2>2. Written(u) => Parse(u) = <<n + 0, r>>
    BY <1>2, <1>8, <1>9, <2>1, Zenon DEF Parse
  <2> QED BY <1>2, <2>2, SMT
<1>12. ~Written(u) => Parse(u) = Refused
  BY Zenon DEF Parse
<1>13. e.y = y
  BY <1>1, SMT
<1> QED BY <1>4, <1>5, <1>10, <1>11, <1>12, <1>13, Zenon

\* An instant the parser takes is printed as a text that it reads back as the
\* same instant, on every date, at every clock time and in every zone: "the
\* journal replays losslessly" (store.rs:2), but for the two days at the ends
\* of the calendar that a zone pushes over them (time.rs:69-168).
THEOREM TextsReadBack == Spec => []ReadsBackExactly
<1>1. WalkInv => ReadsBackExactly
  <2>1. SUFFICES ASSUME WalkInv, NEW sec \in Seconds, NEW off \in Offsets,
                        Parse(Text(sec, off)) # Refused
                 PROVE  Parse(Display(Parse(Text(sec, off)))) =
                          IF LeavesCalendar(sec, off) THEN Refused
                          ELSE Parse(Text(sec, off))
    BY Zenon DEF ReadsBackExactly
  <2>2. sec \in ClockTime /\ off \in Zone
    BY CalendarAssumption, Zenon
  <2>3. PICK k \in Int, r \in Int : IsShifted(sec - off, k, r)
    BY <2>2, ZoneShifts, Zenon
  <2>4. k \in {-1, 0, 1} /\ r \in ClockTime
    BY <2>3, Zenon DEF IsShifted
  <2>5. IsDay(date, day)
    BY <2>1, Zenon DEF WalkInv, IsDay
  <2>6. IsDay(DateIn(date, k), day + k)
    BY <2>4, <2>5, DayIn, Zenon
  <2>7. Written(Text(sec, off))
    BY <2>1, Zenon DEF Parse
  <2>8. date.y \in Years
    <3>1. Text(sec, off).y = date.y
      BY Zenon DEF Text
    <3> QED BY <2>7, <3>1, WrittenFields, Zenon
  <2>9. Parse(Text(sec, off)) = <<day + k, r>>
    <3>1. /\ Text(sec, off).y = date.y /\ Text(sec, off).m = date.m
          /\ Text(sec, off).d = date.d
          /\ Text(sec, off).sec = sec /\ Text(sec, off).off = off
      BY Zenon DEF Text
    <3>2. (sec - off) \div SecondsPerDay = k /\ (sec - off) % SecondsPerDay = r
      BY <2>3, Zenon DEF IsShifted
    <3>3. days_from_civil(date.y, date.m, date.d) = day
      BY <2>5, Zenon DEF IsDay
    <3> QED BY <2>7, <3>1, <3>2, <3>3, Zenon DEF Parse
  <2>10. Parse(Display(<<day + k, r>>)) =
           IF DateIn(date, k).y \in Years THEN <<day + k, r>> ELSE Refused
    BY <2>4, <2>6, ReadInUtc, Zenon
  <2>11. date \in Date
    BY <2>5, Zenon DEF IsDay
  <2>12. DateIn(date, k).y \in Years <=>
           ~ \/ date = NewYear(0) /\ k = -1
             \/ date = LastDate /\ k = 1
    BY <2>4, <2>8, <2>11, YearIn, Zenon
  <2>13. k = -1 <=> sec < off
    <3>1. sec \in Int /\ off \in Int
      BY <2>2, ZoneShifts, Zenon
    <3>2. k = -1 <=> sec - off < 0
      BY <2>3, Zenon DEF IsShifted
    <3> QED BY <3>1, <3>2, SMT
  <2>14. k = 1 <=> sec - off >= SecondsPerDay
    BY <2>3, Zenon DEF IsShifted
  <2>15. LeavesCalendar(sec, off) <=> ~(DateIn(date, k).y \in Years)
    BY <2>12, <2>13, <2>14, SMT DEF LeavesCalendar, LastDate
  <2> QED BY <2>9, <2>10, <2>15, Zenon
<1> QED BY <1>1, WalkStays, PTL
=============================================================================
