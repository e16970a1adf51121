-------------------------- MODULE LiteralsProofs --------------------------
(***************************************************************************)
(* Proofs about Literals, for all integers and times of any year, zone and *)
(* number of digits: each engine's order is that of numbers and instants.  *)
(*                                                                         *)
(* The argument.  _days_from_civil is the days of the years before and the *)
(* day of the year (EraByEra to DaysByMonth), so a later date has a larger *)
(* number and the next day the next one (LaterIsLarger, NextIsOneMore),    *)
(* and the seconds are those of the UTC date and second of the day         *)
(* (UtcTellsSeconds); digits padded to one length differ where the shorter *)
(* fraction's missing ones count as 0 (DigitsTellOrder); and the ports     *)
(* parse and count as the reference does (EnginesParseAlike).              *)
(***************************************************************************)
EXTENDS Literals, FiniteSetTheorems, SequenceTheorems, TLAPS

\* The days of the years 1 to y; the number of the first of January 1970 where
\* that of the year 1 is 1; the leap days of a year; and the days of a year
\* before a month of it, but for a leap day.
DaysThrough(y) == 365 * y + y \div 4 - y \div 100 + y \div 400
Epoch == 719163
Leaps(y) == IF IsLeap(y) THEN 1 ELSE 0
MonthStart(m) == <<0, 31, 59, 90, 120, 151, 181, 212, 243, 273, 304, 334>>[m]

\* Gregorian years go round in 400.
EraOf(y) == y \div 400
YearOfEra(y) == y - EraOf(y) * 400

\* A non-empty set of naturals has its Min among its elements: of the finite
\* sets 0..n for n in it, one is minimal.
LEMMA LeastExists ==
    ASSUME NEW S \in SUBSET Nat, S # {}
    PROVE  \E m \in S : \A j \in S : m <= j
<1> DEFINE T == {1 .. n : n \in S}
           R == StrictSubsetOrdering(Nat)
<1>1. T \subseteq FiniteSubsetsOf(Nat)
  BY FS_Interval DEF FiniteSubsetsOf
<1>2. PICK x \in T : \A y \in T : ~(<<y, x>> \in R)
  <2>1. IsWellFoundedOn(R, FiniteSubsetsOf(Nat))
    BY FS_StrictSubsetOrderingWellFounded
  <2>2. T # {}
    OBVIOUS
  <2> HIDE DEF R, T
  <2> QED
    BY <1>1, <2>1, <2>2, WFMin
<1>3. PICK m \in S : x = 1 .. m
  OBVIOUS
<1>4. ASSUME NEW j \in S, j < m PROVE FALSE
  <2>1. m \in 1 .. m /\ m \notin 1 .. j
    BY <1>4
  <2>2. 1 .. j \subseteq 1 .. m
    BY <1>4
  <2>3. <<1 .. j, x>> \in R
    BY <1>3, <2>1, <2>2 DEF StrictSubsetOrdering
  <2> QED
    BY <1>2, <2>3
<1> QED
  BY <1>4

\* Counted in eras of 400 years, the days of the years are the same.
LEMMA EraByEra ==
    ASSUME NEW y \in Int
    PROVE  EraOf(y) * 146097 + YearOfEra(y) * 365 + YearOfEra(y) \div 4 - YearOfEra(y) \div 100
               = DaysThrough(y)
<1>1. PICK e \in Int, r \in 0 .. 399 : y = 400 * e + r
  <2>1. y \div 400 \in Int /\ y - 400 * (y \div 400) \in 0 .. 399
    OBVIOUS
  <2> QED
    BY <2>1
<1>2. y \div 400 = e /\ y - e * 400 = r
  BY <1>1
<1>3. y \div 4 = 100 * e + r \div 4 /\ y \div 100 = 4 * e + r \div 100
  BY <1>1
<1>4. r \div 4 \in Int /\ r \div 100 \in Int
  BY <1>1
<1> QED
  BY <1>1, <1>2, <1>3, <1>4 DEF DaysThrough, EraOf, YearOfEra

\* A year has 365 days, or 366 with a leap day.
LEMMA YearByYear ==
    ASSUME NEW y \in Int
    PROVE  DaysThrough(y) = DaysThrough(y - 1) + 365 + Leaps(y)
<1>1. y \div 4 = (y - 1) \div 4 + (IF y % 4 = 0 THEN 1 ELSE 0)
  OBVIOUS
<1>2. y \div 100 = (y - 1) \div 100 + (IF y % 100 = 0 THEN 1 ELSE 0)
  OBVIOUS
<1>3. y \div 400 = (y - 1) \div 400 + (IF y % 400 = 0 THEN 1 ELSE 0)
  OBVIOUS
<1>4. (y % 400 = 0 => y % 100 = 0) /\ (y % 100 = 0 => y % 4 = 0)
  OBVIOUS
<1>5. /\ (y - 1) \div 4 \in Int /\ (y - 1) \div 100 \in Int /\ (y - 1) \div 400 \in Int
      /\ y % 4 \in Int /\ y % 100 \in Int /\ y % 400 \in Int
  OBVIOUS
<1> QED
  BY <1>1, <1>2, <1>3, <1>4, <1>5 DEF DaysThrough, Leaps, IsLeap

\* _days_from_civil counts the days of the years, the months and the month.
LEMMA DaysByMonth ==
    ASSUME NEW y \in Int, NEW m \in 1 .. 12, NEW d \in Int
    PROVE  DaysFromCivil(y, m, d)
               = DaysThrough(y - 1) + MonthStart(m) + (IF m > 2 THEN Leaps(y) ELSE 0) + d - Epoch
<1>1. DaysThrough(y) = DaysThrough(y - 1) + 365 + Leaps(y)
  BY YearByYear
<1>2. DaysThrough(y) \in Int /\ DaysThrough(y - 1) \in Int /\ Leaps(y) \in Int
  BY DEF DaysThrough, Leaps
<1>3. (153 * (m + (IF m > 2 THEN -3 ELSE 9)) + 2) \div 5
          = IF m > 2 THEN MonthStart(m) - 59 ELSE MonthStart(m) + 306
  <2>1. m \in {1,2,3,4,5,6,7,8,9,10,11,12}
    OBVIOUS
  <2> QED
    BY <2>1 DEF MonthStart
<1>4. MonthStart(m) \in Int
  BY DEF MonthStart
<1> DEFINE year == IF m <= 2 THEN y - 1 ELSE y
           era == EraOf(year)
           yoe == YearOfEra(year)
           day == (153 * (m + (IF m > 2 THEN -3 ELSE 9)) + 2) \div 5
<1>5. DaysFromCivil(y, m, d)
          = era * 146097 + (yoe * 365 + yoe \div 4 - yoe \div 100 + (day + d - 1)) - 719468
  BY DEF DaysFromCivil, EraOf, YearOfEra
<1>6. year \in Int /\ day = IF m > 2 THEN MonthStart(m) - 59 ELSE MonthStart(m) + 306
  BY <1>3
<1>7. era * 146097 + yoe * 365 + yoe \div 4 - yoe \div 100 = DaysThrough(year)
  BY <1>6, EraByEra
<1>8. era \in Int /\ yoe \in Int /\ yoe \div 4 \in Int /\ yoe \div 100 \in Int /\ day \in Int
  BY <1>4, <1>6 DEF EraOf, YearOfEra
<1>9. DaysThrough(year) = IF m > 2 THEN DaysThrough(y) ELSE DaysThrough(y - 1)
  OBVIOUS
<1> HIDE DEF year, era, yoe, day
<1>10. DaysFromCivil(y, m, d) = DaysThrough(year) + day + d - 719469
  <2>1. DaysThrough(year) \in Int
    BY <1>2, <1>9
  <2> QED
    BY <1>5, <1>7, <1>8, <2>1
<1> QED
  BY <1>1, <1>2, <1>4, <1>6, <1>9, <1>10, SMT DEF Epoch

\* A date of the calendar, and which day of its year it is.
IsDate(y, m, d) == y \in Int /\ m \in 1 .. 12 /\ d \in 1 .. LengthOf(y, m)
DayOfYear(y, m, d) == MonthStart(m) + (IF m > 2 THEN Leaps(y) ELSE 0) + d

\* A month begins where the one before it ends, and December ends the year.
LEMMA MonthByMonth ==
    ASSUME NEW y \in Int, NEW m \in 1 .. 12
    PROVE  /\ LengthOf(y, m) \in 28 .. 31
           /\ m < 12 => DayOfYear(y, m, LengthOf(y, m)) = DayOfYear(y, m + 1, 0)
           /\ m = 12 => DayOfYear(y, m, LengthOf(y, m)) = 365 + Leaps(y)
           /\ DayOfYear(y, 1, 0) = 0
<1>1. m \in {1,2,3,4,5,6,7,8,9,10,11,12}
  OBVIOUS
<1> QED
  BY <1>1 DEF DayOfYear, MonthStart, LengthOf, Leaps

\* A date is one of the days of its year.
LEMMA WithinTheYear ==
    ASSUME NEW y, NEW m, NEW d, IsDate(y, m, d)
    PROVE  /\ DayOfYear(y, m, d) \in 1 .. 365 + Leaps(y)
           /\ MonthStart(m) \in Nat /\ Leaps(y) \in 0 .. 1 /\ LengthOf(y, m) \in 28 .. 31
<1>1. m \in {1,2,3,4,5,6,7,8,9,10,11,12}
  BY DEF IsDate
<1> QED
  BY <1>1 DEF IsDate, DayOfYear, MonthStart, LengthOf, Leaps

\* In one year a later date is a later day.
LEMMA InOneYear ==
    ASSUME NEW y, NEW m, NEW d, NEW n, NEW e, IsDate(y, m, d), IsDate(y, n, e),
           m < n \/ (m = n /\ d < e)
    PROVE  DayOfYear(y, m, d) < DayOfYear(y, n, e)
<1>1. m \in {1,2,3,4,5,6,7,8,9,10,11,12} /\ n \in {1,2,3,4,5,6,7,8,9,10,11,12}
  BY DEF IsDate
<1> QED
  BY <1>1 DEF IsDate, DayOfYear, MonthStart, LengthOf, Leaps

\* A later year ends later.
LEMMA YearsGrow ==
    ASSUME NEW y \in Int, NEW z \in Int, y <= z
    PROVE  DaysThrough(y) <= DaysThrough(z) /\ DaysThrough(y) \in Int /\ DaysThrough(z) \in Int
<1>1. y \div 400 <= z \div 400
  OBVIOUS
<1>2. y \div 4 - y \div 100 <= z \div 4 - z \div 100
  <2>1. PICK q \in Int, r \in 0 .. 99 : y = 100 * q + r
    <3>1. y \div 100 \in Int /\ y - 100 * (y \div 100) \in 0 .. 99
      OBVIOUS
    <3> QED
      BY <3>1
  <2>2. PICK p \in Int, s \in 0 .. 99 : z = 100 * p + s
    <3>1. z \div 100 \in Int /\ z - 100 * (z \div 100) \in 0 .. 99
      OBVIOUS
    <3> QED
      BY <3>1
  <2>3. y \div 100 = q /\ z \div 100 = p /\ y \div 4 = 25 * q + r \div 4 /\ z \div 4 = 25 * p + s \div 4
    BY <2>1, <2>2
  <2>4. r \div 4 \in 0 .. 24 /\ s \div 4 \in 0 .. 24 /\ (r <= s => r \div 4 <= s \div 4)
    OBVIOUS
  <2>5. q < p \/ (q = p /\ r <= s)
    BY <2>1, <2>2
  <2> QED
    BY <2>3, <2>4, <2>5
<1>3. y \div 400 \in Int /\ y \div 4 \in Int /\ y \div 100 \in Int /\
      z \div 400 \in Int /\ z \div 4 \in Int /\ z \div 100 \in Int
  OBVIOUS
<1> QED
  BY <1>1, <1>2, <1>3 DEF DaysThrough

\* _days_from_civil counts the days before the year and those in it.
LEMMA DaysByYear ==
    ASSUME NEW y, NEW m, NEW d, IsDate(y, m, d)
    PROVE  /\ DaysFromCivil(y, m, d) = DaysThrough(y - 1) + DayOfYear(y, m, d) - Epoch
           /\ DaysFromCivil(y, m, d) \in Int /\ DaysThrough(y - 1) \in Int /\ Epoch \in Int
<1>1. y \in Int /\ m \in 1 .. 12 /\ d \in Int
  BY WithinTheYear DEF IsDate
<1>2. MonthStart(m) \in Nat /\ Leaps(y) \in 0 .. 1 /\ DaysThrough(y - 1) \in Int
  BY <1>1, WithinTheYear DEF DaysThrough
<1>3. Epoch \in Int
  BY SMT DEF Epoch
<1>4. DaysFromCivil(y, m, d)
          = DaysThrough(y - 1) + MonthStart(m) + (IF m > 2 THEN Leaps(y) ELSE 0) + d - Epoch
  BY <1>1, DaysByMonth
<1> QED
  BY <1>1, <1>2, <1>3, <1>4 DEF DayOfYear

\* A later date has a larger number.
LEMMA LaterIsLarger ==
    ASSUME NEW y, NEW m, NEW d, IsDate(y, m, d), NEW z, NEW n, NEW e, IsDate(z, n, e),
           y < z \/ (y = z /\ (m < n \/ (m = n /\ d < e)))
    PROVE  DaysFromCivil(y, m, d) < DaysFromCivil(z, n, e)
<1>1. CASE y < z
  <2>1. y \in Int /\ z \in Int /\ y <= z - 1
    BY <1>1 DEF IsDate
  <2>2. DaysThrough(y) <= DaysThrough(z - 1) /\ DaysThrough(y) \in Int
    BY <2>1, YearsGrow
  <2>3. DaysThrough(y) = DaysThrough(y - 1) + 365 + Leaps(y)
    BY <2>1, YearByYear
  <2>4. DayOfYear(y, m, d) \in 1 .. 365 + Leaps(y) /\ DayOfYear(z, n, e) \in 1 .. 365 + Leaps(z)
        /\ Leaps(y) \in Int /\ Leaps(z) \in Int
    BY WithinTheYear
  <2> QED
    BY <2>2, <2>3, <2>4, DaysByYear
<1>2. CASE y = z
  <2>1. DayOfYear(y, m, d) < DayOfYear(z, n, e)
    BY <1>2, InOneYear DEF IsDate
  <2>2. DayOfYear(y, m, d) \in Int /\ DayOfYear(z, n, e) \in Int
    BY WithinTheYear
  <2> QED
    BY <1>2, <2>1, <2>2, DaysByYear
<1> QED
  BY <1>1, <1>2 DEF IsDate

\* The day after a date has the next number.
LEMMA NextIsOneMore ==
    ASSUME NEW y, NEW m, NEW d, IsDate(y, m, d)
    PROVE  \E z, n, e : /\ NextDay(<<y, m, d>>) = <<z, n, e>> /\ IsDate(z, n, e)
                        /\ DaysFromCivil(z, n, e) = DaysFromCivil(y, m, d) + 1
<1>0. y \in Int /\ m \in 1 .. 12 /\ d \in Int /\ LengthOf(y, m) \in Int
  BY WithinTheYear DEF IsDate
<1>1. CASE d < LengthOf(y, m)
  <2>1. NextDay(<<y, m, d>>) = <<y, m, d + 1>>
    BY <1>1 DEF NextDay
  <2>2. IsDate(y, m, d + 1)
    BY <1>0, <1>1 DEF IsDate
  <2>3. DaysFromCivil(y, m, d + 1) = DaysFromCivil(y, m, d) + 1
    BY <1>0, <2>2, DaysByYear, WithinTheYear DEF DayOfYear
  <2> QED
    BY <2>1, <2>2, <2>3
<1>2. CASE d = LengthOf(y, m) /\ m < 12
  <2>1. NextDay(<<y, m, d>>) = <<y, m + 1, 1>>
    BY <1>2, <1>0 DEF NextDay
  <2>2. IsDate(y, m + 1, 1)
    <3>1. m + 1 \in 1 .. 12
      BY <1>0, <1>2
    <3> QED
      BY <1>0, <3>1, MonthByMonth DEF IsDate
  <2>3. DayOfYear(y, m, d) = DayOfYear(y, m + 1, 0)
    BY <1>0, <1>2, MonthByMonth
  <2>4. DayOfYear(y, m + 1, 1) = DayOfYear(y, m + 1, 0) + 1
    BY <2>2, WithinTheYear DEF DayOfYear
  <2>5. DayOfYear(y, m, d) \in Int
    BY WithinTheYear
  <2> QED
    BY <2>1, <2>2, <2>3, <2>4, <2>5, DaysByYear
<1>3. CASE d = LengthOf(y, m) /\ m = 12
  <2>1. NextDay(<<y, m, d>>) = <<y + 1, 1, 1>>
    BY <1>3, <1>0 DEF NextDay
  <2>2. IsDate(y + 1, 1, 1)
    BY <1>0, MonthByMonth DEF IsDate
  <2>3. DayOfYear(y, m, d) = 365 + Leaps(y)
    BY <1>0, <1>3, MonthByMonth
  <2>4. DayOfYear(y + 1, 1, 1) = 1
    BY <1>0 DEF DayOfYear, MonthStart
  <2>5. DaysThrough(y) = DaysThrough(y - 1) + 365 + Leaps(y) /\ (y + 1) - 1 = y
    BY <1>0, YearByYear
  <2>6. Leaps(y) \in Int
    BY DEF Leaps
  <2> QED
    BY <2>1, <2>2, <2>3, <2>4, <2>5, <2>6, DaysByYear
<1> QED
  BY <1>0, <1>1, <1>2, <1>3 DEF IsDate

\* The day before a date has the number before.
LEMMA PreviousIsOneLess ==
    ASSUME NEW y, NEW m, NEW d, IsDate(y, m, d)
    PROVE  \E z, n, e : /\ PreviousDay(<<y, m, d>>) = <<z, n, e>> /\ IsDate(z, n, e)
                        /\ DaysFromCivil(z, n, e) = DaysFromCivil(y, m, d) - 1
<1>0. y \in Int /\ m \in 1 .. 12 /\ d \in Int /\ LengthOf(y, m) \in Int
  BY WithinTheYear DEF IsDate
<1>1. CASE d > 1
  <2>1. PreviousDay(<<y, m, d>>) = <<y, m, d - 1>>
    BY <1>1 DEF PreviousDay
  <2>2. IsDate(y, m, d - 1)
    BY <1>0, <1>1 DEF IsDate
  <2>3. DaysFromCivil(y, m, d - 1) = DaysFromCivil(y, m, d) - 1
    BY <1>0, <2>2, DaysByYear, WithinTheYear DEF DayOfYear
  <2> QED
    BY <2>1, <2>2, <2>3
<1>2. CASE d = 1 /\ m > 1
  <2>0. m - 1 \in 1 .. 12 /\ m - 1 < 12 /\ (m - 1) + 1 = m
    BY <1>0, <1>2
  <2>1. PreviousDay(<<y, m, d>>) = <<y, m - 1, LengthOf(y, m - 1)>>
    BY <1>2, <1>0 DEF PreviousDay
  <2>2. IsDate(y, m - 1, LengthOf(y, m - 1))
    BY <1>0, <2>0, MonthByMonth DEF IsDate
  <2>3. DayOfYear(y, m - 1, LengthOf(y, m - 1)) = DayOfYear(y, m, 0)
    BY <1>0, <2>0, MonthByMonth
  <2>4. DayOfYear(y, m, 1) = DayOfYear(y, m, 0) + 1
    BY WithinTheYear DEF DayOfYear
  <2>5. DayOfYear(y, m, 0) \in Int
    BY WithinTheYear DEF DayOfYear
  <2> QED
    BY <1>2, <2>1, <2>2, <2>3, <2>4, <2>5, DaysByYear
<1>3. CASE d = 1 /\ m = 1
  <2>1. PreviousDay(<<y, m, d>>) = <<y - 1, 12, 31>>
    BY <1>3, <1>0 DEF PreviousDay
  <2>2. IsDate(y - 1, 12, 31) /\ LengthOf(y - 1, 12) = 31
    BY <1>0 DEF IsDate, LengthOf
  <2>3. DayOfYear(y - 1, 12, 31) = 365 + Leaps(y - 1)
    BY <1>0, <2>2, MonthByMonth
  <2>4. DayOfYear(y, m, d) = 1
    BY <1>0, <1>3 DEF DayOfYear, MonthStart
  <2>5. DaysThrough(y - 1) = DaysThrough((y - 1) - 1) + 365 + Leaps(y - 1)
    BY <1>0, YearByYear
  <2>6. Leaps(y - 1) \in Int
    BY DEF Leaps
  <2> QED
    BY <2>1, <2>2, <2>3, <2>4, <2>5, <2>6, DaysByYear
<1> QED
  BY <1>0, <1>1, <1>2, <1>3 DEF IsDate

\* What the groups of the pattern hold.
LEMMA TimeFields ==
    ASSUME NEW l \in LiteralType, l.kind = "dateTime"
    PROVE  /\ l.year \in Int /\ l.month \in Nat /\ l.day \in Nat /\ l.hour \in Nat
           /\ l.minute \in Nat /\ l.second \in Nat /\ l.zone[2] \in Nat /\ l.zone[3] \in Nat
           /\ l.fraction \in Seq(0 .. 9)
           /\ l.zone[1] \in {"none", "Z"} \/ l.zone[1] \in {"+", "-"}
           /\ l.zone[1] \in {"none", "Z"} => l.zone[2] = 0 /\ l.zone[3] = 0
<1>1. l \in [kind : {"dateTime"}, year : Nat, month : 0..99, day : 0..99,
             hour : 0..99, minute : 0..99, second : 0..99, fraction : Seq(0..9),
             zone : ZoneType]
  BY DEF LiteralType
<1>2. l.fraction \in Seq(0 .. 9) /\ l.zone \in ZoneType
  BY <1>1
<1>4. l.year \in Int
  BY <1>1
<1>5. l.month \in Nat /\ l.day \in Nat /\ l.hour \in Nat /\ l.minute \in Nat /\ l.second \in Nat
  <2>1. /\ l.month \in 0 .. 99 /\ l.day \in 0 .. 99 /\ l.hour \in 0 .. 99
        /\ l.minute \in 0 .. 99 /\ l.second \in 0 .. 99
    BY <1>1
  <2> QED
    BY <2>1
<1>3. /\ l.zone[1] \in {"none", "Z"} \/ l.zone[1] \in {"+", "-"}
      /\ l.zone[1] \in {"none", "Z"} => l.zone[2] = 0 /\ l.zone[3] = 0
      /\ l.zone[2] \in 0 .. 99 /\ l.zone[3] \in 0 .. 99
  <2>1. CASE l.zone \in {"none", "Z"} \X {0} \X {0}
    BY <2>1
  <2>2. CASE l.zone \in {"+", "-"} \X (0 .. 99) \X (0 .. 99)
    BY <2>2
  <2> QED
    BY <1>2, <2>1, <2>2 DEF ZoneType
<1>6. l.zone[2] \in Nat /\ l.zone[3] \in Nat
  BY <1>3
<1> QED
  BY <1>2, <1>3, <1>4, <1>5, <1>6

\* Each engine parses the times a clock can show, and no others.
LEMMA HappenedIsDatetime ==
    ASSUME NEW l \in LiteralType
    PROVE  /\ Happened(l) <=> IsDatetime(l)
           /\ Happened(l) <=> tsParses(l)
           /\ Happened(l) <=> javaParses(l)
<1>1. CASE l.kind # "dateTime"
  BY <1>1 DEF Happened, IsDatetime, tsParses, javaParses
<1>2. CASE l.kind = "dateTime"
  <2>1. /\ l.year \in Int /\ l.month \in Int /\ l.day \in Int /\ l.hour \in Int /\ l.minute \in Int
        /\ l.second \in Int /\ l.zone[2] \in Int /\ l.zone[3] \in Int
    BY <1>2, TimeFields
  <2>2. l.month \in 1 .. 12 => LengthOf(l.year, l.month)
            = DaysInMonth[l.month] + (IF IsLeap(l.year) /\ l.month = 2 THEN 1 ELSE 0)
    <3>1. ASSUME l.month \in 1 .. 12
          PROVE l.month \in {1,2,3,4,5,6,7,8,9,10,11,12}
      BY <3>1
    <3> QED
      BY <3>1 DEF LengthOf, DaysInMonth
  <2>3. IsDatetime(l) <=> Happened(l)
    BY <1>2, <2>1, <2>2 DEF Happened, IsDatetime
  <2>4. tsParses(l) <=> Happened(l)
    <3>1. l.month \in 1 .. 12 => LengthOf(l.year, l.month) \in Int
      BY <2>1 DEF LengthOf
    <3> QED
      BY <1>2, <2>1, <2>2, <3>1 DEF Happened, tsParses
  <2> QED
    BY <2>3, <2>4 DEF javaParses
<1> QED
  BY <1>1, <1>2

\* The seconds of an instant are its date and its time of day in UTC, however
\* far ahead or behind the zone is.
LEMMA UtcTellsSeconds ==
    ASSUME NEW l \in LiteralType, Happened(l)
    PROVE  \E y, m, d : \E s \in Nat :
               /\ s < 86400
               /\ InUtc(l) = <<y, m, d, s>> /\ IsDate(y, m, d)
               /\ InstantOf(l).seconds = DaysFromCivil(y, m, d) * 86400 + s
<1> DEFINE Y == l.year  M == l.month  D == l.day
           clock == l.hour * 3600 + l.minute * 60 + l.second
           ahead == l.zone[2] * 3600 + l.zone[3] * 60
           second == IF l.zone[1] = "-" THEN clock + ahead ELSE clock - ahead
<1>1. /\ Y \in Int /\ M \in 1 .. 12 /\ D \in 1 .. LengthOf(Y, M)
      /\ l.hour \in 0 .. 23 /\ l.minute \in 0 .. 59 /\ l.second \in 0 .. 59
      /\ l.zone[2] \in 0 .. 23 /\ l.zone[3] \in 0 .. 59
  <2>1. /\ l.kind = "dateTime" /\ M \in 1 .. 12 /\ D \in 1 .. LengthOf(Y, M)
        /\ l.hour < 24 /\ l.minute < 60 /\ l.second < 60 /\ l.zone[2] < 24 /\ l.zone[3] < 60
    BY DEF Happened
  <2>2. /\ Y \in Int /\ l.hour \in Nat /\ l.minute \in Nat /\ l.second \in Nat
        /\ l.zone[2] \in Nat /\ l.zone[3] \in Nat
    BY <2>1, TimeFields
  <2> QED
    BY <2>1, <2>2
<1>2. IsDate(Y, M, D)
  BY <1>1 DEF IsDate
<1>3. /\ clock \in Nat /\ clock < 86400 /\ ahead \in Nat /\ ahead < 86400
  <2>1. PICK h \in 0 .. 23, k \in 0 .. 59, j \in 0 .. 59, g \in 0 .. 23, i \in 0 .. 59 :
            l.hour = h /\ l.minute = k /\ l.second = j /\ l.zone[2] = g /\ l.zone[3] = i
    BY <1>1
  <2>2. clock = h * 3600 + k * 60 + j /\ ahead = g * 3600 + i * 60
    BY <2>1
  <2>3. /\ h * 3600 + k * 60 + j \in Nat /\ h * 3600 + k * 60 + j < 86400
        /\ g * 3600 + i * 60 \in Nat /\ g * 3600 + i * 60 < 86400
    BY SMT
  <2> QED
    BY <2>2, <2>3
<1>4. clock - Offset(l.zone) = second
  <2>1. /\ l.zone[1] \in {"none", "Z"} \/ l.zone[1] \in {"+", "-"}
        /\ l.zone[1] \in {"none", "Z"} => l.zone[2] = 0 /\ l.zone[3] = 0
    BY TimeFields DEF Happened
  <2> QED
    BY <1>1, <1>3, <2>1, SMT DEF Offset
<1>5. InstantOf(l).seconds = DaysFromCivil(Y, M, D) * 86400 + second
  <2>1. InstantOf(l).seconds
            = DaysFromCivil(Y, M, D) * 86400 + l.hour * 3600 + l.minute * 60 + l.second
              - Offset(l.zone)
    BY SMT DEF InstantOf
  <2>2. DaysFromCivil(Y, M, D) \in Int /\ Offset(l.zone) \in Int
    BY <1>1, <1>2, DaysByYear, SMT DEF Offset
  <2>3. clock = l.hour * 3600 + l.minute * 60 + l.second /\ clock \in Int
    BY <1>3
  <2> DEFINE p == DaysFromCivil(Y, M, D)
             o == Offset(l.zone)
  <2>4. InstantOf(l).seconds = p * 86400 + clock - o
    <3>1. /\ l.hour \in Int /\ l.minute \in Int /\ l.second \in Int
      BY <1>1
    <3> HIDE DEF p, o, Y, M, D
    <3> QED
      BY <2>1, <2>2, <2>3, <3>1, SMT DEF p, o
  <2> HIDE DEF p, o, clock, second
  <2> QED
    BY <1>4, <2>2, <2>3, <2>4, SMT DEF p, o
<1>6. second \in Int /\ -86400 < second /\ second < 172800
  BY <1>3, SMT
<1>7. InUtc(l) =
          IF second < 0
          THEN <<PreviousDay(<<Y, M, D>>)[1], PreviousDay(<<Y, M, D>>)[2],
                 PreviousDay(<<Y, M, D>>)[3], second + 86400>>
          ELSE IF second >= 86400
          THEN <<NextDay(<<Y, M, D>>)[1], NextDay(<<Y, M, D>>)[2],
                 NextDay(<<Y, M, D>>)[3], second - 86400>>
          ELSE <<Y, M, D, second>>
  BY SMT DEF InUtc
<1>8. DaysFromCivil(Y, M, D) \in Int
  BY <1>2, DaysByYear
<1> HIDE DEF Y, M, D, second
<1>9. CASE second < 0
  <2>1. PICK z, n, e : /\ PreviousDay(<<Y, M, D>>) = <<z, n, e>> /\ IsDate(z, n, e)
                       /\ DaysFromCivil(z, n, e) = DaysFromCivil(Y, M, D) - 1
    BY <1>2, PreviousIsOneLess
  <2>2. InUtc(l) = <<z, n, e, second + 86400>>
    BY <1>7, <1>9, <2>1, SMT
  <2>3. second + 86400 \in Nat /\ second + 86400 < 86400
    BY <1>6, <1>9, SMT
  <2>4. InstantOf(l).seconds = DaysFromCivil(z, n, e) * 86400 + (second + 86400)
    BY <1>5, <1>6, <1>8, <2>1, SMT
  <2> QED
    BY <2>1, <2>2, <2>3, <2>4, SMT
<1>10. CASE second >= 86400
  <2>1. PICK z, n, e : /\ NextDay(<<Y, M, D>>) = <<z, n, e>> /\ IsDate(z, n, e)
                       /\ DaysFromCivil(z, n, e) = DaysFromCivil(Y, M, D) + 1
    BY <1>2, NextIsOneMore
  <2>2. InUtc(l) = <<z, n, e, second - 86400>>
    BY <1>6, <1>7, <1>10, <2>1, SMT
  <2>3. second - 86400 \in Nat /\ second - 86400 < 86400
    BY <1>6, <1>10, SMT
  <2>4. InstantOf(l).seconds = DaysFromCivil(z, n, e) * 86400 + (second - 86400)
    <3> DEFINE p == DaysFromCivil(Y, M, D)
    <3>1. p \in Int /\ DaysFromCivil(z, n, e) = p + 1
          /\ InstantOf(l).seconds = p * 86400 + second
      BY <1>5, <1>8, <2>1
    <3> HIDE DEF p
    <3> QED
      BY <1>6, <3>1, SMT
  <2> QED
    BY <2>1, <2>2, <2>3, <2>4, SMT
<1>11. CASE second \in Nat /\ second < 86400
  <2>1. InUtc(l) = <<Y, M, D, second>>
    BY <1>7, <1>11, SMT
  <2> QED
    BY <1>2, <1>5, <1>11, <2>1, SMT
<1> QED
  BY <1>6, <1>9, <1>10, <1>11, SMT

\* A date and time is sooner by its first part that differs.
LEMMA SoonerMeans ==
    ASSUME NEW y \in Int, NEW m \in Int, NEW d \in Int, NEW s \in Int,
           NEW z \in Int, NEW n \in Int, NEW e \in Int, NEW t \in Int
    PROVE  Sooner(<<y, m, d, s>>, <<z, n, e, t>>) <=>
               y < z \/ (y = z /\ (m < n \/ (m = n /\ (d < e \/ (d = e /\ s < t)))))
<1> DEFINE u == <<y, m, d, s>>
           v == <<z, n, e, t>>
           At(k) == u[k] < v[k] /\ \A j \in 1 .. (k - 1) : u[j] = v[j]
<1>1. Sooner(u, v) <=> At(1) \/ At(2) \/ At(3) \/ At(4)
  <2>1. Sooner(u, v) <=> \E k \in 1 .. 4 : At(k)
    BY DEF Sooner
  <2>2. 1 .. 4 = {1, 2, 3, 4}
    OBVIOUS
  <2> HIDE DEF At, u, v
  <2> QED
    BY <2>1, <2>2
<1>2. At(1) <=> y < z
  OBVIOUS
<1>3. At(2) <=> m < n /\ y = z
  <2>1. 1 .. (2 - 1) = {1}
    OBVIOUS
  <2> QED
    BY <2>1
<1>4. At(3) <=> d < e /\ y = z /\ m = n
  <2>1. 1 .. (3 - 1) = {1, 2}
    OBVIOUS
  <2> QED
    BY <2>1
<1>5. At(4) <=> s < t /\ y = z /\ m = n /\ d = e
  <2>1. 1 .. (4 - 1) = {1, 2, 3}
    OBVIOUS
  <2> QED
    BY <2>1
<1> HIDE DEF At
<1> QED
  BY <1>1, <1>2, <1>3, <1>4, <1>5

\* Instants are in the order of their seconds.
LEMMA SecondsTellOrder ==
    ASSUME NEW a \in LiteralType, NEW b \in LiteralType, Happened(a), Happened(b)
    PROVE  /\ InstantOf(a).seconds \in Int /\ InstantOf(b).seconds \in Int
           /\ InstantOf(a).seconds < InstantOf(b).seconds <=> Sooner(InUtc(a), InUtc(b))
           /\ InstantOf(b).seconds < InstantOf(a).seconds <=> Sooner(InUtc(b), InUtc(a))
           /\ InstantOf(a).seconds = InstantOf(b).seconds <=> InUtc(a) = InUtc(b)
<1>1. PICK y, m, d : \E s \in Nat :
               /\ s < 86400 /\ InUtc(a) = <<y, m, d, s>> /\ IsDate(y, m, d)
               /\ InstantOf(a).seconds = DaysFromCivil(y, m, d) * 86400 + s
  BY UtcTellsSeconds
<1>2. PICK s \in Nat :
               /\ s < 86400 /\ InUtc(a) = <<y, m, d, s>> /\ IsDate(y, m, d)
               /\ InstantOf(a).seconds = DaysFromCivil(y, m, d) * 86400 + s
  BY <1>1
<1>3. PICK z, n, e : \E t \in Nat :
               /\ t < 86400 /\ InUtc(b) = <<z, n, e, t>> /\ IsDate(z, n, e)
               /\ InstantOf(b).seconds = DaysFromCivil(z, n, e) * 86400 + t
  BY UtcTellsSeconds
<1>4. PICK t \in Nat :
               /\ t < 86400 /\ InUtc(b) = <<z, n, e, t>> /\ IsDate(z, n, e)
               /\ InstantOf(b).seconds = DaysFromCivil(z, n, e) * 86400 + t
  BY <1>3
<1>5. /\ y \in Int /\ m \in Int /\ d \in Int /\ s \in Int
      /\ z \in Int /\ n \in Int /\ e \in Int /\ t \in Int
  <2>1. LengthOf(y, m) \in Int /\ LengthOf(z, n) \in Int
    BY <1>2, <1>4, WithinTheYear
  <2> QED
    BY <1>2, <1>4, <2>1, SMT DEF IsDate
<1> DEFINE p == DaysFromCivil(y, m, d)
           q == DaysFromCivil(z, n, e)
           Sooner1 == y < z \/ (y = z /\ (m < n \/ (m = n /\ d < e)))
           Sooner2 == z < y \/ (z = y /\ (n < m \/ (n = m /\ e < d)))
<1>6. p \in Int /\ q \in Int
  BY <1>2, <1>4, DaysByYear
<1>7. (Sooner1 => p < q) /\ (Sooner2 => q < p)
  BY <1>2, <1>4, LaterIsLarger
<1>8. Sooner1 \/ Sooner2 \/ (y = z /\ m = n /\ d = e)
  BY <1>5
<1>9. y = z /\ m = n /\ d = e => p = q
  OBVIOUS
<1>10. /\ Sooner(InUtc(a), InUtc(b)) <=> Sooner1 \/ (y = z /\ m = n /\ d = e /\ s < t)
       /\ Sooner(InUtc(b), InUtc(a)) <=> Sooner2 \/ (y = z /\ m = n /\ d = e /\ t < s)
  <2>1. /\ Sooner(<<y, m, d, s>>, <<z, n, e, t>>) <=>
               y < z \/ (y = z /\ (m < n \/ (m = n /\ (d < e \/ (d = e /\ s < t)))))
        /\ Sooner(<<z, n, e, t>>, <<y, m, d, s>>) <=>
               z < y \/ (z = y /\ (n < m \/ (n = m /\ (e < d \/ (e = d /\ t < s)))))
    BY <1>5, SoonerMeans
  <2> QED
    BY <1>2, <1>4, <2>1
<1>11. InUtc(a) = InUtc(b) <=> y = z /\ m = n /\ d = e /\ s = t
  BY <1>2, <1>4
<1>12. ~(Sooner1 /\ Sooner2) /\ (y = z /\ m = n /\ d = e => ~Sooner1 /\ ~Sooner2)
  BY <1>5
<1> HIDE DEF p, q, Sooner1, Sooner2
<1>13. InstantOf(a).seconds = p * 86400 + s /\ InstantOf(b).seconds = q * 86400 + t
  BY <1>2, <1>4 DEF p, q
<1>14. s \in Nat /\ s < 86400 /\ t \in Nat /\ t < 86400
  BY <1>2, <1>4
<1> DEFINE same == y = z /\ m = n /\ d = e
<1> HIDE DEF same
<1>15. /\ Sooner(InUtc(a), InUtc(b)) <=> Sooner1 \/ (same /\ s < t)
       /\ Sooner(InUtc(b), InUtc(a)) <=> Sooner2 \/ (same /\ t < s)
       /\ InUtc(a) = InUtc(b) <=> same /\ s = t
       /\ same => p = q
       /\ Sooner1 \/ Sooner2 \/ same
  BY <1>8, <1>9, <1>10, <1>11 DEF same
<1> QED
  BY <1>6, <1>7, <1>13, <1>14, <1>15, SMT

\* A fraction padded with zeros has the same digits.
LEMMA PaddedDigits ==
    ASSUME NEW f \in Seq(0 .. 9), NEW w \in Nat, Len(f) <= w
    PROVE  /\ DOMAIN PadTo(f, w) = 1 .. w
           /\ \A k \in 1 .. w : PadTo(f, w)[k] = DigitAt(f, k) /\ DigitAt(f, k) \in 0 .. 9
<1> DEFINE zeros == [k \in 1 .. (w - Len(f)) |-> 0]
<1>1. zeros \in Seq({0}) /\ Len(zeros) = w - Len(f) /\ Len(f) \in Nat
  <2>1. Len(f) \in Nat /\ w - Len(f) \in Nat
    OBVIOUS
  <2>2. zeros \in Seq({0})
    BY <2>1
  <2> QED
    BY <2>1, <2>2
<1>2. PadTo(f, w) = f \o zeros
  BY DEF PadTo
<1>3. DOMAIN f = 1 .. Len(f) /\ \A k \in DOMAIN f : f[k] \in 0 .. 9
  OBVIOUS
<1>4. Len(f \o zeros) = w /\ DOMAIN (f \o zeros) = 1 .. w
  <2> HIDE DEF zeros
  <2>1. f \o zeros \in Seq((0 .. 9) \cup {0}) /\ Len(f \o zeros) = Len(f) + Len(zeros)
    BY <1>1, ConcatProperties
  <2> QED
    BY <1>1, <2>1
<1>5. ASSUME NEW k \in 1 .. w
      PROVE  (f \o zeros)[k] = DigitAt(f, k) /\ DigitAt(f, k) \in 0 .. 9
  <2>1. (f \o zeros)[k] = IF k <= Len(f) THEN f[k] ELSE zeros[k - Len(f)]
    <3>1. zeros \in Seq(0 .. 9)
      BY <1>1
    <3>2. k \in 1 .. (Len(f) + Len(zeros))
      BY <1>1
    <3> HIDE DEF zeros
    <3> QED
      BY <3>1, <3>2
  <2>2. CASE k <= Len(f)
    <3>1. k \in DOMAIN f
      BY <1>3, <2>2
    <3> QED
      BY <1>3, <2>1, <2>2, <3>1 DEF DigitAt
  <2>3. CASE ~(k <= Len(f))
    <3>1. k \notin DOMAIN f /\ k - Len(f) \in 1 .. (w - Len(f))
      BY <1>1, <1>3, <2>3
    <3>2. zeros[k - Len(f)] = 0
      BY <3>1
    <3> QED
      BY <2>1, <2>3, <3>1, <3>2 DEF DigitAt
  <2> QED
    BY <2>2, <2>3
<1> QED
  BY <1>2, <1>4, <1>5

\* The order of the digits is that of the first at which two fractions differ.
LEMMA DigitsTellOrder ==
    ASSUME NEW f \in Seq(0 .. 9), NEW g \in Seq(0 .. 9), NEW w \in Nat, Len(f) <= w, Len(g) <= w
    PROVE  DigitOrder(PadTo(f, w), PadTo(g, w))
               = IF Smaller(f, g) THEN -1 ELSE IF Smaller(g, f) THEN 1 ELSE 0
<1> DEFINE p == PadTo(f, w)
           q == PadTo(g, w)
           differ == {k \in DOMAIN p : p[k] # q[k]}
<1>1. /\ DOMAIN p = 1 .. w /\ DOMAIN q = 1 .. w
      /\ \A k \in 1 .. w : /\ p[k] = DigitAt(f, k) /\ DigitAt(f, k) \in 0 .. 9
                           /\ q[k] = DigitAt(g, k) /\ DigitAt(g, k) \in 0 .. 9
  BY PaddedDigits
<1>2. /\ DOMAIN f = 1 .. Len(f) /\ DOMAIN g = 1 .. Len(g) /\ Len(f) \in Nat /\ Len(g) \in Nat
      /\ DOMAIN f \subseteq 1 .. w /\ DOMAIN g \subseteq 1 .. w
  OBVIOUS
<1>3. /\ Smaller(f, g) => \E k \in 1 .. w : p[k] < q[k] /\ \A j \in 1 .. (k - 1) : p[j] = q[j]
      /\ Smaller(g, f) => \E k \in 1 .. w : q[k] < p[k] /\ \A j \in 1 .. (k - 1) : q[j] = p[j]
  <2>1. ASSUME NEW k \in DOMAIN g, DigitAt(f, k) < g[k],
               \A j \in 1 .. (k - 1) : DigitAt(f, j) = g[j]
        PROVE  k \in 1 .. w /\ p[k] < q[k] /\ \A j \in 1 .. (k - 1) : p[j] = q[j]
    <3>1. k \in 1 .. w /\ \A j \in 1 .. (k - 1) : j \in 1 .. w /\ j \in DOMAIN g
      BY <1>2
    <3>2. DigitAt(g, k) = g[k] /\ \A j \in 1 .. (k - 1) : DigitAt(g, j) = g[j]
      BY <3>1 DEF DigitAt
    <3> HIDE DEF p, q
    <3> QED
      BY <1>1, <2>1, <3>1, <3>2
  <2>2. ASSUME NEW k \in DOMAIN f, DigitAt(g, k) < f[k],
               \A j \in 1 .. (k - 1) : DigitAt(g, j) = f[j]
        PROVE  k \in 1 .. w /\ q[k] < p[k] /\ \A j \in 1 .. (k - 1) : q[j] = p[j]
    <3>1. k \in 1 .. w /\ \A j \in 1 .. (k - 1) : j \in 1 .. w /\ j \in DOMAIN f
      BY <1>2
    <3>2. DigitAt(f, k) = f[k] /\ \A j \in 1 .. (k - 1) : DigitAt(f, j) = f[j]
      BY <3>1 DEF DigitAt
    <3> HIDE DEF p, q
    <3> QED
      BY <1>1, <2>2, <3>1, <3>2
  <2> HIDE DEF p, q
  <2>3. Smaller(f, g) => \E k \in 1 .. w : p[k] < q[k] /\ \A j \in 1 .. (k - 1) : p[j] = q[j]
    BY <2>1 DEF Smaller
  <2>4. Smaller(g, f) => \E k \in 1 .. w : q[k] < p[k] /\ \A j \in 1 .. (k - 1) : q[j] = p[j]
    BY <2>2 DEF Smaller
  <2> QED
    BY <2>3, <2>4
<1>4. ASSUME NEW k \in 1 .. w, p[k] < q[k], \A j \in 1 .. (k - 1) : p[j] = q[j]
      PROVE  Smaller(f, g)
  <2>1. k \in DOMAIN g
    <3> SUFFICES ASSUME k \notin DOMAIN g PROVE FALSE
      OBVIOUS
    <3>1. q[k] = 0 /\ p[k] \in 0 .. 9
      BY <1>1 DEF DigitAt
    <3> HIDE DEF p, q
    <3> QED
      BY <1>4, <3>1
  <2>2. \A j \in 1 .. (k - 1) : j \in 1 .. w /\ j \in DOMAIN g
    BY <1>2, <2>1
  <2>3. DigitAt(f, k) < g[k] /\ \A j \in 1 .. (k - 1) : DigitAt(f, j) = g[j]
    <3>1. DigitAt(g, k) = g[k] /\ \A j \in 1 .. (k - 1) : DigitAt(g, j) = g[j]
      BY <2>1, <2>2 DEF DigitAt
    <3> HIDE DEF p, q
    <3> QED
      BY <1>1, <1>4, <2>2, <3>1
  <2> QED
    BY <2>1, <2>3 DEF Smaller
<1>5. ASSUME NEW k \in 1 .. w, q[k] < p[k], \A j \in 1 .. (k - 1) : q[j] = p[j]
      PROVE  Smaller(g, f)
  <2>1. k \in DOMAIN f
    <3> SUFFICES ASSUME k \notin DOMAIN f PROVE FALSE
      OBVIOUS
    <3>1. p[k] = 0 /\ q[k] \in 0 .. 9
      BY <1>1 DEF DigitAt
    <3> HIDE DEF p, q
    <3> QED
      BY <1>5, <3>1
  <2>2. \A j \in 1 .. (k - 1) : j \in 1 .. w /\ j \in DOMAIN f
    BY <1>2, <2>1
  <2>3. DigitAt(g, k) < f[k] /\ \A j \in 1 .. (k - 1) : DigitAt(g, j) = f[j]
    <3>1. DigitAt(f, k) = f[k] /\ \A j \in 1 .. (k - 1) : DigitAt(f, j) = f[j]
      BY <2>1, <2>2 DEF DigitAt
    <3> HIDE DEF p, q
    <3> QED
      BY <1>1, <1>5, <2>2, <3>1
  <2> QED
    BY <2>1, <2>3 DEF Smaller
<1>6. /\ \A k \in 1 .. w : p[k] \in Int /\ q[k] \in Int
      /\ differ = {k \in 1 .. w : p[k] # q[k]}
  BY <1>1
<1>7. DigitOrder(p, q) = IF differ = {} THEN 0
          ELSE LET first == CHOOSE k \in differ : \A j \in differ : k <= j
               IN  Sign(p[first] - q[first])
  BY DEF DigitOrder
<1> HIDE DEF p, q
<1>8. CASE differ = {}
  <2>1. \A k \in 1 .. w : p[k] = q[k]
    BY <1>6, <1>8
  <2>2. ~Smaller(f, g) /\ ~Smaller(g, f)
    BY <1>3, <1>6, <2>1
  <2> QED
    BY <1>7, <1>8, <2>2 DEF p, q
<1>9. CASE differ # {}
  <2> DEFINE first == CHOOSE k \in differ : \A j \in differ : k <= j
  <2>1. first \in differ /\ \A j \in differ : first <= j
    <3>1. differ \in SUBSET Nat
      BY <1>6
    <3>2. \E k \in differ : \A j \in differ : k <= j
      <4> HIDE DEF differ
      <4> QED
        BY <1>9, <3>1, LeastExists
    <3> HIDE DEF differ
    <3> QED
      BY <3>2
  <2> HIDE DEF first
  <2>2. first \in 1 .. w /\ p[first] # q[first] /\ \A j \in 1 .. (first - 1) : p[j] = q[j]
    <3>1. first \in 1 .. w /\ p[first] # q[first]
      BY <1>6, <2>1
    <3>2. ASSUME NEW j \in 1 .. (first - 1) PROVE p[j] = q[j]
      <4>1. j \in 1 .. w /\ ~(first <= j)
        BY <3>1
      <4> QED
        BY <1>6, <2>1, <4>1
    <3> QED
      BY <3>1, <3>2
  <2>3. DigitOrder(p, q) = Sign(p[first] - q[first])
    BY <1>7, <1>9 DEF first
  <2>4. CASE p[first] < q[first]
    <3>1. Smaller(f, g)
      BY <1>4, <2>2, <2>4
    <3>2. Sign(p[first] - q[first]) = -1
      BY <1>6, <2>2, <2>4 DEF Sign
    <3> QED
      BY <2>3, <3>1, <3>2 DEF p, q
  <2>5. CASE q[first] < p[first]
    <3>1. Smaller(g, f)
      BY <1>5, <2>2, <2>5
    <3>2. Sign(p[first] - q[first]) = 1
      BY <1>6, <2>2, <2>5 DEF Sign
    <3>3. ~Smaller(f, g)
      <4> SUFFICES ASSUME NEW k \in 1 .. w, p[k] < q[k], \A j \in 1 .. (k - 1) : p[j] = q[j]
                   PROVE  FALSE
        BY <1>3
      <4>1. k = first \/ k \in 1 .. (first - 1) \/ first \in 1 .. (k - 1)
        BY <2>2
      <4>2. p[k] \in Int /\ q[k] \in Int
        BY <1>6
      <4> QED
        BY <2>2, <2>5, <4>1, <4>2, <1>6
    <3> QED
      BY <2>3, <3>1, <3>2, <3>3 DEF p, q
  <2> QED
    BY <1>6, <2>2, <2>4, <2>5
<1> QED
  BY <1>8, <1>9

\* Of two fractions one at most is the smaller: where they first differ is where
\* they first differ from either side.
LEMMA SmallerIsStrict ==
    ASSUME NEW f \in Seq(0 .. 9), NEW g \in Seq(0 .. 9)
    PROVE  ~(Smaller(f, g) /\ Smaller(g, f))
<1> SUFFICES ASSUME NEW k \in DOMAIN g, DigitAt(f, k) < g[k],
                    \A j \in 1 .. (k - 1) : DigitAt(f, j) = g[j],
                    NEW i \in DOMAIN f, DigitAt(g, i) < f[i],
                    \A j \in 1 .. (i - 1) : DigitAt(g, j) = f[j]
             PROVE  FALSE
  BY DEF Smaller
<1>1. k \in Nat \ {0} /\ i \in Nat \ {0} /\ g[k] \in Int /\ f[i] \in Int
  OBVIOUS
<1>2. DigitAt(g, k) = g[k] /\ DigitAt(f, i) = f[i]
  BY DEF DigitAt
<1>3. CASE k = i
  BY <1>1, <1>2, <1>3
<1>4. CASE k < i
  <2>1. k \in 1 .. (i - 1) /\ k \in DOMAIN f
    BY <1>1, <1>4
  <2>2. DigitAt(f, k) = f[k]
    BY <2>1 DEF DigitAt
  <2> QED
    BY <1>1, <1>2, <2>1, <2>2
<1>5. CASE i < k
  <2>1. i \in 1 .. (k - 1) /\ i \in DOMAIN g
    BY <1>1, <1>5
  <2>2. DigitAt(g, i) = g[i]
    BY <2>1 DEF DigitAt
  <2> QED
    BY <1>1, <1>2, <2>1, <2>2
<1> QED
  BY <1>1, <1>3, <1>4, <1>5

\* The end of compare_literals: whole seconds, then fractions.
LEMMA InstantsInOrder ==
    ASSUME NEW a \in LiteralType, NEW b \in LiteralType, Happened(a), Happened(b)
    PROVE  /\ InstantOrder(InstantOf(a), InstantOf(b))
                  = IF Precedes(a, b) THEN -1 ELSE IF Precedes(b, a) THEN 1 ELSE 0
           /\ InstantOf(a).seconds < InstantOf(b).seconds => Precedes(a, b)
           /\ ~(Precedes(a, b) /\ Precedes(b, a))
           /\ InstantOf(b).seconds < InstantOf(a).seconds
                  => Precedes(b, a) /\ ~Precedes(a, b)
           /\ InstantOf(a).seconds \in Int /\ InstantOf(b).seconds \in Int
<1> DEFINE da == InstantOf(a)
           db == InstantOf(b)
           w == IF Len(da.fraction) > Len(db.fraction) THEN Len(da.fraction) ELSE Len(db.fraction)
           order == DigitOrder(PadTo(da.fraction, w), PadTo(db.fraction, w))
<1>1. /\ da.seconds \in Int /\ db.seconds \in Int
      /\ da.seconds < db.seconds <=> Sooner(InUtc(a), InUtc(b))
      /\ db.seconds < da.seconds <=> Sooner(InUtc(b), InUtc(a))
      /\ da.seconds = db.seconds <=> InUtc(a) = InUtc(b)
  BY SecondsTellOrder
<1>2. /\ da.fraction = a.fraction /\ db.fraction = b.fraction
      /\ a.fraction \in Seq(0 .. 9) /\ b.fraction \in Seq(0 .. 9)
  BY TimeFields DEF InstantOf, Happened
<1>3. order = IF Smaller(a.fraction, b.fraction) THEN -1
              ELSE IF Smaller(b.fraction, a.fraction) THEN 1 ELSE 0
  <2>1. w \in Nat /\ Len(a.fraction) <= w /\ Len(b.fraction) <= w
    BY <1>2
  <2> HIDE DEF w
  <2> QED
    BY <1>2, <2>1, DigitsTellOrder
<1>4. InstantOrder(da, db) = IF da.seconds # db.seconds THEN Sign(da.seconds - db.seconds)
                                ELSE order
  BY DEF InstantOrder
<1> HIDE DEF da, db, w, order
<1>5. /\ da.seconds < db.seconds => Sign(da.seconds - db.seconds) = -1
      /\ db.seconds < da.seconds => Sign(da.seconds - db.seconds) = 1
      /\ da.seconds < db.seconds \/ db.seconds < da.seconds \/ da.seconds = db.seconds
      /\ ~(da.seconds < db.seconds /\ db.seconds < da.seconds)
      /\ da.seconds = db.seconds => ~(da.seconds < db.seconds) /\ ~(db.seconds < da.seconds)
  BY <1>1 DEF Sign
<1>6. /\ Precedes(a, b) <=> da.seconds < db.seconds
                \/ (da.seconds = db.seconds /\ Smaller(a.fraction, b.fraction))
      /\ Precedes(b, a) <=> db.seconds < da.seconds
                \/ (da.seconds = db.seconds /\ Smaller(b.fraction, a.fraction))
  BY <1>1 DEF Precedes
<1>7. InstantOrder(da, db)
          = IF Precedes(a, b) THEN -1 ELSE IF Precedes(b, a) THEN 1 ELSE 0
  <2>1. CASE da.seconds < db.seconds
    BY <1>4, <1>5, <1>6, <2>1
  <2>2. CASE db.seconds < da.seconds
    BY <1>4, <1>5, <1>6, <2>2
  <2>3. CASE da.seconds = db.seconds
    BY <1>3, <1>4, <1>5, <1>6, <2>3
  <2> QED
    BY <1>5, <2>1, <2>2, <2>3
<1>8. ~(Smaller(a.fraction, b.fraction) /\ Smaller(b.fraction, a.fraction))
  BY <1>2, SmallerIsStrict
<1> QED
  BY <1>1, <1>5, <1>6, <1>7, <1>8 DEF da, db

\* The ports count days as the reference does.
LEMMA DaysAlike ==
    ASSUME NEW y \in Int, NEW m \in Int, NEW d \in Int
    PROVE  tsDaysFromCivil(y, m, d) = DaysFromCivil(y, m, d)
<1> DEFINE year == IF m <= 2 THEN y - 1 ELSE y
           era == EraOf(year)
           yoe == YearOfEra(year)
           doy == (153 * (m + (IF m > 2 THEN -3 ELSE 9)) + 2) \div 5 + d - 1
           fourths == yoe \div 4
           hundredths == yoe \div 100
<1>1. /\ DaysFromCivil(y, m, d)
             = era * 146097 + (yoe * 365 + fourths - hundredths + doy) - 719468
      /\ tsDaysFromCivil(y, m, d)
             = era * 146097 + yoe * 365 + fourths - hundredths + doy - 719468
  BY DEF DaysFromCivil, tsDaysFromCivil, EraOf, YearOfEra
<1>2. era \in Int /\ yoe \in Int /\ doy \in Int
  BY DEF EraOf, YearOfEra
<1> HIDE DEF year, era, yoe, doy
<1>3. fourths \in Int /\ hundredths \in Int
  BY <1>2
<1> HIDE DEF fourths, hundredths
<1> QED
  BY <1>1, <1>2, <1>3, SMT

\* The ports come to the same instant.
LEMMA EnginesParseAlike ==
    ASSUME NEW l \in LiteralType, Happened(l)
    PROVE  tsInstant(l) = InstantOf(l) /\ javaInstant(l) = InstantOf(l)
<1>1. javaInstant(l) = InstantOf(l)
  BY DEF javaInstant, InstantOf, javaDaysFromCivil
<1>2. tsDaysFromCivil(l.year, l.month, l.day) = DaysFromCivil(l.year, l.month, l.day)
  <2>1. l.year \in Int /\ l.month \in Int /\ l.day \in Int
    BY TimeFields DEF Happened
  <2> QED
    BY <2>1, DaysAlike
<1>3. tsInstant(l) = InstantOf(l)
  <2> DEFINE p == DaysFromCivil(l.year, l.month, l.day)
             o == Offset(l.zone)
  <2>1. /\ l.hour \in Int /\ l.minute \in Int /\ l.second \in Int /\ l.zone[2] \in Int
        /\ l.zone[3] \in Int /\ IsDate(l.year, l.month, l.day)
    BY TimeFields DEF Happened, IsDate
  <2>2. p \in Int /\ o \in Int
    BY <2>1, DaysByYear DEF Offset
  <2>3. PICK h \in Int, k \in Int, j \in Int : l.hour = h /\ l.minute = k /\ l.second = j
    BY <2>1
  <2> HIDE DEF p, o
  <2>4. (p * 86400 + h * 3600 + k * 60 + j) - o = p * 86400 + h * 3600 + k * 60 + j - o
    BY <2>2, SMT
  <2>5. (p * 86400 + l.hour * 3600 + l.minute * 60 + l.second) - o
            = p * 86400 + l.hour * 3600 + l.minute * 60 + l.second - o
    BY <2>3, <2>4
  <2> QED
    BY <1>2, <2>5 DEF tsInstant, InstantOf, p, o
<1> QED
  BY <1>1, <1>3

\* Any two literals, whatever engine compares them.
LEMMA LiteralsInOrder ==
    ASSUME NEW a \in LiteralType, NEW b \in LiteralType
    PROVE  /\ CompareLiterals(a, b) = IF TooLong(a, b) THEN Raised ELSE OrderOf(a, b)
           /\ tsCompareLiterals(a, b) = OrderOf(a, b)
           /\ javaCompareLiterals(a, b) = OrderOf(a, b)
<1>1. CASE a.kind = "integer" /\ b.kind = "integer"
  <2>1. a.value \in Int /\ b.value \in Int
    BY <1>1 DEF LiteralType
  <2>2. tsCompareLiterals(a, b)
            = IF a.value < b.value THEN -1 ELSE IF a.value > b.value THEN 1 ELSE 0
    BY <1>1 DEF tsCompareLiterals
  <2> QED
    BY <1>1, <2>1, <2>2 DEF CompareLiterals, OrderOf, javaCompareLiterals, Sign
<1>2. CASE ~(a.kind = "integer" /\ b.kind = "integer") /\ ~(Happened(a) /\ Happened(b))
  BY <1>2, HappenedIsDatetime
     DEF CompareLiterals, OrderOf, Orderable, javaCompareLiterals, tsCompareLiterals, TooLong
<1>3. CASE Happened(a) /\ Happened(b)
  <2>1. a.kind = "dateTime" /\ b.kind = "dateTime"
    BY <1>3 DEF Happened
  <2>2. /\ IsDatetime(a) /\ IsDatetime(b) /\ tsParses(a) /\ tsParses(b)
        /\ javaParses(a) /\ javaParses(b)
    BY <1>3, HappenedIsDatetime
  <2> DEFINE da == InstantOf(a)
             db == InstantOf(b)
  <2>3. da.aware = db.aware <=> (a.zone[1] = "none" <=> b.zone[1] = "none")
    BY DEF InstantOf
  <2>4. /\ CompareLiterals(a, b)
                = IF da.aware # db.aware THEN Incomparable ELSE InstantOrder(da, db)
        /\ tsCompareLiterals(a, b) = tsOrder(da, db)
        /\ javaCompareLiterals(a, b) = javaOrder(da, db)
    BY <1>3, <2>1, <2>2, EnginesParseAlike
       DEF CompareLiterals, tsCompareLiterals, javaCompareLiterals, TooLong
  <2>5. OrderOf(a, b) = IF da.aware # db.aware THEN Incomparable
                           ELSE InstantOrder(da, db)
    BY <1>3, <2>1, <2>3, InstantsInOrder DEF OrderOf, Orderable
  <2>6. /\ da.seconds \in Int /\ db.seconds \in Int
        /\ da.seconds < db.seconds => InstantOrder(da, db) = -1
        /\ db.seconds < da.seconds => InstantOrder(da, db) = 1
    BY <1>3, InstantsInOrder
  <2> HIDE DEF da, db
  <2>7. /\ tsOrder(da, db) = IF da.aware # db.aware THEN Incomparable
                                ELSE InstantOrder(da, db)
        /\ javaOrder(da, db) = IF da.aware # db.aware THEN Incomparable
                                  ELSE InstantOrder(da, db)
    BY <2>6 DEF tsOrder, javaOrder
  <2>8. ~TooLong(a, b)
    BY <2>1 DEF TooLong
  <2> QED
    BY <2>4, <2>5, <2>7, <2>8
<1>4. ~(Happened(a) /\ Happened(b)) \/ ~(a.kind = "integer" /\ b.kind = "integer")
  BY DEF Happened
<1> QED
  BY <1>1, <1>2, <1>3, <1>4

\* Two comparable literals are not each before the other.
LEMMA OrderIsStrict ==
    ASSUME NEW a \in LiteralType, NEW b \in LiteralType
    PROVE  Lt(a, b) <=> Le(a, b) /\ ~Le(b, a)
<1>a. CASE TooLong(a, b)
  <2>1. TooLong(b, a)
    BY <1>a DEF TooLong
  <2> QED
    BY <1>a, <2>1, LiteralsInOrder DEF Lt, Le, Raised
<1> SUFFICES ASSUME ~TooLong(a, b)
             PROVE  Lt(a, b) <=> Le(a, b) /\ ~Le(b, a)
  BY <1>a
<1>0. CompareLiterals(a, b) = OrderOf(a, b) /\ CompareLiterals(b, a) = OrderOf(b, a)
  <2>1. ~TooLong(b, a)
    BY DEF TooLong
  <2> QED
    BY <2>1, LiteralsInOrder
<1>1. CASE a.kind = "integer" /\ b.kind = "integer"
  <2>1. a.value \in Int /\ b.value \in Int
    BY <1>1 DEF LiteralType
  <2>2. OrderOf(a, b) = Sign(a.value - b.value) /\ OrderOf(b, a) = Sign(b.value - a.value)
    BY <1>1 DEF OrderOf
  <2> QED
    BY <1>0, <2>1, <2>2 DEF Lt, Le, Sign
<1>2. CASE ~(a.kind = "integer" /\ b.kind = "integer") /\ ~Orderable(a, b)
  <2>1. OrderOf(a, b) = Incomparable
    BY <1>2 DEF OrderOf
  <2> QED
    BY <1>0, <2>1 DEF Lt, Le, Incomparable
<1>3. CASE ~(a.kind = "integer" /\ b.kind = "integer") /\ Orderable(a, b)
  <2>1. Orderable(b, a) /\ Happened(a) /\ Happened(b)
    BY <1>3 DEF Orderable
  <2>2. ~(Precedes(a, b) /\ Precedes(b, a))
    BY <2>1, InstantsInOrder
  <2>3. /\ OrderOf(a, b) = IF Precedes(a, b) THEN -1 ELSE IF Precedes(b, a) THEN 1 ELSE 0
        /\ OrderOf(b, a) = IF Precedes(b, a) THEN -1 ELSE IF Precedes(a, b) THEN 1 ELSE 0
    BY <1>3, <2>1 DEF OrderOf
  <2> QED
    BY <1>0, <2>2, <2>3 DEF Lt, Le
<1> QED
  BY <1>1, <1>2, <1>3

\* Of whatever literals: each engine orders them as numbers and as instants,
\* but for the reference where an integer is too long for Python's int()
\* (structural.compare_literals, structural.ts and Structural.java).
LEMMA LiteralsAreInOrder ==
    ASSUME NEW literals \in SUBSET LiteralType
    PROVE  AllInOrder(literals)
BY LiteralsInOrder, OrderIsStrict DEF AllInOrder
=============================================================================
