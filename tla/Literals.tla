------------------------------ MODULE Literals ------------------------------
(***************************************************************************)
(* How the engines order two literals (structural.compare_literals and its *)
(* ports in structural.ts and Structural.java): what sh:minInclusive,      *)
(* sh:maxInclusive, sh:lessThan and sh:lessThanOrEquals turn on.           *)
(*                                                                         *)
(* A literal is what the two regular expressions make of its text: an      *)
(* [kind |-> "integer", value, digits], digits being how many it has,      *)
(* leading zeros included; a [kind |-> "dateTime", ...] of the groups that *)
(* matched, digits of the fraction as a sequence, the zone "Z", "none" or  *)
(* a sign with its hours and minutes; or text of neither form.             *)
(***************************************************************************)
EXTENDS Integers, Sequences, SequencesExt

Incomparable == 2       \* None, beside -1, 0 and 1
Raised == 3             \* no answer: the comparison raises, and the run ends

\* Python's int() raises ValueError on a text of more digits
\* (sys.int_info.default_max_str_digits, of an interpreter that sets no other).
IntDigitLimit == 4300

DaysInMonth == <<31, 28, 31, 30, 31, 30, 31, 31, 30, 31, 30, 31>>
IsLeap(year) == year % 4 = 0 /\ (year % 100 # 0 \/ year % 400 = 0)
Sign(n) == IF n > 0 THEN 1 ELSE IF n < 0 THEN -1 ELSE 0
PadTo(digits, width) == digits \o [k \in 1..(width - Len(digits)) |-> 0]

-----------------------------------------------------------------------------
(*                       The reference: structural.py                      *)

\* _days_from_civil: days since 1970-01-01, of years that begin in March.
DaysFromCivil(y, month, day) ==
    LET year == IF month <= 2 THEN y - 1 ELSE y
        era == year \div 400
        yoe == year - era * 400
        doy == (153 * (month + (IF month > 2 THEN -3 ELSE 9)) + 2) \div 5 + day - 1
        doe == yoe * 365 + yoe \div 4 - yoe \div 100 + doy
    IN  era * 146097 + doe - 719468

\* The seconds a zone is ahead of UTC.
Offset(zone) ==
    IF zone[1] \in {"none", "Z"} THEN 0
    ELSE (zone[2] * 3600 + zone[3] * 60) * (IF zone[1] = "-" THEN -1 ELSE 1)

\* _parse_datetime: whether there is an instant, and which.
IsDatetime(l) ==
    /\ l.kind = "dateTime"
    /\ l.month \in 1..12
    /\ l.day \in 1..(DaysInMonth[l.month] + (IF IsLeap(l.year) /\ l.month = 2 THEN 1 ELSE 0))
    /\ l.hour <= 23 /\ l.minute <= 59 /\ l.second <= 59
    /\ l.zone[2] <= 23 /\ l.zone[3] <= 59

\* Mutant: a time behind UTC is taken for one ahead of it.
InstantUnsigned(l) ==
    [aware |-> l.zone[1] # "none",
     seconds |-> DaysFromCivil(l.year, l.month, l.day) * 86400
                 + l.hour * 3600 + l.minute * 60 + l.second
                 - (l.zone[2] * 3600 + l.zone[3] * 60),
     fraction |-> l.fraction]

InstantOf(l) ==
    [aware |-> l.zone[1] # "none",
     seconds |-> DaysFromCivil(l.year, l.month, l.day) * 86400
                 + l.hour * 3600 + l.minute * 60 + l.second - Offset(l.zone),
     fraction |-> l.fraction]

\* Of two sequences of digits of one length, which one comes first.
DigitOrder(a, b) ==
    LET differ == {k \in DOMAIN a : a[k] # b[k]}
    IN  IF differ = {} THEN 0
        ELSE LET first == CHOOSE k \in differ : \A j \in differ : k <= j
             IN  Sign(a[first] - b[first])

InstantOrder(da, db) ==
    LET width == IF Len(da.fraction) > Len(db.fraction) THEN Len(da.fraction)
                 ELSE Len(db.fraction)
        order == DigitOrder(PadTo(da.fraction, width), PadTo(db.fraction, width))
    IN  IF da.seconds # db.seconds THEN Sign(da.seconds - db.seconds) ELSE order

\* Two integers one of which int() does not read.
TooLong(a, b) ==
    /\ a.kind = "integer" /\ b.kind = "integer"
    /\ a.digits > IntDigitLimit \/ b.digits > IntDigitLimit

\* compare_literals
CompareLiterals(a, b) ==
    IF TooLong(a, b) THEN Raised
    ELSE IF a.kind = "integer" /\ b.kind = "integer" THEN Sign(a.value - b.value)
    ELSE IF ~IsDatetime(a) \/ ~IsDatetime(b) THEN Incomparable
    ELSE IF InstantOf(a).aware # InstantOf(b).aware THEN Incomparable
    ELSE InstantOrder(InstantOf(a), InstantOf(b))

\* _le and _lt: what is not comparable is in no order.
Le(a, b) == CompareLiterals(a, b) \in {-1, 0}
Lt(a, b) == CompareLiterals(a, b) = -1

-----------------------------------------------------------------------------
(*                     The TypeScript port: structural.ts                  *)

tsDaysFromCivil(yearIn, month, day) ==
    LET year == IF month <= 2 THEN yearIn - 1 ELSE yearIn
        era == year \div 400
        yoe == year - era * 400
        doy == (153 * (month + (IF month > 2 THEN -3 ELSE 9)) + 2) \div 5 + day - 1
    IN  era * 146097 + yoe * 365 + yoe \div 4 - yoe \div 100 + doy - 719468

tsParses(l) ==
    LET days == DaysInMonth[l.month] + (IF IsLeap(l.year) /\ l.month = 2 THEN 1 ELSE 0)
    IN  ~ \/ l.kind # "dateTime"
          \/ l.month < 1 \/ l.month > 12
          \/ l.day < 1 \/ l.day > days
          \/ l.hour > 23 \/ l.minute > 59 \/ l.second > 59
          \/ l.zone[2] > 23 \/ l.zone[3] > 59

tsInstant(l) ==
    LET local == tsDaysFromCivil(l.year, l.month, l.day) * 86400 + l.hour * 3600
                 + l.minute * 60 + l.second
    IN  [aware |-> l.zone[1] # "none", seconds |-> local - Offset(l.zone),
         fraction |-> l.fraction]

\* The end of compareLiterals: the seconds first, then the fractions as strings.
tsOrder(da, db) ==
    IF da.aware # db.aware THEN Incomparable
    ELSE IF da.seconds < db.seconds THEN -1
    ELSE IF da.seconds > db.seconds THEN 1
    ELSE InstantOrder(da, db)

tsCompareLiterals(a, b) ==
    CASE a.kind = "integer" /\ b.kind = "integer" ->
            IF a.value < b.value THEN -1 ELSE IF a.value > b.value THEN 1 ELSE 0
      [] a.kind # "integer" \/ b.kind # "integer" ->
            IF tsParses(a) /\ tsParses(b) THEN tsOrder(tsInstant(a), tsInstant(b))
            ELSE Incomparable

-----------------------------------------------------------------------------
(*                       The Java port: Structural.java                    *)

javaDaysFromCivil(year, month, day) == DaysFromCivil(year, month, day)
javaParses(l) == IsDatetime(l)
javaInstant(l) ==
    [aware |-> l.zone[1] # "none",
     seconds |-> javaDaysFromCivil(l.year, l.month, l.day) * 86400 + l.hour * 3600
                 + l.minute * 60 + l.second - Offset(l.zone),
     fraction |-> l.fraction]

javaOrder(da, db) ==
    IF da.aware # db.aware THEN Incomparable
    ELSE IF da.seconds # db.seconds THEN IF da.seconds < db.seconds THEN -1 ELSE 1
    ELSE InstantOrder(da, db)

javaCompareLiterals(a, b) ==
    IF a.kind = "integer" /\ b.kind = "integer" THEN Sign(a.value - b.value)
    ELSE IF ~javaParses(a) \/ ~javaParses(b) THEN Incomparable
    ELSE javaOrder(javaInstant(a), javaInstant(b))
-----------------------------------------------------------------------------
(*                    What literals are, and their order                   *)

\* What the regular expressions match: four and two digits, any fraction.
ZoneType == ({"none", "Z"} \X {0} \X {0}) \cup ({"+", "-"} \X (0..99) \X (0..99))
LiteralType ==
    [kind : {"integer"}, value : Int, digits : Nat]
    \cup [kind : {"text"}]
    \cup [kind : {"dateTime"}, year : Nat, month : 0..99, day : 0..99,
          hour : 0..99, minute : 0..99, second : 0..99, fraction : Seq(0..9),
          zone : ZoneType]

\* The calendar, day after day.
LengthOf(year, month) ==
    IF month = 2 THEN IF IsLeap(year) THEN 29 ELSE 28
    ELSE IF month \in {4, 6, 9, 11} THEN 30 ELSE 31
NextDay(date) ==
    LET y == date[1]  m == date[2]  d == date[3]
    IN  IF d < LengthOf(y, m) THEN <<y, m, d + 1>>
        ELSE IF m < 12 THEN <<y, m + 1, 1>> ELSE <<y + 1, 1, 1>>
PreviousDay(date) ==
    LET y == date[1]  m == date[2]  d == date[3]
    IN  IF d > 1 THEN <<y, m, d - 1>>
        ELSE IF m > 1 THEN <<y, m - 1, LengthOf(y, m - 1)>> ELSE <<y - 1, 12, 31>>

\* A time that can be shown by a clock.
Happened(l) ==
    /\ l.kind = "dateTime"
    /\ l.month \in 1..12 /\ l.day \in 1..LengthOf(l.year, l.month)
    /\ l.hour < 24 /\ l.minute < 60 /\ l.second < 60
    /\ l.zone[2] < 24 /\ l.zone[3] < 60

\* The date and the second of the day when it happened, in UTC if it says where.
InUtc(l) ==
    LET date == <<l.year, l.month, l.day>>
        ahead == l.zone[2] * 3600 + l.zone[3] * 60
        clock == l.hour * 3600 + l.minute * 60 + l.second
        second == IF l.zone[1] = "-" THEN clock + ahead ELSE clock - ahead
        On(day, time) == <<day[1], day[2], day[3], time>>
    IN  IF second < 0 THEN On(PreviousDay(date), second + 86400)
        ELSE IF second >= 86400 THEN On(NextDay(date), second - 86400)
        ELSE On(date, second)

DigitAt(fraction, k) == IF k \in DOMAIN fraction THEN fraction[k] ELSE 0

\* By year, month, day, second and the digits after the point, in this order.
Sooner(u, v) == \E k \in 1..4 : u[k] < v[k] /\ \A j \in 1..(k - 1) : u[j] = v[j]
Smaller(f, g) ==
    \E k \in DOMAIN g : /\ DigitAt(f, k) < g[k]
                        /\ \A j \in 1..(k - 1) : DigitAt(f, j) = g[j]
Precedes(a, b) ==
    \/ Sooner(InUtc(a), InUtc(b))
    \/ InUtc(a) = InUtc(b) /\ Smaller(a.fraction, b.fraction)

Orderable(a, b) == Happened(a) /\ Happened(b) /\ (a.zone[1] = "none" <=> b.zone[1] = "none")

OrderOf(a, b) ==
    IF a.kind = "integer" /\ b.kind = "integer" THEN Sign(a.value - b.value)
    ELSE IF ~Orderable(a, b) THEN Incomparable
    ELSE IF Precedes(a, b) THEN -1 ELSE IF Precedes(b, a) THEN 1 ELSE 0

\* The ports read integers of any length; the reference gives no answer where
\* one is too long.
AllInOrder(literals) ==
    \A a, b \in literals :
        /\ CompareLiterals(a, b) = IF TooLong(a, b) THEN Raised ELSE OrderOf(a, b)
        /\ tsCompareLiterals(a, b) = OrderOf(a, b)
        /\ javaCompareLiterals(a, b) = OrderOf(a, b)
        /\ Lt(a, b) <=> Le(a, b) /\ ~Le(b, a)
=============================================================================
