------------------------------ MODULE LeaveDays ------------------------------
(****************************************************************************)
(* How many days a leave takes: the French holidays of a year, three of     *)
(* which follow Easter, and the working days of a request that may begin or *)
(* end with half a day.  A date is the number of days since 2000-01-01, a   *)
(* Saturday; half days are counted, so that numbers are whole.              *)
(****************************************************************************)
EXTENDS Integers, FiniteSets

CONSTANTS Years,        \* in which a leave may begin
          AskedIn,      \* those of them for which requests are tried
          MaxLength     \* bound: days from the first to the last

ASSUME YearsAssumption == Years \subseteq 1900..2399 /\ AskedIn \subseteq Years /\ MaxLength \in Nat

VARIABLES year, leave

leaveVars == <<year, leave>>

NoLeave == [from |-> 0, to |-> 0, halfStart |-> FALSE, halfEnd |-> FALSE, halves |-> 0]

LeaveTypeOK ==
    /\ year \in Years
    /\ leave.from <= leave.to /\ {leave.halfStart, leave.halfEnd} \subseteq BOOLEAN
    /\ leave.halves \in 0..(2 * (MaxLength + 1))

-----------------------------------------------------------------------------
\* The calendar, as Date.UTC has it.

IsLeap(y) == y % 4 = 0 /\ (y % 100 # 0 \/ y % 400 = 0)
BeforeMonth == <<0, 31, 59, 90, 120, 151, 181, 212, 243, 273, 304, 334>>
DateOf(y, m, d) ==
    LET past == y - 1  leap == IF IsLeap(y) /\ m > 2 THEN 1 ELSE 0 IN
    past * 365 + past \div 4 - past \div 100 + past \div 400 - 730119
      + BeforeMonth[m] + leap + d - 1
Weekday(date) == (date + 6) % 7          \* 0 is Sunday, as in getUTCDay

\* easterSunday, by the algorithm of Meeus, Jones and Butcher.
Moon_Slip(golden, century) ==
    LET corrected == century - (century + 8) \div 25 + 1 IN
    (19 * golden + century - century \div 4 - corrected \div 3 + 14) % 30
Moon(golden, century) ==
    LET corrected == century - (century + 8) \div 25 + 1 IN
    (19 * golden + century - century \div 4 - corrected \div 3 + 15) % 30
EasterSunday(y) ==
    LET golden == y % 19  century == y \div 100  rest == y % 100
        h == Moon(golden, century)
        l == (32 + 2 * (century % 4) + 2 * (rest \div 4) - h - (rest % 4)) % 7
        m == (golden + 11 * h + 22 * l) \div 451
        n == h + l - 7 * m + 114
    IN  DateOf(y, n \div 31, (n % 31) + 1)

FixedDays == {<<1, 1>>, <<5, 1>>, <<5, 8>>, <<7, 14>>, <<8, 15>>, <<11, 1>>, <<11, 11>>, <<12, 25>>}
FrenchHolidays(y) == {DateOf(y, f[1], f[2]) : f \in FixedDays}
                       \union {EasterSunday(y) + offset : offset \in {1, 39, 50}}

\* frenchHolidaysForRange: of the year of the first day and of those up to the last.
IsWorkday(date) ==
    /\ Weekday(date) \notin {0, 6}
    /\ date \notin UNION {FrenchHolidays(y) : y \in {year, year + 1}}

Larger(i, j) == IF i > j THEN i ELSE j
Halves(from, to, halfStart, halfEnd) ==
    LET count == Cardinality({d \in from..to : IsWorkday(d)})
        less(half, d) == IF half /\ IsWorkday(d) THEN 1 ELSE 0 IN
    IF from = to THEN IF halfStart \/ halfEnd THEN 1 ELSE 2 * count
    ELSE Larger(1, 2 * count - less(halfStart, from) - less(halfEnd, to))

-----------------------------------------------------------------------------
LeaveInit == year \in Years /\ leave = NoLeave

\* The weeks from Easter to Whit Monday, and the end of the year.
FirstDays == (EasterSunday(year) - 2)..(EasterSunday(year) + 51)
                 \union DateOf(year, 12, 22)..DateOf(year, 12, 31)

\* create: a leave without a working day is refused.
AskLeave(from, to, halfStart, halfEnd) ==
    /\ leave = NoLeave /\ \E d \in from..to : IsWorkday(d)
    /\ leave' = [from |-> from, to |-> to, halfStart |-> halfStart, halfEnd |-> halfEnd,
                 halves |-> Halves(from, to, halfStart, halfEnd)]
    /\ UNCHANGED year

LeaveNext ==
    /\ year \in AskedIn
    /\ \E from \in FirstDays, length \in 0..MaxLength, halfStart, halfEnd \in BOOLEAN :
          AskLeave(from, from + length, halfStart, halfEnd)

LeaveSpec == LeaveInit /\ [][LeaveNext]_leaveVars

(***************************************************************************)
(* Properties.                                                             *)
(***************************************************************************)

\* Easter by its definition: the Sunday after the full moon of the Church, by
\* the epact (the age of the moon, shifted for the centuries) instead of Meeus.
ChurchMoon(y) ==
    LET century == y \div 100 + 1
        epact == (14 + 11 * (y % 19) - (3 * century) \div 4 + (5 + 8 * century) \div 25) % 30
        shifted == IF epact = 0 \/ (epact = 1 /\ y % 19 > 10) THEN epact + 1 ELSE epact
    IN  DateOf(y, 4, 19) - shifted
ChurchEaster(y) == LET moon == ChurchMoon(y) IN moon + 7 - Weekday(moon)

\* The mornings and afternoons between the first and the last day that a leave
\* takes from somebody who works on weekdays that are no holidays.
HalvesTaken ==
    LET easter(y) == ChurchEaster(y)
        free == {DateOf(y, f[1], f[2]) : y \in {year, year + 1}, f \in FixedDays}
                  \union {easter(y) + n : y \in {year, year + 1}, n \in {1, 39, 50}}
        worked == {d \in leave.from..leave.to : Weekday(d) \in 1..5 /\ d \notin free}
    IN  (worked \X {"am", "pm"})
          \ ((IF leave.halfStart THEN {<<leave.from, "am">>} ELSE {})
               \union (IF leave.halfEnd THEN {<<leave.to, "pm">>} ELSE {}))

\* Easter is where the Church has it, and a leave costs the half days it takes,
\* at least one.
LeavesAreCounted ==
    /\ EasterSunday(year) = ChurchEaster(year)
    /\ leave # NoLeave => leave.halves = Larger(1, Cardinality(HalvesTaken))
=============================================================================
