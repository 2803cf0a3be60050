------------------------------ MODULE Calendar ------------------------------
(***************************************************************************)
(* The civil date of a day since 1970-01-01, as db-config works it out for *)
(* the time a table was migrated (db/migration.rs), checked against the    *)
(* number of days before a date.                                           *)
(***************************************************************************)
EXTENDS Integers, FiniteSetsExt, SequencesExt

IsLeap(y)   == y % 4 = 0 /\ (y % 100 # 0 \/ y % 400 = 0)
DaysIn(y)   == IF IsLeap(y) THEN 366 ELSE 365
MonthsOf(y) == <<31, IF IsLeap(y) THEN 29 ELSE 28, 31, 30, 31, 30, 31, 31, 30, 31, 30, 31>>

\* Years are taken off while they fit, then months.
YearAndDay[d \in Nat, y \in Nat] ==
    IF d < DaysIn(y) THEN <<y, d>> ELSE YearAndDay[d - DaysIn(y), y + 1]

MonthAndDay(y, d) ==
    LET Before(m) == FoldLeft(LAMBDA a, b : a + b, 0, SubSeq(MonthsOf(y), 1, m))
        full == Cardinality({m \in 1..12 : Before(m) <= d})
    IN  <<full + 1, d - Before(full) + 1>>

DaysToYmd(days) ==
    LET yd == YearAndDay[days, 1970]
    IN  <<yd[1]>> \o MonthAndDay(yd[1], yd[2])

\* The days from 1970-01-01 to a date, by the rule of the leap years.
DaysBefore(y, m, d) ==
    LET a == (14 - m) \div 12   yy == y + 4800 - a   mm == m + 12 * a - 3
    IN  d + (153 * mm + 2) \div 5 + 365 * yy + yy \div 4 - yy \div 100 + yy \div 400 - 2472633

\* Around 1970, the century's leap day and the years that have none.
SomeDays == (0..800) \cup (10900..11100) \cup (19700..20200) \cup (47400..47600)

ASSUME CalendarAgrees ==
    \A n \in SomeDays :
        LET t == DaysToYmd(n)
        IN  /\ t[2] \in 1..12 /\ t[3] \in 1 .. MonthsOf(t[1])[t[2]]
            /\ DaysBefore(t[1], t[2], t[3]) = n
=============================================================================
