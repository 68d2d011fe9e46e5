------------------------------ MODULE Retention ------------------------------
(***************************************************************************)
(* The index files of one backup name over time: backup after backup adds  *)
(* one and then calls Repository::deleteOldIndexFiles(), as prune does     *)
(* (src/src/Repository.cpp:973-1093).  An index file is its date.          *)
(*                                                                         *)
(* Dates are UTC throughout (src/src/lib/Date.cpp uses gmtime and timegm), *)
(* so that a date is a number of time units, and a day has always Day of   *)
(* them.  A backup is due once a day, at its start; now and then one is    *)
(* missed, late or made by hand in between, or it ends before it has       *)
(* deleted all it means to: MaxMishaps bounds how often.                   *)
(***************************************************************************)
EXTENDS Integers, FiniteSets, FiniteSetsExt

CONSTANTS
    Day,        \* time units in a day
    Week,       \* the days of a weekly window, 7 in the code
    Month,      \* the days of a monthly window, 30 in the code
    KeepAll,    \* keepOldBackupsBoundaries[0], in days
    KeepDaily,  \* keepOldBackupsBoundaries[1], in days
    KeepWeekly, \* keepOldBackupsBoundaries[2], in days
    MaxDuration,    \* bound: the longest time a backup takes
    MaxMishaps, \* bound: how often the schedule is broken
    Horizon     \* bound: the time this instance looks at

ASSUME UnitsAssumption ==
    Day \in Nat \ {0} /\ Week \in Nat \ {0} /\ Month \in Nat \ {0}
ASSUME BoundariesAssumption ==
    KeepAll \in Nat /\ KeepDaily \in Nat /\ KeepWeekly \in Nat
ASSUME BoundsAssumption ==
    MaxDuration \in Nat /\ MaxMishaps \in Nat /\ Horizon \in Nat

VARIABLES
    now,        \* the time
    dates,      \* the index files
    toDelete,   \* what deleteOldIndexFiles() still has to delete
    mishaps     \* how often the schedule has been broken

vars == <<now, dates, toDelete, mishaps>>

TypeOK ==
    /\ now \in Nat /\ mishaps \in 0..MaxMishaps
    /\ dates \subseteq 0..now /\ dates # {}
    /\ toDelete \subseteq dates

(* The first backup has just been made.                                    *)
Init == now = 0 /\ dates = {0} /\ toDelete = {} /\ mishaps = 0

-----------------------------------------------------------------------------
(* setTimeOfDay(0, 0, 0)                                                   *)
Midnight(t) == t - (t % Day)

(* Each loop moves a window of the given number of days back from "upper"  *)
(* until its lower end reaches the limit, which is "keep" days back.       *)
Rounds(days, keep) == IF keep = 0 THEN 0 ELSE (keep - 1) \div days
WindowsMovedFirst(upper, days, rounds) ==
    {[lower |-> upper - i * days * Day,
      upper |-> upper - (i - 1) * days * Day] : i \in 2..rounds}

Windows(upper, days, rounds) ==
    {[lower |-> upper - i * days * Day,
      upper |-> upper - (i - 1) * days * Day] : i \in 1..rounds}

DailyUpper(t) == Midnight(t) - KeepAll * Day
WeeklyUpper(t) == DailyUpper(t) - Rounds(1, KeepDaily) * Day
MonthlyUpper(t) == WeeklyUpper(t) - Rounds(Week, KeepWeekly) * Week * Day

(* The last loop goes on until a window begins before the oldest file.     *)
MonthlyRounds(t, oldest) ==
    IF MonthlyUpper(t) <= oldest THEN 1
    ELSE (MonthlyUpper(t) - oldest - 1) \div (Month * Day) + 1

AllWindowsRestarted(t, oldest) ==
    Windows(DailyUpper(t), 1, Rounds(1, KeepDaily))
    \cup Windows(DailyUpper(t), Week, Rounds(Week, KeepWeekly))
    \cup Windows(DailyUpper(t), Month, MonthlyRounds(t, oldest))

AllWindows(t, oldest) ==
    Windows(DailyUpper(t), 1, Rounds(1, KeepDaily))
    \cup Windows(WeeklyUpper(t), Week, Rounds(Week, KeepWeekly))
    \cup Windows(MonthlyUpper(t), Month, MonthlyRounds(t, oldest))

In(window, D) == {d \in D : window.lower <= d /\ d < window.upper}

(* dates goes from the latest to the oldest, so that pop_back() spares the *)
(* oldest of a window.                                                     *)
ExcessAll(D) == D
ExcessNewestKept(D) == IF D = {} THEN {} ELSE D \ {Max(D)}
Excess(D) == IF D = {} THEN {} ELSE D \ {Min(D)}

OldIndexFiles(t, D) ==
    IF Cardinality(D) <= 2 THEN {}
    ELSE UNION {Excess(In(w, D)) : w \in AllWindows(t, Min(D))}

-----------------------------------------------------------------------------
Count(mishap) ==
    /\ mishaps' = mishaps + (IF mishap THEN 1 ELSE 0)
    /\ mishaps' <= MaxMishaps

Due == now % Day = 0 /\ now \notin dates

Wait ==
    /\ toDelete = {} /\ now < Horizon
    /\ Count(Due)
    /\ now' = now + 1
    /\ UNCHANGED <<dates, toDelete>>

(* BackupRun::run() finishes the index file, whose name has the date of its*)
(* start, and looks for old ones.                                          *)
Backup(start) ==
    /\ toDelete = {}
    /\ start \in (now - MaxDuration)..now /\ start \notin dates
    /\ Count(~(Due /\ start = now))
    /\ dates' = dates \cup {start}
    /\ toDelete' = OldIndexFiles(now, dates')
    /\ UNCHANGED now

(* Prune::run(), without --dry-run.                                        *)
Prune ==
    /\ toDelete = {}
    /\ toDelete' = OldIndexFiles(now, dates)
    /\ UNCHANGED <<now, dates, mishaps>>

(* The loop at lines 1073-1090 goes from the latest to the oldest.         *)
Latest(d, D) == d \in D /\ \A e \in D : e <= d

DeleteAgain(d) ==
    /\ Latest(d, toDelete)
    /\ dates' = dates \ {d}
    /\ UNCHANGED <<now, toDelete, mishaps>>

Delete(d) ==
    /\ Latest(d, toDelete)
    /\ dates' = dates \ {d}
    /\ toDelete' = toDelete \ {d}
    /\ UNCHANGED <<now, mishaps>>

(* The process ends before it has deleted them all.                        *)
Stop ==
    /\ toDelete # {}
    /\ Count(TRUE)
    /\ toDelete' = {}
    /\ UNCHANGED <<now, dates>>

Next ==
    \/ Wait
    \/ \E start \in 0..now : Backup(start)
    \/ \E d \in toDelete : Delete(d)
    \/ Prune \/ Stop

Spec == Init /\ [][Next]_vars

-----------------------------------------------------------------------------
(* Properties.                                                             *)

(* However often old files are deleted, the history reaches back to the    *)
(* first backup.                                                           *)
FirstIsKept == 0 \in dates

(* The days of the window that a date is in.                               *)
Span(d) ==
    IF d >= WeeklyUpper(now) THEN 1
    ELSE IF d >= MonthlyUpper(now) THEN Week ELSE Month

(* What goes is older than KeepAll days and has an older one of its day,   *)
(* week or month that stays: no run takes the last one of a window, nor    *)
(* does one that was interrupted and a later one with other windows.       *)
OneOfEachStays ==
    \A d \in toDelete :
        /\ d < DailyUpper(now)
        /\ \E e \in dates \ toDelete : e < d /\ d - e < Span(d) * Day

(* The doc of deleteOldIndexFiles(), "Keeps all index files from within the*)
(* past week" (src/src/Repository.h:96-98), and its comment "Don't delete   *)
(* latest two backups" (src/src/Repository.cpp:980): at least what is both, *)
(* one of the latest two and of the past week, stays.  The code asks the   *)
(* configuration for the days, and spares the oldest of each window.       *)
LatestOfWeekStay ==
    \A d \in toDelete :
        d < now - Week * Day \/ Cardinality({e \in dates : d < e}) >= 2

(* The history has no holes: between two neighbours, from the first backup *)
(* on, there is no more time than two of the days, weeks or months that the*)
(* earlier is in, although the windows move over the backups day by day.   *)
Previous(d) == Max({e \in dates \cup {0} : e < d})

NoHoles ==
    \A d \in dates \ {0} :
        d - Previous(d) <= 2 * Span(Previous(d)) * Day

(* Once a backup has got beyond the first monthly window it stays for ever.*)
OldOnesStay ==
    \A d \in toDelete : d >= MonthlyUpper(now) - Month * Day
=============================================================================
