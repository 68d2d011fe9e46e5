--------------------------- MODULE RetentionProofs ---------------------------
(***************************************************************************)
(* Proofs about deleteOldIndexFiles(), for any boundaries, window lengths, *)
(* schedules and interruptions.                                            *)
(***************************************************************************)
EXTENDS Retention, FiniteSetTheorems, WellFoundedInduction, TLAPS

(* Windows go back from where they start.                                  *)
LEMMA RoundsType ==
    ASSUME NEW days \in Nat \ {0}, NEW keep \in Nat
    PROVE  Rounds(days, keep) \in Nat
BY DEF Rounds

LEMMA ProductType == \A a, b, c \in Nat : a * b * c \in Nat
OBVIOUS

LEMMA WindowsGoBack ==
    ASSUME NEW upper \in Int, NEW days \in Nat \ {0}, NEW rounds \in Int,
           NEW w \in Windows(upper, days, rounds)
    PROVE  w.upper \in Int /\ w.upper <= upper
<1>1. PICK i \in 1..rounds :
          w = [lower |-> upper - i * days * Day,
               upper |-> upper - (i - 1) * days * Day]
  BY DEF Windows
<1>2. (i - 1) * days * Day \in Nat
  <2>1. i - 1 \in Nat
    OBVIOUS
  <2>2. QED
    BY <2>1, ProductType, UnitsAssumption
<1>3. w.upper = upper - (i - 1) * days * Day
  BY <1>1
<1>4. QED
  BY <1>2, <1>3

LEMMA MidnightType ==
    ASSUME NEW t \in Nat
    PROVE  Midnight(t) \in Int /\ Midnight(t) <= t
BY UnitsAssumption DEF Midnight

LEMMA UppersGoBack ==
    ASSUME NEW t \in Nat
    PROVE  /\ DailyUpper(t) \in Int /\ WeeklyUpper(t) \in Int
           /\ MonthlyUpper(t) \in Int
           /\ WeeklyUpper(t) <= DailyUpper(t)
           /\ MonthlyUpper(t) <= WeeklyUpper(t)
           /\ DailyUpper(t) = Midnight(t) - KeepAll * Day
<1> DEFINE daily == Rounds(1, KeepDaily)
           weekly == Rounds(Week, KeepWeekly)
<1>1. KeepAll * Day \in Nat
  BY UnitsAssumption, BoundariesAssumption
<1>2. daily * Day \in Nat
  <2>1. daily \in Nat
    BY RoundsType, BoundariesAssumption
  <2>2. QED
    BY <2>1, UnitsAssumption
<1>3. weekly * Week * Day \in Nat
  <2>1. weekly \in Nat
    BY RoundsType, UnitsAssumption, BoundariesAssumption
  <2>2. QED
    BY <2>1, ProductType, UnitsAssumption
<1>4. Midnight(t) \in Int
  BY MidnightType
<1>5. DailyUpper(t) \in Int
  BY <1>1, <1>4 DEF DailyUpper
<1>6. WeeklyUpper(t) \in Int /\ WeeklyUpper(t) <= DailyUpper(t)
  BY <1>2, <1>5 DEF WeeklyUpper
<1>7. MonthlyUpper(t) \in Int /\ MonthlyUpper(t) <= WeeklyUpper(t)
  BY <1>3, <1>6 DEF MonthlyUpper
<1>8. QED
  BY <1>5, <1>6, <1>7 DEF DailyUpper

LEMMA MonthlyRoundsType ==
    ASSUME NEW t \in Nat, NEW oldest \in Int
    PROVE  MonthlyRounds(t, oldest) \in Int
<1>1. Month * Day \in Nat \ {0}
  BY UnitsAssumption
<1>2. MonthlyUpper(t) \in Int
  BY UppersGoBack
<1>3. QED
  BY <1>1, <1>2 DEF MonthlyRounds

(* No window reaches the days in which all backups are kept.               *)
LEMMA WindowsAreOld ==
    ASSUME NEW t \in Nat, NEW oldest \in Int,
           NEW w \in AllWindows(t, oldest)
    PROVE  w.upper \in Int /\ w.upper <= DailyUpper(t)
<1>1. CASE w \in Windows(DailyUpper(t), 1, Rounds(1, KeepDaily))
  BY <1>1, WindowsGoBack, UppersGoBack, RoundsType, BoundariesAssumption
<1>2. CASE w \in Windows(WeeklyUpper(t), Week, Rounds(Week, KeepWeekly))
  <2>1. w.upper \in Int /\ w.upper <= WeeklyUpper(t)
    BY <1>2, WindowsGoBack, UppersGoBack, RoundsType, UnitsAssumption,
       BoundariesAssumption
  <2>2. QED
    BY <2>1, UppersGoBack
<1>3. CASE w \in Windows(MonthlyUpper(t), Month, MonthlyRounds(t, oldest))
  <2>1. w.upper \in Int /\ w.upper <= MonthlyUpper(t)
    BY <1>3, WindowsGoBack, UppersGoBack, MonthlyRoundsType, UnitsAssumption
  <2>2. QED
    BY <2>1, UppersGoBack
<1>4. QED
  BY <1>1, <1>2, <1>3 DEF AllWindows

-----------------------------------------------------------------------------
(* The first backup is the oldest of any window it is in.                  *)
LEMMA OldIndexFilesType ==
    ASSUME NEW t, NEW D PROVE OldIndexFiles(t, D) \subseteq D
BY DEF OldIndexFiles, Excess, In

LEMMA MinIsZero ==
    ASSUME NEW D \in SUBSET Nat, 0 \in D PROVE Min(D) = 0
<1>1. \A y \in D : 0 =< y
  OBVIOUS
<1>2. \A x \in D : (\A y \in D : x =< y) => x = 0
  BY <1>1
<1>3. QED
  BY <1>1, <1>2 DEF Min

LEMMA FirstIsNotExcess ==
    ASSUME NEW D \in SUBSET Nat
    PROVE  0 \notin Excess(D)
BY MinIsZero DEF Excess

LEMMA FirstIsNotOld ==
    ASSUME NEW t, NEW D \in SUBSET Nat
    PROVE  0 \notin OldIndexFiles(t, D)
<1>1. \A w : In(w, D) \in SUBSET Nat
  BY DEF In
<1>2. \A w : 0 \notin Excess(In(w, D))
  BY <1>1, FirstIsNotExcess
<1>3. QED
  BY <1>2 DEF OldIndexFiles

LEMMA OldIndexFilesAreOld ==
    ASSUME NEW t \in Nat, NEW D \in SUBSET Nat, 0 \in D,
           NEW d \in OldIndexFiles(t, D)
    PROVE  d < Midnight(t) - KeepAll * Day
<1>1. PICK w \in AllWindows(t, Min(D)) : d \in In(w, D)
  BY DEF OldIndexFiles, Excess
<1>2. w \in AllWindows(t, 0) /\ d < w.upper /\ d \in Nat
  BY <1>1, MinIsZero DEF In
<1>3. w.upper \in Int /\ w.upper <= DailyUpper(t) /\ DailyUpper(t) \in Int
  BY <1>2, WindowsAreOld, UppersGoBack
<1>4. DailyUpper(t) = Midnight(t) - KeepAll * Day
  BY DEF DailyUpper
<1>5. QED
  BY <1>2, <1>3, <1>4

-----------------------------------------------------------------------------
(* The inductive invariant: what is about to be deleted is neither the     *)
(* first backup nor a recent one.                                          *)
RecentInv == \A d \in toDelete : d < Midnight(now) - KeepAll * Day
IInv == TypeOK /\ FirstIsKept /\ 0 \notin toDelete /\ RecentInv

LEMMA InitIInv == Init => IInv
BY BoundsAssumption DEF Init, IInv, TypeOK, FirstIsKept, RecentInv

LEMMA CountType ==
    ASSUME TypeOK, NEW mishap \in BOOLEAN, Count(mishap)
    PROVE  mishaps' \in 0..MaxMishaps
BY BoundsAssumption DEF TypeOK, Count

LEMMA NextIInv == IInv /\ [Next]_vars => IInv'
<1> SUFFICES ASSUME IInv, [Next]_vars PROVE IInv'
  OBVIOUS
<1> USE DEF IInv
<1>1. CASE Wait
  <2>1. mishaps' \in 0..MaxMishaps
    BY <1>1, CountType DEF Wait, Due
  <2>2. QED
    BY <1>1, <2>1 DEF Wait, TypeOK, FirstIsKept, RecentInv
<1>2. ASSUME NEW start \in 0..now, Backup(start) PROVE IInv'
  <2>1. mishaps' \in 0..MaxMishaps
    BY <1>2, CountType DEF Backup, Due
  <2>2. dates' \subseteq 0..now /\ 0 \in dates' /\ now' = now /\ now \in Nat
    BY <1>2 DEF Backup, TypeOK, FirstIsKept
  <2>3. toDelete' = OldIndexFiles(now, dates')
    BY <1>2 DEF Backup
  <2>4. dates' \in SUBSET Nat
    BY <2>2
  <2>5. TypeOK'
    BY <2>1, <2>2, <2>3, OldIndexFilesType DEF TypeOK
  <2>6. 0 \notin toDelete'
    BY <2>3, <2>4, FirstIsNotOld
  <2>7. \A d \in toDelete' : d < Midnight(now) - KeepAll * Day
    BY <2>2, <2>3, <2>4, OldIndexFilesAreOld
  <2>8. QED
    BY <2>2, <2>5, <2>6, <2>7 DEF FirstIsKept, RecentInv
<1>3. CASE Prune
  <2>1. dates \in SUBSET Nat /\ now \in Nat /\ 0 \in dates
    BY DEF TypeOK, FirstIsKept
  <2>2. /\ toDelete' = OldIndexFiles(now, dates)
        /\ UNCHANGED <<now, dates, mishaps>>
    BY <1>3 DEF Prune
  <2>3. TypeOK'
    BY <2>2, OldIndexFilesType DEF TypeOK
  <2>4. 0 \notin toDelete'
    BY <2>1, <2>2, FirstIsNotOld
  <2>5. \A d \in toDelete' : d < Midnight(now) - KeepAll * Day
    BY <2>1, <2>2, OldIndexFilesAreOld
  <2>6. QED
    BY <2>2, <2>3, <2>4, <2>5 DEF FirstIsKept, RecentInv
<1>4. ASSUME NEW d \in toDelete, Delete(d) PROVE IInv'
  <2>1. 0 \in dates'
    BY <1>4 DEF Delete, FirstIsKept
  <2>2. QED
    BY <1>4, <2>1 DEF Delete, TypeOK, FirstIsKept, RecentInv
<1>5. CASE Stop
  <2>1. mishaps' \in 0..MaxMishaps
    BY <1>5, CountType DEF Stop
  <2>2. QED
    BY <1>5, <2>1 DEF Stop, TypeOK, FirstIsKept, RecentInv
<1>6. CASE UNCHANGED vars
  BY <1>6 DEF vars, TypeOK, FirstIsKept, RecentInv
<1>7. QED
  BY <1>1, <1>2, <1>3, <1>4, <1>5, <1>6 DEF Next

LEMMA Inductive == Spec => []IInv
BY InitIInv, NextIInv, PTL DEF Spec

(* Every variable keeps its type.                                          *)
THEOREM TypeCorrect == Spec => []TypeOK
BY Inductive, PTL DEF IInv

(* deleteOldIndexFiles() never deletes the first backup of a name.         *)
THEOREM FirstIsAlwaysKept == Spec => []FirstIsKept
BY Inductive, PTL DEF IInv

-----------------------------------------------------------------------------
(* On schedule: no day without a backup, and no expiry that is interrupted.*)
(* There may be further backups and prunes at any time.                    *)
OnTime == ~Stop /\ (Wait => ~Due)

(* What a deleteOldIndexFiles() that is at work will leave, and the backup *)
(* of today, which may still be to come.                                   *)
Last == Midnight(now)
Kept == (dates \ toDelete) \cup {Last}

(* How much of the history may be missing after each point in time.        *)
GapAt(t, s) ==
    IF s >= WeeklyUpper(t) THEN Day
    ELSE IF s >= MonthlyUpper(t) THEN Week * Day ELSE (Month + Week) * Day

(* The backups of each day until they get into the weekly windows; no gap  *)
(* at any point in time, nor at the beginning of the weekly windows.       *)
LastInv == Last \in dates \/ Due
Daily(t, D) == \A s \in 0..Midnight(t) : Midnight(s) = s /\ s >= WeeklyUpper(t) => s \in D
Cover(t, D) == \A s \in Nat : s < Midnight(t) => \E d \in D : s < d /\ d <= s + GapAt(t, s)
Edge(t, D) ==
    MonthlyUpper(t) > 0 => \E d \in D : MonthlyUpper(t) <= d /\ d < MonthlyUpper(t) + Week * Day
CompleteInv == Daily(now, Kept) /\ Cover(now, Kept) /\ Edge(now, Kept)

(* Those that no window since has found together with an earlier one.      *)
Lag == IF Due THEN Day ELSE 0
Weekly == Rounds(Week, KeepWeekly) > 0
Apart(d, e, weekly, monthly) ==
    /\ e < monthly => e >= Midnight(d) + Month * Day
    /\ Weekly /\ e < weekly => e >= Midnight(d) + Week * Day
Spaced(t, D) ==
    \A d, e \in D : d < e => Apart(d, e, WeeklyUpper(t) - Day, MonthlyUpper(t) - Day)
SpacingInv ==
    \A d, e \in dates :
        d < e /\ e \notin toDelete => Apart(d, e, WeeklyUpper(now) - Lag, MonthlyUpper(now) - Lag)

OnTimeInv ==
    IInv /\ LastInv /\ CompleteInv /\ SpacingInv /\ OldOnesStay

-----------------------------------------------------------------------------
(* Multiples of a day.                                                     *)
Aligned(t) == \E k \in Int : t = k * Day

LEMMA DayType == Day \in Nat /\ Day > 0 /\ Week \in Nat /\ Week > 0 /\ Month \in Nat /\ Month > 0
BY UnitsAssumption

LEMMA Monotone ==
    ASSUME NEW a \in Int, NEW b \in Int, NEW c \in Nat, a <= b
    PROVE  a * c <= b * c /\ a * c \in Int /\ b * c \in Int
OBVIOUS

LEMMA AlignedStep ==
    ASSUME NEW x \in Int, NEW y \in Int, Aligned(x), Aligned(y), x < y
    PROVE  x + Day <= y
<1>1. PICK k \in Int : x = k * Day
  BY DEF Aligned
<1>2. PICK l \in Int : y = l * Day
  BY DEF Aligned
<1>3. k < l
  <2>1. SUFFICES ASSUME l <= k PROVE FALSE
    OBVIOUS
  <2>2. y <= x
    BY <1>1, <1>2, <2>1, Monotone, DayType
  <2>3. QED
    BY <2>2
<1>4. (k + 1) * Day <= l * Day
  BY <1>3, Monotone, DayType
<1>5. (k + 1) * Day = k * Day + Day
  BY DayType
<1>6. QED
  BY <1>1, <1>2, <1>4, <1>5

LEMMA AlignedMinus ==
    ASSUME NEW x \in Int, Aligned(x), NEW n \in Int
    PROVE  x - n * Day \in Int /\ Aligned(x - n * Day)
<1>1. PICK k \in Int : x = k * Day
  BY DEF Aligned
<1>2. x - n * Day = (k - n) * Day /\ k - n \in Int /\ n * Day \in Int
  BY <1>1, DayType
<1>3. QED
  BY <1>2 DEF Aligned

LEMMA MidnightIs ==
    ASSUME NEW t \in Nat
    PROVE  /\ Midnight(t) \in Nat /\ Aligned(Midnight(t))
           /\ Midnight(t) <= t /\ t < Midnight(t) + Day
           /\ (t % Day = 0) <=> Midnight(t) = t
<1>1. Day \in Nat /\ Day > 0
  BY DayType
<1>2. t % Day \in 0..(Day - 1) /\ t \div Day \in Nat
  BY <1>1
<1>3. t = (t \div Day) * Day + (t % Day)
  BY <1>1
<1>4. Midnight(t) = (t \div Day) * Day /\ Midnight(t) = t - (t % Day)
  <2>1. (t \div Day) * Day \in Nat
    BY <1>1, <1>2
  <2>2. QED
    BY <1>1, <1>2, <1>3, <2>1 DEF Midnight
<1>5. Aligned(Midnight(t))
  BY <1>2, <1>4 DEF Aligned
<1>6. QED
  BY <1>1, <1>2, <1>4, <1>5

LEMMA AlignedBelow ==
    ASSUME NEW x \in Int, Aligned(x), NEW t \in Nat, x <= t
    PROVE  x <= Midnight(t)
<1>1. SUFFICES ASSUME Midnight(t) < x PROVE FALSE
  BY MidnightIs
<1>2. Midnight(t) + Day <= x
  BY <1>1, AlignedStep, MidnightIs
<1>3. QED
  BY <1>2, MidnightIs, DayType

LEMMA AlignedIsMidnight ==
    ASSUME NEW x \in Nat, Aligned(x)
    PROVE  Midnight(x) = x
BY AlignedBelow, MidnightIs

LEMMA NextMidnight ==
    ASSUME NEW t \in Nat
    PROVE  LET n == Midnight(t) + Day
           IN  n \in Nat /\ Aligned(n) /\ Midnight(n) = n /\ t < n /\ n <= t + Day
<1> DEFINE n == Midnight(t) + Day
<1>1. n \in Nat /\ t < n /\ n <= t + Day
  <2>1. Midnight(t) \in Nat /\ Midnight(t) <= t /\ t < Midnight(t) + Day
    BY MidnightIs
  <2>2. QED
    BY <2>1, DayType
<1>2. Aligned(n)
  <2>1. n = Midnight(t) - (-1) * Day
    BY MidnightIs, DayType
  <2>2. QED
    BY <2>1, AlignedMinus, MidnightIs
<1>3. QED
  BY <1>1, <1>2, AlignedIsMidnight

(* The day goes on, or the next one begins.                                *)
LEMMA OneMore ==
    ASSUME NEW t \in Nat
    PROVE  \/ (t + 1) % Day # 0 /\ Midnight(t + 1) = Midnight(t)
           \/ (t + 1) % Day = 0 /\ Midnight(t + 1) = Midnight(t) + Day /\ Midnight(t + 1) = t + 1
<1> DEFINE m == Midnight(t)
           n == Midnight(t + 1)
<1>1. m \in Nat /\ Aligned(m) /\ m <= t /\ t < m + Day
  BY MidnightIs
<1>2. n \in Nat /\ Aligned(n) /\ n <= t + 1 /\ t + 1 < n + Day /\ ((t + 1) % Day = 0 <=> n = t + 1)
  BY MidnightIs
<1>3. m <= n
  BY <1>1, <1>2, AlignedBelow
<1> HIDE DEF m, n
<1>4. CASE m = n
  BY <1>1, <1>2, <1>4 DEF m, n
<1>5. CASE m < n
  <2>1. m + Day <= n
    BY <1>1, <1>2, <1>5, AlignedStep
  <2>2. n = m + Day /\ n = t + 1
    BY <1>1, <1>2, <2>1, DayType
  <2>3. QED
    BY <1>2, <2>2 DEF m, n
<1>6. QED
  BY <1>1, <1>2, <1>3, <1>4, <1>5

-----------------------------------------------------------------------------
(* The windows.                                                            *)

LEMMA UppersMove ==
    ASSUME NEW s \in Nat, NEW t \in Nat, NEW n \in Int, Midnight(t) = Midnight(s) + n
    PROVE  /\ DailyUpper(t) = DailyUpper(s) + n /\ WeeklyUpper(t) = WeeklyUpper(s) + n
           /\ MonthlyUpper(t) = MonthlyUpper(s) + n
<1> DEFINE daily == Rounds(1, KeepDaily) * Day
           weekly == Rounds(Week, KeepWeekly) * Week * Day
           all == KeepAll * Day
<1>1. daily \in Int /\ weekly \in Int /\ all \in Int
  <2>1. Rounds(1, KeepDaily) \in Nat /\ Rounds(Week, KeepWeekly) \in Nat
    BY RoundsType, UnitsAssumption, BoundariesAssumption
  <2>2. QED
    BY <2>1, ProductType, DayType, BoundariesAssumption
<1>2. Midnight(s) \in Nat /\ Midnight(t) \in Nat
  BY MidnightIs
<1> HIDE DEF daily, weekly, all
<1>3. DailyUpper(t) = Midnight(t) - all /\ DailyUpper(s) = Midnight(s) - all
  BY DEF DailyUpper, all
<1>4. WeeklyUpper(t) = DailyUpper(t) - daily /\ WeeklyUpper(s) = DailyUpper(s) - daily
  BY DEF WeeklyUpper, daily
<1>5. MonthlyUpper(t) = WeeklyUpper(t) - weekly /\ MonthlyUpper(s) = WeeklyUpper(s) - weekly
  BY DEF MonthlyUpper, weekly
<1>6. QED
  BY <1>1, <1>2, <1>3, <1>4, <1>5

LEMMA UppersAligned ==
    ASSUME NEW t \in Nat
    PROVE  /\ DailyUpper(t) \in Int /\ Aligned(DailyUpper(t)) /\ DailyUpper(t) <= Midnight(t)
           /\ WeeklyUpper(t) \in Int /\ Aligned(WeeklyUpper(t)) /\ WeeklyUpper(t) <= DailyUpper(t)
           /\ MonthlyUpper(t) \in Int /\ Aligned(MonthlyUpper(t)) /\ MonthlyUpper(t) <= WeeklyUpper(t)
           /\ ~Weekly => MonthlyUpper(t) = WeeklyUpper(t)
<1> DEFINE daily == Rounds(1, KeepDaily)
           weekly == Rounds(Week, KeepWeekly)
<1>1. daily \in Nat /\ weekly \in Nat /\ weekly * Week \in Nat
  BY RoundsType, UnitsAssumption, BoundariesAssumption
<1>2. Midnight(t) \in Nat /\ Aligned(Midnight(t))
  BY MidnightIs
<1>3. DailyUpper(t) \in Int /\ Aligned(DailyUpper(t))
  BY <1>2, AlignedMinus, BoundariesAssumption DEF DailyUpper
<1>4. WeeklyUpper(t) \in Int /\ Aligned(WeeklyUpper(t))
  BY <1>1, <1>3, AlignedMinus DEF WeeklyUpper
<1>5. MonthlyUpper(t) \in Int /\ Aligned(MonthlyUpper(t))
  BY <1>1, <1>4, AlignedMinus DEF MonthlyUpper
<1>6. KeepAll * Day \in Nat
  BY DayType, BoundariesAssumption
<1>7. DailyUpper(t) <= Midnight(t)
  BY <1>2, <1>6 DEF DailyUpper
<1>8. ASSUME ~Weekly PROVE MonthlyUpper(t) = WeeklyUpper(t)
  <2>1. weekly = 0
    BY <1>1, <1>8 DEF Weekly
  <2>2. weekly * Week * Day = 0
    BY <2>1, DayType
  <2>3. QED
    BY <1>4, <2>2 DEF MonthlyUpper
<1>9. QED
  BY <1>3, <1>4, <1>5, <1>7, <1>8, UppersGoBack

LEMMA Assoc == \A i \in Int : \A a, b \in Nat : i * a * b = i * (a * b) /\ a * b \in Nat
OBVIOUS

(* The windows of one loop lie one behind the other.                       *)
LEMMA WindowIs ==
    ASSUME NEW upper \in Int, Aligned(upper), NEW days \in Nat \ {0}, NEW rounds \in Int,
           NEW w \in Windows(upper, days, rounds)
    PROVE  /\ w.lower \in Int /\ Aligned(w.lower) /\ w.upper = w.lower + days * Day
           /\ w.upper <= upper /\ upper - rounds * days * Day <= w.lower
           /\ w.upper = upper \/ w.upper <= upper - days * Day
           /\ \E i \in Int : w.lower = upper - i * (days * Day)
<1>1. PICK i \in 1..rounds :
          w = [lower |-> upper - i * days * Day, upper |-> upper - (i - 1) * days * Day]
  BY DEF Windows
<1> DEFINE length == days * Day
<1>2. length \in Nat /\ length > 0
  BY DayType
<1>3. w.lower = upper - i * length /\ w.upper = upper - (i - 1) * length
  <2>1. i * days * Day = i * length /\ (i - 1) * days * Day = (i - 1) * length
    BY Assoc, DayType
  <2>2. QED
    BY <1>1, <2>1
<1>4. rounds * days * Day = rounds * length
  BY Assoc, DayType
<1>5. i * length <= rounds * length /\ i * length \in Int /\ rounds * length \in Int
  BY <1>2, Monotone
<1>6. (i - 1) * length = i * length - length
  BY <1>2
<1>7. 1 * length <= i * length
  BY <1>2, Monotone
<1>8. i = 1 \/ 2 * length <= i * length
  <2>1. i = 1 \/ 2 <= i
    OBVIOUS
  <2>2. QED
    BY <1>2, <2>1, Monotone
<1>9. Aligned(w.lower)
  <2>1. w.lower = upper - (i * days) * Day /\ i * days \in Int
    BY <1>1
  <2>2. QED
    BY <2>1, AlignedMinus
<1> DEFINE past == i * length
<1>10. CASE i = 1
  <2>1. past = length
    BY <1>2, <1>10
  <2>2. w.lower = upper - past /\ w.upper = upper - (past - length) /\ past <= rounds * length
    BY <1>3, <1>5, <1>6
  <2> HIDE DEF past
  <2>3. w.upper = upper /\ w.lower = upper - length /\ upper - rounds * length <= w.lower
    BY <1>2, <1>5, <2>1, <2>2
  <2>4. QED
    BY <1>2, <1>3, <1>4, <1>9, <2>3
<1> HIDE DEF length, past
<1>11. CASE 2 * length <= i * length
  BY <1>2, <1>3, <1>4, <1>5, <1>6, <1>9, <1>11 DEF length, past
<1>12. QED
  BY <1>8, <1>10, <1>11

LEMMA OneWindow ==
    ASSUME NEW upper \in Int, NEW length \in Nat, length > 0, NEW i \in Int, NEW j \in Int, NEW x \in Int,
           upper - i * length <= x, x < upper - i * length + length,
           upper - j * length <= x, x < upper - j * length + length
    PROVE  i = j
<1>1. ASSUME NEW k \in Int, NEW l \in Int, k < l, upper - k * length <= x,
             x < upper - l * length + length
      PROVE  FALSE
  <2>1. k * length <= (l - 1) * length /\ k * length \in Int
    BY <1>1, Monotone
  <2>2. (l - 1) * length = l * length - length /\ l * length \in Int
    OBVIOUS
  <2>3. QED
    BY <1>1, <2>1, <2>2
<1>2. i * length \in Int /\ j * length \in Int
  OBVIOUS
<1>3. CASE i < j
  BY <1>1, <1>3
<1>4. CASE j < i
  BY <1>1, <1>4
<1>5. QED
  BY <1>3, <1>4

(* The windows of the days, the weeks and the months.                      *)
IsDaily(w, t) == w.upper = w.lower + Day /\ WeeklyUpper(t) <= w.lower
IsWeekly(w, t) ==
    /\ Weekly /\ w.upper = w.lower + Week * Day
    /\ MonthlyUpper(t) <= w.lower /\ w.upper <= WeeklyUpper(t)
    /\ w.upper = WeeklyUpper(t) \/ w.upper <= WeeklyUpper(t) - Week * Day
IsMonthly(w, t) ==
    /\ w.upper = w.lower + Month * Day /\ w.upper <= MonthlyUpper(t)
    /\ w.upper = MonthlyUpper(t) \/ w.upper <= MonthlyUpper(t) - Month * Day

LEMMA WindowKinds ==
    ASSUME NEW t \in Nat, NEW w \in AllWindows(t, 0)
    PROVE  /\ w.lower \in Int /\ w.upper \in Int /\ Aligned(w.lower)
           /\ w.lower < w.upper /\ w.upper <= DailyUpper(t)
           /\ \/ IsDaily(w, t) /\ \E i \in Int : w.lower = DailyUpper(t) - i * Day
              \/ IsWeekly(w, t) /\ \E i \in Int : w.lower = WeeklyUpper(t) - i * (Week * Day)
              \/ IsMonthly(w, t) /\ \E i \in Int : w.lower = MonthlyUpper(t) - i * (Month * Day)
<1>1. /\ DailyUpper(t) \in Int /\ Aligned(DailyUpper(t)) /\ WeeklyUpper(t) \in Int /\ Aligned(WeeklyUpper(t))
      /\ MonthlyUpper(t) \in Int /\ Aligned(MonthlyUpper(t))
  BY UppersAligned
<1>2. /\ 1 * Day = Day /\ Week * Day \in Nat /\ Week * Day > 0 /\ Month * Day \in Nat /\ Month * Day > 0
      /\ 1 \in Nat \ {0} /\ Week \in Nat \ {0} /\ Month \in Nat \ {0}
  BY DayType
<1>3. w.upper <= DailyUpper(t)
  BY WindowsAreOld
<1>4. CASE w \in Windows(DailyUpper(t), 1, Rounds(1, KeepDaily))
  <2>1. Rounds(1, KeepDaily) \in Int
    BY RoundsType, BoundariesAssumption, <1>2
  <2>2. /\ w.lower \in Int /\ Aligned(w.lower) /\ w.upper = w.lower + 1 * Day
        /\ DailyUpper(t) - Rounds(1, KeepDaily) * 1 * Day <= w.lower
        /\ \E i \in Int : w.lower = DailyUpper(t) - i * (1 * Day)
    BY <1>1, <1>2, <1>4, <2>1, WindowIs
  <2>3. Rounds(1, KeepDaily) * 1 * Day = Rounds(1, KeepDaily) * Day
    BY <2>1
  <2>4. WeeklyUpper(t) <= w.lower
    BY <2>2, <2>3 DEF WeeklyUpper
  <2>5. QED
    BY <1>2, <1>3, <2>2, <2>4, DayType DEF IsDaily
<1>5. CASE w \in Windows(WeeklyUpper(t), Week, Rounds(Week, KeepWeekly))
  <2>1. Rounds(Week, KeepWeekly) \in Nat
    BY RoundsType, BoundariesAssumption, <1>2
  <2>2. /\ w.lower \in Int /\ Aligned(w.lower) /\ w.upper = w.lower + Week * Day
        /\ w.upper <= WeeklyUpper(t)
        /\ WeeklyUpper(t) - Rounds(Week, KeepWeekly) * Week * Day <= w.lower
        /\ w.upper = WeeklyUpper(t) \/ w.upper <= WeeklyUpper(t) - Week * Day
        /\ \E i \in Int : w.lower = WeeklyUpper(t) - i * (Week * Day)
    BY <1>1, <1>2, <1>5, <2>1, WindowIs
  <2>3. MonthlyUpper(t) <= w.lower
    BY <2>2 DEF MonthlyUpper
  <2>4. Weekly
    <3>1. PICK i \in 1..Rounds(Week, KeepWeekly) : TRUE
      BY <1>5 DEF Windows
    <3>2. QED
      BY <2>1, <3>1 DEF Weekly
  <2>5. QED
    BY <1>2, <1>3, <2>2, <2>3, <2>4 DEF IsWeekly
<1>6. CASE w \in Windows(MonthlyUpper(t), Month, MonthlyRounds(t, 0))
  <2>1. MonthlyRounds(t, 0) \in Int
    BY MonthlyRoundsType
  <2>2. /\ w.lower \in Int /\ Aligned(w.lower) /\ w.upper = w.lower + Month * Day
        /\ w.upper <= MonthlyUpper(t)
        /\ w.upper = MonthlyUpper(t) \/ w.upper <= MonthlyUpper(t) - Month * Day
        /\ \E i \in Int : w.lower = MonthlyUpper(t) - i * (Month * Day)
    BY <1>1, <1>2, <1>6, <2>1, WindowIs
  <2>3. QED
    BY <1>2, <1>3, <2>2 DEF IsMonthly
<1>7. QED
  BY <1>4, <1>5, <1>6 DEF AllWindows

(* The first ones.                                                         *)
LEMMA FirstWindows ==
    ASSUME NEW t \in Nat
    PROVE  /\ Weekly => \E w \in AllWindows(t, 0) :
                  w.upper = WeeklyUpper(t) /\ w.lower = WeeklyUpper(t) - Week * Day
           /\ \E w \in AllWindows(t, 0) :
                  w.upper = MonthlyUpper(t) /\ w.lower = MonthlyUpper(t) - Month * Day
<1> DEFINE First(upper, days) == [lower |-> upper - 1 * days * Day, upper |-> upper - (1 - 1) * days * Day]
<1>1. /\ WeeklyUpper(t) \in Int /\ MonthlyUpper(t) \in Int
  BY UppersAligned
<1>2. ASSUME NEW upper \in Int, NEW days \in Nat
      PROVE  First(upper, days).upper = upper /\ First(upper, days).lower = upper - days * Day
  BY <1>2, DayType
<1>3. ASSUME Weekly
      PROVE  First(WeeklyUpper(t), Week) \in AllWindows(t, 0)
  <2>1. 1 \in 1..Rounds(Week, KeepWeekly)
    BY <1>3, RoundsType, UnitsAssumption, BoundariesAssumption DEF Weekly
  <2>2. QED
    BY <2>1 DEF AllWindows, Windows
<1>4. First(MonthlyUpper(t), Month) \in AllWindows(t, 0)
  <2>1. 1 <= MonthlyRounds(t, 0)
    <3>1. CASE MonthlyUpper(t) <= 0
      BY <3>1 DEF MonthlyRounds
    <3>2. CASE MonthlyUpper(t) > 0
      <4>1. Month * Day \in Nat /\ Month * Day > 0 /\ MonthlyUpper(t) - 0 - 1 \in Nat
        BY <1>1, <3>2, DayType
      <4>2. (MonthlyUpper(t) - 0 - 1) \div (Month * Day) \in Nat
        BY <4>1
      <4>3. QED
        BY <1>1, <3>2, <4>2 DEF MonthlyRounds
    <3>3. QED
      BY <1>1, <3>1, <3>2
  <2>2. 1 \in 1..MonthlyRounds(t, 0)
    BY <2>1, MonthlyRoundsType
  <2>3. QED
    BY <2>2 DEF AllWindows, Windows
<1> HIDE DEF First
<1>5. QED
  BY <1>1, <1>2, <1>3, <1>4, DayType

(* Windows do not overlap.                                                 *)
LEMMA Disjoint ==
    ASSUME NEW t \in Nat, NEW v \in AllWindows(t, 0), NEW w \in AllWindows(t, 0), NEW x \in Int,
           v.lower <= x, x < v.upper, w.lower <= x, x < w.upper
    PROVE  v.lower = w.lower
<1>1. /\ DailyUpper(t) \in Int /\ WeeklyUpper(t) \in Int /\ MonthlyUpper(t) \in Int
      /\ MonthlyUpper(t) <= WeeklyUpper(t)
  BY UppersAligned
<1>2. Day > 0 /\ Day \in Nat /\ Week * Day \in Nat /\ Week * Day > 0 /\ Month * Day \in Nat /\ Month * Day > 0
  BY DayType
<1>3. v.lower \in Int /\ w.lower \in Int /\ v.upper \in Int /\ w.upper \in Int
  BY WindowKinds
<1>4. ASSUME NEW upper \in Int, NEW length \in Nat, length > 0,
             v.upper = v.lower + length, w.upper = w.lower + length,
             \E i \in Int : v.lower = upper - i * length, \E i \in Int : w.lower = upper - i * length
      PROVE  v.lower = w.lower
  <2>1. PICK i \in Int : v.lower = upper - i * length
    BY <1>4
  <2>2. PICK j \in Int : w.lower = upper - j * length
    BY <1>4
  <2>3. i = j
    BY <1>4, <2>1, <2>2, OneWindow
  <2>4. QED
    BY <2>1, <2>2, <2>3
<1>5. CASE IsDaily(v, t) /\ (\E i \in Int : v.lower = DailyUpper(t) - i * Day)
  <2>1. ~IsWeekly(w, t) /\ ~IsMonthly(w, t)
    BY <1>1, <1>3, <1>5 DEF IsDaily, IsWeekly, IsMonthly
  <2>2. IsDaily(w, t) /\ (\E i \in Int : w.lower = DailyUpper(t) - i * Day)
    BY <2>1, WindowKinds
  <2>3. QED
    BY <1>1, <1>2, <1>4, <1>5, <2>2 DEF IsDaily
<1>6. CASE IsWeekly(v, t) /\ (\E i \in Int : v.lower = WeeklyUpper(t) - i * (Week * Day))
  <2>1. ~IsDaily(w, t) /\ ~IsMonthly(w, t)
    BY <1>1, <1>3, <1>6 DEF IsDaily, IsWeekly, IsMonthly
  <2>2. IsWeekly(w, t) /\ (\E i \in Int : w.lower = WeeklyUpper(t) - i * (Week * Day))
    BY <2>1, WindowKinds
  <2>3. QED
    BY <1>1, <1>2, <1>4, <1>6, <2>2 DEF IsWeekly
<1>7. CASE IsMonthly(v, t) /\ (\E i \in Int : v.lower = MonthlyUpper(t) - i * (Month * Day))
  <2>1. ~IsDaily(w, t) /\ ~IsWeekly(w, t)
    BY <1>1, <1>3, <1>7 DEF IsDaily, IsWeekly, IsMonthly
  <2>2. IsMonthly(w, t) /\ (\E i \in Int : w.lower = MonthlyUpper(t) - i * (Month * Day))
    BY <2>1, WindowKinds
  <2>3. QED
    BY <1>1, <1>2, <1>4, <1>7, <2>2 DEF IsMonthly
<1>8. QED
  BY <1>5, <1>6, <1>7, WindowKinds

-----------------------------------------------------------------------------
(* What deleteOldIndexFiles() deletes.                                     *)

LEMMA Smallest ==
    ASSUME NEW T, T \subseteq Nat, T # {}
    PROVE  \E n \in T : \A m \in T : n <= m
<1> DEFINE R == {ss \in Nat \X Nat : ss[1] < ss[2]}
<1>1. IsWellFoundedOn(R, Nat)
  BY NatLessThanWellFounded, Zenon DEF OpToRel
<1>2. PICK n \in T : \A m \in T : ~(<<m, n>> \in R)
  <2> HIDE DEF R
  <2>1. QED
    BY <1>1, WFMin
<1>3. \A m \in T : ~(m < n)
  BY <1>2
<1>4. QED
  BY <1>3

LEMMA Largest ==
    ASSUME NEW T, T \subseteq Nat, T # {}, NEW bound \in Nat, \A n \in T : n <= bound
    PROVE  \E n \in T : \A m \in T : m <= n
<1> DEFINE R == {bound - n : n \in T}
<1>1. R \subseteq Nat /\ R # {}
  <2>1. \A n \in T : n \in Nat /\ bound - n \in Nat
    OBVIOUS
  <2>2. PICK n \in T : TRUE
    OBVIOUS
  <2>3. bound - n \in R
    BY <2>2
  <2>4. QED
    BY <2>1, <2>3
<1>2. PICK r \in R : \A s \in R : r <= s
  <2> HIDE DEF R
  <2>1. QED
    BY <1>1, Smallest
<1>3. PICK n \in T : r = bound - n
  BY <1>2
<1>4. ASSUME NEW m \in T PROVE m <= n
  <2>1. bound - m \in R
    OBVIOUS
  <2>2. bound - n <= bound - m /\ n \in Nat /\ m \in Nat
    BY <1>2, <1>3, <2>1
  <2>3. QED
    BY <2>2
<1>5. QED
  BY <1>4

LEMMA MinIs ==
    ASSUME NEW D \in SUBSET Nat, D # {}
    PROVE  Min(D) \in D /\ \A y \in D : Min(D) <= y
BY Smallest DEF Min

(* Every one but the first of each window.                                 *)
LEMMA OldHas ==
    ASSUME NEW t \in Nat, NEW D \in SUBSET Nat, 0 \in D, NEW d \in OldIndexFiles(t, D)
    PROVE  \E w \in AllWindows(t, 0) : \E e \in D :
               /\ w.lower <= e /\ e < d /\ d < w.upper /\ d \in D
               /\ e \notin OldIndexFiles(t, D)
<1>1. PICK w \in AllWindows(t, 0) : d \in Excess(In(w, D))
  BY MinIsZero DEF OldIndexFiles
<1>2. In(w, D) \in SUBSET Nat /\ In(w, D) # {} /\ d \in In(w, D) /\ d # Min(In(w, D))
  BY <1>1 DEF Excess, In
<1>3. PICK e \in In(w, D) : e < d /\ \A y \in In(w, D) : e <= y
  BY <1>2, MinIs
<1>4. e \in D /\ w.lower <= e /\ e < w.upper /\ d < w.upper /\ d \in D /\ e \in Nat
  BY <1>2, <1>3 DEF In
<1>5. e \notin OldIndexFiles(t, D)
  <2>1. SUFFICES ASSUME e \in OldIndexFiles(t, D) PROVE FALSE
    OBVIOUS
  <2>2. PICK v \in AllWindows(t, 0) : e \in Excess(In(v, D))
    BY <2>1, MinIsZero DEF OldIndexFiles
  <2>3. In(v, D) \in SUBSET Nat /\ In(v, D) # {} /\ e \in In(v, D) /\ e # Min(In(v, D))
    BY <2>2 DEF Excess, In
  <2>4. PICK f \in In(v, D) : f < e
    BY <2>3, MinIs
  <2>5. f \in D /\ f \in Nat /\ v.lower <= f /\ v.lower <= e /\ e < v.upper
    BY <2>3, <2>4 DEF In
  <2>6. v.lower = w.lower
    BY <1>4, <2>5, Disjoint
  <2>7. w.lower <= f /\ f < w.upper
    BY <1>4, <2>4, <2>5, <2>6, WindowKinds
  <2>8. f \in In(w, D)
    BY <2>5, <2>7 DEF In
  <2>9. QED
    BY <1>3, <1>4, <2>4, <2>5, <2>8
<1>6. QED
  BY <1>3, <1>4, <1>5

-----------------------------------------------------------------------------
(* What goes leaves an older one of its window behind.                     *)
LEMMA SpanIs ==
    ASSUME NEW w \in AllWindows(now, 0), now \in Nat, NEW d \in Int,
           w.lower <= d, d < w.upper
    PROVE  w.upper = w.lower + Span(d) * Day
<1>1. /\ DailyUpper(now) \in Int /\ WeeklyUpper(now) \in Int /\ MonthlyUpper(now) \in Int
      /\ MonthlyUpper(now) <= WeeklyUpper(now) /\ 1 * Day = Day
      /\ w.lower \in Int /\ w.upper \in Int
  BY UppersAligned, WindowKinds, DayType
<1>2. IsDaily(w, now) \/ IsWeekly(w, now) \/ IsMonthly(w, now)
  BY WindowKinds
<1>3. CASE IsDaily(w, now)
  <2>1. Span(d) = 1
    BY <1>1, <1>3 DEF IsDaily, Span
  <2>2. QED
    BY <1>1, <1>3, <2>1 DEF IsDaily
<1>4. CASE IsWeekly(w, now)
  <2>1. Span(d) = Week
    BY <1>1, <1>4 DEF IsWeekly, Span
  <2>2. QED
    BY <1>4, <2>1 DEF IsWeekly
<1>5. CASE IsMonthly(w, now)
  <2>1. Span(d) = Month
    BY <1>1, <1>5 DEF IsMonthly, Span
  <2>2. QED
    BY <1>5, <2>1 DEF IsMonthly
<1>6. QED
  BY <1>2, <1>3, <1>4, <1>5

LEMMA OneOfEach ==
    ASSUME now \in Nat, NEW D \in SUBSET Nat, 0 \in D, NEW d \in OldIndexFiles(now, D)
    PROVE  /\ d < DailyUpper(now)
           /\ \E e \in D \ OldIndexFiles(now, D) : e < d /\ d - e < Span(d) * Day
<1>1. PICK w \in AllWindows(now, 0), e \in D :
          w.lower <= e /\ e < d /\ d < w.upper /\ d \in D /\ e \notin OldIndexFiles(now, D)
  BY OldHas
<1>2. w.lower \in Int /\ w.upper \in Int /\ d \in Int /\ e \in Int
  BY <1>1, WindowKinds
<1>3. w.upper = w.lower + Span(d) * Day
  BY <1>1, <1>2, SpanIs
<1>4. Span(d) * Day \in Int
  BY DayType DEF Span
<1>5. d - e < Span(d) * Day
  BY <1>1, <1>2, <1>3, <1>4
<1>6. d < DailyUpper(now)
  BY OldIndexFilesAreOld DEF DailyUpper
<1>7. QED
  BY <1>1, <1>5, <1>6

LEMMA OneOfEachInductive ==
    ASSUME IInv, OneOfEachStays, [Next]_vars
    PROVE  OneOfEachStays'
<1>1. now \in Nat /\ dates \in SUBSET Nat /\ 0 \in dates
  BY DEF IInv, TypeOK, FirstIsKept
<1>2. CASE Wait \/ Stop
  BY <1>2 DEF Wait, Stop, OneOfEachStays
<1>3. ASSUME NEW start \in 0..now, Backup(start) PROVE OneOfEachStays'
  <2>1. now' = now /\ dates' \in SUBSET Nat /\ 0 \in dates'
    BY <1>1, <1>3 DEF Backup
  <2>2. toDelete' = OldIndexFiles(now, dates')
    BY <1>3 DEF Backup
  <2>3. QED
    BY <1>1, <2>1, <2>2, OneOfEach DEF OneOfEachStays, Span, DailyUpper, WeeklyUpper, MonthlyUpper
<1>4. CASE Prune
  <2>1. now' = now /\ dates' = dates /\ toDelete' = OldIndexFiles(now, dates)
    BY <1>4 DEF Prune
  <2>2. QED
    BY <1>1, <2>1, OneOfEach DEF OneOfEachStays, Span, DailyUpper, WeeklyUpper, MonthlyUpper
<1>5. ASSUME NEW d \in toDelete, Delete(d) PROVE OneOfEachStays'
  <2>1. now' = now /\ toDelete' \subseteq toDelete /\ dates' \ toDelete' = dates \ toDelete
    BY <1>5 DEF Delete
  <2>2. QED
    BY <2>1 DEF OneOfEachStays, Span, DailyUpper, WeeklyUpper, MonthlyUpper
<1>6. CASE UNCHANGED vars
  BY <1>6 DEF vars, OneOfEachStays, Span, DailyUpper, WeeklyUpper, MonthlyUpper
<1>7. QED
  BY <1>2, <1>3, <1>4, <1>5, <1>6 DEF Next

(* What deleteOldIndexFiles() deletes is older than KeepAll days, and an   *)
(* older backup of the same day, week or month stays, however often it runs*)
(* and is interrupted.                                                     *)
THEOREM OneOfEachAlwaysStays == Spec => []OneOfEachStays
<1>1. Init => OneOfEachStays
  BY DEF Init, OneOfEachStays
<1>2. QED
  BY <1>1, Inductive, OneOfEachInductive, PTL DEF Spec

LEMMA OldWhen ==
    ASSUME NEW t \in Nat, NEW D \in SUBSET Nat, 0 \in D, IsFiniteSet(D), Cardinality(D) > 2,
           NEW w \in AllWindows(t, 0), NEW d \in D, NEW e \in D, w.lower <= e, e < d, d < w.upper
    PROVE  d \in OldIndexFiles(t, D)
<1>1. w.lower \in Int /\ w.upper \in Int
  BY WindowKinds
<1>2. d \in In(w, D) /\ e \in In(w, D) /\ In(w, D) \in SUBSET Nat
  <2>1. w.lower <= d /\ e < w.upper
    BY <1>1
  <2>2. QED
    BY <2>1 DEF In
<1>3. Min(In(w, D)) <= e /\ Min(In(w, D)) \in Nat
  BY <1>2, MinIs
<1>4. d \in Excess(In(w, D))
  BY <1>2, <1>3 DEF Excess
<1>5. ~(Cardinality(D) <= 2)
  BY FS_CardinalityType
<1>6. QED
  BY <1>4, <1>5, MinIsZero DEF OldIndexFiles

LEMMA ThreeAreEnough ==
    ASSUME NEW D \in SUBSET Nat, IsFiniteSet(D), NEW a \in D, NEW b \in D, NEW c \in D, a < b, b < c
    PROVE  Cardinality(D) > 2
<1>1. IsFiniteSet({}) /\ Cardinality({}) = 0
  BY FS_EmptySet
<1>2. IsFiniteSet({a}) /\ Cardinality({a}) = 1
  BY FS_Singleton
<1> b \notin {a} /\ c \notin {a} \cup {b}
  OBVIOUS
<1> DEFINE one == {a}
<1> HIDE DEF one
<1>3. IsFiniteSet(one \cup {b}) /\ Cardinality(one \cup {b}) = 2
  <2>1. IsFiniteSet(one) /\ Cardinality(one) = 1 /\ b \notin one
    BY <1>2 DEF one
  <2>2. QED
    BY <2>1, FS_AddElement
<1> DEFINE two == one \cup {b}
<1> HIDE DEF two
<1>4. IsFiniteSet(two \cup {c}) /\ Cardinality(two \cup {c}) = 3
  <2>1. IsFiniteSet(two) /\ Cardinality(two) = 2 /\ c \notin two
    BY <1>3 DEF one, two
  <2>2. QED
    BY <2>1, FS_AddElement
<1>5. Cardinality(two \cup {c}) <= Cardinality(D)
  <2>1. two \cup {c} \in SUBSET D
    BY DEF one, two
  <2>2. QED
    BY <2>1, FS_Subset
<1>6. QED
  BY <1>4, <1>5, FS_CardinalityType

(* What is not in a first window of its kind is alone in its window.       *)
LEMMA SpacedApart ==
    ASSUME NEW t \in Nat, NEW D \in SUBSET Nat, Spaced(t, D), NEW d \in D, NEW e \in D, d < e
    PROVE  /\ e < MonthlyUpper(t) - Day => e >= Midnight(d) + Month * Day
           /\ Weekly /\ e < WeeklyUpper(t) - Day => e >= Midnight(d) + Week * Day
BY DEF Spaced, Apart

LEMMA RarelyOld ==
    ASSUME NEW t \in Nat, NEW D \in SUBSET Nat, 0 \in D, Spaced(t, D), NEW d \in OldIndexFiles(t, D)
    PROVE  \E w \in AllWindows(t, 0) : \E e \in D :
               /\ w.lower <= e /\ e < d /\ d < w.upper /\ d \in D
               /\ e \notin OldIndexFiles(t, D)
               /\ \/ WeeklyUpper(t) <= w.lower
                  \/ w.upper = WeeklyUpper(t) /\ w.lower = w.upper - Week * Day /\ MonthlyUpper(t) <= w.lower
                  \/ w.upper = MonthlyUpper(t) /\ w.lower = w.upper - Month * Day
<1>1. PICK w \in AllWindows(t, 0), e \in D :
          w.lower <= e /\ e < d /\ d < w.upper /\ d \in D /\ e \notin OldIndexFiles(t, D)
  BY OldHas
<1>2. e \in Nat /\ d \in Nat /\ w.lower \in Int /\ w.upper \in Int /\ Aligned(w.lower)
  BY <1>1, WindowKinds
<1>3. w.lower <= Midnight(e) /\ Midnight(e) \in Nat
  BY <1>1, <1>2, AlignedBelow, MidnightIs
<1>4. /\ Week * Day \in Nat /\ Week * Day >= Day /\ Month * Day \in Nat /\ Month * Day >= Day
      /\ Day \in Nat /\ Day > 0
  <2>1. 1 * Day <= Week * Day /\ 1 * Day <= Month * Day /\ 1 * Day = Day
    BY DayType, Monotone
  <2>2. QED
    BY <2>1, DayType
<1>5. WeeklyUpper(t) \in Int /\ MonthlyUpper(t) \in Int
  BY UppersAligned
<1>6. CASE IsDaily(w, t)
  BY <1>1, <1>6 DEF IsDaily
<1>7. CASE IsWeekly(w, t)
  <2>1. ~(w.upper <= WeeklyUpper(t) - Week * Day)
    <3>1. SUFFICES ASSUME w.upper <= WeeklyUpper(t) - Week * Day PROVE FALSE
      OBVIOUS
    <3>2. d < WeeklyUpper(t) - Day
      BY <1>1, <1>2, <1>4, <1>5, <3>1
    <3>3. d >= Midnight(e) + Week * Day
      BY <1>1, <1>7, <3>2, SpacedApart DEF IsWeekly
    <3>4. QED
      BY <1>1, <1>2, <1>3, <1>4, <1>7, <3>3 DEF IsWeekly
  <2>2. w.upper = WeeklyUpper(t) /\ w.lower = w.upper - Week * Day /\ MonthlyUpper(t) <= w.lower
    BY <1>2, <1>4, <1>7, <2>1 DEF IsWeekly
  <2>3. QED
    BY <1>1, <2>2
<1>8. CASE IsMonthly(w, t)
  <2>1. ~(w.upper <= MonthlyUpper(t) - Month * Day)
    <3>1. SUFFICES ASSUME w.upper <= MonthlyUpper(t) - Month * Day PROVE FALSE
      OBVIOUS
    <3>2. d < MonthlyUpper(t) - Day
      BY <1>1, <1>2, <1>4, <1>5, <3>1
    <3>3. d >= Midnight(e) + Month * Day
      BY <1>1, <3>2, SpacedApart
    <3>4. QED
      BY <1>1, <1>2, <1>3, <1>4, <1>8, <3>3 DEF IsMonthly
  <2>2. w.upper = MonthlyUpper(t) /\ w.lower = w.upper - Month * Day
    BY <1>2, <1>4, <1>8, <2>1 DEF IsMonthly
  <2>3. QED
    BY <1>1, <2>2
<1>9. QED
  BY <1>6, <1>7, <1>8, WindowKinds

LEMMA MidnightsStay ==
    ASSUME NEW t \in Nat, NEW D \in SUBSET Nat, 0 \in D, NEW n \in Nat, Midnight(n) = n, n >= WeeklyUpper(t)
    PROVE  n \notin OldIndexFiles(t, D)
<1>1. SUFFICES ASSUME n \in OldIndexFiles(t, D) PROVE FALSE
  OBVIOUS
<1>2. PICK w \in AllWindows(t, 0), e \in D : w.lower <= e /\ e < n /\ n < w.upper
  BY <1>1, OldHas
<1>3. w.lower \in Int /\ w.upper \in Int /\ Aligned(w.lower) /\ e \in Nat
  BY WindowKinds
<1>4. WeeklyUpper(t) \in Int /\ MonthlyUpper(t) \in Int /\ MonthlyUpper(t) <= WeeklyUpper(t)
  BY UppersAligned
<1>5. IsDaily(w, t)
  BY <1>2, <1>3, <1>4, WindowKinds DEF IsWeekly, IsMonthly
<1>6. Aligned(n)
  BY MidnightIs
<1>7. w.lower + Day <= n
  BY <1>2, <1>3, <1>6, AlignedStep
<1>8. QED
  BY <1>2, <1>3, <1>5, <1>7, DayType DEF IsDaily

(* After an expiry there is no gap where there was none before.            *)
LEMMA NoGapAfter ==
    ASSUME NEW t \in Nat, NEW D \in SUBSET Nat, 0 \in D, Spaced(t, D),
           Daily(t, D \cup {Midnight(t)}), Cover(t, D \cup {Midnight(t)}), Edge(t, D \cup {Midnight(t)})
    PROVE  LET kept == (D \ OldIndexFiles(t, D)) \cup {Midnight(t)}
           IN  /\ Daily(t, kept) /\ Cover(t, kept) /\ Edge(t, kept)
               /\ \A d \in OldIndexFiles(t, D) : d >= MonthlyUpper(t) - Month * Day
<1> DEFINE old == OldIndexFiles(t, D)
           all == D \cup {Midnight(t)}
           kept == (D \ old) \cup {Midnight(t)}
<1>1. /\ Week * Day \in Nat /\ Week * Day >= Day /\ Month * Day \in Nat /\ Month * Day >= Day
      /\ Day \in Nat /\ Day > 0 /\ (Month + Week) * Day = Month * Day + Week * Day
  <2>1. 1 * Day <= Week * Day /\ 1 * Day <= Month * Day /\ 1 * Day = Day
    BY DayType, Monotone
  <2>2. QED
    BY <2>1, DayType
<1>2. /\ WeeklyUpper(t) \in Int /\ Aligned(WeeklyUpper(t)) /\ WeeklyUpper(t) <= Midnight(t)
      /\ MonthlyUpper(t) \in Int /\ MonthlyUpper(t) <= WeeklyUpper(t)
      /\ Midnight(t) \in Nat /\ Aligned(Midnight(t))
  <2>1. DailyUpper(t) \in Int /\ Midnight(t) \in Nat
    BY UppersAligned, MidnightIs
  <2>2. QED
    BY <2>1, UppersAligned, MidnightIs
<1>3. all \in SUBSET Nat /\ kept \in SUBSET Nat /\ kept = all \ (old \ {Midnight(t)})
  BY <1>2
<1>4. ASSUME NEW n \in 0..Midnight(t), Midnight(n) = n, n >= WeeklyUpper(t)
      PROVE  n \in kept
  <2>1. n \in all
    BY <1>4 DEF Daily
  <2>2. n \notin old
    BY <1>4, MidnightsStay
  <2>3. QED
    BY <2>1, <2>2
<1>5. Daily(t, kept)
  BY <1>4 DEF Daily
<1>6. \A d \in all : d \in kept \/ d \in old
  OBVIOUS
<1>7. Edge(t, kept)
  <2>1. SUFFICES ASSUME MonthlyUpper(t) > 0
                 PROVE  \E d \in kept : MonthlyUpper(t) <= d /\ d < MonthlyUpper(t) + Week * Day
    BY DEF Edge
  <2>2. PICK d \in all : MonthlyUpper(t) <= d /\ d < MonthlyUpper(t) + Week * Day
    BY <2>1 DEF Edge
  <2>3. SUFFICES ASSUME d \in old PROVE \E e \in kept : MonthlyUpper(t) <= e /\ e < d
    BY <1>1, <1>2, <1>3, <1>6, <2>2
  <2>4. PICK w \in AllWindows(t, 0), e \in D :
            /\ w.lower <= e /\ e < d /\ d < w.upper /\ d \in D /\ e \notin old
            /\ \/ WeeklyUpper(t) <= w.lower
               \/ w.upper = WeeklyUpper(t) /\ w.lower = w.upper - Week * Day /\ MonthlyUpper(t) <= w.lower
               \/ w.upper = MonthlyUpper(t) /\ w.lower = w.upper - Month * Day
    BY <2>3, RarelyOld
  <2>5. w.lower \in Int /\ w.upper \in Int /\ e \in Nat /\ d \in Nat
    BY <2>4, WindowKinds
  <2>6. MonthlyUpper(t) <= w.lower
    BY <1>2, <2>2, <2>4, <2>5
  <2>7. e \in kept /\ MonthlyUpper(t) <= e
    BY <1>2, <2>4, <2>5, <2>6
  <2>8. QED
    BY <2>4, <2>7
<1>8. Cover(t, kept)
  <2>1. SUFFICES ASSUME NEW s \in Nat, s < Midnight(t)
                 PROVE  \E d \in kept : s < d /\ d <= s + GapAt(t, s)
    BY DEF Cover
  <2>2. CASE s >= WeeklyUpper(t)
    <3> DEFINE n == Midnight(s) + Day
    <3>1. n \in Nat /\ Midnight(n) = n /\ s < n /\ n <= s + Day
      BY NextMidnight
    <3>2. n <= Midnight(t)
      BY <1>2, <2>1, AlignedStep, MidnightIs
    <3>3. n >= WeeklyUpper(t)
      BY <1>2, <2>2, <3>1
    <3> HIDE DEF n
    <3>4. n \in kept
      BY <1>2, <1>4, <3>1, <3>2, <3>3
    <3>5. GapAt(t, s) = Day
      BY <2>2 DEF GapAt
    <3>6. QED
      BY <3>1, <3>4, <3>5
  <2>3. CASE ~(s >= WeeklyUpper(t))
    <3>1. s < WeeklyUpper(t) /\ GapAt(t, s) \in Nat /\ GapAt(t, s) >= Week * Day
      BY <1>1, <1>2, <2>3 DEF GapAt
    <3>2. PICK d \in all : s < d /\ d <= s + GapAt(t, s)
      BY <2>1 DEF Cover
    <3>3. SUFFICES ASSUME d \in old PROVE \E e \in kept : s < e /\ e <= s + GapAt(t, s)
      BY <1>6, <3>2
    <3>4. PICK w \in AllWindows(t, 0), e \in D :
              /\ w.lower <= e /\ e < d /\ d < w.upper /\ d \in D /\ e \notin old
              /\ \/ WeeklyUpper(t) <= w.lower
                 \/ w.upper = WeeklyUpper(t) /\ w.lower = w.upper - Week * Day /\ MonthlyUpper(t) <= w.lower
                 \/ w.upper = MonthlyUpper(t) /\ w.lower = w.upper - Month * Day
      BY <3>3, RarelyOld
    <3>5. w.lower \in Int /\ w.upper \in Int /\ e \in Nat /\ d \in Nat /\ e \in kept
      BY <3>4, WindowKinds
    <3>6. CASE s < e
      BY <3>1, <3>2, <3>4, <3>5, <3>6
    <3>7. CASE e <= s /\ WeeklyUpper(t) <= w.lower
      BY <1>2, <3>1, <3>4, <3>5, <3>7
    <3>8. CASE e <= s /\ w.upper = WeeklyUpper(t) /\ w.lower = w.upper - Week * Day
      <4> DEFINE n == WeeklyUpper(t)
      <4>1. n \in Nat /\ n <= s + Week * Day /\ s < n
        BY <1>1, <1>2, <3>1, <3>4, <3>5, <3>8
      <4>2. Midnight(n) = n
        BY <1>2, <4>1, AlignedIsMidnight
      <4>3. n \in kept
        BY <1>2, <1>4, <4>1, <4>2
      <4>4. QED
        BY <1>1, <3>1, <4>1, <4>3
    <3>9. CASE e <= s /\ w.upper = MonthlyUpper(t) /\ w.lower = w.upper - Month * Day
      <4>1. s < MonthlyUpper(t) /\ MonthlyUpper(t) - Month * Day <= s
        BY <1>1, <1>2, <3>2, <3>4, <3>5, <3>9
      <4>2. PICK f \in kept : MonthlyUpper(t) <= f /\ f < MonthlyUpper(t) + Week * Day
        BY <1>2, <1>7, <4>1 DEF Edge
      <4>3. GapAt(t, s) = Month * Day + Week * Day
        BY <1>1, <1>2, <2>3, <4>1 DEF GapAt
      <4>4. s < f /\ f <= s + GapAt(t, s)
        BY <1>1, <1>2, <1>3, <4>1, <4>2, <4>3
      <4>5. QED
        BY <4>4
    <3>10. QED
      BY <3>4, <3>5, <3>6, <3>7, <3>8, <3>9
  <2>4. QED
    BY <2>2, <2>3
<1>9. ASSUME NEW d \in old PROVE d >= MonthlyUpper(t) - Month * Day
  <2>1. PICK w \in AllWindows(t, 0), e \in D :
            /\ w.lower <= e /\ e < d /\ d < w.upper /\ d \in D
            /\ \/ WeeklyUpper(t) <= w.lower
               \/ w.upper = WeeklyUpper(t) /\ w.lower = w.upper - Week * Day /\ MonthlyUpper(t) <= w.lower
               \/ w.upper = MonthlyUpper(t) /\ w.lower = w.upper - Month * Day
    BY RarelyOld
  <2>2. w.lower \in Int /\ w.upper \in Int /\ e \in Nat /\ d \in Nat
    BY <2>1, WindowKinds
  <2>3. QED
    BY <1>1, <1>2, <2>1, <2>2
<1>10. QED
  BY <1>5, <1>7, <1>8, <1>9

-----------------------------------------------------------------------------
(* The steps on schedule.                                                  *)

LEMMA WhereWeAre ==
    ASSUME IInv
    PROVE  /\ now \in Nat /\ dates \in SUBSET Nat /\ 0 \in dates /\ \A d \in dates : d <= now
           /\ toDelete \subseteq dates /\ Last \in Nat /\ Last <= now /\ now < Last + Day
           /\ \A d \in toDelete : d < Last
           /\ (Due <=> Last = now /\ now \notin dates)
<1>1. now \in Nat /\ dates \subseteq 0..now /\ 0 \in dates /\ toDelete \subseteq dates
  BY DEF IInv, TypeOK, FirstIsKept
<1>2. Last \in Nat /\ Last <= now /\ now < Last + Day /\ (now % Day = 0 <=> Last = now)
  BY <1>1, MidnightIs DEF Last
<1>3. ASSUME NEW d \in toDelete PROVE d < Last
  <2>1. d < Midnight(now) - KeepAll * Day /\ d \in Nat
    BY <1>1, <1>3 DEF IInv, RecentInv
  <2>2. KeepAll * Day \in Nat
    BY DayType, BoundariesAssumption
  <2>3. QED
    BY <1>2, <2>1, <2>2 DEF Last
<1>4. QED
  BY <1>1, <1>2, <1>3 DEF Due

LEMMA LagIs == Lag \in Nat /\ (Lag = 0 \/ (Lag = Day /\ Due)) /\ (Due => Lag = Day) /\ (~Due => Lag = 0)
BY DayType DEF Lag

LEMMA UppersType ==
    ASSUME NEW t \in Nat
    PROVE  /\ WeeklyUpper(t) \in Int /\ MonthlyUpper(t) \in Int /\ DailyUpper(t) \in Int
           /\ MonthlyUpper(t) <= WeeklyUpper(t) /\ WeeklyUpper(t) <= DailyUpper(t)
           /\ DailyUpper(t) <= Midnight(t)
           /\ Day \in Nat /\ Day > 0 /\ Week * Day \in Nat /\ Week * Day >= Day
           /\ Month * Day \in Nat /\ Month * Day >= Day /\ (Month + Week) * Day = Month * Day + Week * Day
<1>1. 1 * Day <= Week * Day /\ 1 * Day <= Month * Day /\ 1 * Day = Day
  BY DayType, Monotone
<1>2. QED
  BY <1>1, DayType, UppersAligned

(* A smaller limit says less.                                              *)
LEMMA ApartBelow ==
    ASSUME NEW d, NEW e \in Int, NEW w \in Int, NEW m \in Int, NEW v \in Int, NEW l \in Int,
           v <= w, l <= m, Apart(d, e, w, m)
    PROVE  Apart(d, e, v, l)
BY DEF Apart

LEMMA FirstOfAll ==
    ASSUME Init
    PROVE  OnTimeInv
<1>1. IInv
  BY InitIInv
<1>2. now = 0 /\ dates = {0} /\ toDelete = {}
  BY DEF Init
<1>3. Last = 0 /\ Midnight(now) = 0
  BY <1>1, <1>2, WhereWeAre DEF Last
<1>4. LastInv
  BY <1>2, <1>3 DEF LastInv
<1>5. CompleteInv
  <2>1. MonthlyUpper(now) <= 0 /\ MonthlyUpper(now) \in Int
    BY <1>2, <1>3, UppersType
  <2>2. Kept = {0}
    BY <1>2, <1>3 DEF Kept
  <2>3. Daily(now, Kept)
    BY <1>3, <2>2 DEF Daily
  <2>4. Cover(now, Kept)
    BY <1>3 DEF Cover
  <2>5. QED
    BY <2>1, <2>3, <2>4 DEF CompleteInv, Edge
<1>6. SpacingInv
  BY <1>2 DEF SpacingInv
<1>7. QED
  BY <1>1, <1>2, <1>4, <1>5, <1>6 DEF OnTimeInv, OldOnesStay

LEMMA TimePasses ==
    ASSUME OnTimeInv, IInv', Wait, OnTime
    PROVE  OnTimeInv'
<1>1. /\ toDelete = {} /\ now' = now + 1 /\ dates' = dates /\ toDelete' = {} /\ ~Due
  BY DEF Wait, OnTime
<1>2. /\ now \in Nat /\ dates \in SUBSET Nat /\ (\A d \in dates : d <= now) /\ Last \in Nat
      /\ Last <= now /\ now < Last + Day
  BY WhereWeAre DEF OnTimeInv
<1>3. Last \in dates
  BY <1>1 DEF OnTimeInv, LastInv
<1>4. Lag = 0
  BY <1>1, LagIs
<1>5. /\ WeeklyUpper(now) \in Int /\ MonthlyUpper(now) \in Int
      /\ MonthlyUpper(now) <= WeeklyUpper(now) /\ WeeklyUpper(now) <= Last
      /\ Day \in Nat /\ Day > 0 /\ Week * Day \in Nat /\ Week * Day >= Day
      /\ Month * Day \in Nat /\ (Month + Week) * Day = Month * Day + Week * Day
  <2>1. DailyUpper(now) \in Int
    BY <1>2, UppersType
  <2>2. QED
    BY <1>2, <2>1, UppersType DEF Last
<1>6. CASE (now + 1) % Day # 0 /\ Midnight(now + 1) = Midnight(now)
  <2>1. Last' = Last /\ ~Due' /\ Lag' = 0 /\ Kept' = Kept
    BY <1>1, <1>6 DEF Last, Due, Lag, Kept
  <2>2. WeeklyUpper(now)' = WeeklyUpper(now) /\ MonthlyUpper(now)' = MonthlyUpper(now)
    <3>1. Midnight(now + 1) = Midnight(now) + 0 /\ now + 1 \in Nat
      BY <1>2, <1>6, MidnightIs
    <3>2. WeeklyUpper(now + 1) = WeeklyUpper(now) + 0 /\ MonthlyUpper(now + 1) = MonthlyUpper(now) + 0
      BY <1>2, <3>1, UppersMove
    <3>3. QED
      BY <1>1, <1>5, <3>2
  <2>3. \A s : GapAt(now', s) = GapAt(now, s)
    BY <2>2 DEF GapAt
  <2>4. CompleteInv'
    BY <1>1, <1>6, <2>1, <2>2, <2>3 DEF OnTimeInv, CompleteInv, Daily, Cover, Edge
  <2>5. SpacingInv'
    BY <1>1, <1>4, <2>1, <2>2 DEF OnTimeInv, SpacingInv
  <2>6. LastInv' /\ OldOnesStay'
    BY <1>1, <1>3, <2>1 DEF LastInv, OldOnesStay
  <2>7. QED
    BY <2>4, <2>5, <2>6 DEF OnTimeInv
<1>7. CASE /\ (now + 1) % Day = 0 /\ Midnight(now + 1) = Midnight(now) + Day
           /\ Midnight(now + 1) = now + 1
  <2>1. Last' = Last + Day /\ Last' = now + 1 /\ Last' \in Nat
    BY <1>1, <1>2, <1>7 DEF Last
  <2>2. Due' /\ Lag' = Day /\ LastInv'
    <3>1. now + 1 \notin dates
      BY <1>2
    <3>2. Due'
      BY <1>1, <1>7, <3>1 DEF Due
    <3>3. QED
      BY <3>2 DEF Lag, LastInv
  <2>3. /\ WeeklyUpper(now)' = WeeklyUpper(now) + Day /\ MonthlyUpper(now)' = MonthlyUpper(now) + Day
    <3>1. Midnight(now + 1) = Midnight(now) + Day /\ now + 1 \in Nat
      BY <1>2, <1>7
    <3>2. WeeklyUpper(now + 1) = WeeklyUpper(now) + Day /\ MonthlyUpper(now + 1) = MonthlyUpper(now) + Day
      BY <1>2, <1>5, <3>1, UppersMove
    <3>3. QED
      BY <1>1, <3>2
  <2>4. /\ Kept = dates /\ Kept' = dates \cup {Last'}
    BY <1>1, <1>3 DEF Kept
  <2>5. \A s \in Nat : /\ GapAt(now, s) \in Nat /\ GapAt(now', s) \in Nat
                        /\ GapAt(now, s) <= GapAt(now', s) /\ Day <= GapAt(now', s)
    <3>1. \A u, v \in Int : \A s \in Nat :
              v <= u => LET gap == IF s >= u THEN Day ELSE IF s >= v THEN Week * Day ELSE (Month + Week) * Day
                            next == IF s >= u + Day THEN Day
                                    ELSE IF s >= v + Day THEN Week * Day ELSE (Month + Week) * Day
                        IN  gap \in Nat /\ next \in Nat /\ gap <= next /\ Day <= next
      BY <1>5
    <3>2. QED
      BY <1>1, <1>5, <2>3, <3>1 DEF GapAt
  <2>6. Daily(now, Kept)'
    <3>1. SUFFICES ASSUME NEW s \in 0..Midnight(now)', Midnight(s) = s, s >= WeeklyUpper(now)'
                   PROVE  s \in Kept'
      BY DEF Daily
    <3>2. CASE s = Last'
      BY <2>4, <3>2
    <3>3. CASE s <= Last
      <4>1. s \in 0..Midnight(now) /\ s >= WeeklyUpper(now)
        BY <1>2, <1>5, <2>3, <3>1, <3>3 DEF Last
      <4>2. s \in Kept
        BY <3>1, <4>1 DEF OnTimeInv, CompleteInv, Daily
      <4>3. QED
        BY <2>4, <4>2
    <3>4. CASE Last < s /\ s # Last'
      <4>1. s \in Nat /\ s <= Last' /\ Aligned(s) /\ Aligned(Last)
        BY <1>2, <3>1, MidnightIs DEF Last
      <4>2. Last + Day <= s
        BY <1>2, <3>4, <4>1, AlignedStep
      <4>3. QED
        BY <1>2, <1>5, <2>1, <3>4, <4>1, <4>2
    <3>5. QED
      BY <1>2, <3>1, <3>2, <3>3, <3>4
  <2>7. Cover(now, Kept)'
    <3>1. SUFFICES ASSUME NEW s \in Nat, s < Last'
                   PROVE  \E d \in Kept' : s < d /\ d <= s + GapAt(now', s)
      BY DEF Cover, Last
    <3>2. CASE s < Last
      <4>1. PICK d \in Kept : s < d /\ d <= s + GapAt(now, s)
        BY <3>2 DEF OnTimeInv, CompleteInv, Cover, Last
      <4>2. d \in Kept' /\ d <= s + GapAt(now', s)
        BY <1>2, <2>4, <2>5, <4>1
      <4>3. QED
        BY <4>1, <4>2
    <3>3. CASE Last <= s
      BY <1>2, <1>5, <2>1, <2>4, <2>5, <3>1, <3>3
    <3>4. QED
      BY <1>2, <3>2, <3>3
  <2>8. Edge(now, Kept)'
    <3> DEFINE upper == MonthlyUpper(now) + Day
    <3>1. SUFFICES ASSUME upper > 0
                   PROVE  \E d \in Kept' : upper <= d /\ d < upper + Week * Day
      BY <2>3 DEF Edge
    <3>2. CASE upper > Last
      <4>1. Last < upper /\ Aligned(Last) /\ Aligned(MonthlyUpper(now)) /\ MonthlyUpper(now) <= Last
        BY <1>2, <1>5, <3>2, MidnightIs, UppersAligned DEF Last
      <4>2. MonthlyUpper(now) = Last
        <5>1. CASE MonthlyUpper(now) < Last
          <6>1. MonthlyUpper(now) + Day <= Last
            BY <1>2, <1>5, <4>1, <5>1, AlignedStep
          <6>2. QED
            BY <1>2, <1>5, <3>2, <6>1
        <5>2. QED
          BY <1>2, <1>5, <4>1, <5>1
      <4>3. upper = Last'
        BY <2>1, <4>2
      <4> HIDE DEF upper
      <4>4. upper <= Last' /\ Last' < upper + Week * Day
        BY <1>5, <2>1, <4>3
      <4>5. Last' \in Kept'
        BY <2>4
      <4>6. QED
        BY <4>4, <4>5
    <3>3. CASE upper <= Last
      <4> DEFINE s == upper - 1
      <4>1. s \in Nat /\ s < Last
        BY <1>2, <1>5, <3>1, <3>3
      <4>2. PICK d \in Kept : s < d /\ d <= s + GapAt(now, s)
        BY <4>1 DEF OnTimeInv, CompleteInv, Cover, Last
      <4>3. GapAt(now, s) <= Week * Day /\ GapAt(now, s) \in Nat
        BY <1>5 DEF GapAt
      <4>4. d \in Nat /\ d \in Kept'
        BY <1>2, <2>4, <4>2
      <4>5. upper <= d /\ d < upper + Week * Day
        BY <1>5, <4>2, <4>3, <4>4
      <4>6. QED
        BY <4>4, <4>5
    <3>4. QED
      BY <1>2, <1>5, <3>2, <3>3
  <2>9. SpacingInv'
    <3>1. /\ (WeeklyUpper(now) - Lag)' = WeeklyUpper(now) - Lag
          /\ (MonthlyUpper(now) - Lag)' = MonthlyUpper(now) - Lag
      BY <1>4, <1>5, <2>2, <2>3
    <3>2. QED
      BY <1>1, <3>1 DEF OnTimeInv, SpacingInv
  <2>10. QED
    BY <1>1, <2>2, <2>6, <2>7, <2>8, <2>9 DEF OnTimeInv, CompleteInv, OldOnesStay
<1>8. QED
  BY <1>2, <1>6, <1>7, OneMore

LEMMA DeletionKeeps ==
    ASSUME OnTimeInv, IInv', NEW d \in toDelete, Delete(d)
    PROVE  OnTimeInv'
<1>1. dates' = dates \ {d} /\ toDelete' = toDelete \ {d} /\ now' = now
  BY DEF Delete
<1>2. Last \in Nat /\ d < Last /\ Last <= now /\ now \in Nat /\ d \in Nat
  BY WhereWeAre DEF OnTimeInv
<1>3. Last' = Last /\ Kept' = Kept
  BY <1>1 DEF Last, Kept
<1>4. Due' <=> Due
  BY <1>1, <1>2 DEF Due
<1>5. Lag' = Lag
  BY <1>4 DEF Lag
<1>6. LastInv'
  BY <1>1, <1>2, <1>3, <1>4 DEF OnTimeInv, LastInv
<1>7. CompleteInv'
  BY <1>1, <1>3 DEF OnTimeInv, CompleteInv, Daily, Cover, Edge, GapAt
<1>8. SpacingInv'
  BY <1>1, <1>5 DEF OnTimeInv, SpacingInv, Apart
<1>9. QED
  BY <1>1, <1>6, <1>7, <1>8 DEF OnTimeInv, OldOnesStay

(* Before an expiry, those that are already spaced are.                    *)
LEMMA SpacedAlready ==
    ASSUME OnTimeInv, toDelete = {}
    PROVE  Spaced(now, dates)
<1>1. /\ now \in Nat /\ dates \in SUBSET Nat
  BY WhereWeAre DEF OnTimeInv
<1>2. ASSUME NEW d \in dates, NEW e \in dates, d < e
      PROVE  Apart(d, e, WeeklyUpper(now) - Day, MonthlyUpper(now) - Day)
  <2>1. Apart(d, e, WeeklyUpper(now) - Lag, MonthlyUpper(now) - Lag)
    BY <1>2 DEF OnTimeInv, SpacingInv
  <2>2. Lag \in Nat /\ Lag <= Day
    BY LagIs, DayType
  <2>3. QED
    BY <1>1, <2>1, <2>2, UppersType, ApartBelow
<1>3. QED
  BY <1>2 DEF Spaced

LEMMA PruneKeeps ==
    ASSUME OnTimeInv, IInv', Prune
    PROVE  OnTimeInv'
<1> DEFINE old == OldIndexFiles(now, dates)
           kept == (dates \ old) \cup {Midnight(now)}
<1>1. toDelete = {} /\ toDelete' = old /\ dates' = dates /\ now' = now
  BY DEF Prune
<1>2. now \in Nat /\ dates \in SUBSET Nat /\ 0 \in dates
  BY WhereWeAre DEF OnTimeInv
<1>3. Kept = dates \cup {Midnight(now)} /\ Kept' = kept /\ Last' = Last /\ (Due' <=> Due) /\ Lag' = Lag
  BY <1>1 DEF Kept, Last, Due, Lag
<1>4. Daily(now, Kept) /\ Cover(now, Kept) /\ Edge(now, Kept)
  BY DEF OnTimeInv, CompleteInv
<1>5. /\ Daily(now, kept) /\ Cover(now, kept) /\ Edge(now, kept)
      /\ \A d \in old : d >= MonthlyUpper(now) - Month * Day
  BY <1>1, <1>2, <1>3, <1>4, SpacedAlready, NoGapAfter
<1> HIDE DEF old, kept
<1>6. CompleteInv'
  BY <1>1, <1>3, <1>5 DEF CompleteInv, Daily, Cover, Edge, GapAt
<1>7. SpacingInv'
  BY <1>1, <1>3 DEF OnTimeInv, SpacingInv
<1>8. LastInv'
  BY <1>1, <1>3 DEF OnTimeInv, LastInv
<1>9. OldOnesStay'
  BY <1>1, <1>5 DEF OldOnesStay
<1>10. QED
  BY <1>6, <1>7, <1>8, <1>9 DEF OnTimeInv

(* Who comes into a first window stays only if the one before has left it. *)
LEMMA FirstWindowSpaces ==
    ASSUME NEW t \in Nat, NEW D \in SUBSET Nat, 0 \in D, IsFiniteSet(D), Cardinality(D) > 2,
           NEW upper \in Int, Aligned(upper), NEW days \in Nat,
           \E w \in AllWindows(t, 0) : w.upper = upper /\ w.lower = upper - days * Day,
           NEW d \in D, NEW e \in D, d < e, e < upper, upper - Day <= e, e \notin OldIndexFiles(t, D)
    PROVE  e >= Midnight(d) + days * Day
<1> DEFINE lower == upper - days * Day
<1>1. lower \in Int /\ Aligned(lower) /\ days * Day \in Nat
  BY AlignedMinus, DayType
<1>2. ~(lower <= d)
  BY OldWhen
<1>3. Midnight(d) \in Nat /\ Midnight(d) <= d /\ Aligned(Midnight(d))
  BY MidnightIs
<1>4. Midnight(d) < lower
  BY <1>1, <1>2, <1>3
<1>5. Midnight(d) + Day <= lower
  <2> HIDE DEF lower
  <2>1. QED
    BY <1>1, <1>3, <1>4, AlignedStep
<1>6. QED
  BY <1>1, <1>3, <1>5, DayType

LEMMA BackupKeeps ==
    ASSUME OnTimeInv, IInv', MaxDuration <= KeepAll * Day, NEW start \in 0..now, Backup(start)
    PROVE  OnTimeInv'
<1> DEFINE all == dates \cup {start}
           old == OldIndexFiles(now, all)
           kept == (all \ old) \cup {Midnight(now)}
           weekly == WeeklyUpper(now)
           monthly == MonthlyUpper(now)
<1>1. /\ toDelete = {} /\ toDelete' = old /\ dates' = all /\ now' = now
      /\ start \in (now - MaxDuration)..now
  BY DEF Backup
<1>2. /\ now \in Nat /\ dates \in SUBSET Nat /\ 0 \in dates /\ (\A d \in dates : d <= now)
      /\ Last \in Nat /\ Last <= now /\ (Due <=> Last = now /\ now \notin dates)
  BY WhereWeAre DEF OnTimeInv
<1>3. /\ weekly \in Int /\ monthly \in Int /\ monthly <= weekly /\ weekly <= DailyUpper(now)
      /\ DailyUpper(now) \in Int /\ Day \in Nat /\ Day > 0 /\ weekly <= Last
  <2>1. /\ weekly \in Int /\ monthly \in Int /\ monthly <= weekly /\ weekly <= DailyUpper(now)
        /\ DailyUpper(now) \in Int /\ DailyUpper(now) <= Last /\ Day \in Nat /\ Day > 0
    BY <1>2, UppersType DEF Last
  <2>2. QED
    BY <1>2, <2>1
<1>4. all \in SUBSET Nat /\ 0 \in all /\ start \in Nat /\ (\A d \in all : d <= now) /\ IsFiniteSet(all)
  <2>1. all \subseteq 0..now
    BY <1>2
  <2>2. IsFiniteSet(0..now)
    BY <1>2, FS_Interval
  <2>3. IsFiniteSet(all)
    BY <2>1, <2>2, FS_Subset
  <2>4. QED
    BY <1>2, <2>1, <2>3
<1>5. start >= weekly
  <2>1. DailyUpper(now) = Last - KeepAll * Day /\ KeepAll * Day \in Nat
    BY DayType, BoundariesAssumption DEF DailyUpper, Last
  <2>2. MaxDuration \in Nat /\ now - MaxDuration <= start
    BY <1>1, <1>2, BoundsAssumption
  <2>3. DailyUpper(now) <= start
    BY <1>2, <1>4, <2>1, <2>2
  <2>4. QED
    BY <1>3, <1>4, <2>3
<1>6. Spaced(now, all)
  <2>1. ASSUME NEW d \in all, NEW e \in all, d < e
        PROVE  Apart(d, e, weekly - Day, monthly - Day)
    <3>1. CASE d \in dates /\ e \in dates
      BY <1>1, <2>1, <3>1, SpacedAlready DEF Spaced
    <3>2. CASE d = start \/ e = start
      <4>1. e >= weekly /\ e \in Nat
        BY <1>3, <1>4, <1>5, <2>1, <3>2
      <4>2. ~(e < weekly - Day) /\ ~(e < monthly - Day)
        BY <1>3, <4>1
      <4>3. QED
        BY <4>2 DEF Apart
    <3>3. QED
      BY <2>1, <3>1, <3>2
  <2>2. QED
    BY <2>1 DEF Spaced
<1>7. /\ Daily(now, all \cup {Midnight(now)}) /\ Cover(now, all \cup {Midnight(now)})
      /\ Edge(now, all \cup {Midnight(now)})
  <2>1. Kept \subseteq all \cup {Midnight(now)}
    BY DEF Kept, Last
  <2>2. Daily(now, Kept) /\ Cover(now, Kept) /\ Edge(now, Kept)
    BY DEF OnTimeInv, CompleteInv
  <2> HIDE DEF all
  <2>3. QED
    BY <2>1, <2>2 DEF Daily, Cover, Edge
<1>8. /\ Daily(now, kept) /\ Cover(now, kept) /\ Edge(now, kept)
      /\ \A d \in old : d >= MonthlyUpper(now) - Month * Day
  <2> HIDE DEF all
  <2>1. QED
    BY <1>2, <1>4, <1>6, <1>7, NoGapAfter
<1>9. CompleteInv' /\ OldOnesStay'
  <2>1. Kept' = kept
    BY <1>1 DEF Kept, Last
  <2> HIDE DEF kept, old
  <2>2. QED
    BY <1>1, <1>8, <2>1 DEF CompleteInv, Daily, Cover, Edge, GapAt, OldOnesStay
<1>10. LastInv'
  <2>1. CASE Last \in dates
    BY <1>1, <2>1 DEF LastInv, Last
  <2>2. CASE Due
    <3>1. Last = now
      BY <1>2, <2>2
    <3>2. Last' = Last /\ (Due' \/ now \in all)
      BY <1>1, <2>2 DEF Due, Last
    <3>3. QED
      BY <1>1, <3>1, <3>2 DEF LastInv
  <2>3. QED
    BY <2>1, <2>2 DEF OnTimeInv, LastInv
<1>11. SpacingInv'
  <2>1. SUFFICES ASSUME NEW d \in all, NEW e \in all, d < e, e \notin old
                 PROVE  Apart(d, e, weekly - Lag', monthly - Lag')
    BY <1>1 DEF SpacingInv
  <2>2. Lag' \in Nat /\ (Due' \/ Lag' = 0) /\ (Lag' = 0 \/ Lag' = Day)
    BY DayType DEF Lag
  <2>3. CASE e >= weekly
    <3>1. ~(e < weekly - Lag') /\ ~(e < monthly - Lag')
      BY <1>3, <1>4, <2>2, <2>3
    <3>2. QED
      BY <3>1 DEF Apart
  <2>4. CASE e < weekly
    <3>1. d \in dates /\ e \in dates /\ d \in Nat /\ e \in Nat
      BY <1>3, <1>4, <1>5, <2>1, <2>4
    <3>2. Apart(d, e, weekly - Lag, monthly - Lag)
      BY <1>1, <2>1, <3>1 DEF OnTimeInv, SpacingInv
    <3>3. CASE Lag' = Lag
      BY <3>2, <3>3
    <3>4. CASE Lag' # Lag
      <4>1. Lag = Day /\ Lag' = 0 /\ Due /\ ~Due'
        <5>1. (Due' => Lag' = Day) /\ (~Due' => Lag' = 0)
          BY DEF Lag
        <5>2. Due' => Due
          BY <1>1 DEF Due
        <5>3. QED
          BY <3>4, <5>1, <5>2, LagIs
      <4>2. now \in all
        BY <1>1, <4>1 DEF Due
      <4>3. Cardinality(all) > 2
        <5>1. e < now
          BY <1>2, <1>3, <2>4, <3>1
        <5> HIDE DEF all
        <5>2. QED
          BY <1>4, <2>1, <4>2, <5>1, ThreeAreEnough
      <4>4. Aligned(weekly) /\ Aligned(monthly)
        BY <1>2, UppersAligned
      <4>5. ASSUME e < monthly
            PROVE  e >= Midnight(d) + Month * Day
        <5>1. CASE e < monthly - Day
          BY <3>2, <4>1, <5>1 DEF Apart
        <5>2. CASE monthly - Day <= e
          <6>1. \E w \in AllWindows(now, 0) : w.upper = monthly /\ w.lower = monthly - Month * Day
            BY <1>2, FirstWindows
          <6> HIDE DEF all, monthly
          <6>2. QED
            BY <1>2, <1>3, <1>4, <2>1, <4>3, <4>4, <4>5, <5>2, <6>1, DayType, FirstWindowSpaces
        <5>3. QED
          BY <1>3, <3>1, <5>1, <5>2
      <4>6. ASSUME Weekly, e < weekly
            PROVE  e >= Midnight(d) + Week * Day
        <5>1. CASE e < weekly - Day
          BY <3>2, <4>1, <4>6, <5>1 DEF Apart
        <5>2. CASE weekly - Day <= e
          <6>1. \E w \in AllWindows(now, 0) : w.upper = weekly /\ w.lower = weekly - Week * Day
            BY <1>2, <4>6, FirstWindows
          <6> HIDE DEF all, weekly
          <6>2. QED
            BY <1>2, <1>3, <1>4, <2>1, <4>3, <4>4, <4>6, <5>2, <6>1, DayType, FirstWindowSpaces
        <5>3. QED
          BY <1>3, <3>1, <5>1, <5>2
      <4>7. QED
        BY <1>3, <4>1, <4>5, <4>6 DEF Apart
    <3>5. QED
      BY <3>3, <3>4
  <2>5. QED
    BY <1>3, <1>4, <2>1, <2>3, <2>4
<1>12. QED
  BY <1>9, <1>10, <1>11 DEF OnTimeInv

LEMMA StillOnTime ==
    ASSUME OnTimeInv, MaxDuration <= KeepAll * Day, [Next /\ OnTime]_vars
    PROVE  OnTimeInv'
<1>1. IInv'
  BY NextIInv DEF OnTimeInv
<1>2. CASE Wait /\ OnTime
  BY <1>1, <1>2, TimePasses
<1>3. ASSUME NEW start \in 0..now, Backup(start) PROVE OnTimeInv'
  BY <1>1, <1>3, BackupKeeps
<1>4. ASSUME NEW d \in toDelete, Delete(d) PROVE OnTimeInv'
  BY <1>1, <1>4, DeletionKeeps
<1>5. CASE Prune
  BY <1>1, <1>5, PruneKeeps
<1>6. CASE UNCHANGED vars
  BY <1>6 DEF vars, OnTimeInv, IInv, TypeOK, FirstIsKept, RecentInv, LastInv, Last, Due, CompleteInv, Daily,
              Cover, Edge, GapAt, Kept, SpacingInv, Apart, Lag, OldOnesStay
<1>7. QED
  BY <1>2, <1>3, <1>4, <1>5, <1>6 DEF Next, OnTime

LEMMA AlwaysOnTime ==
    ASSUME MaxDuration <= KeepAll * Day
    PROVE  Spec /\ [][OnTime]_vars => []OnTimeInv
<1>1. Init => OnTimeInv
  BY FirstOfAll
<1>2. OnTimeInv /\ [Next /\ OnTime]_vars => OnTimeInv'
  BY StillOnTime
<1>3. [Next]_vars /\ [OnTime]_vars => [Next /\ OnTime]_vars
  OBVIOUS
<1>4. QED
  BY <1>1, <1>2, <1>3, PTL DEF Spec

LEMMA NoGaps ==
    ASSUME OnTimeInv, Week <= Month
    PROVE  NoHoles
<1>1. /\ now \in Nat /\ dates \in SUBSET Nat /\ 0 \in dates /\ (\A d \in dates : d <= now)
      /\ Last \in Nat /\ now < Last + Day /\ Last <= now
  BY WhereWeAre DEF OnTimeInv
<1>2. SUFFICES ASSUME NEW d \in dates \ {0}
               PROVE  d - Previous(d) <= 2 * Span(Previous(d)) * Day
  BY DEF NoHoles
<1> DEFINE before == {e \in dates \cup {0} : e < d}
           p == Previous(d)
<1>3. p \in dates /\ p < d /\ \A e \in before : e <= p
  <2>1. before \subseteq Nat /\ before # {} /\ d \in Nat /\ \A e \in before : e <= d
    <3>1. d \in Nat /\ d > 0
      BY <1>1
    <3>2. 0 \in before
      BY <1>1, <3>1
    <3>3. \A e \in before : e \in Nat /\ e < d
      BY <1>1
    <3> HIDE DEF before
    <3>4. \A e \in before : e <= d
      BY <3>1, <3>3
    <3>5. QED
      BY <3>1, <3>2, <3>3, <3>4
  <2>2. \E m \in before : \A e \in before : e <= m
    <3> HIDE DEF before
    <3>1. QED
      BY <1>1, <1>2, <2>1, Largest
  <2>3. Max(before) \in before /\ \A e \in before : e <= Max(before)
    BY <2>1, <2>2 DEF Max
  <2>4. p = Max(before)
    BY DEF Previous
  <2>5. QED
    BY <1>1, <2>3, <2>4
<1> HIDE DEF p
<1>4. p \in Nat /\ d \in Nat
  BY <1>1, <1>3
<1>5. GapAt(now, p) \in Nat /\ Day <= GapAt(now, p) /\ GapAt(now, p) <= 2 * Span(p) * Day
  <2>1. /\ Day <= Week * Day /\ Week * Day <= Month * Day /\ Week * Day \in Nat /\ Month * Day \in Nat
        /\ (Month + Week) * Day = Month * Day + Week * Day /\ Day \in Nat
        /\ 2 * 1 * Day = 2 * Day /\ 2 * Week * Day = 2 * (Week * Day)
        /\ 2 * Month * Day = 2 * (Month * Day)
    <3>1. 1 * Day <= Week * Day /\ Week * Day <= Month * Day
      BY DayType, Monotone
    <3>2. QED
      BY <3>1, DayType
  <2>2. CASE p >= WeeklyUpper(now)
    BY <2>1, <2>2 DEF GapAt, Span
  <2>3. CASE ~(p >= WeeklyUpper(now)) /\ p >= MonthlyUpper(now)
    BY <2>1, <2>3 DEF GapAt, Span
  <2>4. CASE ~(p >= WeeklyUpper(now)) /\ ~(p >= MonthlyUpper(now))
    BY <2>1, <2>4 DEF GapAt, Span
  <2>5. QED
    BY <2>2, <2>3, <2>4
<1>6. d - p <= GapAt(now, p)
  <2>1. CASE p >= Last
    BY <1>1, <1>4, <1>5, <2>1, DayType
  <2>2. CASE p < Last
    <3>1. PICK k \in Kept : p < k /\ k <= p + GapAt(now, p)
      BY <1>4, <2>2 DEF OnTimeInv, CompleteInv, Cover, Last
    <3>2. k \in Nat
      BY <1>1, <3>1 DEF Kept
    <3>3. d <= k
      <4>1. CASE k \in dates
        <5>1. ~(k < d)
          BY <1>3, <1>4, <3>1, <3>2, <4>1
        <5>2. QED
          BY <1>4, <3>2, <5>1
      <4>2. CASE k = Last /\ k \notin dates
        <5>1. Due
          BY <4>2 DEF OnTimeInv, LastInv
        <5>2. Last = now
          BY <5>1, WhereWeAre DEF OnTimeInv
        <5>3. QED
          BY <1>1, <4>2, <5>2
      <4>3. QED
        BY <3>1, <4>1, <4>2 DEF Kept
    <3>4. QED
      BY <1>4, <1>5, <3>1, <3>2, <3>3
  <2>3. QED
    BY <1>1, <1>4, <2>1, <2>2
<1>7. Span(p) \in Nat
  BY DayType DEF Span
<1>8. 2 * Span(p) * Day \in Nat
  BY <1>7, DayType
<1>9. QED
  BY <1>4, <1>5, <1>6, <1>8 DEF p

(* With a backup a day, and expiries that end, the history has no holes,   *)
(* for any lengths of windows: provided a month is not less than a week,   *)
(* and no backup takes longer than all of them are kept                    *)
(* (Repository.cpp:973-1093).                                              *)
THEOREM HistoryHasNoHoles ==
    ASSUME Week <= Month, MaxDuration <= KeepAll * Day
    PROVE  Spec /\ [][OnTime]_vars => []NoHoles
<1>1. OnTimeInv => NoHoles
  BY NoGaps
<1>2. QED
  BY <1>1, AlwaysOnTime, PTL

(* And what has got beyond the first monthly window is never deleted.      *)
THEOREM OldOnesAreKept ==
    ASSUME MaxDuration <= KeepAll * Day
    PROVE  Spec /\ [][OnTime]_vars => []OldOnesStay
<1>1. OnTimeInv => OldOnesStay
  BY DEF OnTimeInv
<1>2. QED
  BY <1>1, AlwaysOnTime, PTL
=============================================================================
