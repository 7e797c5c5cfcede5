----------------------- MODULE CancellationDatesProofs -----------------------
(***************************************************************************)
(* The dates of CancellationDates on every calendar whose months have 28   *)
(* to 31 days, for every day of activation and every commitment.           *)
(***************************************************************************)
EXTENDS CancellationDates, FiniteSetTheorems, WellFoundedInduction, TLAPS

-----------------------------------------------------------------------------
(* Induction over a bounded interval, by way of the smallest interval that  *)
(* has a number missing.                                                    *)

LEMMA SmallestMember ==
  ASSUME NEW top \in Nat, NEW S, S \subseteq 0..top, S # {}
  PROVE  \E n \in S : \A m \in S : n <= m
<1> DEFINE Sets == {0..n : n \in S}
<1>1. Sets \subseteq FiniteSubsetsOf(0..top) /\ Sets # {}
  <2>1. ASSUME NEW n \in S PROVE 0..n \subseteq 0..top /\ IsFiniteSet(0..n)
    <3>1. n \in Int /\ n <= top
      OBVIOUS
    <3>2. IsFiniteSet(0..n)
      BY <3>1, FS_Interval
    <3> QED BY <3>1, <3>2
  <2> QED BY <2>1 DEF FiniteSubsetsOf
<1>2. IsFiniteSet(0..top)
  BY FS_Interval
<1>3. PICK A \in Sets : \A B \in Sets : ~(<<B, A>> \in StrictSubsetOrdering(0..top))
  <2> HIDE DEF Sets
  <2> QED BY <1>1, <1>2, FS_StrictSubsetOrderingWellFounded, WFMin
<1>4. PICK n \in S : A = 0..n
  OBVIOUS
<1>5. ASSUME NEW m \in S, m < n PROVE FALSE
  <2>1. 0..m \subseteq 0..n /\ 0..m # 0..n /\ 0..m \subseteq 0..top /\ 0..n \subseteq 0..top
    BY <1>5
  <2>2. <<0..m, 0..n>> \in StrictSubsetOrdering(0..top)
    BY <2>1 DEF StrictSubsetOrdering
  <2> QED BY <1>3, <1>4, <2>2
<1> QED BY <1>5

LEMMA UpTo ==
  ASSUME NEW top \in Nat, NEW S, 0 \in S, \A n \in 0..(top - 1) : n \in S => n + 1 \in S
  PROVE  \A n \in 0..top : n \in S
<1> DEFINE Missing == (0..top) \ S
<1> SUFFICES ASSUME Missing # {} PROVE FALSE
  OBVIOUS
<1>1. PICK n \in Missing : \A m \in Missing : n <= m
  BY SmallestMember
<1>2. n # 0 /\ n - 1 \in 0..(top - 1)
  OBVIOUS
<1>3. n - 1 \in S
  BY <1>1, <1>2
<1>4. (n - 1) + 1 \in S
  BY <1>2, <1>3
<1> QED BY <1>4

-----------------------------------------------------------------------------
(* The calendar. *)

LEMMA MonthStartDef ==
  /\ LastMonth \in Nat /\ Months = 0..LastMonth
  /\ \A m \in Months : MonthDays[m] \in 28..31
  /\ MonthStart \in [Months -> Nat]
  /\ \A m \in Months : MonthStart[m] = IF m = 0 THEN 0 ELSE MonthStart[m - 1] + MonthDays[m - 1]
<1>1. /\ LastMonth \in Nat /\ Months = 0..LastMonth
      /\ \A m \in 0..LastMonth : MonthDays[m] \in 28..31
  BY CalendarAssumption
<1> DEFINE Is(f, n) == /\ f \in [0..n -> Nat]
                       /\ \A m \in 0..n : f[m] = IF m = 0 THEN 0 ELSE f[m - 1] + MonthDays[m - 1]
           Done == {n \in 0..LastMonth : \E f : Is(f, n)}
<1>2. 0 \in Done
  <2> DEFINE f == [m \in 0..0 |-> 0]
  <2>1. f \in [0..0 -> Nat] /\ \A m \in 0..0 : m = 0 /\ f[m] = 0
    OBVIOUS
  <2> HIDE DEF f
  <2>2. Is(f, 0)
    BY <2>1
  <2> QED BY <1>1, <2>2
<1>3. ASSUME NEW n \in 0..(LastMonth - 1), n \in Done PROVE n + 1 \in Done
  <2>1. PICK f : Is(f, n)
    BY <1>3
  <2> DEFINE g == [m \in 0..(n + 1) |-> IF m = n + 1 THEN f[n] + MonthDays[n] ELSE f[m]]
  <2>2. MonthDays[n] \in Nat /\ f[n] \in Nat /\ n \in Nat /\ n + 1 \in 0..LastMonth
    BY <1>1, <2>1
  <2>3. g \in [0..(n + 1) -> Nat]
    BY <2>1, <2>2
  <2>4. ASSUME NEW m \in 0..(n + 1)
        PROVE  g[m] = IF m = 0 THEN 0 ELSE g[m - 1] + MonthDays[m - 1]
    <3>1. CASE m = n + 1
      BY <2>2, <3>1
    <3>2. CASE m # n + 1
      BY <2>1, <2>2, <3>2
    <3> QED BY <3>1, <3>2
  <2> HIDE DEF g
  <2>5. Is(g, n + 1)
    BY <2>3, <2>4
  <2> QED BY <2>2, <2>5
<1>4. LastMonth \in Done
  <2>1. \A n \in 0..(LastMonth - 1) : n \in Done => n + 1 \in Done
    BY <1>3
  <2> HIDE DEF Done
  <2>2. \A n \in 0..LastMonth : n \in Done
    BY <1>1, <1>2, <2>1, UpTo
  <2> QED BY <1>1, <2>2
<1>5. PICK f : Is(f, LastMonth)
  BY <1>4
<1>6. f = [m \in Months |-> IF m = 0 THEN 0 ELSE f[m - 1] + MonthDays[m - 1]]
  BY <1>1, <1>5
<1>7. MonthStart = [m \in Months |-> IF m = 0 THEN 0 ELSE MonthStart[m - 1] + MonthDays[m - 1]]
  BY <1>6 DEF MonthStart
<1> DEFINE Equal == {n \in 0..LastMonth : MonthStart[n] = f[n]}
<1>8. LastMonth \in Equal /\ \A n \in 0..LastMonth : n \in Equal
  <2>1. 0 \in Equal
    BY <1>1, <1>5, <1>7
  <2>2. ASSUME NEW n \in 0..(LastMonth - 1), n \in Equal PROVE n + 1 \in Equal
    <3>1. n + 1 \in Months /\ n + 1 # 0 /\ (n + 1) - 1 = n
      BY <1>1
    <3>2. MonthStart[n + 1] = MonthStart[n] + MonthDays[n]
      BY <1>7, <3>1
    <3>3. f[n + 1] = f[n] + MonthDays[n]
      BY <1>1, <1>5, <3>1
    <3> QED BY <1>1, <2>2, <3>1, <3>2, <3>3
  <2>3. \A n \in 0..(LastMonth - 1) : n \in Equal => n + 1 \in Equal
    BY <2>2
  <2> HIDE DEF Equal
  <2>4. \A n \in 0..LastMonth : n \in Equal
    BY <1>1, <2>1, <2>3, UpTo
  <2> QED BY <1>1, <2>4
<1>9. MonthStart = f
  BY <1>1, <1>5, <1>7, <1>8
<1> QED BY <1>1, <1>5, <1>9

LEMMA NextMonth ==
  ASSUME NEW m \in Months, m + 1 \in Months
  PROVE  MonthStart[m + 1] = MonthStart[m] + MonthDays[m]
<1>1. m \in Nat /\ m + 1 # 0 /\ (m + 1) - 1 = m
  BY MonthStartDef
<1> QED BY <1>1, MonthStartDef

\* Months follow each other.
LEMMA MonthsApart ==
  ASSUME NEW a \in Months, NEW b \in Months, a < b
  PROVE  MonthStart[a] + MonthDays[a] <= MonthStart[b]
<1> DEFINE S == {n \in 0..LastMonth : a < n => MonthStart[a] + MonthDays[a] <= MonthStart[n]}
<1>1. /\ LastMonth \in Nat /\ Months = 0..LastMonth /\ a \in Nat
      /\ \A m \in Months : MonthStart[m] \in Nat /\ MonthDays[m] \in 28..31
  BY MonthStartDef
<1>2. 0 \in S
  BY <1>1
<1>3. ASSUME NEW n \in 0..(LastMonth - 1), n \in S PROVE n + 1 \in S
  <2>1. n \in Months /\ n + 1 \in Months
    BY <1>1
  <2>2. MonthStart[n + 1] = MonthStart[n] + MonthDays[n]
    BY <2>1, NextMonth
  <2>3. /\ MonthStart[n] \in Nat /\ MonthDays[n] \in Nat /\ MonthDays[n + 1] \in Nat
        /\ MonthStart[n + 1] \in Nat /\ MonthStart[a] \in Nat /\ MonthDays[a] \in Nat
    BY <1>1, <2>1, SMTT(30)
  <2>4. a < n + 1 => MonthStart[a] + MonthDays[a] <= MonthStart[n + 1]
    <3>1. CASE a < n
      BY <1>3, <2>2, <2>3, <3>1
    <3>2. CASE n = a
      BY <2>2, <2>3, <3>2
    <3>3. CASE n < a
      BY <1>1, <3>3
    <3> QED BY <1>1, <3>1, <3>2, <3>3
  <2>5. n + 1 \in 0..LastMonth
    BY <1>1, <2>1
  <2> QED BY <2>4, <2>5
<1>4. \A n \in 0..LastMonth : n \in S
  <2>1. \A n \in 0..(LastMonth - 1) : n \in S => n + 1 \in S
    BY <1>3
  <2> HIDE DEF S
  <2> QED BY <1>1, <1>2, <2>1, UpTo
<1> QED BY <1>1, <1>4

InMonth(date, m) ==
  m \in Months /\ MonthStart[m] <= date /\ date < MonthStart[m] + MonthDays[m]

\* Every day is in one month, and MonthOf finds it.
LEMMA MonthOfFinds ==
  /\ LastDay \in Nat
  /\ \A date \in 0..LastDay : InMonth(date, MonthOf[date])
  /\ \A date \in Int, m \in Months : InMonth(date, m) =>
       date \in 0..LastDay /\ MonthOf[date] = m
<1>1. /\ LastMonth \in Nat /\ Months = 0..LastMonth
      /\ \A m \in Months : MonthStart[m] \in Nat /\ MonthDays[m] \in 28..31
      /\ MonthStart[0] = 0
  BY MonthStartDef
<1>2. LastDay \in Nat /\ LastDay = MonthStart[LastMonth] + MonthDays[LastMonth] - 1
  BY <1>1 DEF LastDay
<1>3. ASSUME NEW date \in 0..LastDay PROVE \E m \in Months : InMonth(date, m)
  <2> DEFINE S == {n \in 0..LastMonth : date < MonthStart[n] + MonthDays[n]}
  <2>1. LastMonth \in S
    BY <1>1, <1>2
  <2>2. PICK n \in S : \A m \in S : n <= m
    <3>1. S \subseteq 0..LastMonth /\ S # {}
      BY <2>1
    <3> HIDE DEF S
    <3> QED BY <1>1, <3>1, SmallestMember
  <2>3. CASE n = 0
    BY <1>1, <2>3 DEF InMonth
  <2>4. CASE n # 0
    <3>1. n - 1 \in Months /\ (n - 1) + 1 \in Months /\ (n - 1) + 1 = n /\ n - 1 \notin S
      BY <1>1, <2>2, <2>4
    <3>2. MonthStart[n] = MonthStart[n - 1] + MonthDays[n - 1]
      BY <3>1, NextMonth
    <3>3. ~(date < MonthStart[n - 1] + MonthDays[n - 1])
      BY <1>1, <3>1
    <3> QED BY <1>1, <3>1, <3>2, <3>3 DEF InMonth
  <2> QED BY <2>3, <2>4
<1>4. ASSUME NEW date \in Int, NEW a \in Months, NEW b \in Months,
             InMonth(date, a), InMonth(date, b)
      PROVE  a = b
  <2>1. a < b => MonthStart[a] + MonthDays[a] <= MonthStart[b]
    BY MonthsApart
  <2>2. b < a => MonthStart[b] + MonthDays[b] <= MonthStart[a]
    BY MonthsApart
  <2>3. a \in Nat /\ b \in Nat
    BY <1>1
  <2> QED BY <1>1, <1>4, <2>1, <2>2, <2>3, SMTT(30) DEF InMonth
<1>5. ASSUME NEW date \in 0..LastDay PROVE InMonth(date, MonthOf[date])
  <2>1. MonthOf[date] = CHOOSE m \in Months : /\ MonthStart[m] <= date
                                              /\ date < MonthStart[m] + MonthDays[m]
    BY DEF MonthOf
  <2> QED BY <1>3, <2>1 DEF InMonth
<1>6. ASSUME NEW date \in Int, NEW m \in Months, InMonth(date, m)
      PROVE  date \in 0..LastDay
  <2>1. m < LastMonth => MonthStart[m] + MonthDays[m] <= MonthStart[LastMonth]
    BY <1>1, MonthsApart
  <2>2. m = LastMonth \/ m < LastMonth
    BY <1>1
  <2>3. /\ MonthStart[m] \in Nat /\ MonthDays[m] \in Nat
        /\ MonthStart[LastMonth] \in Nat /\ MonthDays[LastMonth] \in 28..31
    BY <1>1
  <2>4. MonthStart[m] <= date /\ date < MonthStart[m] + MonthDays[m]
    BY <1>6 DEF InMonth
  <2>5. date < MonthStart[LastMonth] + MonthDays[LastMonth]
    BY <2>1, <2>2, <2>3, <2>4
  <2>6. 0 <= date /\ date <= LastDay
    BY <1>2, <2>3, <2>4, <2>5
  <2> QED BY <1>2, <2>6
<1>7. ASSUME NEW date \in Int, NEW m \in Months, InMonth(date, m)
      PROVE  MonthOf[date] = m
  <2>1. date \in 0..LastDay
    BY <1>6, <1>7
  <2>2. InMonth(date, MonthOf[date])
    BY <1>5, <2>1
  <2> QED BY <1>4, <1>7, <2>2 DEF InMonth
<1> QED BY <1>2, <1>5, <1>6, <1>7

\* A month after the day with number n of month m; what the next month does not
\* have is carried over.
LEMMA AddMonth ==
  ASSUME NEW m \in Months, NEW n \in Int, 0 <= n, n < MonthDays[m]
  PROVE  /\ MonthStart[m] + n \in 0..LastDay
         /\ MonthOf[MonthStart[m] + n] = m
         /\ DayOf(MonthStart[m] + n) = n
<1> DEFINE date == MonthStart[m] + n
<1>1. MonthStart[m] \in Nat /\ MonthDays[m] \in Nat
  <2> HIDE DEF date
  <2>1. MonthStart \in [Months -> Nat] /\ MonthDays[m] \in 28..31
    BY MonthStartDef
  <2> QED BY <2>1
<1>2. date \in Int /\ InMonth(date, m)
  <2>1. /\ date \in Int /\ MonthStart[m] <= date
        /\ date < MonthStart[m] + MonthDays[m]
    BY <1>1
  <2> HIDE DEF date
  <2> QED BY <2>1 DEF InMonth
<1>3. date \in 0..LastDay /\ MonthOf[date] = m
  BY <1>2, MonthOfFinds
<1>4. DayOf(date) = n
  BY <1>1, <1>3 DEF DayOf
<1> HIDE DEF date
<1> QED BY <1>3, <1>4 DEF date

LEMMA AddOneMonth ==
  ASSUME NEW m \in Months, NEW n \in Int, 0 <= n, n < MonthDays[m]
  PROVE  addMonths(MonthStart[m] + n, 1) = MonthStart[m + 1] + n
<1> DEFINE date == MonthStart[m] + n
<1>1. MonthOf[date] = m /\ DayOf(date) = n
  BY AddMonth
<1> HIDE DEF date
<1>2. addMonths(date, 1) = MonthStart[m + 1] + n
  BY <1>1 DEF addMonths
<1> QED BY <1>2 DEF date

\* Each due date of DueDates is a month after the one before it.
LEMMA DueDatesDef ==
  ASSUME NEW d \in Starts
  PROVE  LET top == LastMonth - MonthOf[d] - 1
         IN  /\ DOMAIN DueDates[d] = 0..top
             /\ \A k \in 0..top :
                  DueDates[d][k] = IF k = 0 THEN d ELSE addMonths(DueDates[d][k - 1], 1)
<1> DEFINE top == LastMonth - MonthOf[d] - 1
           Is(f, n) == f = [k \in 0..n |-> IF k = 0 THEN d ELSE addMonths(f[k - 1], 1)]
           due == CHOOSE f : Is(f, top)
           Done == {n \in 0..top : \E f : Is(f, n)}
<1>1. top \in Int
  BY MonthOfFinds, MonthStartDef DEF Starts, InMonth
<1>2. DueDates[d] = [k \in 0..top |-> due[k]]
  BY DEF DueDates
<1>3. CASE top < 0
  BY <1>1, <1>2, <1>3
<1>4. CASE top >= 0
  <2>1. top \in Nat
    BY <1>1, <1>4
  <2>2. 0 \in Done
    <3> DEFINE f == [k \in 0..0 |-> d]
    <3>1. Is(f, 0)
      OBVIOUS
    <3> HIDE DEF Is, f, top
    <3> QED BY <2>1, <3>1
  <2>3. ASSUME NEW n \in 0..(top - 1), n \in Done PROVE n + 1 \in Done
    <3> HIDE DEF top
    <3>1. PICK f : Is(f, n)
      BY <2>3
    <3> DEFINE g == [k \in 0..(n + 1) |-> IF k = 0 THEN d ELSE addMonths(f[k - 1], 1)]
    <3>2. ASSUME NEW k \in 0..(n + 1), k # 0 PROVE g[k - 1] = f[k - 1]
      <4>1. k - 1 \in 0..n /\ k - 1 \in 0..(n + 1)
        BY <3>2
      <4>2. f[k - 1] = IF k - 1 = 0 THEN d ELSE addMonths(f[(k - 1) - 1], 1)
        BY <3>1, <4>1
      <4>3. g[k - 1] = IF k - 1 = 0 THEN d ELSE addMonths(f[(k - 1) - 1], 1)
        BY <4>1
      <4> QED BY <4>2, <4>3
    <3>3. Is(g, n + 1)
      <4>1. ASSUME NEW k \in 0..(n + 1)
            PROVE  (IF k = 0 THEN d ELSE addMonths(f[k - 1], 1))
                     = IF k = 0 THEN d ELSE addMonths(g[k - 1], 1)
        BY <3>2
      <4> QED BY <4>1
    <3> HIDE DEF Is, g
    <3>4. n + 1 \in 0..top
      BY <2>1
    <3> QED BY <3>3, <3>4
  <2>4. top \in Done
    <3>1. \A n \in 0..(top - 1) : n \in Done => n + 1 \in Done
      BY <2>3
    <3> HIDE DEF Done, top
    <3>2. \A n \in 0..top : n \in Done
      BY <2>1, <2>2, <3>1, UpTo
    <3> QED BY <2>1, <3>2
  <2>5. Is(due, top)
    <3>1. \E f : Is(f, top)
      BY <2>4
    <3> HIDE DEF Is, top
    <3> QED BY <3>1
  <2>6. ASSUME NEW k \in 0..top
        PROVE  DueDates[d][k] = IF k = 0 THEN d ELSE addMonths(DueDates[d][k - 1], 1)
    <3> HIDE DEF top, due
    <3>1. due[k] = IF k = 0 THEN d ELSE addMonths(due[k - 1], 1)
      BY <2>5
    <3>2. DueDates[d][k] = due[k]
      BY <1>2
    <3>3. k # 0 => DueDates[d][k - 1] = due[k - 1]
      <4>1. k # 0 => k - 1 \in 0..top
        BY <2>1
      <4> QED BY <1>2, <4>1
    <3> QED BY <3>1, <3>2, <3>3
  <2>7. DOMAIN DueDates[d] = 0..top
    BY <1>2
  <2> HIDE DEF top
  <2> QED BY <2>6, <2>7 DEF top
<1> QED BY <1>1, <1>3, <1>4

\* Where the due date of cycle k is: on the day of the activation, or, when some
\* month so far did not have that day, among the first days of the month after.
OnTheDay(d, k) ==
  LET m == MonthOf[d] + k
  IN  DayOf(d) < MonthDays[m] /\ DueDates[d][k] = MonthStart[m] + DayOf(d)
Carried(d, k) ==
  LET m == MonthOf[d] + k
  IN  \E e \in 0..2 : /\ DayOf(d) >= 28 /\ e <= DayOf(d) - 28
                      /\ DueDates[d][k] = MonthStart[m + 1] + e

LEMMA ActivationDay ==
  ASSUME NEW d \in Starts
  PROVE  /\ d \in Nat /\ MonthOf[d] \in Months /\ MonthOf[d] \in FirstMonths
         /\ DayOf(d) \in 0..30 /\ DayOf(d) < MonthDays[MonthOf[d]]
         /\ d = MonthStart[MonthOf[d]] + DayOf(d)
<1>1. d \in 0..LastDay /\ MonthOf[d] \in FirstMonths
  BY DEF Starts
<1>2. InMonth(d, MonthOf[d]) /\ LastDay \in Nat
  BY <1>1, MonthOfFinds
<1> DEFINE m == MonthOf[d]
<1>3. m \in Months /\ MonthStart[m] <= d /\ d < MonthStart[m] + MonthDays[m]
  BY <1>2 DEF InMonth
<1> DEFINE s == MonthStart[m]
           l == MonthDays[m]
<1>4. s \in Nat /\ l \in 28..31
  BY <1>3, MonthStartDef
<1>5. DayOf(d) = d - s
  BY DEF DayOf
<1>6. m \in FirstMonths
  BY <1>1
<1> SUFFICES /\ d \in Nat /\ m \in Months /\ m \in FirstMonths
             /\ DayOf(d) \in 0..30 /\ DayOf(d) < l /\ d = s + DayOf(d)
  OBVIOUS
<1>7. d \in Nat /\ s <= d /\ d < s + l
  BY <1>1, <1>2, <1>3
<1> HIDE DEF m, s, l
<1>8. DayOf(d) \in 0..30 /\ DayOf(d) < l /\ d = s + DayOf(d)
  BY <1>4, <1>5, <1>7
<1> QED BY <1>3, <1>6, <1>7, <1>8

\* A month of the calendar, as the arithmetic below needs it.
LEMMA MonthFits ==
  ASSUME NEW m \in Months
  PROVE  m \in Nat /\ MonthStart[m] \in Nat /\ MonthDays[m] \in Nat
         /\ MonthDays[m] >= 28 /\ MonthDays[m] <= 31
<1>1. LastMonth \in Nat /\ Months = 0..LastMonth /\ MonthDays[m] \in 28..31
      /\ MonthStart \in [Months -> Nat]
  BY MonthStartDef
<1> QED BY <1>1

LEMMA DueDatesFit ==
  ASSUME NEW d \in Starts, LastMonth - MonthOf[d] - 1 \in Nat
  PROVE  /\ DOMAIN DueDates[d] = 0..(LastMonth - MonthOf[d] - 1)
         /\ \A k \in 0..(LastMonth - MonthOf[d] - 1) : OnTheDay(d, k) \/ Carried(d, k)
<1> DEFINE m == MonthOf[d]
           top == LastMonth - m - 1
           D == DayOf(d)
           S == {k \in 0..top : OnTheDay(d, k) \/ Carried(d, k)}
<1>1. /\ m \in Nat /\ m \in Months /\ D \in 0..30 /\ D < MonthDays[m] /\ d = MonthStart[m] + D
      /\ LastMonth \in Nat /\ Months = 0..LastMonth
  BY ActivationDay, MonthStartDef
<1>2. /\ DOMAIN DueDates[d] = 0..top
      /\ \A k \in 0..top : DueDates[d][k] = IF k = 0 THEN d ELSE addMonths(DueDates[d][k - 1], 1)
  BY DueDatesDef
<1>3. top \in Nat /\ top = LastMonth - m - 1
  OBVIOUS
<1>4. 0 \in S
  <2>1. DueDates[d][0] = d /\ m + 0 = m /\ 0 \in 0..top
    <3> HIDE DEF m, top
    <3> QED BY <1>1, <1>2, <1>3
  <2>2. OnTheDay(d, 0)
    BY <1>1, <2>1 DEF OnTheDay
  <2> QED BY <2>1, <2>2
<1>5. ASSUME NEW k \in 0..(top - 1), k \in S PROVE k + 1 \in S
  <2> DEFINE a == m + k
             b == m + (k + 1)
             c == b + 1
  <2>1. /\ a \in Months /\ b \in Months /\ c \in Months /\ b = a + 1 /\ k + 1 \in 0..top
        /\ k + 1 # 0 /\ (k + 1) - 1 = k /\ k \in 0..top
    <3> HIDE DEF m, top
    <3> QED BY <1>1, <1>3
  <2>2. DueDates[d][k + 1] = addMonths(DueDates[d][k], 1)
    <3> HIDE DEF top
    <3> QED BY <1>2, <2>1
  <2>3. /\ MonthStart[a] \in Nat /\ MonthStart[b] \in Nat /\ MonthStart[c] \in Nat
        /\ MonthDays[b] \in Nat /\ MonthDays[b] >= 28 /\ MonthDays[b] <= 31
        /\ MonthStart[c] = MonthStart[b] + MonthDays[b] /\ D \in 0..30
    <3> HIDE DEF a, b, m, D
    <3> QED BY <1>1, <2>1, MonthFits, NextMonth
  <2>4. CASE OnTheDay(d, k)
    <3>1. D < MonthDays[a] /\ DueDates[d][k] = MonthStart[a] + D
      BY <2>4 DEF OnTheDay
    <3>2. DueDates[d][k + 1] = MonthStart[b] + D
      <4> HIDE DEF a, b, D
      <4>1. addMonths(MonthStart[a] + D, 1) = MonthStart[a + 1] + D
        <5>1. D \in Int /\ 0 <= D
          BY <2>3
        <5> QED BY <2>1, <3>1, <5>1, AddOneMonth
      <4> QED BY <2>1, <2>2, <3>1, <4>1
    <3>3. CASE D < MonthDays[b]
      BY <2>1, <3>2, <3>3 DEF OnTheDay
    <3>4. CASE ~(D < MonthDays[b])
      <4> DEFINE e == D - MonthDays[b]
      <4>1. /\ e \in 0..2 /\ D >= 28 /\ e <= D - 28
            /\ DueDates[d][k + 1] = MonthStart[c] + e
        <5> HIDE DEF b, c, D
        <5> QED BY <2>3, <3>2, <3>4
      <4>2. Carried(d, k + 1)
        <5> HIDE DEF e
        <5> QED BY <4>1 DEF Carried
      <4> QED BY <2>1, <4>2
    <3> QED BY <3>3, <3>4
  <2>5. CASE Carried(d, k)
    <3>1. PICK e \in 0..2 : /\ D >= 28 /\ e <= D - 28
                            /\ DueDates[d][k] = MonthStart[a + 1] + e
      BY <2>5 DEF Carried
    <3>2. DueDates[d][k + 1] = MonthStart[c] + e
      <4> HIDE DEF a, b, D
      <4>1. e \in Int /\ 0 <= e /\ e < MonthDays[b]
        BY <2>3
      <4>2. addMonths(MonthStart[b] + e, 1) = MonthStart[b + 1] + e
        BY <2>1, <4>1, AddOneMonth
      <4> QED BY <2>1, <2>2, <3>1, <4>2
    <3>3. Carried(d, k + 1)
      BY <3>1, <3>2 DEF Carried
    <3> QED BY <2>1, <3>3
  <2> QED BY <1>5, <2>4, <2>5
<1>6. \A k \in 0..top : k \in S
  <2>1. \A k \in 0..(top - 1) : k \in S => k + 1 \in S
    BY <1>5
  <2> HIDE DEF S, top
  <2> QED BY <1>3, <1>4, <2>1, UpTo
<1> QED BY <1>2, <1>6

-----------------------------------------------------------------------------
(* Due dates and nominal dates of a subscription whose commitment the       *)
(* calendar holds.                                                          *)

LastCycle(d) == LastMonth - MonthOf[d] - 1

LEMMA CommitmentFits ==
  ASSUME NEW d \in Starts, NEW c \in CommitmentOptions
  PROVE  /\ c \in Nat /\ c >= 1 /\ LastCycle(d) \in Nat /\ c + 1 <= LastCycle(d)
         /\ \A k \in 0..LastCycle(d) : MonthOf[d] + k \in Months /\ (MonthOf[d] + k) + 1 \in Months
<1>1. MonthOf[d] \in Months /\ MonthOf[d] \in FirstMonths
  BY ActivationDay
<1>2. MonthOf[d] + c + 2 \in Months /\ c \in Nat \ {0}
  BY <1>1, OptionsAssumption
<1>3. LastMonth \in Nat /\ Months = 0..LastMonth
  BY MonthStartDef
<1>4. LastCycle(d) = LastMonth - MonthOf[d] - 1
  BY DEF LastCycle
<1> DEFINE M == MonthOf[d]
           top == LastCycle(d)
<1>5. M \in 0..LastMonth /\ M + c + 2 \in 0..LastMonth /\ c \in Nat \ {0}
      /\ LastMonth \in Nat /\ top = LastMonth - M - 1
  BY <1>1, <1>2, <1>3, <1>4
<1> HIDE DEF M, top
<1>6. top \in Nat /\ c + 1 <= top /\ c >= 1 /\ c \in Nat
  BY <1>5
<1>7. \A k \in 0..top : M + k \in 0..LastMonth /\ (M + k) + 1 \in 0..LastMonth
  BY <1>5, <1>6
<1> QED BY <1>3, <1>6, <1>7 DEF M, top

\* The month of cycle k, the day of the activation in it, and its two dates.
LEMMA CycleDates ==
  ASSUME NEW d \in Starts, NEW c \in CommitmentOptions, NEW k \in 0..LastCycle(d)
  PROVE  LET m == MonthOf[d] + k
             s == MonthStart[m]
             l == MonthDays[m]
             D == DayOf(d)
             due == DueDates[d][k]
             nominal == NominalDate(d, k)
         IN  /\ m \in Months /\ m + 1 \in Months /\ D \in 0..30
             /\ s \in Nat /\ l \in 28..31 /\ MonthStart[m + 1] = s + l
             /\ nominal = s + IF D < l THEN D ELSE l - 1
             /\ \/ D < l /\ due = s + D
                \/ \E e \in 0..2 : D >= 28 /\ e <= D - 28 /\ due = s + l + e
<1> DEFINE m == MonthOf[d] + k
           s == MonthStart[m]
           l == MonthDays[m]
           D == DayOf(d)
<1>1. m \in Months /\ m + 1 \in Months
  BY CommitmentFits
<1>2. D \in 0..30
  BY ActivationDay
<1>3. s \in Nat /\ l \in 28..31
  BY <1>1, MonthStartDef
<1>4. MonthStart[m + 1] = s + l
  BY <1>1, NextMonth
<1>5. NominalDate(d, k) = s + IF D < l THEN D ELSE l - 1
  BY DEF NominalDate
<1>6. OnTheDay(d, k) \/ Carried(d, k)
  BY CommitmentFits, DueDatesFit DEF LastCycle
<1>7. \/ D < l /\ DueDates[d][k] = s + D
      \/ \E e \in 0..2 : D >= 28 /\ e <= D - 28 /\ DueDates[d][k] = s + l + e
  <2>1. OnTheDay(d, k) => D < l /\ DueDates[d][k] = s + D
    BY DEF OnTheDay
  <2>2. Carried(d, k) => \E e \in 0..2 : D >= 28 /\ e <= D - 28 /\ DueDates[d][k] = s + l + e
    BY <1>4 DEF Carried
  <2> QED BY <1>6, <2>1, <2>2
<1> QED BY <1>1, <1>2, <1>3, <1>4, <1>5, <1>7

\* How far a due date is from the nominal one.
LEMMA Drift ==
  ASSUME NEW d \in Starts, NEW c \in CommitmentOptions, NEW k \in 0..LastCycle(d)
  PROVE  /\ DueDates[d][k] \in Nat /\ NominalDate(d, k) \in Nat
         /\ DueDates[d][k] >= NominalDate(d, k)
         /\ DueDates[d][k] <= NominalDate(d, k) + 3
         /\ DayOf(d) < 28 => DueDates[d][k] = NominalDate(d, k)
<1> DEFINE m == MonthOf[d] + k
           s == MonthStart[m]
           l == MonthDays[m]
           D == DayOf(d)
           due == DueDates[d][k]
           nominal == NominalDate(d, k)
<1>1. /\ D \in 0..30 /\ s \in Nat /\ l \in 28..31
      /\ nominal = s + IF D < l THEN D ELSE l - 1
      /\ \/ D < l /\ due = s + D
         \/ \E e \in 0..2 : D >= 28 /\ e <= D - 28 /\ due = s + l + e
  BY CycleDates
<1> SUFFICES /\ due \in Nat /\ nominal \in Nat /\ due >= nominal /\ due <= nominal + 3
             /\ D < 28 => due = nominal
  OBVIOUS
<1> HIDE DEF m, s, l, D, due, nominal
<1>2. CASE D < l /\ due = s + D
  BY <1>1, <1>2
<1>3. ASSUME NEW e \in 0..2, D >= 28 /\ e <= D - 28 /\ due = s + l + e
      PROVE  /\ due \in Nat /\ nominal \in Nat /\ due >= nominal /\ due <= nominal + 3
             /\ D < 28 => due = nominal
  <2>1. CASE D < l
    BY <1>1, <1>3, <2>1
  <2>2. CASE ~(D < l)
    BY <1>1, <1>3, <2>2
  <2> QED BY <2>1, <2>2
<1> QED BY <1>1, <1>2, <1>3

\* Later cycles are due later, and have later nominal dates.
LEMMA DatesGrow ==
  ASSUME NEW d \in Starts, NEW c \in CommitmentOptions,
         NEW a \in 0..LastCycle(d), NEW b \in 0..LastCycle(d), a < b
  PROVE  /\ DueDates[d][a] < DueDates[d][b]
         /\ NominalDate(d, a) < NominalDate(d, b)
<1> DEFINE m == MonthOf[d] + a
           n == MonthOf[d] + b
           s == MonthStart[m]
           l == MonthDays[m]
           t == MonthStart[n]
           j == MonthDays[n]
           D == DayOf(d)
           due == DueDates[d][a]
           nominal == NominalDate(d, a)
           due2 == DueDates[d][b]
           nominal2 == NominalDate(d, b)
<1>1. /\ D \in 0..30 /\ s \in Nat /\ l \in 28..31 /\ m \in Months
      /\ nominal = s + IF D < l THEN D ELSE l - 1
      /\ \/ D < l /\ due = s + D
         \/ \E e \in 0..2 : D >= 28 /\ e <= D - 28 /\ due = s + l + e
  BY CycleDates
<1>2. /\ t \in Nat /\ j \in 28..31 /\ n \in Months
      /\ nominal2 = t + IF D < j THEN D ELSE j - 1
      /\ \/ D < j /\ due2 = t + D
         \/ \E e \in 0..2 : D >= 28 /\ e <= D - 28 /\ due2 = t + j + e
  BY CycleDates
<1>3. s + l <= t
  <2>1. m < n
    <3>1. MonthOf[d] \in Nat /\ a \in Int /\ b \in Int
      BY ActivationDay, MonthFits, CommitmentFits
    <3> QED BY <3>1
  <2> HIDE DEF m, n
  <2> QED BY <1>1, <1>2, <2>1, MonthsApart
<1> SUFFICES due < due2 /\ nominal < nominal2
  OBVIOUS
<1> HIDE DEF m, n, s, l, t, j, D, due, nominal, due2, nominal2
<1>4. nominal < nominal2
  BY <1>1, <1>2, <1>3
<1>5. due < due2
  <2>1. due \in Nat /\ due2 \in Nat /\ due <= s + l + 2 /\ due2 >= t
    BY <1>1, <1>2
  <2>2. CASE D < l /\ due = s + D
    BY <1>1, <1>2, <1>3, <2>1, <2>2
  <2>3. CASE \E e \in 0..2 : D >= 28 /\ e <= D - 28 /\ due = s + l + e
    <3>1. D >= 28 /\ due2 >= t + 28
      BY <1>1, <1>2, <2>3
    <3> QED BY <1>1, <1>2, <1>3, <2>1, <3>1
  <2> QED BY <1>1, <2>2, <2>3
<1> QED BY <1>4, <1>5

\* The commitment ends before the cycle after it is due.
LEMMA CommitmentEnds ==
  ASSUME NEW d \in Starts, NEW c \in CommitmentOptions
  PROVE  /\ addMonths(d, c) \in Nat /\ d < addMonths(d, c)
         /\ addMonths(d, c) < NominalDate(d, c + 1)
         /\ addMonths(d, c) < DueDates[d][c + 1]
<1> DEFINE M == MonthOf[d]
           m == M + c
           n == M + (c + 1)
           D == DayOf(d)
           S == MonthStart[M]
           s == MonthStart[m]
           l == MonthDays[m]
           t == MonthStart[n]
           j == MonthDays[n]
           nominal == NominalDate(d, c + 1)
           due == DueDates[d][c + 1]
<1>1. c \in Nat /\ c >= 1 /\ c \in 0..LastCycle(d) /\ c + 1 \in 0..LastCycle(d)
  BY CommitmentFits
<1>2. /\ D \in 0..30 /\ s \in Nat /\ l \in 28..31 /\ m \in Months
      /\ MonthStart[m + 1] = s + l
  BY <1>1, CycleDates
<1>3. /\ t \in Nat /\ j \in 28..31
      /\ nominal = t + IF D < j THEN D ELSE j - 1
  BY <1>1, CycleDates
<1>4. /\ d = S + D /\ S \in Nat /\ M \in Months /\ M \in Nat /\ D < MonthDays[M]
      /\ MonthDays[M] \in Nat
  BY ActivationDay, MonthFits
<1>5. addMonths(d, c) = s + D
  BY DEF addMonths
<1>6. m + 1 = n /\ M < m
  <2> HIDE DEF M
  <2> QED BY <1>1, <1>4
<1>7. S + MonthDays[M] <= s
  <2> HIDE DEF M, m
  <2> QED BY <1>2, <1>4, <1>6, MonthsApart
<1>8. t = s + l
  BY <1>2, <1>6
<1>9. due >= nominal /\ due \in Nat
  BY <1>1, Drift
<1>10. d < s + D
  <2> HIDE DEF M, m, S, s, D
  <2> QED BY <1>2, <1>4, <1>7
<1>11. s + D < nominal /\ nominal \in Nat
  <2> HIDE DEF m, n, s, l, t, j, D, nominal
  <2> QED BY <1>2, <1>3, <1>8
<1>12. s + D < due /\ s + D \in Nat
  <2> HIDE DEF m, n, s, l, D, nominal, due
  <2> QED BY <1>2, <1>9, <1>11
<1> QED BY <1>5, <1>10, <1>11, <1>12

\* The first date after a reference date: what the code's loop and the nominal end
\* both look for.
FirstAfter(date, cycles, reference) ==
  CHOOSE i \in cycles : /\ date[i] > reference
                        /\ i > 1 => date[i - 1] <= reference

LEMMA FirstDateAfter ==
  ASSUME NEW top \in Nat, NEW date, NEW reference \in Int,
         \A k \in 1..top : date[k] \in Int,
         \E k \in 1..top : date[k] > reference
  PROVE  LET k == FirstAfter(date, 1..top, reference)
         IN  k \in 1..top /\ date[k] > reference /\ (k > 1 => date[k - 1] <= reference)
<1> DEFINE S == {i \in 1..top : date[i] > reference}
<1>1. S \subseteq 0..top /\ S # {}
  OBVIOUS
<1>2. PICK n \in S : \A i \in S : n <= i
  <2> HIDE DEF S
  <2> QED BY <1>1, SmallestMember
<1>3. n > 1 => date[n - 1] <= reference
  <2> SUFFICES ASSUME n > 1 PROVE date[n - 1] <= reference
    OBVIOUS
  <2>1. n - 1 \in 1..top /\ n - 1 \notin S
    BY <1>2
  <2>2. ~(date[n - 1] > reference) /\ date[n - 1] \in Int
    BY <2>1
  <2> QED BY <2>2
<1>4. n \in 1..top /\ date[n] > reference
  OBVIOUS
<1> QED BY <1>3, <1>4 DEF FirstAfter

\* The nominal dates, as a function for FirstDateAfter.
Nominal(d) == [k \in 0..LastCycle(d) |-> NominalDate(d, k)]

\* The due date the code finds, and the nominal end, of a subscription canceled
\* before the end of its commitment.
LEMMA CycleFound ==
  ASSUME NEW d \in Starts, NEW c \in CommitmentOptions,
         NEW reference \in Nat, reference < addMonths(d, c),
         NEW k, k = CHOOSE i \in DOMAIN DueDates[d] \ {0} :
                      /\ DueDates[d][i] > reference
                      /\ i > 1 => DueDates[d][i - 1] <= reference
  PROVE  /\ k \in 1..LastCycle(d) /\ DueDates[d][k] > reference
         /\ k > 1 => DueDates[d][k - 1] <= reference
<1> DEFINE top == LastCycle(d)
<1>1. top \in Nat /\ c + 1 \in 1..top
  BY CommitmentFits
<1>2. DOMAIN DueDates[d] \ {0} = 1..top
  <2>1. DOMAIN DueDates[d] = 0..top
    BY CommitmentFits, DueDatesFit DEF LastCycle
  <2> HIDE DEF top
  <2> QED BY <1>1, <2>1
<1>3. \A i \in 1..top : DueDates[d][i] \in Int
  BY Drift
<1>4. DueDates[d][c + 1] > reference
  <2>1. addMonths(d, c) \in Nat /\ addMonths(d, c) < DueDates[d][c + 1]
    BY CommitmentEnds
  <2>2. DueDates[d][c + 1] \in Int
    BY <1>1, <1>3
  <2> QED BY <2>1, <2>2
<1>5. k = FirstAfter(DueDates[d], 1..top, reference)
  BY <1>2 DEF FirstAfter
<1>6. \E i \in 1..top : DueDates[d][i] > reference
  BY <1>1, <1>4
<1> DEFINE date == DueDates[d]
<1> HIDE DEF top, date
<1>7. LET i == FirstAfter(date, 1..top, reference)
      IN  i \in 1..top /\ date[i] > reference /\ (i > 1 => date[i - 1] <= reference)
  <2>1. \A i \in 1..top : date[i] \in Int
    BY <1>3 DEF date
  <2>2. \E i \in 1..top : date[i] > reference
    BY <1>6 DEF date
  <2> QED BY <1>1, <2>1, <2>2, FirstDateAfter
<1> QED BY <1>5, <1>7 DEF top, date

LEMMA NominalFound ==
  ASSUME NEW d \in Starts, NEW c \in CommitmentOptions,
         NEW reference \in Nat, reference < addMonths(d, c),
         NEW k, k = CHOOSE i \in DOMAIN DueDates[d] \ {0} :
                      /\ NominalDate(d, i) > reference
                      /\ i > 1 => NominalDate(d, i - 1) <= reference
  PROVE  /\ k \in 1..LastCycle(d) /\ NominalDate(d, k) > reference
         /\ k > 1 => NominalDate(d, k - 1) <= reference
<1> DEFINE top == LastCycle(d)
           date == Nominal(d)
<1>1. top \in Nat /\ c + 1 \in 1..top
  BY CommitmentFits
<1>2. DOMAIN DueDates[d] \ {0} = 1..top
  <2>1. DOMAIN DueDates[d] = 0..top
    BY CommitmentFits, DueDatesFit DEF LastCycle
  <2> HIDE DEF top
  <2> QED BY <1>1, <2>1
<1>3. \A i \in 0..top : NominalDate(d, i) = date[i] /\ date[i] \in Int
  BY Drift DEF Nominal
<1>4. date[c + 1] > reference
  <2>1. addMonths(d, c) \in Nat /\ addMonths(d, c) < NominalDate(d, c + 1)
    BY CommitmentEnds
  <2>2. date[c + 1] \in Int /\ NominalDate(d, c + 1) = date[c + 1]
    BY <1>1, <1>3
  <2> HIDE DEF date
  <2> QED BY <2>1, <2>2
<1> HIDE DEF top, date
<1>5. \A i \in 1..top : /\ NominalDate(d, i) = date[i]
                        /\ i > 1 => NominalDate(d, i - 1) = date[i - 1]
  <2> TAKE i \in 1..top
  <2>1. i \in 0..top /\ (i > 1 => i - 1 \in 0..top)
    BY <1>1
  <2> QED BY <1>3, <2>1
<1>6. k = FirstAfter(date, 1..top, reference)
  BY <1>2, <1>5 DEF FirstAfter
<1>7. \A i \in 1..top : date[i] \in Int
  BY <1>1, <1>3
<1>8. k \in 1..top /\ date[k] > reference /\ (k > 1 => date[k - 1] <= reference)
  <2>1. \E i \in 1..top : date[i] > reference
    BY <1>1, <1>4
  <2>2. LET i == FirstAfter(date, 1..top, reference)
        IN  i \in 1..top /\ date[i] > reference /\ (i > 1 => date[i - 1] <= reference)
    BY <1>1, <1>7, <2>1, FirstDateAfter
  <2> QED BY <1>6, <2>2
<1>9. NominalDate(d, k) > reference /\ (k > 1 => NominalDate(d, k - 1) <= reference)
  BY <1>5, <1>8
<1> QED BY <1>8, <1>9 DEF top

\* A due date after the reference date is at the nominal end or after it, or at most
\* the drift after the reference date.
LEMMA EndOfCycle ==
  ASSUME NEW d \in Starts, NEW c \in CommitmentOptions, NEW reference \in Nat,
         NEW k \in 1..LastCycle(d), NEW n \in 1..LastCycle(d),
         DueDates[d][k] > reference,
         n > 1 => NominalDate(d, n - 1) <= reference
  PROVE  \/ DueDates[d][k] >= NominalDate(d, n)
         \/ ~(DayOf(d) < 28) /\ DueDates[d][k] - reference <= 3
<1> DEFINE top == LastCycle(d)
           next == DueDates[d][k]
           nominal == NominalDate(d, k)
           bound == NominalDate(d, n)
           prior == NominalDate(d, n - 1)
<1>1. top \in Nat /\ k \in 0..top /\ n \in 0..top /\ n - 1 \in 0..top
  BY CommitmentFits
<1>2. /\ next \in Nat /\ nominal \in Nat /\ next >= nominal /\ next <= nominal + 3
      /\ DayOf(d) < 28 => next = nominal
  BY <1>1, Drift
<1>3. bound \in Nat /\ prior \in Nat
  BY <1>1, Drift
<1>4. /\ n < k => bound < nominal
      /\ n = k => bound = nominal
      /\ k < n - 1 => nominal < prior
      /\ k = n - 1 => nominal = prior
  BY <1>1, DatesGrow
<1>5. next > reference /\ (n > 1 => prior <= reference) /\ k \in 1..top /\ n \in 1..top
  OBVIOUS
<1> SUFFICES next >= bound \/ (~(DayOf(d) < 28) /\ next - reference <= 3)
  OBVIOUS
<1> HIDE DEF top, next, nominal, bound, prior
<1>6. CASE n <= k
  BY <1>2, <1>3, <1>4, <1>5, <1>6
<1>7. CASE k < n
  <2>1. n > 1 /\ (k < n - 1 \/ k = n - 1)
    BY <1>1, <1>5, <1>7
  <2>2. nominal <= reference
    BY <1>2, <1>3, <1>4, <1>5, <2>1
  <2> QED BY <1>2, <1>5, <2>2
<1> QED BY <1>1, <1>5, <1>6, <1>7

\* The first due date after a reference date does not move back as that moves on.
LEMMA DueLater ==
  ASSUME NEW d \in Starts, NEW c \in CommitmentOptions, NEW reference \in Nat,
         NEW k \in 1..LastCycle(d), NEW n \in 1..LastCycle(d),
         k > 1 => DueDates[d][k - 1] <= reference,
         DueDates[d][n] > reference + 1
  PROVE  DueDates[d][n] >= DueDates[d][k]
<1> DEFINE top == LastCycle(d)
           next == DueDates[d][k]
           later == DueDates[d][n]
           prior == DueDates[d][k - 1]
<1>1. top \in Nat /\ k \in 0..top /\ n \in 0..top /\ k - 1 \in 0..top
  BY CommitmentFits
<1>2. next \in Nat /\ later \in Nat /\ prior \in Nat
  BY <1>1, Drift
<1>3. /\ k < n => next < later
      /\ k = n => next = later
      /\ n < k - 1 => later < prior
      /\ n = k - 1 => later = prior
  BY <1>1, DatesGrow
<1>4. (k > 1 => prior <= reference) /\ later > reference + 1 /\ k \in 1..top /\ n \in 1..top
  OBVIOUS
<1> SUFFICES later >= next
  OBVIOUS
<1> HIDE DEF top, next, later, prior
<1>5. CASE k <= n
  BY <1>2, <1>3, <1>4, <1>5
<1>6. CASE n < k
  <2>1. k > 1 /\ (n < k - 1 \/ n = k - 1)
    BY <1>1, <1>4, <1>6
  <2> QED BY <1>2, <1>3, <1>4, <2>1
<1> QED BY <1>1, <1>4, <1>5, <1>6

-----------------------------------------------------------------------------
(* The subscription. *)

\* The invariant of the proofs: it is canceled between its activation and the end
\* of its commitment.
CanceledInCommitment ==
  /\ activatedAt \in Starts
  /\ commitmentMonths \in CommitmentOptions
  /\ canceledAt \in Nat
  /\ activatedAt <= canceledAt
  /\ canceledAt < addMonths(activatedAt, commitmentMonths)

LEMMA InitCanceled == Init => CanceledInCommitment
<1> SUFFICES ASSUME Init PROVE CanceledInCommitment
  OBVIOUS
<1>1. activatedAt \in Starts /\ commitmentMonths \in CommitmentOptions /\ canceledAt = activatedAt
  BY DEF Init
<1>2. activatedAt \in Nat
  BY <1>1, ActivationDay
<1>3. activatedAt < addMonths(activatedAt, commitmentMonths)
  BY <1>1, CommitmentEnds
<1> QED BY <1>1, <1>2, <1>3 DEF CanceledInCommitment

LEMMA NextCanceled ==
  CanceledInCommitment /\ [CancelNextDay]_vars => CanceledInCommitment'
<1> SUFFICES ASSUME CanceledInCommitment, [CancelNextDay]_vars PROVE CanceledInCommitment'
  OBVIOUS
<1>1. CASE CancelNextDay
  <2>1. /\ canceledAt' = canceledAt + 1 /\ activatedAt' = activatedAt
        /\ commitmentMonths' = commitmentMonths
        /\ canceledAt + 1 < addMonths(activatedAt, commitmentMonths)
    BY <1>1 DEF CancelNextDay, getSubscriptionExpiresAt
  <2>2. /\ activatedAt \in Nat /\ canceledAt \in Nat /\ activatedAt <= canceledAt
        /\ activatedAt \in Starts /\ commitmentMonths \in CommitmentOptions
    BY ActivationDay DEF CanceledInCommitment
  <2>3. canceledAt' \in Nat /\ activatedAt <= canceledAt'
    BY <2>1, <2>2
  <2>4. canceledAt' < addMonths(activatedAt, commitmentMonths)
    BY <2>1
  <2>5. canceledAt' < addMonths(activatedAt', commitmentMonths')
    BY <2>1, <2>4
  <2> QED BY <2>1, <2>2, <2>3, <2>5 DEF CanceledInCommitment
<1>2. CASE UNCHANGED vars
  <2>1. /\ activatedAt' = activatedAt /\ commitmentMonths' = commitmentMonths
        /\ canceledAt' = canceledAt
    BY <1>2 DEF vars
  <2>2. addMonths(activatedAt', commitmentMonths') = addMonths(activatedAt, commitmentMonths)
    BY <2>1
  <2> QED BY <2>1, <2>2 DEF CanceledInCommitment
<1> QED BY <1>1, <1>2

LEMMA AlwaysCanceled == Spec => []CanceledInCommitment
<1>1. Init => CanceledInCommitment
  BY InitCanceled
<1>2. CanceledInCommitment /\ [CancelNextDay]_vars => CanceledInCommitment'
  BY NextCanceled
<1> QED BY <1>1, <1>2, PTL DEF Spec

\* Repeated months drift by at most three days from the day of the activation, and
\* not at all when every month has that day (addMonths in the loop of
\* getNextSubscriptionBillingDate): on every calendar whose months have 28 to 31
\* days, whatever the plan's commitment.
THEOREM DriftStaysBounded == Spec => []DriftIsBounded
<1>1. CanceledInCommitment => DriftIsBounded
  <2> SUFFICES ASSUME CanceledInCommitment, NEW k \in 1..commitmentMonths
               PROVE  /\ DueDate[k] >= NominalDate(activatedAt, k)
                      /\ DueDate[k] <= NominalDate(activatedAt, k) + IF InEveryMonth THEN 0 ELSE 3
    BY DEF DriftIsBounded
  <2>1. activatedAt \in Starts /\ commitmentMonths \in CommitmentOptions
    BY DEF CanceledInCommitment
  <2>2. k \in 0..LastCycle(activatedAt)
    <3>1. /\ commitmentMonths \in Nat /\ LastCycle(activatedAt) \in Nat
          /\ commitmentMonths + 1 <= LastCycle(activatedAt)
      BY <2>1, CommitmentFits
    <3> QED BY <3>1
  <2> DEFINE due == DueDates[activatedAt][k]
             nominal == NominalDate(activatedAt, k)
  <2>3. /\ due \in Nat /\ nominal \in Nat /\ due >= nominal /\ due <= nominal + 3
        /\ DayOf(activatedAt) < 28 => due = nominal
    BY <2>1, <2>2, Drift
  <2>4. DueDate[k] = due
    BY DEF DueDate
  <2> SUFFICES due >= nominal /\ due <= nominal + IF InEveryMonth THEN 0 ELSE 3
    BY <2>4
  <2> HIDE DEF due, nominal
  <2>5. CASE InEveryMonth
    <3>1. due = nominal
      BY <2>3, <2>5 DEF InEveryMonth
    <3> QED BY <2>3, <2>5, <3>1
  <2>6. CASE ~InEveryMonth
    BY <2>3, <2>6
  <2> QED BY <2>5, <2>6
<1>2. Spec => []CanceledInCommitment
  BY AlwaysCanceled
<1> QED BY <1>1, <1>2, PTL

\* A subscription canceled during its commitment keeps its access to the end of
\* the cycle it was canceled in, or of the commitment, or was canceled in the
\* first three days of a cycle by its nominal date (getSubscriptionAccessEndsAt).
THEOREM CanceledCycleStaysServed == Spec => []CanceledCycleIsServed
<1>1. CanceledInCommitment => CanceledCycleIsServed
  <2> SUFFICES ASSUME CanceledInCommitment PROVE CanceledCycleIsServed
    OBVIOUS
  <2> DEFINE d == activatedAt
             c == commitmentMonths
             ref == canceledAt
             end == addMonths(d, c)
             k == CHOOSE i \in DOMAIN DueDates[d] \ {0} :
                    /\ DueDates[d][i] > ref
                    /\ i > 1 => DueDates[d][i - 1] <= ref
             n == CHOOSE i \in DOMAIN DueDates[d] \ {0} :
                    /\ NominalDate(d, i) > ref
                    /\ i > 1 => NominalDate(d, i - 1) <= ref
             next == DueDates[d][k]
             bound == NominalDate(d, n)
  <2>1. d \in Starts /\ c \in CommitmentOptions /\ ref \in Nat /\ ref < end
    BY DEF CanceledInCommitment
  <2>2. /\ k \in 1..LastCycle(d) /\ next > ref
    BY <2>1, CycleFound
  <2>3. /\ n \in 1..LastCycle(d) /\ (n > 1 => NominalDate(d, n - 1) <= ref)
    BY <2>1, NominalFound
  <2>4. /\ getSubscriptionAccessEndsAt = IF next <= end THEN next ELSE end
        /\ getSubscriptionExpiresAt = end /\ NominalEnd = bound
        /\ InEveryMonth <=> DayOf(d) < 28
    BY DEF getSubscriptionAccessEndsAt, getNextSubscriptionBillingDate, Cycles, DueDate,
           getSubscriptionExpiresAt, NominalEnd, InEveryMonth
  <2> HIDE DEF d, ref, k, n, c
  <2>5. next >= bound \/ (~(DayOf(d) < 28) /\ next - ref <= 3)
    BY <2>1, <2>2, <2>3, EndOfCycle
  <2> HIDE DEF next, bound, end
  <2>6. CASE next <= end
    <3>1. getSubscriptionAccessEndsAt = next
      BY <2>4, <2>6
    <3> QED BY <2>4, <2>5, <3>1 DEF CanceledCycleIsServed, ref
  <2>7. CASE ~(next <= end)
    BY <2>4, <2>7 DEF CanceledCycleIsServed
  <2> QED BY <2>6, <2>7
<1>2. Spec => []CanceledInCommitment
  BY AlwaysCanceled
<1> QED BY <1>1, <1>2, PTL

\* Who cancels later has access at least as long: the due date the code finds never
\* moves back as the day of the cancellation moves on.
THEOREM LaterCancellationsEndNoEarlier == Spec => LaterEndsNoEarlier
<1>1. ASSUME CanceledInCommitment, [CancelNextDay]_vars
      PROVE  [getSubscriptionAccessEndsAt' >= getSubscriptionAccessEndsAt]_vars
  <2> SUFFICES ASSUME CancelNextDay
               PROVE  getSubscriptionAccessEndsAt' >= getSubscriptionAccessEndsAt
    BY <1>1
  <2> DEFINE d == activatedAt
             c == commitmentMonths
             ref == canceledAt
             end == addMonths(d, c)
             k == CHOOSE i \in DOMAIN DueDates[d] \ {0} :
                    /\ DueDates[d][i] > ref
                    /\ i > 1 => DueDates[d][i - 1] <= ref
             n == CHOOSE i \in DOMAIN DueDates[d] \ {0} :
                    /\ DueDates[d][i] > ref + 1
                    /\ i > 1 => DueDates[d][i - 1] <= ref + 1
             next == DueDates[d][k]
             later == DueDates[d][n]
  <2>1. d \in Starts /\ c \in CommitmentOptions /\ ref \in Nat /\ ref < end
    BY <1>1 DEF CanceledInCommitment
  <2>2. /\ canceledAt' = ref + 1 /\ activatedAt' = d /\ commitmentMonths' = c
        /\ ref + 1 < end
    BY DEF CancelNextDay, getSubscriptionExpiresAt
  <2>3. k \in 1..LastCycle(d) /\ (k > 1 => DueDates[d][k - 1] <= ref)
    BY <2>1, CycleFound
  <2>4. n \in 1..LastCycle(d) /\ later > ref + 1
    <3>1. ref + 1 \in Nat
      BY <2>1
    <3> QED BY <2>1, <2>2, <3>1, CycleFound
  <2>5. getSubscriptionAccessEndsAt = IF next <= end THEN next ELSE end
    BY DEF getSubscriptionAccessEndsAt, getNextSubscriptionBillingDate, Cycles, DueDate,
           getSubscriptionExpiresAt
  <2>6. getSubscriptionAccessEndsAt' = IF later <= end THEN later ELSE end
    BY <2>2 DEF getSubscriptionAccessEndsAt, getNextSubscriptionBillingDate, Cycles, DueDate,
                getSubscriptionExpiresAt
  <2>7. end \in Nat
    BY <2>1, CommitmentEnds
  <2> HIDE DEF d, ref, k, n, c
  <2>8. next \in Nat /\ later \in Nat
    <3>1. k \in 0..LastCycle(d) /\ n \in 0..LastCycle(d)
      BY <2>1, <2>3, <2>4, CommitmentFits
    <3> QED BY <2>1, <3>1, Drift
  <2>9. later >= next
    BY <2>1, <2>3, <2>4, DueLater
  <2> HIDE DEF next, later, end
  <2> QED BY <2>5, <2>6, <2>7, <2>8, <2>9
<1>2. Spec => []CanceledInCommitment
  BY AlwaysCanceled
<1> QED BY <1>1, <1>2, PTL DEF Spec, LaterEndsNoEarlier
=============================================================================
