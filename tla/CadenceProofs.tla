----------------------------- MODULE CadenceProofs -----------------------------
(***************************************************************************)
(* Proofs about the cron cadence (Cadence, CadenceMC). The key fact is a  *)
(* closed form of NextSecond: after second t the job runs at the first    *)
(* multiple of N after t in the same minute, or else at second 0 of the   *)
(* next minute. Type correctness follows for every interval; and when N   *)
(* divides 60, the run after a selected second t is t + N seconds later,  *)
(* which gives PeriodIsInterval.                                          *)
(***************************************************************************)
EXTENDS CadenceMC, TLAPS

(* The inductive invariant of PeriodIsInterval: after the first run the  *)
(* clock stands on a selected second.                                     *)
OnSelected == runs >= 1 => sec \in Seconds(n)

CInv == TypeOK /\ OnSelected /\ PeriodIsInterval

-----------------------------------------------------------------------------
(* Multiplying by a positive N preserves strict order, both ways. *)
LEMMA MulMono ==
    ASSUME NEW N \in Nat \ {0}, NEW a \in Nat, NEW b \in Nat, N * a < N * b
    PROVE  a < b
BY SMT

(* The first multiple of N after t, if it falls inside the minute; else   *)
(* second 60, that is second 0 of the next minute.                        *)
FirstAfter(N, t) ==
    IF N * (t \div N + 1) <= 59 THEN N * (t \div N + 1) ELSE 60

(* The cron library's next run after second t is FirstAfter(N, t): it is  *)
(* a selected second after t, and no earlier one is.                      *)
LEMMA NextSecondForm ==
    ASSUME NEW N \in Nat \ {0}, NEW t \in 0..59
    PROVE  /\ NextSecond(N, t) = FirstAfter(N, t) % 60
           /\ FirstAfter(N, t) \in t + 1 .. 60
           /\ FirstAfter(N, t) % 60 \in Seconds(N)
<1> DEFINE later == {u \in t + 1 .. t + 60 : u % 60 \in Seconds(N)}
           m == t \div N
           k == N * (m + 1)
           w == FirstAfter(N, t)
<1>1. m \in Nat /\ N * m <= t /\ t < k
  BY SMT
<1>2. k % N = 0
  BY SMT
<1>3. w \in t + 1 .. 60
  BY <1>1 DEF FirstAfter
<1>4. w \in later
  <2>1. CASE k <= 59
    <3>1. w = k /\ k % 60 = k
      BY <1>1, <2>1 DEF FirstAfter
    <3>2. QED
      BY <1>2, <1>3, <3>1 DEF Seconds
  <2>2. CASE ~(k <= 59)
    <3>1. w = 60
      BY <2>2 DEF FirstAfter
    <3>2. QED
      BY <3>1 DEF Seconds
  <2>3. QED
    BY <2>1, <2>2
<1>5. ASSUME NEW v \in later PROVE w <= v
  <2>1. SUFFICES ASSUME v < w PROVE FALSE
    BY <1>3
  <2>2. v \in t + 1 .. 59 /\ v < k
    BY <1>1, <1>3, <2>1 DEF FirstAfter
  <2>3. v % N = 0
    BY <2>2 DEF Seconds
  <2>4. v = N * (v \div N) /\ v \div N \in Nat
    BY <2>3
  <2>5. N * m < N * (v \div N) /\ N * (v \div N) < N * (m + 1)
    BY <1>1, <2>2, <2>4
  <2>6. m < v \div N /\ v \div N < m + 1
    BY <1>1, <2>4, <2>5, MulMono
  <2>7. QED
    BY <1>1, <2>4, <2>6
<1>6. NextSecond(N, t) = w % 60
  <2>1. \E u \in later : \A v \in later : u <= v
    BY <1>4, <1>5
  <2>2. ASSUME NEW u \in later, \A v \in later : u <= v PROVE u = w
    BY <1>4, <1>5, <2>2
  <2>3. QED
    BY <2>1, <2>2 DEF NextSecond
<1>7. QED
  BY <1>3, <1>4, <1>6

(* The job runs at a selected second of the minute, 1 to 60 seconds after *)
(* the current one, whatever the interval.                                *)
LEMMA RunType ==
    ASSUME NEW N \in Nat \ {0}, NEW t \in 0..59
    PROVE  /\ NextSecond(N, t) \in Seconds(N)
           /\ NextSecond(N, t) \in 0..59
           /\ Gap(N, t) \in 1..60
<1>1. /\ NextSecond(N, t) = FirstAfter(N, t) % 60
      /\ FirstAfter(N, t) \in t + 1 .. 60
      /\ FirstAfter(N, t) % 60 \in Seconds(N)
  BY NextSecondForm
<1>2. NextSecond(N, t) \in 0..59
  BY <1>1 DEF Seconds
<1>3. Gap(N, t) \in 1..60
  BY <1>1 DEF Gap
<1>4. QED
  BY <1>1, <1>2, <1>3

(* When N divides 60, the run after a selected second t comes exactly N   *)
(* seconds later: the multiples of N tile the minute.                     *)
LEMMA DivisorGap ==
    ASSUME NEW N \in Nat \ {0}, 60 % N = 0, NEW t \in Seconds(N)
    PROVE  Gap(N, t) = N
<1> DEFINE m == t \div N
           d == 60 \div N
<1>1. t \in 0..59 /\ t % N = 0
  BY DEF Seconds
<1>2. m \in Nat /\ d \in Nat /\ t = N * m /\ 60 = N * d
  BY <1>1
<1>3. m < d
  BY <1>1, <1>2, MulMono
<1>4. t + N <= 60
  <2>1. m + 1 <= d
    BY <1>2, <1>3
  <2>2. N * (m + 1) <= N * d
    BY <1>2, <2>1
  <2>3. QED
    BY <1>2, <2>2
<1>5. FirstAfter(N, t) = IF t + N <= 59 THEN t + N ELSE 60
  BY <1>2 DEF FirstAfter
<1>6. NextSecond(N, t) = FirstAfter(N, t) % 60
  BY <1>1, NextSecondForm
<1>7. QED
  BY <1>1, <1>4, <1>5, <1>6 DEF Gap

(* Whatever N, the run after second t comes at most N seconds later: the *)
(* first multiple of N after t is at most t + N, and the wrap to second 0 *)
(* of the next minute only comes earlier than it.                         *)
LEMMA GapBound ==
    ASSUME NEW N \in Nat \ {0}, NEW t \in 0..59
    PROVE  Gap(N, t) <= N
<1> DEFINE k == N * (t \div N + 1)
<1>1. k <= t + N
  BY SMT
<1>2. FirstAfter(N, t) <= t + N
  BY <1>1 DEF FirstAfter
<1>3. /\ NextSecond(N, t) = FirstAfter(N, t) % 60
      /\ FirstAfter(N, t) \in t + 1 .. 60
  BY NextSecondForm
<1>4. Gap(N, t) = FirstAfter(N, t) - t
  BY <1>3 DEF Gap
<1>5. QED
  BY <1>2, <1>3, <1>4

-----------------------------------------------------------------------------
(* The scheduler's clock stays a second of the minute, the runs recorded  *)
(* and the measured gap stay in range: NextSecond and Gap of the line-136 *)
(* job are well defined for every positive --redis-interval.              *)
THEOREM CadenceTypeCorrect == Spec => []TypeOK
<1>1. Init => TypeOK
  BY CadenceAssumption DEF Init, TypeOK
<1>2. TypeOK /\ [Next]_vars => TypeOK'
  <2> SUFFICES ASSUME TypeOK, [Next]_vars PROVE TypeOK'
    OBVIOUS
  <2>1. n \in Nat \ {0} /\ sec \in 0..59
    BY CadenceAssumption DEF TypeOK
  <2>2. CASE Run
    BY <2>1, <2>2, RunType DEF Run, TypeOK
  <2>3. CASE UNCHANGED vars
    BY <2>3 DEF vars, TypeOK
  <2>4. QED
    BY <2>2, <2>3 DEF Next
<1>3. QED
  BY <1>1, <1>2, PTL DEF Spec

(* PeriodIsInterval for every interval that divides 60: from the second   *)
(* run of the line-136 job on, every gap between two runs is exactly      *)
(* --redis-interval seconds. The cadence_irregular run shows an interval  *)
(* that does not divide 60 breaks it.                                     *)
THEOREM DivisorPeriod ==
    ASSUME \A N \in Intervals : 60 % N = 0
    PROVE  Spec => []PeriodIsInterval
<1>1. Init => CInv
  BY CadenceAssumption DEF Init, CInv, TypeOK, OnSelected, PeriodIsInterval
<1>2. CInv /\ [Next]_vars => CInv'
  <2> SUFFICES ASSUME CInv, [Next]_vars PROVE CInv'
    OBVIOUS
  <2>1. n \in Nat \ {0} /\ 60 % n = 0 /\ sec \in 0..59 /\ runs \in 0..2
    BY CadenceAssumption DEF CInv, TypeOK
  <2>2. CASE Run
    <3>1. TypeOK'
      BY <2>1, <2>2, RunType DEF Run, CInv, TypeOK
    <3>2. OnSelected'
      BY <2>1, <2>2, RunType DEF Run, OnSelected
    <3>3. runs' = 2 => runs >= 1
      BY <2>1, <2>2 DEF Run
    <3>4. runs >= 1 => gap' = n
      BY <2>1, <2>2, DivisorGap DEF Run, CInv, OnSelected
    <3>5. PeriodIsInterval'
      BY <2>2, <3>3, <3>4 DEF Run, PeriodIsInterval
    <3>6. QED
      BY <3>1, <3>2, <3>5 DEF CInv
  <2>3. CASE UNCHANGED vars
    BY <2>3 DEF vars, CInv, TypeOK, OnSelected, PeriodIsInterval
  <2>4. QED
    BY <2>2, <2>3 DEF Next
<1>3. CInv => PeriodIsInterval
  BY DEF CInv
<1>4. QED
  BY <1>1, <1>2, <1>3, PTL DEF Spec

(* PollsWithinInterval for every set of intervals: no gap between two     *)
(* runs of the line-136 job, the first one from Cron.Start included, is   *)
(* longer than --redis-interval, whether or not N divides 60.             *)
THEOREM PollsEveryInterval == Spec => []PollsWithinInterval
<1> DEFINE PInv == TypeOK /\ PollsWithinInterval
<1>1. Init => PInv
  BY CadenceAssumption DEF Init, TypeOK, PollsWithinInterval
<1>2. PInv /\ [Next]_vars => PInv'
  <2> SUFFICES ASSUME PInv, [Next]_vars PROVE PInv'
    OBVIOUS
  <2>1. n \in Nat \ {0} /\ sec \in 0..59
    BY CadenceAssumption DEF TypeOK
  <2>2. CASE Run
    <3>1. TypeOK'
      BY <2>1, <2>2, RunType DEF Run, TypeOK
    <3>2. PollsWithinInterval'
      BY <2>1, <2>2, GapBound DEF Run, PollsWithinInterval
    <3>3. QED
      BY <3>1, <3>2
  <2>3. CASE UNCHANGED vars
    BY <2>3 DEF vars, TypeOK, PollsWithinInterval
  <2>4. QED
    BY <2>2, <2>3 DEF Next
<1>3. QED
  BY <1>1, <1>2, PTL DEF Spec
================================================================================
