---------------------------- MODULE ExpiryProofs ----------------------------
(***************************************************************************)
(* The renewal window, for every renew_before_days, lifetime and set of    *)
(* delays shorter than half a day.                                         *)
(***************************************************************************)
EXTENDS Expiry, TLAPS

\* days_until_expiry rounds to the nearest day: it is at most n exactly when less
\* than n days and a half are left.
LEMMA Rounding ==
    ASSUME NEW secs \in Int, NEW n \in Nat
    PROVE  ExpiresWithinDays(secs, n) <=> secs < n * Day + HalfDay
<1>1. CASE secs >= 0
  <2>1. DaysUntilExpiry(secs) = (secs + 43200) \div 86400
    BY <1>1 DEF DaysUntilExpiry, Quotient, Day, HalfDay
  <2>2. (secs + 43200) \div 86400 <= n <=> secs + 43200 < (n + 1) * 86400
    BY <1>1
  <2> QED
    BY <2>1, <2>2 DEF ExpiresWithinDays, Day, HalfDay
<1>2. CASE secs < 0
  <2>1. DaysUntilExpiry(secs) = -((43200 - secs) \div 86400)
    BY <1>2 DEF DaysUntilExpiry, Quotient, Day, HalfDay
  <2>2. (43200 - secs) \div 86400 \in Nat
    BY <1>2
  <2>3. DaysUntilExpiry(secs) <= n
    BY <2>1, <2>2
  <2> QED
    BY <2>3, <1>2 DEF ExpiresWithinDays, Day, HalfDay
<1> QED
  BY <1>1, <1>2

\* The delays are natural numbers below half a day.
LEMMA DelayType == ASSUME NEW d \in Delays PROVE d \in Nat /\ d < HalfDay
BY ExpiryBounds

\* The state variables keep their types, and the schedule its promise.
LEMMA ScheduleInductive == Spec => [](TypeOK /\ Schedule)
<1>1. Init => TypeOK /\ Schedule
  <2> SUFFICES ASSUME Init PROVE TypeOK /\ Schedule
    OBVIOUS
  <2>1. TypeOK
    BY ExpiryBounds, LifetimeLong DEF Init, TypeOK
  <2>2. delay \in Nat /\ failed = 0 /\ left = Lifetime
    BY DelayType DEF Init
  <2>3. RenewBeforeDays - failed = RenewBeforeDays
    BY <2>2, ExpiryBounds
  <2> QED
    BY <2>1, <2>2, <2>3, LifetimeLong, ExpiryBounds DEF Schedule, Day, HalfDay
<1>2. TypeOK /\ Schedule /\ [Next]_vars => TypeOK' /\ Schedule'
  <2> SUFFICES ASSUME TypeOK, Schedule, [Next]_vars PROVE TypeOK' /\ Schedule'
    OBVIOUS
  <2>0. left \in Int /\ delay \in Nat /\ failed \in Nat /\ RenewBeforeDays \in Nat
    BY DelayType, ExpiryBounds DEF TypeOK
  <2>1. CASE NotDue
    <3>1. PICK d \in Delays :
            /\ ~ExpiresWithinDays(LeftAt(d), RenewBeforeDays)
            /\ left' = LeftAt(d)
            /\ delay' = d
      BY <2>1 DEF NotDue
    <3>2. d \in Nat /\ LeftAt(d) \in Int
      BY <2>0, DelayType DEF LeftAt, Day
    <3>3. left' >= RenewBeforeDays * Day + HalfDay
      BY <3>1, <3>2, <2>0, Rounding DEF Day, HalfDay
    <3>4. failed' = 0 /\ RenewBeforeDays - failed' = RenewBeforeDays
      BY <2>1, <2>0 DEF NotDue
    <3>5. TypeOK'
      BY <3>1, <3>2, <3>4, ExpiryBounds DEF TypeOK
    <3> QED
      BY <3>1, <3>2, <3>3, <3>4, <3>5, <2>0 DEF Schedule, Day, HalfDay
  <2>2. CASE Renew
    <3>1. left' = Lifetime /\ delay' \in Delays /\ failed' = 0
      BY <2>2 DEF Renew
    <3>2. delay' \in Nat /\ RenewBeforeDays - failed' = RenewBeforeDays
      BY <3>1, <2>0, DelayType
    <3>3. TypeOK'
      BY <3>1, LifetimeLong, ExpiryBounds DEF TypeOK
    <3>4. left' \in Int /\ left' >= RenewBeforeDays * Day + HalfDay
      BY <3>1, LifetimeLong
    <3>5. Schedule'
      BY <3>2, <3>4, <2>0 DEF Schedule, Day, HalfDay
    <3> QED
      BY <3>3, <3>5
  <2>3. CASE RenewFails
    <3>1. PICK d \in Delays : left' = LeftAt(d) /\ delay' = d
      BY <2>3 DEF RenewFails
    <3>2. d \in Nat /\ failed' = failed + 1 /\ failed < MaxFailures
      BY <2>3, DelayType DEF RenewFails
    <3>3. left' + delay' = left + delay - Day
      BY <3>1, <3>2, <2>0 DEF LeftAt, Day
    <3>4. (RenewBeforeDays - failed') * Day = (RenewBeforeDays - failed) * Day - Day
      BY <3>2, <2>0 DEF Day
    <3>5. TypeOK'
      BY <3>1, <3>2, <2>0, ExpiryBounds DEF TypeOK, LeftAt, Day
    <3> QED
      BY <3>3, <3>4, <3>5, <2>0 DEF Schedule, Day, HalfDay
  <2>4. CASE UNCHANGED vars
    BY <2>4 DEF vars, TypeOK, Schedule
  <2> QED
    BY <2>1, <2>2, <2>3, <2>4 DEF Next
<1> QED
  BY <1>1, <1>2, PTL DEF Spec

\* A late run is followed by a shorter interval: however many renewals have failed,
\* the time left plus the delay of the last run covers the days still to go.
THEOREM ScheduleKept == Spec => []Schedule
  BY ScheduleInductive, PTL

\* The renewal window opens exactly renew_before_days and a half before the
\* expiry, whatever the timer's delay (and so not in the whole of the day that follows
\* renew_before_days, as CHANGELOG.md:28 has it).
THEOREM WindowBoundary == Spec => []Boundary
<1>1. TypeOK => Boundary
  <2> SUFFICES ASSUME TypeOK, NEW d \in Delays
      PROVE  ExpiresWithinDays(LeftAt(d), RenewBeforeDays)
               <=> LeftAt(d) < RenewBeforeDays * Day + HalfDay
    BY DEF Boundary
  <2>1. LeftAt(d) \in Int
    BY DelayType DEF TypeOK, LeftAt, Day
  <2> QED
    BY <2>1, Rounding, ExpiryBounds
<1> QED
  BY <1>1, ScheduleInductive, PTL

\* A certificate outlives renew_before_days failed renewals in a row.
THEOREM OutlivesFailures == Spec => []StillValid
<1>1. TypeOK /\ Schedule => StillValid
  <2> SUFFICES ASSUME TypeOK, Schedule, failed <= RenewBeforeDays PROVE left > 0
    BY DEF StillValid
  <2>1. left \in Int /\ delay \in Nat /\ delay < HalfDay /\ failed \in Nat
    BY DelayType DEF TypeOK
  <2>2. RenewBeforeDays - failed \in Nat
    BY <2>1, ExpiryBounds
  <2>3. (RenewBeforeDays - failed) * Day >= 0
    BY <2>2 DEF Day
  <2> QED
    BY <2>1, <2>2, <2>3 DEF Schedule, Day, HalfDay
<1> QED
  BY <1>1, ScheduleInductive, PTL
=============================================================================
