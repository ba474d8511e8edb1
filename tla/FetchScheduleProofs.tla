------------------------ MODULE FetchScheduleProofs ------------------------
(***************************************************************************)
(* Theorems about FetchSchedule: the times an fft thread announces.        *)
(***************************************************************************)
EXTENDS FetchSchedule, TLAPS

(***************************************************************************)
(* What the computation of lines 162-177 returns: one of the thread's own  *)
(* slots and, unless it falls into the next hour, one that went by less    *)
(* than ten seconds ago or is still to come.  In the last ten seconds of   *)
(* an hour it is the next slot, put back by an hour.                       *)
(***************************************************************************)
LEMMA SlotFacts ==
  ASSUME NEW t \in Nat, t >= Hour, NEW k \in Threads
  PROVE  /\ Slot(t, k) \in Nat
         /\ Slot(t, k) % 20 = 2*k
         /\ HourGoesOn(t) => Slot(t, k) >= t - 9
         /\ ~HourGoesOn(t) => Slot(t, k) + Hour - t \in 2*k + 1 .. 2*k + 10
<1> DEFINE s == t % 60
           m == t - (t % 60)
           n == NextMinute(t)
<1>1. s \in 0 .. 59 /\ m \in Nat /\ m % 20 = 0
  BY SMT
<1>2. n \in Nat /\ n % 20 = 0
  <2>1. CASE (m + 60) % 3600 = 0
    <3>1. n = m + 60 - 3600
      BY <2>1 DEF NextMinute, Minute, Hour
    <3> QED BY <3>1, <1>1, SMT DEF Hour, Minute
  <2>2. CASE (m + 60) % 3600 # 0
    <3>1. n = m + 60
      BY <2>2 DEF NextMinute, Minute, Hour
    <3> QED BY <3>1, <1>1, SMT
  <2> QED BY <2>1, <2>2
<1>3. ASSUME HourGoesOn(t), s >= 50
      PROVE  n = m + 60
  <2>1. t % 3600 < 3590
    BY <1>3 DEF HourGoesOn, Hour, Minute
  <2>2. (m + 60) % 3600 # 0
    BY <2>1, <1>3, <1>1, SMT
  <2> QED BY <2>2 DEF NextMinute, Minute, Hour
<1>e. ASSUME ~HourGoesOn(t)
      PROVE  s >= 50 /\ n + 3600 - t \in 1 .. 10
  <2>1. t % 3600 >= 3590
    BY <1>e, SMT DEF HourGoesOn, Hour, Minute
  <2>2. s >= 50 /\ (m + 60) % 3600 = 0 /\ m + 60 - t \in 1 .. 10
    BY <2>1, <1>1, SMT
  <2>3. n = m + 60 - 3600
    BY <2>2 DEF NextMinute, Minute, Hour
  <2> HIDE DEF n
  <2> QED BY <2>2, <2>3, <1>1, SMT
<1>f. ~(s >= 50) => HourGoesOn(t)
  BY <1>e
<1>4. CASE s >= 50
  <2>1. Slot(t, k) = n + 2*k
    BY <1>1, <1>4 DEF Slot, Minute
  <2>2. HourGoesOn(t) => Slot(t, k) >= t - 9
    <3> HIDE DEF n
    <3> QED BY <2>1, <1>1, <1>2, <1>3, <1>4, SMT DEF Threads
  <2>3. ~HourGoesOn(t) => Slot(t, k) + Hour - t \in 2*k + 1 .. 2*k + 10
    <3> HIDE DEF n
    <3> QED BY <2>1, <1>e, <1>2, SMT DEF Threads, Hour, Minute
  <2> HIDE DEF n
  <2> QED BY <2>1, <2>2, <2>3, <1>2, SMT DEF Threads
<1>5. CASE s \in 30 .. 49
  <2>1. ~(s >= 50) /\ ~(s < 10) /\ s \notin 10 .. 29
    BY <1>1, <1>5
  <2>2. Slot(t, k) = ThirdSlot(m, k)
    BY <2>1, <1>5 DEF Slot, Minute
  <2>3. Slot(t, k) = m + 40 + 2*k
    BY <2>2 DEF ThirdSlot
  <2> QED BY <1>f, <2>3, <1>1, <1>5, SMT DEF Threads
<1>6. CASE s < 10
  <2>1. Slot(t, k) = m + 2*k
    <3>1. ~(s >= 50) /\ s \notin 10 .. 29 /\ s \notin 30 .. 49
      BY <1>1, <1>6
    <3> QED BY <3>1, <1>6 DEF Slot, Minute
  <2> QED BY <1>f, <2>1, <1>1, <1>6, SMT DEF Threads
<1>7. CASE s \in 10 .. 29 /\ Passed(s, k)
  <2>1. Slot(t, k) = m + 40 + 2*k
    BY <1>1, <1>7, SMT DEF Slot, Minute, ThirdSlot, Passed, Threads
  <2> QED BY <1>f, <2>1, <1>1, <1>7, SMT DEF Threads
<1>8. CASE s \in 10 .. 29 /\ ~Passed(s, k)
  <2>1. Slot(t, k) = m + 20 + 2*k
    BY <1>1, <1>8 DEF Slot, Minute
  <2> QED BY <1>f, <2>1, <1>1, <1>8, SMT DEF Threads, Passed
<1> QED BY <1>1, <1>4, <1>5, <1>6, <1>7, <1>8

-----------------------------------------------------------------------------
(* What is true of the thread between two readings of the clock. *)

Planned ==
  pc \in {"sleep", "record"} => schedule = Slot(now, i) /\ now \in Hour .. clock

Punctual ==
  /\ clock >= Start
  /\ pc = "sleep" => clock = now \/ clock <= schedule
  /\ pc = "record" => /\ begun \in schedule .. clock /\ begun >= now
                      /\ begun = now \/ begun <= schedule

Announced ==
  label # Never =>
    /\ label <= clock
    /\ pc \in {"sleep", "record"} => label <= now
    /\ pc \in {"sleep", "record"} /\ HourGoesOn(now) => label <= schedule

Inv == TypeOK /\ Planned /\ Punctual /\ Announced

LEMMA InvInit == Init => Inv
  BY ScheduleAssumption, SMT
  DEF Init, Inv, TypeOK, Planned, Punctual, Announced, Threads, Never

\* The new slot is not before the last one announced: both are slots of the
\* same thread, and the new one is less than twenty seconds before the clock.
LEMMA PlanKeepsInv == Inv /\ Plan => Inv'
<1> SUFFICES ASSUME Inv, Plan
             PROVE  Inv'
  OBVIOUS
<1> USE DEF Inv, TypeOK, Plan
<1>1. clock \in Nat /\ clock >= Hour
  BY ScheduleAssumption, SMT DEF Punctual, Hour, Minute
<1>2. /\ schedule' \in Nat
      /\ schedule' % 20 = 2*i
      /\ HourGoesOn(clock) => schedule' >= clock - 9
  BY <1>1, SlotFacts
<1>3. TypeOK'
  BY <1>2
<1>4. Planned'
  BY <1>1, SMT DEF Planned, Hour, Minute
<1>5. Punctual'
  BY SMT DEF Punctual
<1>6. ASSUME label # Never, HourGoesOn(clock)
      PROVE  label <= schedule'
  <2>1. label \in Nat /\ label % 20 = 2*i /\ label <= clock
    BY <1>6 DEF Announced
  <2>2. schedule' >= label - 9
    BY <1>2, <1>6, <2>1, <1>1, SMT
  <2> HIDE DEF Plan
  <2> QED BY <1>2, <2>1, <2>2, SMT
<1>7. Announced'
  <2>1. now' = clock /\ label' = label /\ clock' = clock
    OBVIOUS
  <2>2. HourGoesOn(now)' <=> HourGoesOn(clock)
    BY <2>1 DEF HourGoesOn
  <2>3. label # Never => label <= clock
    BY DEF Announced
  <2> QED BY <2>1, <2>2, <2>3, <1>6 DEF Announced
<1> QED BY <1>3, <1>4, <1>5, <1>7

LEMMA InvNext == Inv /\ [Next]_vars => Inv'
<1> SUFFICES ASSUME Inv, [Next]_vars
             PROVE  Inv'
  OBVIOUS
<1> USE DEF Inv, TypeOK, Planned, Punctual, Announced
<1>1. CASE Plan
  BY <1>1, PlanKeepsInv
<1>2. CASE Record
  BY <1>2, SMT DEF Record
<1>3. CASE ForkFails
  BY <1>3, SMT DEF ForkFails
<1>4. CASE Publish
  <2>1. schedule % 20 = 2*i
    BY <1>4, SlotFacts, SMT DEF Publish, Hour, Minute
  <2> QED BY <1>4, <2>1, SMT DEF Publish, Never
<1>5. CASE GiveUp
  BY <1>5, SMT DEF GiveUp
<1>6. CASE Tick
  <2>1. /\ clock' = clock + 1
        /\ <<i, now, schedule, begun, label, pc>>' = <<i, now, schedule, begun, label, pc>>
        /\ pc = "sleep" => clock < schedule
    BY <1>6 DEF Tick
  <2>2. TypeOK' /\ Planned'
    BY <2>1, SMT
  <2>3. Punctual'
    BY <2>1, ScheduleAssumption, SMT
  <2>4. Announced'
    BY <2>1, SMT DEF Never, HourGoesOn
  <2> QED BY <2>2, <2>3, <2>4
<1>7. CASE UNCHANGED vars
  BY <1>7 DEF vars, HourGoesOn
<1> QED BY <1>1, <1>2, <1>3, <1>4, <1>5, <1>6, <1>7 DEF Next

LEMMA Invariance == Spec => []Inv
  BY InvInit, InvNext, PTL DEF Spec

-----------------------------------------------------------------------------
(***************************************************************************)
(* The thread only ever announces times that are slots of its own, so that *)
(* no two threads announce the same time.                                  *)
(***************************************************************************)
THEOREM TypeCorrect == Spec => []TypeOK
  BY Invariance, PTL DEF Inv

(***************************************************************************)
(* Outside the last ten seconds of an hour no recording begins ten seconds *)
(* or more after the time it is announced with, nor before it; those begun *)
(* within them are announced with the time of the slot an hour early.      *)
(***************************************************************************)
THEOREM LabelsAreClose == Spec => []LabelIsClose
<1>1. Inv => LabelIsClose
  <2> SUFFICES ASSUME Inv, pc = "record"
               PROVE  LabelIsClose
    BY DEF LabelIsClose
  <2>1. /\ HourGoesOn(now) => schedule >= now - 9
        /\ ~HourGoesOn(now) => schedule + Hour - now \in 2*i + 1 .. 2*i + 10
    BY SlotFacts, SMT DEF Inv, TypeOK, Planned, Hour, Minute
  <2>2. CASE HourGoesOn(now)
    BY <2>1, <2>2, SMT DEF Inv, TypeOK, Punctual, LabelIsClose
  <2>3. CASE ~HourGoesOn(now)
    <3>1. begun = now
      BY <2>1, <2>3, SMT DEF Inv, TypeOK, Punctual, Hour, Minute, Threads
    <3> QED BY <2>1, <2>3, <3>1 DEF LabelIsClose
  <2> QED BY <2>2, <2>3
<1> QED BY <1>1, Invariance, PTL

(***************************************************************************)
(* Whatever fails and however long it takes: the times a thread announces  *)
(* never go back, except across the end of an hour.                        *)
(***************************************************************************)
THEOREM LabelsAdvance == Spec => LabelsNeverGoBack
<1>1. Inv /\ [Next]_vars => [HourGoesOn(now) => label' >= label]_label
  <2> SUFFICES ASSUME Inv, [Next]_vars, label' # label, HourGoesOn(now)
               PROVE  label' >= label
    OBVIOUS
  <2>1. Publish
    BY DEF Next, vars, Plan, Record, ForkFails, Publish, GiveUp, Tick
  <2>2. CASE label = Never
    BY <2>1, <2>2, SMT DEF Publish, Inv, TypeOK, Never
  <2>3. CASE label # Never
    BY <2>1, <2>3 DEF Publish, Inv, Announced
  <2> QED BY <2>2, <2>3
<1> QED BY <1>1, Invariance, PTL DEF Spec, LabelsNeverGoBack

(***************************************************************************)
(* Up to eleven seconds after its slot a thread finds the same slot again, *)
(* or the next one, twenty seconds later.                                  *)
(***************************************************************************)
LEMMA NextSlot ==
  ASSUME NEW t \in Nat, NEW k \in Threads, HourGoesOn(t),
         NEW last \in Nat, last % 20 = 2*k, t \in last .. last + 11
  PROVE  Slot(t, k) \in {last, last + 20}
<1> DEFINE s == t % 60
           m == t - (t % 60)
<1>1. s \in 0 .. 59 /\ m \in Nat /\ m % 20 = 0 /\ t = m + s
  BY SMT
<1>2. PICK q \in Int : last = m + 20*q + 2*k
  <2>1. last - 2*k - m = 20 * ((last - 2*k - m) \div 20)
    BY <1>1, SMT DEF Threads
  <2>2. (last - 2*k - m) \div 20 \in Int
    BY <1>1, SMT DEF Threads
  <2> HIDE DEF m
  <2> QED BY <2>1, <2>2, <1>1, SMT DEF Threads
<1>3. m + s >= last /\ m + s <= last + 11
  BY <1>1
<1>4. CASE s >= 50
  <2>1. NextMinute(t) = m + 60
    <3>1. t % 3600 < 3590
      BY DEF HourGoesOn, Hour, Minute
    <3>2. (m + 60) % 3600 # 0
      BY <3>1, <1>4, <1>1, SMT
    <3> QED BY <3>2 DEF NextMinute, Minute, Hour
  <2>2. Slot(t, k) = m + 60 + 2*k
    <3>1. ~(s < 10) /\ s \notin 10 .. 29 /\ s \notin 30 .. 49
      BY <1>1, <1>4
    <3>2. Slot(t, k) = NextMinute(t) + 2*k
      BY <3>1, <1>4 DEF Slot, Minute
    <3> QED BY <3>2, <2>1
  <2> HIDE DEF m, s
  <2>3. q = 2 \/ q = 3
    BY <1>1, <1>2, <1>3, <1>4, SMT DEF Threads
  <2> QED BY <2>2, <2>3, <1>2, <1>1, SMT DEF Threads
<1>5. CASE s \in 30 .. 49
  <2>1. Slot(t, k) = ThirdSlot(m, k)
    <3>1. ~(s >= 50) /\ ~(s < 10) /\ s \notin 10 .. 29
      BY <1>1, <1>5
    <3> QED BY <3>1, <1>5 DEF Slot, Minute
  <2>2. Slot(t, k) = m + 40 + 2*k
    BY <2>1 DEF ThirdSlot
  <2> HIDE DEF m, s
  <2>3. q = 1 \/ q = 2
    BY <1>1, <1>2, <1>3, <1>5, SMT DEF Threads
  <2> QED BY <2>2, <2>3, <1>2, <1>1, SMT DEF Threads
<1>6. CASE s < 10
  <2>1. Slot(t, k) = m + 2*k
    <3>1. ~(s >= 50) /\ s \notin 10 .. 29 /\ s \notin 30 .. 49
      BY <1>1, <1>6
    <3> QED BY <3>1, <1>6 DEF Slot, Minute
  <2> HIDE DEF m, s
  <2>2. q = 0 \/ q = -1
    BY <1>1, <1>2, <1>3, <1>6, SMT DEF Threads
  <2> QED BY <2>1, <2>2, <1>2, <1>1, SMT DEF Threads
<1>7. CASE s \in 10 .. 29 /\ Passed(s, k)
  <2>1. Slot(t, k) = m + 40 + 2*k
    BY <1>1, <1>7, SMT DEF Slot, Minute, ThirdSlot, Passed, Threads
  <2>2. s > 20 + 2*k
    BY <1>7 DEF Passed
  <2> HIDE DEF m, s
  <2>3. q = 1
    BY <1>1, <1>2, <1>3, <1>7, <2>2, SMT DEF Threads
  <2> QED BY <2>1, <2>3, <1>2, <1>1, SMT DEF Threads
<1>8. CASE s \in 10 .. 29 /\ ~Passed(s, k)
  <2>1. Slot(t, k) = m + 20 + 2*k
    BY <1>1, <1>8 DEF Slot, Minute
  <2>2. s <= 20 + 2*k
    BY <1>1, <1>8, SMT DEF Passed, Threads
  <2> HIDE DEF m, s
  <2>3. q = 0 \/ q = 1
    BY <1>1, <1>2, <1>3, <1>8, <2>2, SMT DEF Threads
  <2> QED BY <2>1, <2>3, <1>2, <1>1, SMT DEF Threads
<1> QED BY <1>1, <1>4, <1>5, <1>6, <1>7, <1>8

(***************************************************************************)
(* A thread that is back at the clock at most eleven seconds after its     *)
(* slot, curl's time, announces the slot twenty seconds later next.        *)
(***************************************************************************)
THEOREM NoSlotIsMissed ==
  ASSUME RecordTime <= 11
  PROVE  Spec => EverySlot
<1>1. Inv /\ [Next]_vars
        => [label # Never /\ HourGoesOn(now) /\ now <= label + RecordTime
              => label' = label + 20]_label
  <2> SUFFICES ASSUME Inv, [Next]_vars, label' # label, label # Never,
                      HourGoesOn(now), now <= label + RecordTime
               PROVE  label' = label + 20
    OBVIOUS
  <2>1. Publish
    BY DEF Next, vars, Plan, Record, ForkFails, Publish, GiveUp, Tick
  <2>2. label' = Slot(now, i)
    BY <2>1 DEF Publish, Inv, Planned
  <2>3. label \in Nat /\ label % 20 = 2*i /\ i \in Threads /\ now \in Nat
    BY DEF Inv, TypeOK
  <2>4. now \in label .. label + 11
    BY <2>1, <2>3, ScheduleAssumption DEF Publish, Inv, Announced
  <2> QED BY <2>2, <2>3, <2>4, NextSlot
<1> QED BY <1>1, Invariance, PTL DEF Spec, EverySlot
=============================================================================
