--------------------------- MODULE FetchSchedule ---------------------------
(***************************************************************************)
(* When one of cloudServer's ten fft threads records the radio stream.     *)
(* Before every recording the thread reads the clock, moves the second     *)
(* (and perhaps the minute, but never the hour) to its next slot, sleeps   *)
(* until then, records for RecordTime seconds and publishes the image      *)
(* under the time of the slot.  Thread i has the slots 2i, 20+2i and 40+2i *)
(* of every minute.                                                        *)
(*                                                                         *)
(* Times are seconds of local time; the recording's files are left out.    *)
(***************************************************************************)
EXTENDS Integers

CONSTANTS
  RecordTime, \* curl's --speed-time (11)
  MaxBusy,    \* a thread is back at the clock after this many seconds
  MayFail,    \* may a recording be given up, or curl be killed?
  Start,      \* when the thread is started ...
  Horizon     \* ... and how far its clock is followed

Minute == 60
Hour   == 60 * Minute

ASSUME ScheduleAssumption ==
  /\ RecordTime \in Nat
  /\ MaxBusy \in Nat
  /\ MayFail \in BOOLEAN
  /\ Start \in Nat /\ Start >= Hour
  /\ Horizon \in Nat

Threads == 0 .. 9
Never   == -1

VARIABLES
  i,        \* the thread's index
  clock,    \* the system clock
  now,      \* the time the thread last read from it
  schedule, \* the slot it computed from that
  begun,    \* when it last started to record
  label,    \* the time announced with its last image
  pc

vars == <<i, clock, now, schedule, begun, label, pc>>

TypeOK ==
  /\ i \in Threads
  /\ clock \in Nat /\ now \in Nat /\ schedule \in Nat /\ begun \in Nat
  /\ label \in {t \in Nat : t % 20 = 2*i} \cup {Never}  \* one of its slots
  /\ pc \in {"plan", "sleep", "record", "ended"}

Init ==
  /\ i \in Threads
  /\ clock = Start
  /\ now = Start /\ schedule = Start /\ begun = Start
  /\ label = Never
  /\ pc = "plan"

-----------------------------------------------------------------------------
\* Slipped form: the minute is not advanced.
SameMinute(t) == t - (t % Minute)

\* tm_min = (tm_min + 1) % 60: from minute 59 to minute 0 of the same hour.
NextMinute(t) ==
  LET next == t - (t % Minute) + Minute
  IN  IF next % Hour = 0 THEN next - Hour ELSE next

\* Slipped form: quarters of a minute instead of thirds.
ThirdSlotLate(minute, k) == minute + 45 + 2*k

ThirdSlot(minute, k) == minute + 40 + 2*k

\* Slipped form: forgets that the second slots begin at 20.
PassedTooSoon(s, k) == s > 2*k

\* Has thread k's second slot gone by at second s?
Passed(s, k) == s > 20 + 2*k

\* The slot thread k waits for when the clock says t.
Slot(t, k) ==
  LET s      == t % Minute
      minute == t - s
  IN  CASE s >= 50                         -> NextMinute(t) + 2*k
        [] s \in 30 .. 49                  -> ThirdSlot(minute, k)
        [] s < 10                          -> minute + 2*k
        [] s \in 10 .. 29 /\ Passed(s, k)  -> ThirdSlot(minute, k)
        [] s \in 10 .. 29 /\ ~Passed(s, k) -> minute + 20 + 2*k

Plan ==
  /\ pc = "plan"
  /\ now' = clock
  /\ schedule' = Slot(clock, i)
  /\ pc' = "sleep"
  /\ UNCHANGED <<i, clock, begun, label>>

\* sleep_until returns, at once when the slot has passed; then fork.
Record ==
  /\ pc = "sleep" /\ clock >= schedule
  /\ begun' = clock
  /\ pc' = "record"
  /\ UNCHANGED <<i, clock, now, schedule, label>>

\* fork returns -1: the thread leaves its loop.
ForkFails ==
  /\ MayFail
  /\ pc = "sleep" /\ clock >= schedule
  /\ pc' = "ended"
  /\ UNCHANGED <<i, clock, now, schedule, begun, label>>

\* curl stops after RecordTime, or a signal stops it; the image is announced.
Publish ==
  /\ pc = "record"
  /\ clock >= begun + RecordTime \/ MayFail
  /\ label' = schedule
  /\ pc' = "plan"
  /\ UNCHANGED <<i, clock, now, schedule, begun>>

\* Every `continue' of the loop: no image this time.
GiveUp ==
  /\ MayFail
  /\ pc = "record"
  /\ pc' = "plan"
  /\ UNCHANGED <<i, clock, now, schedule, begun, label>>

\* Time passes while the thread sleeps, records or has ended.
Tick ==
  /\ clock < Horizon
  /\ \/ pc = "sleep" /\ clock < schedule
     \/ pc = "record" /\ clock < begun + MaxBusy
     \/ pc = "ended"
  /\ clock' = clock + 1
  /\ UNCHANGED <<i, now, schedule, begun, label, pc>>

Next == Plan \/ Record \/ ForkFails \/ Publish \/ GiveUp \/ Tick

Spec == Init /\ [][Next]_vars

-----------------------------------------------------------------------------
\* The slot computed at time t may lie in the minute after it.
HourGoesOn(t) == t % Hour < Hour - 10

(***************************************************************************)
(* A recording begins less than ten seconds after its slot, or at it: the  *)
(* time shown with an image is that of its first sound (lines 162-181).    *)
(* In the last ten seconds of an hour, whose slots are in the next one but *)
(* are computed in the same, the thread does not wait at all: it records   *)
(* at once, and announces the time of its slot less one hour.              *)
(***************************************************************************)
LabelIsClose ==
  pc = "record" =>
    IF HourGoesOn(now) THEN begun \in schedule .. schedule + 9
                       ELSE schedule + Hour - begun \in 2*i + 1 .. 2*i + 10

(***************************************************************************)
(* The times announced by one thread never go back, although recordings    *)
(* are given up, cut short and repeated, except at the end of an hour.     *)
(***************************************************************************)
LabelsNeverGoBack == [][HourGoesOn(now) => label' >= label]_label

(***************************************************************************)
(* A thread that is back at the clock no later than RecordTime after its   *)
(* slot misses none: the time it announces next is twenty seconds later,   *)
(* for all three kinds of slot and across minutes (lines 162-180).         *)
(***************************************************************************)
EverySlot ==
  [][label # Never /\ HourGoesOn(now) /\ now <= label + RecordTime
       => label' = label + 20]_label
=============================================================================
