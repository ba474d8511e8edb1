---------------------------- MODULE HackRFBuffer ----------------------------
(***************************************************************************)
(* HackRFStreamer: libhackrf's thread appends every USB transfer to        *)
(* thread_buffer (myCallback), the main loop takes fixed-size blocks from  *)
(* its front (receiveSamples).  Both hold buffer_mutex while they touch    *)
(* the buffer.  When a transfer finds Threshold bytes waiting, the         *)
(* callback first drops bytes to make room, and that is where it slips: it *)
(* keeps Threshold bytes from offset `length', valid or not.               *)
(*                                                                         *)
(* A byte is its age: 0 for the last byte received, 1 for the one before,  *)
(* and so on; ages beyond Oldest, which no byte in use reaches unless it   *)
(* was already dropped or taken, are not told apart.                       *)
(***************************************************************************)
EXTENDS Integers

CONSTANTS
  Threshold,  \* half of thread_buffer (262144)
  Block,      \* bytes receiveSamples takes: numberOfSamples * 2 (20800)
  Lengths     \* possible values of transfer->valid_length

ASSUME SizeAssumption ==
  /\ Threshold \in Nat \ {0}
  /\ Block \in 1 .. Threshold
  /\ Lengths \subseteq 1 .. Threshold

Size   == 2 * Threshold
Cells  == 0 .. Size - 1
Oldest == Size

VARIABLES
  thread_buffer, \* per cell: the age of its byte
  valid_length,  \* bytes waiting
  damaged,       \* leading bytes that went through an overflow
  pc             \* where the main loop is

vars == <<thread_buffer, valid_length, damaged, pc>>

TypeOK ==
  /\ thread_buffer \in [Cells -> 0 .. Oldest]
  /\ valid_length \in 0 .. Size
  /\ damaged \in 0 .. Threshold
  /\ pc \in {"receive", "waiting", "woken", "process", "ended"}

\* make_unique zeroes the streamer: no byte is newer than the oldest.
Init ==
  /\ thread_buffer = [c \in Cells |-> Oldest]
  /\ valid_length = 0
  /\ damaged = 0
  /\ pc = "receive"

-----------------------------------------------------------------------------
\* Slipped form: makes room only once the buffer is full.
FullOnly == valid_length >= Size

MustDrop == valid_length >= Threshold

Older(age, n) == IF age + n > Oldest THEN Oldest ELSE age + n

\* Slipped form: one byte short.
MoveDownShort(buffer, from, count) ==
  [c \in Cells |-> IF c < count - 1 THEN buffer[c + from] ELSE buffer[c]]

\* memmove(thread_buffer, thread_buffer + from, count)
MoveDown(buffer, from, count) ==
  [c \in Cells |-> IF c < count THEN buffer[c + from] ELSE buffer[c]]

\* memcpy(thread_buffer + at, transfer->buffer, n), n newer bytes than any.
Append(buffer, at, n) ==
  [c \in Cells |-> IF c \in at .. at + n - 1 THEN at + n - 1 - c
                                             ELSE Older(buffer[c], n)]

\* Slipped form: notify_all is forgotten.
Unnotified == pc

Notified == IF pc = "waiting" THEN "woken" ELSE pc

\* myCallback on a transfer of n bytes; the stream is stopped once "ended".
Callback(n) ==
  /\ pc # "ended"
  /\ IF MustDrop
     THEN /\ thread_buffer' = Append(MoveDown(thread_buffer, n, Threshold), Threshold, n)
          /\ valid_length' = Threshold + n
          /\ damaged' = Threshold
     ELSE /\ thread_buffer' = Append(thread_buffer, valid_length, n)
          /\ valid_length' = valid_length + n
          /\ UNCHANGED damaged
  /\ pc' = Notified

\* receiveSamples finds a block: it copies it out and returns it.
Take ==
  /\ pc \in {"receive", "woken"}
  /\ valid_length >= Block
  /\ thread_buffer' = MoveDown(thread_buffer, Block, valid_length - Block)
  /\ valid_length' = valid_length - Block
  /\ damaged' = IF damaged > Block THEN damaged - Block ELSE 0
  /\ pc' = "process"

\* ... or does not: wait_for releases buffer_mutex.
Wait ==
  /\ pc \in {"receive", "woken"}
  /\ valid_length < Block
  /\ pc' = "waiting"
  /\ UNCHANGED <<thread_buffer, valid_length, damaged>>

SpuriousWakeup ==
  /\ pc = "waiting"
  /\ pc' = "woken"
  /\ UNCHANGED <<thread_buffer, valid_length, damaged>>

\* wait_for says timeout, also when the bytes arrived while it was returning;
\* receiveSamples returns 0 and the main loop stops the stream for good.
TimedOut ==
  /\ pc \in {"waiting", "woken"}
  /\ pc' = "ended"
  /\ UNCHANGED <<thread_buffer, valid_length, damaged>>

\* The rest of the main loop; the next thing it does is receiveSamples.
Process ==
  /\ pc = "process"
  /\ pc' = "receive"
  /\ UNCHANGED <<thread_buffer, valid_length, damaged>>

Device   == \E n \in Lengths : Callback(n)
MainLoop == Take \/ Wait \/ Process

Next == Device \/ MainLoop \/ SpuriousWakeup \/ TimedOut

\* The device keeps delivering, the main loop keeps being scheduled.
Spec == Init /\ [][Next]_vars /\ WF_vars(Device) /\ WF_vars(MainLoop)

-----------------------------------------------------------------------------
(***************************************************************************)
(* Past the bytes an overflow damaged, the buffer holds the newest bytes   *)
(* received, all of them and in order, so that the blocks taken from it    *)
(* follow each other without a gap (lines 61-70 against lines 94-103).     *)
(***************************************************************************)
FreshTail ==
  \A c \in damaged .. valid_length - 1 : thread_buffer[c] = valid_length - 1 - c

(***************************************************************************)
(* Blocks keep reaching the main loop until a wait times out: a transfer   *)
(* that arrives while the loop is busy is not a lost wakeup (lines 88-93). *)
(***************************************************************************)
BlocksKeepComing == []<>(pc = "process") \/ <>(pc = "ended")
=============================================================================
