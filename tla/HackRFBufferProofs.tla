------------------------- MODULE HackRFBufferProofs -------------------------
(***************************************************************************)
(* Proofs about HackRFBuffer, for every buffer size, block size and set of *)
(* transfer lengths.                                                       *)
(***************************************************************************)
EXTENDS HackRFBuffer, TLAPS

(* A move down that stays inside the buffer shifts the cells it covers. *)
LEMMA MoveDownShifts ==
  ASSUME NEW buffer \in [Cells -> 0 .. Oldest], NEW from \in Nat, NEW count \in Nat,
         from + count <= Size
  PROVE  /\ MoveDown(buffer, from, count) \in [Cells -> 0 .. Oldest]
         /\ \A c \in 0 .. count - 1 : MoveDown(buffer, from, count)[c] = buffer[c + from]
<1>1. Size \in Nat
  BY SizeAssumption DEF Size
<1>2. ASSUME NEW c \in Cells
      PROVE  (IF c < count THEN buffer[c + from] ELSE buffer[c]) \in 0 .. Oldest
  <2>1. c < count => c + from \in Cells
    BY <1>1, <1>2 DEF Cells
  <2> QED
    BY <1>2, <2>1
<1>3. \A c \in 0 .. count - 1 : c \in Cells /\ c < count
  BY <1>1 DEF Cells
<1> QED
  BY <1>2, <1>3 DEF MoveDown

(* Appending n bytes numbers them n-1 .. 0 and ages the others by n. *)
LEMMA AppendAges ==
  ASSUME NEW buffer \in [Cells -> 0 .. Oldest], NEW at \in Nat, NEW n \in Nat,
         at + n <= Size
  PROVE  /\ Append(buffer, at, n) \in [Cells -> 0 .. Oldest]
         /\ \A c \in at .. at + n - 1 : Append(buffer, at, n)[c] = at + n - 1 - c
         /\ \A c \in 0 .. at - 1 : buffer[c] + n <= Oldest =>
              Append(buffer, at, n)[c] = buffer[c] + n
<1>1. Size \in Nat
  BY SizeAssumption DEF Size
<1>2. ASSUME NEW c \in Cells
      PROVE  (IF c \in at .. at + n - 1 THEN at + n - 1 - c ELSE Older(buffer[c], n))
               \in 0 .. Oldest
  <2>1. buffer[c] \in 0 .. Oldest
    BY <1>2
  <2>2. Older(buffer[c], n) \in 0 .. Oldest
    BY <1>1, <2>1 DEF Older, Oldest
  <2>3. c \in at .. at + n - 1 => at + n - 1 - c \in 0 .. Oldest
    BY <1>1, <1>2 DEF Cells, Oldest
  <2> QED
    BY <2>2, <2>3
<1>3. Append(buffer, at, n) \in [Cells -> 0 .. Oldest]
  BY <1>2 DEF Append
<1>4. \A c \in at .. at + n - 1 : c \in Cells
  BY <1>1 DEF Cells
<1>5. ASSUME NEW c \in 0 .. at - 1, buffer[c] + n <= Oldest
      PROVE  Append(buffer, at, n)[c] = buffer[c] + n
  <2>1. c \in Cells /\ c \notin at .. at + n - 1
    BY <1>1, <1>5 DEF Cells
  <2>2. buffer[c] \in 0 .. Oldest
    BY <2>1
  <2> QED
    BY <1>1, <1>5, <2>1, <2>2 DEF Append, Older, Oldest
<1> QED
  BY <1>3, <1>4, <1>5 DEF Append

Inv == TypeOK /\ FreshTail

LEMMA InitInv == Init => Inv
BY SizeAssumption DEF Init, Inv, TypeOK, FreshTail, Cells, Size, Oldest

LEMMA CallbackInv == ASSUME Inv, NEW n \in Lengths, Callback(n) PROVE Inv'
<1> USE SizeAssumption DEF Size, Oldest
<1>1. n \in 1 .. Threshold /\ pc' \in {"receive", "waiting", "woken", "process", "ended"}
  BY DEF Callback, Notified, Inv, TypeOK
<1>2. CASE MustDrop
  <2> DEFINE moved == MoveDown(thread_buffer, n, Threshold)
  <2>1. moved \in [Cells -> 0 .. Oldest]
    BY <1>1, MoveDownShifts DEF Inv, TypeOK
  <2>2. /\ thread_buffer' = Append(moved, Threshold, n)
        /\ valid_length' = Threshold + n
        /\ damaged' = Threshold
    BY <1>2 DEF Callback
  <2> HIDE DEF moved
  <2>3. /\ thread_buffer' \in [Cells -> 0 .. Oldest]
        /\ \A c \in Threshold .. Threshold + n - 1 :
             thread_buffer'[c] = Threshold + n - 1 - c
    BY <1>1, <2>1, <2>2, AppendAges
  <2> QED
    BY <1>1, <2>2, <2>3 DEF Inv, TypeOK, FreshTail
<1>3. CASE ~MustDrop
  <2>1. /\ thread_buffer' = Append(thread_buffer, valid_length, n)
        /\ valid_length' = valid_length + n
        /\ damaged' = damaged
        /\ valid_length \in 0 .. Threshold - 1
    BY <1>3 DEF Callback, MustDrop, Inv, TypeOK
  <2>2. /\ thread_buffer' \in [Cells -> 0 .. Oldest]
        /\ \A c \in valid_length .. valid_length + n - 1 :
             thread_buffer'[c] = valid_length + n - 1 - c
        /\ \A c \in 0 .. valid_length - 1 : thread_buffer[c] + n <= Oldest =>
             thread_buffer'[c] = thread_buffer[c] + n
    <3>1. /\ thread_buffer \in [Cells -> 0 .. Oldest]
          /\ valid_length \in Nat /\ n \in Nat
          /\ valid_length + n <= Size
      BY <1>1, <2>1 DEF Inv, TypeOK
    <3> HIDE DEF Size, Oldest
    <3> QED
      BY <2>1, <3>1, AppendAges
  <2>3. ASSUME NEW c \in damaged .. valid_length + n - 1
        PROVE  thread_buffer'[c] = valid_length + n - 1 - c
    <3>1. CASE c >= valid_length
      BY <1>1, <2>1, <2>2, <2>3, <3>1 DEF Inv, TypeOK
    <3>2. CASE c < valid_length
      <4>1. thread_buffer[c] = valid_length - 1 - c
        BY <1>1, <2>1, <2>3, <3>2 DEF Inv, TypeOK, FreshTail
      <4> QED
        BY <1>1, <2>1, <2>2, <2>3, <3>2, <4>1 DEF Inv, TypeOK
    <3> QED
      BY <1>1, <2>1, <2>3, <3>1, <3>2 DEF Inv, TypeOK
  <2> QED
    BY <1>1, <2>1, <2>2, <2>3 DEF Inv, TypeOK, FreshTail
<1> QED
  BY <1>2, <1>3

LEMMA TakeInv == ASSUME Inv, Take PROVE Inv'
<1> USE SizeAssumption DEF Size, Oldest
<1> DEFINE left == valid_length - Block
<1>1. /\ valid_length \in Block .. Size /\ left \in Nat /\ Block + left <= Size
      /\ thread_buffer' = MoveDown(thread_buffer, Block, left)
      /\ valid_length' = left
      /\ damaged' = IF damaged > Block THEN damaged - Block ELSE 0
      /\ pc' = "process"
  BY DEF Take, Inv, TypeOK
<1>2. /\ thread_buffer' \in [Cells -> 0 .. Oldest]
      /\ \A c \in 0 .. left - 1 : thread_buffer'[c] = thread_buffer[c + Block]
  BY <1>1, MoveDownShifts DEF Inv, TypeOK
<1>3. ASSUME NEW c \in damaged' .. left - 1 PROVE thread_buffer'[c] = left - 1 - c
  <2>1. c + Block \in damaged .. valid_length - 1 /\ c \in 0 .. left - 1
    BY <1>1, <1>3 DEF Inv, TypeOK
  <2> QED
    BY <1>1, <1>2, <2>1 DEF Inv, TypeOK, FreshTail
<1> QED
  BY <1>1, <1>2, <1>3 DEF Inv, TypeOK, FreshTail

LEMMA InvNext == Inv /\ [Next]_vars => Inv'
<1> SUFFICES ASSUME Inv, [Next]_vars PROVE Inv'
  OBVIOUS
<1>1. ASSUME NEW n \in Lengths, Callback(n) PROVE Inv'
  BY <1>1, CallbackInv
<1>2. CASE Take
  BY <1>2, TakeInv
<1>3. CASE Wait \/ Process \/ SpuriousWakeup \/ TimedOut
  BY <1>3 DEF Wait, Process, SpuriousWakeup, TimedOut, Inv, TypeOK, FreshTail
<1>4. CASE UNCHANGED vars
  BY <1>4 DEF vars, Inv, TypeOK, FreshTail
<1> QED
  BY <1>1, <1>2, <1>3, <1>4 DEF Next, Device, MainLoop

(***************************************************************************)
(* thread_buffer is never overrun, neither by memmove nor by memcpy.       *)
(***************************************************************************)
THEOREM TypeCorrect == Spec => []TypeOK
BY InitInv, InvNext, PTL DEF Spec, Inv

(***************************************************************************)
(* Past the bytes an overflow damaged, thread_buffer holds the newest      *)
(* bytes in order.                                                         *)
(***************************************************************************)
THEOREM BufferIsFresh == Spec => []FreshTail
BY InitInv, InvNext, PTL DEF Spec, Inv
=============================================================================
