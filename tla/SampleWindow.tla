---------------------------- MODULE SampleWindow ----------------------------
(***************************************************************************)
(* writeToBuffer (myServer, IQWebSocketServer): the samples a spectrogram  *)
(* row is computed from.  Each call appends Block samples to i_buffer; as  *)
(* soon as Window of them are there it transforms the first Window and     *)
(* moves the rest down.  q_buffer is treated in the same way.              *)
(*                                                                         *)
(* A sample is its age: the calls since it was received, up to MaxAge.     *)
(***************************************************************************)
EXTENDS Integers

CONSTANTS
  Block,   \* samples appended by a call (1000)
  Window,  \* length of the FFT (2048)
  Hop,     \* what buffer_index is set back by (1024)
  Carried, \* whole samples memcpy moves down: its 1000 are bytes (125)
  Size,    \* of i_buffer (3048)
  MaxAge   \* ages are counted up to here

ASSUME WindowAssumption ==
  /\ Block \in Nat \ {0} /\ Window \in Nat \ {0} /\ MaxAge \in Nat
  /\ Hop \in Block .. Window
  /\ Size \in Nat /\ Size >= Window + Block
  /\ Carried \in 0 .. Block /\ Carried < Hop

Unset     == -1  \* the members have no initialisers
Positions == 0 .. Size - 1
InWindow  == 0 .. Window - 1
Ages      == {Unset} \cup 0 .. MaxAge

VARIABLES
  i_buffer,
  buffer_index,
  window,       \* history: what was transformed last, as it was then
  rows          \* has anything been transformed?

windowVars == <<i_buffer, buffer_index, window, rows>>

WindowTypeOK ==
  /\ i_buffer \in [Positions -> Ages]
  /\ buffer_index \in 0 .. Size - Block  \* the next block fits in
  /\ window \in [InWindow -> Ages]
  /\ rows \in BOOLEAN

WindowInit ==
  /\ i_buffer = [p \in Positions |-> Unset]
  /\ buffer_index = 0
  /\ window = [p \in InWindow |-> Unset]
  /\ rows = FALSE

-----------------------------------------------------------------------------
Older(age) == IF age \in 0 .. MaxAge - 1 THEN age + 1 ELSE age

Appended ==
  [p \in Positions |->
     IF p \in buffer_index .. buffer_index + Block - 1 THEN 0 ELSE Older(i_buffer[p])]

CarriedDown(samples) ==
  [p \in Positions |-> IF p < Carried THEN samples[Window + p] ELSE samples[p]]

\* Slipped form: set back by the whole window.
SetBackWhole(index) == index - Window

SetBack(index) == index - Hop

\* Slipped form: a row is transformed once it has as many samples as columns.
WindowFullEarly == buffer_index + Block >= Hop

WindowFull == buffer_index + Block >= Window

Append ==
  /\ ~WindowFull
  /\ i_buffer' = Appended
  /\ buffer_index' = buffer_index + Block
  /\ UNCHANGED <<window, rows>>

Transform ==
  /\ WindowFull
  /\ window' = [p \in InWindow |-> Appended[p]]
  /\ rows' = TRUE
  /\ i_buffer' = CarriedDown(Appended)
  /\ buffer_index' = SetBack(buffer_index + Block)

writeToBuffer == Append \/ Transform

WindowSpec == WindowInit /\ [][writeToBuffer]_windowVars

-----------------------------------------------------------------------------
(***************************************************************************)
(* No row is computed from memory nothing was written to (lines 186-196).  *)
(***************************************************************************)
RowsFromSamples == rows => \A p \in InWindow : window[p] # Unset

(***************************************************************************)
(* What the code does to the old half: once a row has been computed, the   *)
(* samples between Carried and Hop are never replaced; appending starts    *)
(* at Hop or later (lines 221-223).                                        *)
(***************************************************************************)
OldHalfStays ==
  [][rows => \A p \in Carried .. Hop - 1 : i_buffer'[p] = Older(i_buffer[p])]_windowVars
=============================================================================
