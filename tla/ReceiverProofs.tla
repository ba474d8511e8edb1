--------------------------- MODULE ReceiverProofs ---------------------------
(***************************************************************************)
(* Proofs about SampleWindow and about Receiver, which is built on it.     *)
(*                                                                         *)
(* The window: until the first row the buffer is filled from the front by  *)
(* whole blocks; from then on everything a row can be computed from holds  *)
(* a sample, and appending starts at Hop or later.                         *)
(*                                                                         *)
(* The receiver: the lengths fit together for any filters and decimations, *)
(* if a block is a multiple of the decimation and not shorter than what is *)
(* kept of it.                                                             *)
(***************************************************************************)
EXTENDS Receiver, TLAPS

\* The blocks that first fill a window also fill what memcpy moves down.
FirstRowReaches ==
  \A k \in Nat : k * Block >= Window => k * Block >= Window + Carried

Filled(n) == \A p \in 0 .. n - 1 : i_buffer[p] # Unset

WindowInv ==
  /\ WindowTypeOK
  /\ ~rows => Filled(buffer_index) /\ \E k \in Nat : buffer_index = k * Block
  /\ rows => Filled(Window + Carried) /\ \A p \in InWindow : window[p] # Unset

\* One block more.
LEMMA OneMoreBlock ==
  ASSUME NEW k \in Nat
  PROVE  k * Block \in Nat /\ k * Block + Block = (k + 1) * Block
BY WindowAssumption

\* Growing older keeps an age an age, and a sample a sample.
LEMMA OlderIsAge ==
  \A age \in Ages : Older(age) \in Ages /\ (age # Unset => Older(age) # Unset)
BY WindowAssumption DEF Ages, Older, Unset

\* After a block is appended the ages are ages, nothing is unset that was set
\* before, and the block itself is set.
LEMMA AppendedFacts ==
  ASSUME WindowTypeOK
  PROVE  /\ Appended \in [Positions -> Ages]
         /\ \A p \in Positions :
              i_buffer[p] # Unset \/ p \in buffer_index .. buffer_index + Block - 1
                => Appended[p] # Unset
<1>1. \A p \in Positions : Older(i_buffer[p]) \in Ages
                           /\ (i_buffer[p] # Unset => Older(i_buffer[p]) # Unset)
  BY OlderIsAge DEF WindowTypeOK
<1>2. 0 \in Ages /\ 0 # Unset
  BY WindowAssumption DEF Ages, Unset
<1> QED
  BY <1>1, <1>2 DEF Appended

\* No block is appended or moved outside the buffer.
LEMMA WindowTypeNext == WindowTypeOK /\ [writeToBuffer]_windowVars => WindowTypeOK'
<1> SUFFICES ASSUME WindowTypeOK, [writeToBuffer]_windowVars PROVE WindowTypeOK'
  OBVIOUS
<1>1. Appended \in [Positions -> Ages]
  BY AppendedFacts
<1>2. /\ \A p \in InWindow : p \in Positions
      /\ \A p \in Positions : p < Carried => Window + p \in Positions
  BY WindowAssumption DEF InWindow, Positions
<1>3. CASE Append
  <2>1. buffer_index + Block \in 0 .. Size - Block
    BY <1>3, WindowAssumption DEF Append, WindowFull, WindowTypeOK
  <2>2. i_buffer' \in [Positions -> Ages]
    BY <1>1, <1>3 DEF Append
  <2>3. window' \in [InWindow -> Ages] /\ rows' \in BOOLEAN
    BY <1>3 DEF Append, WindowFull, WindowTypeOK
  <2>4. buffer_index' \in 0 .. Size - Block
    BY <1>3, <2>1 DEF Append
  <2> QED
    BY <2>2, <2>3, <2>4 DEF WindowTypeOK
<1>4. CASE Transform
  <2>1. SetBack(buffer_index + Block) \in 0 .. Size - Block
    BY <1>4, WindowAssumption DEF Transform, WindowFull, SetBack, WindowTypeOK
  <2>2. [p \in InWindow |-> Appended[p]] \in [InWindow -> Ages]
    BY <1>1, <1>2
  <2>3. CarriedDown(Appended) \in [Positions -> Ages]
    BY <1>1, <1>2 DEF CarriedDown
  <2>4. i_buffer' \in [Positions -> Ages] /\ window' \in [InWindow -> Ages]
    BY <1>4, <2>2, <2>3 DEF Transform
  <2>5. rows' \in BOOLEAN /\ buffer_index' \in 0 .. Size - Block
    BY <1>4, <2>1 DEF Transform
  <2> QED
    BY <2>4, <2>5 DEF WindowTypeOK
<1>5. CASE UNCHANGED windowVars
  BY <1>5 DEF windowVars, WindowTypeOK
<1> QED
  BY <1>3, <1>4, <1>5 DEF writeToBuffer

\* Nothing is filled at the start, and nothing needs to be.
LEMMA WindowInvInit == WindowInit => WindowInv
<1> SUFFICES ASSUME WindowInit PROVE WindowInv
  OBVIOUS
<1>1. WindowTypeOK
  <2>1. 0 \in 0 .. Size - Block /\ Unset \in Ages
    BY WindowAssumption DEF Ages
  <2> QED
    BY <2>1 DEF WindowInit, WindowTypeOK
<1>2. buffer_index = 0 * Block /\ 0 \in Nat
  BY WindowAssumption DEF WindowInit
<1>3. Filled(buffer_index) /\ ~rows
  BY DEF WindowInit, Filled
<1> QED
  BY <1>1, <1>2, <1>3 DEF WindowInv

\* Both steps fill the buffer further and unfill nothing.
LEMMA WindowInvNext ==
  ASSUME FirstRowReaches, WindowInv, [writeToBuffer]_windowVars
  PROVE  WindowInv'
<1>1. WindowTypeOK /\ WindowTypeOK'
  BY WindowTypeNext DEF WindowInv
<1>2. CASE Append
  <2>1. \A p \in Positions :
          i_buffer[p] # Unset \/ p \in buffer_index .. buffer_index + Block - 1
            => i_buffer'[p] # Unset
    BY <1>1, <1>2, AppendedFacts DEF Append
  <2>2. ASSUME ~rows
        PROVE  Filled(buffer_index)' /\ \E k \in Nat : buffer_index' = k * Block
    <3>1. PICK k \in Nat : buffer_index = k * Block
      BY <2>2 DEF WindowInv
    <3>2. buffer_index' = (k + 1) * Block /\ k + 1 \in Nat
      BY <1>2, <3>1, OneMoreBlock DEF Append
    <3>3. \A p \in 0 .. buffer_index' - 1 :
            /\ p \in Positions
            /\ p \in 0 .. buffer_index - 1 \/ p \in buffer_index .. buffer_index + Block - 1
      BY <1>1, <1>2, WindowAssumption DEF Append, WindowFull, WindowTypeOK, Positions
    <3>4. Filled(buffer_index)'
      BY <2>1, <2>2, <3>3 DEF Filled, WindowInv
    <3> QED
      BY <3>2, <3>4
  <2>3. ASSUME rows PROVE Filled(Window + Carried)'
    <3>1. \A p \in 0 .. (Window + Carried) - 1 : p \in Positions
      BY WindowAssumption DEF Positions
    <3>2. \A p \in 0 .. (Window + Carried) - 1 : i_buffer[p] # Unset
      BY <2>3 DEF Filled, WindowInv
    <3>3. \A p \in 0 .. (Window + Carried) - 1 : i_buffer'[p] # Unset
      BY <2>1, <3>1, <3>2
    <3> QED
      BY <3>3 DEF Filled
  <2> QED
    BY <1>1, <1>2, <2>2, <2>3 DEF Append, WindowFull, WindowInv
<1>3. CASE Transform
  <2>1. \A p \in 0 .. (Window + Carried) - 1 : p \in Positions /\ Appended[p] # Unset
    <3>1. \A p \in 0 .. (Window + Carried) - 1 : p \in Positions
      BY WindowAssumption DEF Positions
    <3>2. CASE rows
      <4>1. \A p \in 0 .. (Window + Carried) - 1 : i_buffer[p] # Unset
        BY <3>2 DEF Filled, WindowInv
      <4> QED
        BY <1>1, <3>1, <4>1, AppendedFacts
    <3>3. CASE ~rows
      <4>1. PICK k \in Nat : buffer_index = k * Block
        BY <3>3 DEF WindowInv
      <4>2. buffer_index + Block = (k + 1) * Block /\ k + 1 \in Nat
        BY <4>1, OneMoreBlock
      <4>3. buffer_index + Block >= Window + Carried
        BY <1>3, <4>2 DEF Transform, WindowFull, FirstRowReaches
      <4>4. \A p \in 0 .. (Window + Carried) - 1 :
              p \in 0 .. buffer_index - 1 \/ p \in buffer_index .. buffer_index + Block - 1
        BY <1>1, <4>3, WindowAssumption DEF WindowTypeOK
      <4> QED
        BY <1>1, <3>1, <3>3, <4>4, AppendedFacts DEF Filled, WindowInv
    <3> QED
      BY <3>2, <3>3
  <2>2. \A p \in InWindow : p \in 0 .. (Window + Carried) - 1
    BY WindowAssumption DEF InWindow
  <2>3. \A p \in InWindow : window'[p] # Unset
    BY <1>3, <2>1, <2>2 DEF Transform
  <2>4. \A p \in 0 .. Carried - 1 : Window + p \in 0 .. (Window + Carried) - 1
    BY WindowAssumption
  <2>5. \A p \in 0 .. (Window + Carried) - 1 : i_buffer'[p] # Unset
    BY <1>3, <2>1, <2>4, WindowAssumption DEF Transform, CarriedDown
  <2>6. Filled(Window + Carried)'
    BY <2>5 DEF Filled
  <2>7. rows'
    BY <1>3 DEF Transform
  <2> QED
    BY <1>1, <2>3, <2>6, <2>7 DEF WindowInv
<1>4. CASE UNCHANGED windowVars
  BY <1>1, <1>4 DEF windowVars, Filled, WindowInv
<1> QED
  BY <1>2, <1>3, <1>4 DEF writeToBuffer

(***************************************************************************)
(* writeToBuffer never leaves its buffers, and no row is computed from     *)
(* memory nothing was written to, if the blocks that first fill a window   *)
(* fill what is moved down as well (3000 >= 2048 + 125).                   *)
(***************************************************************************)
THEOREM RowsAreSamples ==
  ASSUME FirstRowReaches
  PROVE  WindowSpec => [](WindowTypeOK /\ RowsFromSamples)
<1>1. WindowInv => WindowTypeOK /\ RowsFromSamples
  BY DEF WindowInv, RowsFromSamples
<1>2. WindowInv /\ [writeToBuffer]_windowVars => WindowInv'
  BY WindowInvNext
<1> QED
  BY <1>1, <1>2, WindowInvInit, PTL DEF WindowSpec

\* Where appending starts once there are rows.
Beyond == WindowTypeOK /\ (rows => buffer_index >= Hop)

(***************************************************************************)
(* With an FFT at least twice the hop, the samples of the first row stay   *)
(* in the lower half of every row there will ever be, except those memcpy  *)
(* moves down.                                                             *)
(***************************************************************************)
THEOREM OldHalfNeverReplaced ==
  ASSUME Window >= 2 * Hop
  PROVE  WindowSpec => OldHalfStays
<1>1. WindowInit => Beyond
  BY WindowInvInit DEF WindowInv, Beyond, WindowInit
<1>2. Beyond /\ [writeToBuffer]_windowVars => Beyond'
  <2> SUFFICES ASSUME Beyond, [writeToBuffer]_windowVars PROVE (rows => buffer_index >= Hop)'
    BY WindowTypeNext DEF Beyond
  <2>1. CASE Append
    BY <2>1, WindowAssumption DEF Append, WindowFull, Beyond, WindowTypeOK
  <2>2. CASE Transform
    BY <2>2, WindowAssumption DEF Transform, WindowFull, SetBack, Beyond, WindowTypeOK
  <2>3. CASE UNCHANGED windowVars
    BY <2>3 DEF windowVars, Beyond
  <2> QED
    BY <2>1, <2>2, <2>3 DEF writeToBuffer
<1>3. Beyond /\ [writeToBuffer]_windowVars
        => [rows => \A p \in Carried .. Hop - 1 : i_buffer'[p] = Older(i_buffer[p])]_windowVars
  <2> SUFFICES ASSUME Beyond, writeToBuffer, rows, NEW p \in Carried .. Hop - 1
               PROVE  i_buffer'[p] = Older(i_buffer[p])
    BY DEF writeToBuffer
  <2>1. p \in Positions /\ p \notin 0 .. Carried - 1 /\ ~(p < Carried)
        /\ p \notin buffer_index .. buffer_index + Block - 1
    BY WindowAssumption DEF Beyond, WindowTypeOK, Positions
  <2>2. Appended[p] = Older(i_buffer[p])
    BY <2>1 DEF Appended
  <2>3. CarriedDown(Appended)[p] = Appended[p]
    BY <2>1 DEF CarriedDown
  <2> QED
    BY <2>2, <2>3 DEF writeToBuffer, Append, Transform
<1> QED
  BY <1>1, <1>2, <1>3, PTL DEF WindowSpec, OldHalfStays

-----------------------------------------------------------------------------
(* The lengths *)

\* Audio samples in a block.
PerBlock == sampleCnt \div Decimation

LEMMA LengthTypes ==
  /\ Decimation \in Nat \ {0} /\ Kept \in Nat \ {0} /\ Kept <= sampleCnt
  /\ PerBlock \in Nat \ {0} /\ sampleCnt = PerBlock * Decimation
<1>1. Decimation \in Nat \ {0}
  BY ReceiverAssumption DEF Decimation
<1>2. Kept \in Nat \ {0} /\ Kept <= sampleCnt
  BY ReceiverAssumption DEF Kept
<1>3. sampleCnt % Decimation = 0
  BY ReceiverAssumption
<1>4. \A n \in Nat \ {0}, d \in Nat \ {0} :
        n % d = 0 => n \div d \in Nat \ {0} /\ n = (n \div d) * d
  OBVIOUS
<1> QED BY <1>1, <1>2, <1>3, <1>4, ReceiverAssumption DEF PerBlock

\* The sink's period is what the filters leave of a block.
LEMMA PeriodFits ==
  /\ samples_per_period = PerBlock
  /\ downSampleCnt = PerBlock
  /\ (sampleCnt \div stageOneDecimation) * stageOneDecimation = sampleCnt
<1>1. sample_rate \div AudioRate = Decimation
  BY LengthTypes, ReceiverAssumption DEF AudioRate
<1>2. samples_per_period = PerBlock
  BY <1>1 DEF samples_per_period, PerBlock
<1>3. \A k \in Nat, a \in Nat \ {0}, b \in Nat \ {0} :
        (k * (a * b)) \div a = k * b /\ (k * b) \div b = k
  OBVIOUS
<1>4. /\ sampleCnt = PerBlock * (stageOneDecimation * stageTwoDecimation)
      /\ PerBlock \in Nat
  BY LengthTypes DEF Decimation
<1>5. sampleCnt \div stageOneDecimation = PerBlock * stageTwoDecimation
  BY <1>3, <1>4, ReceiverAssumption
<1>6. downSampleCnt = PerBlock
  BY <1>3, <1>4, <1>5, ReceiverAssumption DEF downSampleCnt
<1>7. (PerBlock * stageTwoDecimation) * stageOneDecimation = sampleCnt
  BY <1>4, ReceiverAssumption
<1> QED BY <1>2, <1>5, <1>6, <1>7

\* The first filter stops at the last sample of the buffer.
LEMMA ReadsFit == LastRead < BufferEnd
<1>1. \A q \in Nat, f \in Nat, d \in Nat : (q + f) * d = q * d + f * d
  OBVIOUS
<1>2. sampleCnt \div stageOneDecimation \in Nat
  BY ReceiverAssumption
<1>3. LastRead = sampleCnt + filterLengthTwo * stageOneDecimation + filterLengthOne - 1
  BY <1>1, <1>2, PeriodFits, ReceiverAssumption DEF LastRead
<1> QED BY <1>3, ReceiverAssumption DEF BufferEnd, Kept

-----------------------------------------------------------------------------
(* The receiver *)

Reached == received * sampleCnt

\* Before a block is filtered one was received while the loop warmed up, and
\* from the first filtered block on every block is.
InStep ==
  /\ pc = "setup" => clock = 0
  /\ pc \in {"setup", "loop"} => (received = 0 => clock = 0)
  /\ received > 0 => history = Reached
  /\ pcm # None => clock >= WarmUp /\ pcm = Reached - Kept - Decimation
  /\ AudioContinuous

\* The radio's rate bounds the blocks, and as long as 32 bits are enough for
\* all of them the count is at most what they make and at least what the file
\* holds; the header then says the count.
Paced == received <= (clock + 1) * MaxRate

Counted ==
  Countable =>
    /\ audio_sample_count <= PerBlock * received
    /\ file <= 2 * audio_sample_count
    /\ pc = "end" => /\ wav_subchunk_two_size = 2 * audio_sample_count
                     /\ wav_chunk_size = Preamble + 2 * audio_sample_count

ReceiverInv == TypeOK /\ InStep /\ Paced /\ Counted

LEMMA WindowSteps == [Next]_vars => [writeToBuffer]_windowVars
  BY DEF Next, SetupFails, Start, ShortRead, WarmingUp, Filter, TimeUp, Close, vars

LEMMA ReceiverInit == Init => ReceiverInv
<1> SUFFICES ASSUME Init PROVE ReceiverInv
  OBVIOUS
<1>1. WindowTypeOK
  BY WindowInvInit DEF Init, WindowInv
<1>2. TypeOK
  <2>1. /\ clock \in 0 .. Horizon /\ received \in 0 .. MaxBlocks
        /\ pcm \in Int /\ gap \in {None} \cup Nat /\ history \in {None}
    BY ReceiverAssumption DEF Init, None
  <2>2. 0 \in 0 .. Word - 1 /\ clock < Recording + Timeout
    BY ReceiverAssumption DEF Init, Recording, Timeout
  <2> QED BY <1>1, <2>1, <2>2 DEF Init, TypeOK, Sink
<1>3. InStep
  BY DEF Init, InStep, AudioContinuous, None
<1>4. Counted
  BY LengthTypes DEF Init, Counted
<1>5. Paced
  BY ReceiverAssumption DEF Init, Paced
<1> QED BY <1>2, <1>3, <1>4, <1>5 DEF ReceiverInv

\* One block more is received and the end of it kept.
LEMMA BlockFacts ==
  ASSUME TypeOK, NextBlock
  PROVE  /\ received \in Nat /\ Reached \in Nat /\ received' \in 1 .. MaxBlocks
         /\ received' = received + 1
         /\ Reached' = Reached + sampleCnt
         /\ history' = Reached'
         /\ history' \in 0 .. MaxBlocks * sampleCnt
<1>1. received \in Nat /\ received' = received + 1 /\ received' \in 1 .. MaxBlocks
  BY ReceiverAssumption DEF TypeOK, NextBlock
<1>2. \A r \in Nat, n \in Nat : r * n \in Nat /\ (r + 1) * n = r * n + n
  OBVIOUS
<1>3. Reached \in Nat /\ Reached' = Reached + sampleCnt
  BY <1>1, <1>2, ReceiverAssumption DEF Reached
<1>4. history' = Reached'
  BY <1>3, LengthTypes, ReceiverAssumption DEF NextBlock, KeptEnd, CopyFrom, Reached
<1>5. \A a \in Nat, b \in Nat, n \in Nat : a <= b => a * n <= b * n
  OBVIOUS
<1>6. Reached' <= MaxBlocks * sampleCnt
  BY <1>1, <1>5, ReceiverAssumption DEF Reached
<1>7. MaxBlocks * sampleCnt \in Nat
  BY <1>2, ReceiverAssumption
<1> QED BY <1>1, <1>3, <1>4, <1>6, <1>7, ReceiverAssumption

\* A pass that filters reads what was received, and continues the audio.
LEMMA FilterContinues ==
  ASSUME ReceiverInv, Filter
  PROVE  /\ InStep'
         /\ pcm' \in Int /\ gap' \in {None, Decimation} /\ misread' = FALSE
<1> USE DEF ReceiverInv
<1>1. /\ clock' \in clock .. clock + 1 /\ clock' >= 3 /\ clock \in Nat /\ clock' \in Nat
      /\ pc = "loop" /\ pc' = "loop" /\ NextBlock
  BY DEF Filter, Receives, Timeout, WarmUp, TypeOK
<1>2. received > 0 /\ history = Reached
  BY <1>1, ReceiverAssumption DEF InStep, TypeOK
<1>3. /\ Reached \in Nat /\ Reached' = Reached + sampleCnt /\ history' = Reached'
      /\ received' > 0
  BY <1>1, BlockFacts
<1>4. ~Misreads
  <2>1. LastRead \in Int /\ BufferEnd \in Int
    BY ReceiverAssumption DEF LastRead, BufferEnd, Kept
  <2> QED BY <1>2, <2>1, PeriodFits, ReadsFit, LengthTypes DEF Misreads, Reached
<1>5. FirstAudio = Reached - Kept
  BY DEF FirstAudio, Reached
<1>6. LastAudio = Reached + sampleCnt - Kept - Decimation
  <2>1. (PerBlock - 1) * Decimation = sampleCnt - Decimation
    BY LengthTypes
  <2> QED BY <1>3, <1>5, <2>1, PeriodFits, LengthTypes DEF LastAudio
<1>7. pcm' = Reached' - Kept - Decimation
  BY <1>3, <1>6, LengthTypes DEF Filter
<1>8. gap' \in {None, Decimation}
  <2>1. pcm # None => pcm = Reached - Kept - Decimation
    BY DEF InStep
  <2> QED BY <1>3, <1>5, <2>1, LengthTypes DEF Filter
<1>9. misread' = FALSE
  BY <1>4 DEF Filter, InStep, AudioContinuous, TypeOK
<1>10. pcm' \in Int
  BY <1>3, <1>7, LengthTypes
<1> QED BY <1>1, <1>3, <1>7, <1>8, <1>9, <1>10 DEF InStep, AudioContinuous, WarmUp

\* What is written into the header fits its fields.
LEMMA HeaderTypes ==
  ASSUME TypeOK, WriteHeader
  PROVE  wav_chunk_size' \in 0 .. Word - 1 /\ wav_subchunk_two_size' \in 0 .. Word - 1
<1>1. \A n \in Nat, w \in Nat \ {0} : n % w \in 0 .. w - 1
  OBVIOUS
<1>2. Preamble + 2 * audio_sample_count \in Nat /\ 2 * audio_sample_count \in Nat
  BY ReceiverAssumption DEF TypeOK, Preamble
<1> QED BY <1>1, <1>2, ReceiverAssumption DEF WriteHeader

LEMMA ReceiverTypes ==
  ASSUME ReceiverInv, [Next]_vars
  PROVE  TypeOK'
<1> USE DEF ReceiverInv
<1>1. WindowTypeOK'
  BY WindowSteps, WindowTypeNext DEF TypeOK
<1>2. CASE SetupFails \/ Start \/ TimeUp \/ Close
  <2>1. UNCHANGED <<options, clock, signal>> /\ pc' \in {"setup", "loop", "stop", "end"}
    BY <1>2 DEF SetupFails, Start, TimeUp, Close
  <2>2. /\ file' \in Nat /\ audio_sample_count' \in 0 .. Word - 1
        /\ wav_chunk_size' \in 0 .. Word - 1 /\ wav_subchunk_two_size' \in 0 .. Word - 1
    BY <1>2, HeaderTypes DEF SetupFails, Start, TimeUp, Close, wavFile, header, TypeOK
  <2>3. audio' = "wav" => clock' < Recording + Timeout
    BY <2>1 DEF TypeOK, options
  <2> QED BY <1>1, <2>1, <2>2, <2>3 DEF options, signal, TypeOK
<1>3. CASE ShortRead \/ WarmingUp \/ Filter
  <2>1. /\ clock' \in 0 .. Horizon /\ UNCHANGED options
        /\ audio = "wav" => clock' < Recording + Timeout
        /\ pc' \in {"setup", "loop", "stop", "end"}
    BY <1>3, ReceiverAssumption
    DEF ShortRead, WarmingUp, Filter, Receives, Recording, Timeout, TypeOK
  <2>2. CASE ShortRead
    BY <1>1, <2>1, <2>2 DEF ShortRead, options, signal, wavFile, header, TypeOK
  <2>3. CASE WarmingUp
    <3>1. received' \in 0 .. MaxBlocks /\ history' \in 0 .. MaxBlocks * sampleCnt
      BY <2>3, BlockFacts, ReceiverAssumption DEF WarmingUp
    <3> QED BY <1>1, <2>1, <2>3, <3>1 DEF WarmingUp, options, wavFile, header, TypeOK
  <2>4. CASE Filter
    <3>1. received' \in 0 .. MaxBlocks /\ history' \in 0 .. MaxBlocks * sampleCnt
      BY <2>4, BlockFacts, ReceiverAssumption DEF Filter
    <3>2. pcm' \in Int /\ gap' \in {None} \cup Nat /\ misread' \in BOOLEAN
      BY <2>4, FilterContinues, LengthTypes
    <3>3. /\ file' \in Nat /\ audio_sample_count' \in 0 .. Word - 1
          /\ UNCHANGED header
      BY <2>4, PeriodFits, LengthTypes, ReceiverAssumption DEF Filter, WriteSamples, TypeOK
    <3> QED BY <1>1, <2>1, <2>4, <3>1, <3>2, <3>3 DEF Filter, options, header, TypeOK
  <2> QED BY <1>3, <2>2, <2>3, <2>4
<1>4. CASE UNCHANGED vars
  BY <1>1, <1>4 DEF vars, options, signal, wavFile, header, TypeOK
<1> QED BY <1>2, <1>3, <1>4 DEF Next

LEMMA StaysInStep ==
  ASSUME ReceiverInv, [Next]_vars
  PROVE  InStep'
<1> USE DEF ReceiverInv
<1>1. CASE SetupFails \/ Start \/ ShortRead \/ TimeUp \/ Close \/ UNCHANGED vars
  <2>1. UNCHANGED signal /\ clock' \in Nat /\ clock \in Nat /\ clock' >= clock
    BY <1>1, ReceiverAssumption
    DEF SetupFails, Start, ShortRead, TimeUp, Close, vars, Receives, Timeout, TypeOK
  <2>2. /\ pc' \in {"setup", "loop"} => pc \in {"setup", "loop"} /\ clock' = clock
        /\ pc' = "setup" => pc = "setup"
    BY <1>1 DEF SetupFails, Start, ShortRead, TimeUp, Close, vars
  <2> QED BY <2>1, <2>2 DEF signal, InStep, AudioContinuous, Reached, WarmUp
<1>2. CASE WarmingUp
  <2>1. clock' < 3 /\ clock' >= clock /\ clock \in Nat /\ clock' \in Nat
    BY <1>2 DEF WarmingUp, Receives, WarmUp, Timeout, TypeOK
  <2>2. pcm = None /\ pcm' = None
    BY <1>2, <2>1 DEF WarmingUp, InStep, WarmUp
  <2>3. received' > 0 /\ history' = Reached'
    BY <1>2, BlockFacts DEF WarmingUp
  <2>4. pc' = "loop"
    BY <1>2 DEF WarmingUp, Receives
  <2> QED BY <1>2, <2>2, <2>3, <2>4 DEF WarmingUp, InStep, AudioContinuous
<1>3. CASE Filter
  BY <1>3, FilterContinues
<1> QED BY <1>1, <1>2, <1>3 DEF Next

LEMMA StaysPaced ==
  ASSUME ReceiverInv, [Next]_vars
  PROVE  Paced'
<1> USE DEF ReceiverInv
<1>1. received \in Nat /\ clock \in Nat
  BY ReceiverAssumption DEF TypeOK
<1>2. CASE SetupFails \/ Start \/ TimeUp \/ Close \/ UNCHANGED vars
  BY <1>2 DEF SetupFails, Start, TimeUp, Close, vars, signal, Paced
<1>3. CASE ShortRead
  <2>1. received' = received /\ clock' \in Nat /\ clock' >= clock
    BY <1>1, <1>3 DEF ShortRead, Receives, signal, Timeout
  <2>2. \A a \in Nat, b \in Nat, n \in Nat :
          (a + 1) * n \in Nat /\ (a <= b => (a + 1) * n <= (b + 1) * n)
    OBVIOUS
  <2>3. (clock + 1) * MaxRate \in Nat /\ (clock' + 1) * MaxRate \in Nat
        /\ (clock + 1) * MaxRate <= (clock' + 1) * MaxRate
    BY <1>1, <2>1, <2>2, ReceiverAssumption
  <2> QED BY <1>1, <2>1, <2>3 DEF Paced
<1>4. CASE WarmingUp \/ Filter
  <2>1. clock' \in Nat /\ received' = received + 1 /\ received < (clock' + 1) * MaxRate
    BY <1>1, <1>4 DEF WarmingUp, Filter, Receives, NextBlock, Timeout
  <2>2. (clock' + 1) * MaxRate \in Nat
    <3>1. \A a \in Nat, n \in Nat : (a + 1) * n \in Nat
      OBVIOUS
    <3> QED BY <2>1, <3>1, ReceiverAssumption
  <2> QED BY <1>1, <2>1, <2>2 DEF Paced
<1> QED BY <1>2, <1>3, <1>4 DEF Next

\* A number that fits is what is left of it in 32 bits.
LEMMA Fits ==
  ASSUME NEW n \in Nat, n < Word
  PROVE  n % Word = n
<1>1. \A a \in Nat, w \in Nat \ {0} : a < w => a % w = a
  OBVIOUS
<1> QED BY <1>1, ReceiverAssumption

LEMMA StaysCounted ==
  ASSUME ReceiverInv, [Next]_vars
  PROVE  Counted'
<1> USE DEF ReceiverInv
<1>1. /\ received \in Nat /\ audio_sample_count \in Nat /\ file \in Nat
      /\ PerBlock \in Nat /\ PerBlock * received \in Nat
      /\ Countable <=> Preamble + 2 * (PerBlock * received) < Word
  <2>1. PerBlock \in Nat /\ received \in Nat
    BY LengthTypes, ReceiverAssumption DEF TypeOK
  <2>2. \A b \in Nat, n \in Nat : b * n \in Nat /\ 2 * b * n = 2 * (b * n)
    OBVIOUS
  <2> QED BY <2>1, <2>2, PeriodFits, ReceiverAssumption DEF TypeOK, Countable
<1>2. CASE SetupFails \/ Close
  <2>1. /\ UNCHANGED <<received, file, audio_sample_count>>
        /\ WriteHeader
    BY <1>2 DEF SetupFails, Close, signal
  <2>2. Countable' <=> Countable
    BY <2>1 DEF Countable
  <2>3. ASSUME Countable
        PROVE  /\ wav_subchunk_two_size' = 2 * audio_sample_count
               /\ wav_chunk_size' = Preamble + 2 * audio_sample_count
    <3>1. Preamble + 2 * audio_sample_count < Word
      BY <1>1, <2>3, ReceiverAssumption DEF Counted, Preamble
    <3>2. 2 * audio_sample_count < Word
      BY <1>1, <3>1, ReceiverAssumption DEF Preamble
    <3>3. Preamble + 2 * audio_sample_count \in Nat /\ 2 * audio_sample_count \in Nat
      BY <1>1 DEF Preamble
    <3> QED BY <2>1, <3>1, <3>2, <3>3, Fits DEF WriteHeader
  <2> QED BY <2>1, <2>2, <2>3 DEF Counted
<1>3. CASE Start \/ ShortRead \/ TimeUp
  <2>1. UNCHANGED <<received, wavFile>> /\ pc' # "end"
    BY <1>3 DEF Start, ShortRead, TimeUp, signal
  <2> QED BY <2>1 DEF wavFile, Countable, Counted
<1>4. CASE WarmingUp \/ Filter
  <2>1. received' = received + 1 /\ pc' # "end"
    BY <1>4 DEF WarmingUp, Filter, Receives, NextBlock
  <2>2. PerBlock * received' = PerBlock * received + PerBlock
    BY <1>1, <2>1
  <2>3. Countable' <=> Preamble + 2 * (PerBlock * received') < Word
    <3>1. \A b \in Nat, n \in Nat : 2 * b * (n + 1) = 2 * (b * (n + 1))
      OBVIOUS
    <3> QED BY <1>1, <2>1, <3>1, PeriodFits DEF Countable
  <2> SUFFICES ASSUME Countable'
               PROVE  /\ audio_sample_count' <= PerBlock * received'
                      /\ file' <= 2 * audio_sample_count'
    BY <2>1 DEF Counted
  <2>4. Countable
    BY <1>1, <2>2, <2>3, ReceiverAssumption DEF Preamble
  <2>5. audio_sample_count <= PerBlock * received /\ file <= 2 * audio_sample_count
    BY <2>4 DEF Counted
  <2>6. CASE WarmingUp
    BY <1>1, <2>2, <2>5, <2>6 DEF WarmingUp, wavFile
  <2>7. CASE Filter
    <3>1. audio_sample_count + PerBlock \in Nat /\ audio_sample_count + PerBlock < Word
      BY <1>1, <2>2, <2>3, <2>5, ReceiverAssumption DEF Preamble
    <3>2. audio_sample_count' = audio_sample_count + PerBlock
      BY <2>7, <3>1, Fits, PeriodFits DEF Filter, WriteSamples
    <3>3. file' = file \/ file' = file + 2 * PerBlock
      BY <1>1, <2>7, PeriodFits DEF Filter, WriteSamples
    <3> QED BY <1>1, <2>2, <2>5, <3>2, <3>3
  <2> QED BY <1>4, <2>6, <2>7
<1>5. CASE UNCHANGED vars
  BY <1>5 DEF vars, signal, wavFile, header, Countable, Counted
<1> QED BY <1>2, <1>3, <1>4, <1>5 DEF Next

LEMMA ReceiverNext == ReceiverInv /\ [Next]_vars => ReceiverInv'
  BY ReceiverTypes, StaysInStep, StaysPaced, StaysCounted DEF ReceiverInv

(***************************************************************************)
(* The audio has no seams, and no filter reads what was not received, for  *)
(* all block lengths, filters and decimations that satisfy                 *)
(* ReceiverAssumption (main.cpp 228-235, 325-342, 460-462, 528-619).       *)
(***************************************************************************)
THEOREM AudioHasNoSeams == Spec => []AudioContinuous
<1>1. ReceiverInv => AudioContinuous
  BY DEF ReceiverInv, InStep
<1> QED BY ReceiverInit, ReceiverNext, <1>1, PTL DEF Spec

(***************************************************************************)
(* The loop keeps its types (main.cpp 225-620); in particular a WAV        *)
(* recording ends by the first pass after its time is up.                  *)
(***************************************************************************)
THEOREM TypeCorrect == Spec => []TypeOK
<1>1. ReceiverInv => TypeOK
  BY DEF ReceiverInv
<1> QED BY ReceiverInit, ReceiverNext, <1>1, PTL DEF Spec

\* What the radio can deliver while a recording lasts is countable.
RecordingFits ==
  Preamble + 2 * (samples_per_period * ((Recording + Timeout) * MaxRate)) < Word

\* A recording that ends by the clock has no more blocks than that.
LEMMA RecordingsAreCountable ==
  ASSUME RecordingFits, TypeOK, Paced, audio = "wav"
  PROVE  Countable
<1>1. /\ received \in Nat /\ clock \in Nat /\ clock + 1 <= Recording + Timeout
      /\ PerBlock \in Nat /\ samples_per_period = PerBlock
  BY LengthTypes, PeriodFits, ReceiverAssumption DEF TypeOK, Recording, Timeout
<1>2. \A a \in Nat, b \in Nat, n \in Nat : a <= b => a * n <= b * n /\ n * a <= n * b
  OBVIOUS
<1>3. /\ (clock + 1) * MaxRate \in Nat /\ (Recording + Timeout) * MaxRate \in Nat
      /\ (clock + 1) * MaxRate <= (Recording + Timeout) * MaxRate
  BY <1>1, <1>2, ReceiverAssumption DEF Recording, Timeout
<1>4. received <= (Recording + Timeout) * MaxRate
  BY <1>1, <1>3 DEF Paced
<1>5. PerBlock * received <= PerBlock * ((Recording + Timeout) * MaxRate)
  BY <1>1, <1>2, <1>3, <1>4
<1>6. \A b \in Nat, n \in Nat : b * n \in Nat /\ 2 * b * n = 2 * (b * n)
  OBVIOUS
<1>7. Preamble + 2 * (PerBlock * received) < Word
  BY <1>1, <1>3, <1>5, <1>6, ReceiverAssumption DEF RecordingFits, Preamble
<1> QED BY <1>1, <1>6, <1>7 DEF Countable

(***************************************************************************)
(* radio.wav never claims to be shorter than it is (WAVWriter.cpp 32-53),  *)
(* for every recording --audio wav can make if 32 bits are enough for what *)
(* the radio delivers in thirteen seconds, and for every other recording   *)
(* of no more than 32 bits can count.                                      *)
(***************************************************************************)
THEOREM HeaderIsLongEnough ==
  ASSUME RecordingFits
  PROVE  Spec => []HeaderCovers
<1>1. ASSUME ReceiverInv PROVE HeaderCovers
  <2>1. audio = "wav" => Countable
    BY <1>1, RecordingsAreCountable DEF ReceiverInv
  <2>2. file \in Nat /\ audio_sample_count \in Nat
    BY <1>1, ReceiverAssumption DEF ReceiverInv, TypeOK
  <2> QED BY <1>1, <2>1, <2>2 DEF ReceiverInv, Counted, HeaderCovers, Preamble
<1> QED BY ReceiverInit, ReceiverNext, <1>1, PTL DEF Spec

(***************************************************************************)
(* The rows main has drawn are computed from samples as well: its passes   *)
(* are calls of writeToBuffer, or leave the window alone.                  *)
(***************************************************************************)
THEOREM LoopDrawsSamples ==
  ASSUME FirstRowReaches
  PROVE  Spec => []RowsFromSamples
<1>1. Init => WindowInv
  BY WindowInvInit DEF Init
<1>2. WindowInv /\ [Next]_vars => WindowInv'
  BY WindowSteps, WindowInvNext
<1>3. WindowInv => RowsFromSamples
  BY DEF WindowInv, RowsFromSamples
<1> QED BY <1>1, <1>2, <1>3, PTL DEF Spec
=============================================================================
