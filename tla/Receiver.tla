------------------------------ MODULE Receiver ------------------------------
(***************************************************************************)
(* myServer's main: it takes blocks of samples from the radio, filters and *)
(* decimates them twice, demodulates between the two, writes the result    *)
(* to its audio sink and hands the server a signal to draw.  The window    *)
(* the server collects it in is SampleWindow's.                            *)
(*                                                                         *)
(* A sample is its position in the stream, counted in complex samples, a   *)
(* filtered value the first of the positions it is computed from.  What    *)
(* the filters do to the values is left out.  Time is in seconds.          *)
(***************************************************************************)
EXTENDS SampleWindow

CONSTANTS
  sampleCnt,                         \* samples in a block (10400)
  filterLengthOne, filterLengthTwo,  \* (33, 33)
  stageOneDecimation, stageTwoDecimation,  \* (40, 10)
  sample_rate,                       \* (17640000)
  MaxRate,                           \* most blocks the radio has for a second,
                                     \* those kept by the streamer included (1722)
  Word,                              \* 2^32: int and uint32_t
  MaxBlocks,                         \* blocks are followed up to here
  Horizon                            \* and so is the clock

AudioRate == 44100
WarmUp    == 3   \* seconds; blocks received before are not filtered
Recording == 12  \* seconds, unless the audio is to go to ALSA
Timeout   == 1   \* of receiveSamples
Preamble  == 36  \* bytes wav_chunk_size counts in front of the samples

Decimation  == stageOneDecimation * stageTwoDecimation
Kept        == filterLengthOne + filterLengthTwo * stageOneDecimation
BufferEnd   == Kept + sampleCnt
downSampleCnt == (sampleCnt \div stageOneDecimation) \div stageTwoDecimation

ASSUME ReceiverAssumption ==
  /\ sampleCnt \in Nat \ {0}
  /\ filterLengthOne \in Nat \ {0} /\ filterLengthTwo \in Nat \ {0}
  /\ stageOneDecimation \in Nat \ {0} /\ stageTwoDecimation \in Nat \ {0}
  /\ sample_rate = AudioRate * Decimation
  /\ sampleCnt % Decimation = 0 /\ Kept <= sampleCnt
  /\ MaxRate \in Nat /\ Word \in Nat \ {0}
  /\ MaxBlocks \in Nat /\ Horizon \in Nat

None == -1

VARIABLES
  audio, server, \* the command line
  sink,
  clock,         \* since t1
  received,      \* blocks
  history,       \* where the samples kept in front of the buffer end
  pcm,           \* position of the last audio sample written ...
  gap,           \* ... and its distance from the one before that block
  misread,       \* has a filter read what was never received?
  file,          \* bytes of samples in radio.wav
  audio_sample_count,
  wav_chunk_size, wav_subchunk_two_size,  \* what radio.wav claims
  pc

options == <<audio, server, sink>>
signal  == <<received, history, pcm, gap, misread>>
header  == <<wav_chunk_size, wav_subchunk_two_size>>
wavFile == <<file, audio_sample_count, header>>
vars    == <<options, clock, signal, wavFile, windowVars, pc>>

TypeOK ==
  /\ audio \in {"alsa", "wav"} /\ server \in {"on", "off"}
  /\ sink \in {"alsa", "wav"}
  /\ clock \in 0 .. Horizon
  /\ received \in 0 .. MaxBlocks
  /\ history \in {None} \cup 0 .. MaxBlocks * sampleCnt
  /\ WindowTypeOK
  /\ pcm \in Int /\ gap \in {None} \cup Nat
  /\ misread \in BOOLEAN
  /\ file \in Nat /\ audio_sample_count \in 0 .. Word - 1
  /\ wav_chunk_size \in 0 .. Word - 1 /\ wav_subchunk_two_size \in 0 .. Word - 1
  /\ pc \in {"setup", "loop", "stop", "end"}
  /\ audio = "wav" => clock < Recording + Timeout

\* `#ifdef _linux_': nothing defines it, so the ALSA branch is not compiled.
Sink(option) == "wav"

Init ==
  /\ audio \in {"alsa", "wav"} /\ server \in {"on", "off"}
  /\ sink = Sink(audio)
  /\ clock = 0
  /\ received = 0 /\ history = None
  /\ pcm = None /\ gap = None
  /\ misread = FALSE
  /\ WindowInit
  /\ file = 0 /\ audio_sample_count = 0
  /\ wav_chunk_size = 0 /\ wav_subchunk_two_size = 0
  /\ pc = "setup"

-----------------------------------------------------------------------------
\* The samples a pass reads: everything from the start of the buffer to the
\* last tap of the last value of the first filter.
LastRead == (sampleCnt \div stageOneDecimation + filterLengthTwo) * stageOneDecimation
            + filterLengthOne - 1

\* Slipped form: copies from the middle of the block.
CopyFromMiddle == sampleCnt \div 2

\* The kept samples are copied from here to the front of the buffer.
CopyFrom == sampleCnt

\* Where they end in the stream.
KeptEnd == received * sampleCnt - Kept + CopyFrom + Kept

FirstAudio == received * sampleCnt - Kept

\* What the sink takes of the downSampleCnt audio samples of a pass.
samples_per_period == sampleCnt \div (sample_rate \div AudioRate)

Misreads ==
  \/ history # received * sampleCnt
  \/ LastRead >= BufferEnd
  \/ samples_per_period > downSampleCnt

LastAudio == FirstAudio + (samples_per_period - 1) * Decimation

-----------------------------------------------------------------------------
\* Slipped form: the count is taken for bytes.
WriteHeaderHalf ==
  /\ wav_chunk_size' = (Preamble + audio_sample_count) % Word
  /\ wav_subchunk_two_size' = audio_sample_count % Word

\* ~WAVWriter writes the header again.  The sums are made in 32 bits; the
\* signed ones overflow, which two's complement makes a remainder as well.
WriteHeader ==
  /\ wav_chunk_size' = (Preamble + 2 * audio_sample_count) % Word
  /\ wav_subchunk_two_size' = (2 * audio_sample_count) % Word

\* Opening or tuning the radio fails: error().
SetupFails ==
  /\ pc = "setup"
  /\ pc' = "end"
  /\ WriteHeader
  /\ UNCHANGED <<options, clock, signal, windowVars, file, audio_sample_count>>

Start ==
  /\ pc = "setup"
  /\ pc' = "loop"
  /\ UNCHANGED <<options, clock, signal, windowVars, wavFile>>

\* Slipped form: the recording never ends.
ReceivesAlways ==
  /\ pc = "loop"
  /\ clock' \in clock .. clock + Timeout /\ clock' <= Horizon

\* The loop's condition, and the time receiveSamples takes.
Receives ==
  /\ pc = "loop" /\ (audio = "alsa" \/ clock < Recording)
  /\ clock' \in clock .. clock + Timeout /\ clock' <= Horizon

ShortRead ==
  /\ Receives
  /\ pc' = "stop"
  /\ UNCHANGED <<options, signal, windowVars, wavFile>>

\* The radio delivers at its rate, however fast the passes are.
NextBlock ==
  /\ received < MaxBlocks /\ received < (clock' + 1) * MaxRate
  /\ received' = received + 1
  /\ history' = KeptEnd

WarmingUp ==
  /\ Receives /\ clock' < WarmUp
  /\ NextBlock
  /\ UNCHANGED <<options, pcm, gap, misread, windowVars, wavFile, pc>>

\* fwrite; main looks for a negative result, which there is none.  The count
\* is an int; what is kept of it here are its bits.
WriteSamples ==
  /\ \E written \in {0, samples_per_period} : file' = file + 2 * written
  /\ audio_sample_count' = (audio_sample_count + samples_per_period) % Word
  /\ UNCHANGED header

Filter ==
  /\ Receives /\ clock' >= WarmUp
  /\ NextBlock
  /\ misread' = (misread \/ Misreads)
  /\ IF server = "on" THEN writeToBuffer ELSE UNCHANGED windowVars
  /\ gap' = IF pcm = None THEN None ELSE FirstAudio - pcm
  /\ pcm' = LastAudio
  /\ WriteSamples
  /\ UNCHANGED <<options, pc>>

TimeUp ==
  /\ pc = "loop" /\ audio = "wav" /\ clock >= Recording
  /\ pc' = "stop"
  /\ UNCHANGED <<options, clock, signal, windowVars, wavFile>>

\* main returns.
Close ==
  /\ pc = "stop"
  /\ pc' = "end"
  /\ WriteHeader
  /\ UNCHANGED <<options, clock, signal, windowVars, file, audio_sample_count>>

-----------------------------------------------------------------------------
Next ==
  \/ SetupFails \/ Start
  \/ ShortRead \/ WarmingUp \/ Filter \/ TimeUp
  \/ Close

Spec == Init /\ [][Next]_vars

-----------------------------------------------------------------------------
(***************************************************************************)
(* The audio is continuous: the filters read only samples that were        *)
(* received, one after the other, and every block's first audio sample     *)
(* follows the last one of the block before at the distance of all others. *)
(* The kept samples, loop bounds, buffer sizes and the sink's period       *)
(* (main.cpp 228-235, 325-342, 460-462, 528-541, 590-619) only just fit    *)
(* together, and only if a block arrives before three seconds are over.    *)
(***************************************************************************)
AudioContinuous == ~misread /\ gap \in {None, Decimation}

\* What has been written can be counted in 32 bits.
Countable == Preamble + 2 * samples_per_period * received < Word

(***************************************************************************)
(* Once the program has ended radio.wav claims to be at least as long as   *)
(* it is, and exactly so unless a write failed unnoticed: always when it   *)
(* was recorded with --audio wav, which ends after twelve seconds, and as  *)
(* long as the 32 bits of its counts last when it was recorded with        *)
(* --audio alsa, which does not end (WAVWriter.cpp 32-53, main.cpp 368).   *)
(***************************************************************************)
HeaderCovers ==
  pc = "end" /\ (audio = "wav" \/ Countable) =>
    /\ wav_subchunk_two_size >= file
    /\ wav_chunk_size >= Preamble + file
=============================================================================
