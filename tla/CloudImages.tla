---------------------------- MODULE CloudImages ----------------------------
(***************************************************************************)
(* The files of cloudServer's fft threads.  Thread i records into i.mp3,   *)
(* converts that to i.wav, draws i.jpg.new, copies it to i.jpg.old, turns  *)
(* that into i.jpg, which the web server serves, and announces i.jpg in    *)
(* sample_json.  All ten threads announce in the same sample_json.         *)
(*                                                                         *)
(* The content of a file is the age of its recording: 0 if it was made in  *)
(* the thread's present round, 1 if in the one before, and so on up to     *)
(* MaxAge, which stands for all older ones.                                *)
(***************************************************************************)
EXTENDS Integers

CONSTANTS
  Threads, \* the fft threads (ten)
  MaxAge   \* ages are counted up to here

None == -1  \* no such file; for sample_json: nothing announced yet
Torn == -2  \* an image that is not complete

ASSUME ImagesAssumption ==
  /\ None \notin Threads
  /\ MaxAge \in Nat \ {0}

Contents == {None, Torn} \cup 0 .. MaxAge

VARIABLES
  pc,          \* where thread i is in its round
  mp3, wav,    \* per thread: its files
  jpg_new, jpg_old, jpg,
  slipped,     \* threads with a command gone wrong unnoticed this round
  sample_json, \* the thread whose image is announced
  promised     \* history: how old the announced image is by now; None if
               \* its round had slipped or its thread writes the next one

files == <<mp3, wav, jpg_new, jpg_old, jpg>>
vars  == <<pc, files, slipped, sample_json, promised>>

Places ==
  {"record", "curl", "convert", "open", "draw", "copy", "flip", "flipping",
   "remove", "publish", "ended"}

TypeOK ==
  /\ pc \in [Threads -> Places]
  /\ mp3 \in [Threads -> {None} \cup 0 .. MaxAge]
  /\ wav \in [Threads -> {None} \cup 0 .. MaxAge]
  /\ jpg_new \in [Threads -> Contents]
  /\ jpg_old \in [Threads -> Contents]
  /\ jpg \in [Threads -> Contents]
  /\ slipped \in SUBSET Threads
  /\ sample_json \in Threads \cup {None}
  /\ promised \in {None} \cup 0 .. MaxAge
  /\ \A i \in Threads : pc[i] = "draw" => wav[i] # None  \* myFile is open

\* The directory may hold the files of an earlier run of the program.
Init ==
  /\ pc = [i \in Threads |-> "record"]
  /\ mp3 \in [Threads -> {None, MaxAge}]
  /\ wav = mp3
  /\ jpg_new = mp3
  /\ jpg_old = [i \in Threads |-> None]
  /\ jpg = mp3
  /\ slipped = {}
  /\ sample_json = None
  /\ promised = None

-----------------------------------------------------------------------------
Older(content) ==
  IF content \in 0 .. MaxAge - 1 THEN content + 1 ELSE content

Goto(i, place)   == pc' = [pc EXCEPT ![i] = place]
Slips(i, really) == slipped' = IF really THEN slipped \cup {i} ELSE slipped
Put(f, i, content) == [f EXCEPT ![i] = content]

\* The slot has come: fork and start curl.  What there is grows older.
StartRound(i) ==
  /\ pc[i] = "record"
  /\ Goto(i, "curl")
  /\ mp3' = Put(mp3, i, Older(mp3[i]))
  /\ wav' = Put(wav, i, Older(wav[i]))
  /\ jpg_new' = Put(jpg_new, i, Older(jpg_new[i]))
  /\ jpg_old' = Put(jpg_old, i, Older(jpg_old[i]))
  /\ jpg' = Put(jpg, i, Older(jpg[i]))
  /\ slipped' = slipped \ {i}
  /\ promised' = IF sample_json = i THEN Older(promised) ELSE promised
  /\ UNCHANGED sample_json

\* fork returns -1: break.
ForkFails(i) ==
  /\ pc[i] = "record"
  /\ Goto(i, "ended")
  /\ UNCHANGED <<files, slipped, sample_json, promised>>

\* curl ends with status 28, too slow, as it should, or is killed by a
\* signal; it leaves the file of the last round when it received nothing.
CurlDone(i) ==
  /\ pc[i] = "curl"
  /\ \E got \in {0, mp3[i]} :
       /\ mp3' = Put(mp3, i, got)
       /\ Slips(i, got # 0)
  /\ Goto(i, "convert")
  /\ UNCHANGED <<wav, jpg_new, jpg_old, jpg, sample_json, promised>>

\* Any other status, or waitpid fails: continue.
CurlFails(i) ==
  /\ pc[i] = "curl"
  /\ \E got \in {0, mp3[i]} : mp3' = Put(mp3, i, got)
  /\ Goto(i, "record")
  /\ UNCHANGED <<wav, jpg_new, jpg_old, jpg, slipped, sample_json, promised>>

\* mpg123; its status is stored and never looked at.
Convert(i) ==
  /\ pc[i] = "convert"
  /\ \E got \in {mp3[i], wav[i]} :
       /\ wav' = Put(wav, i, IF mp3[i] = None THEN wav[i] ELSE got)
       /\ Slips(i, wav'[i] # mp3[i])
  /\ Goto(i, "open")
  /\ UNCHANGED <<mp3, jpg_new, jpg_old, jpg, sample_json, promised>>

\* fopen finds no i.wav: continue.
NoRecording(i) ==
  /\ pc[i] = "open"
  /\ wav[i] = None
  /\ Goto(i, "record")
  /\ UNCHANGED <<files, slipped, sample_json, promised>>

\* Slipped form: whether i.wav is there or not.
BeginAnyway(i) ==
  /\ pc[i] = "open"
  /\ jpg_new' = Put(jpg_new, i, Torn)
  /\ Goto(i, "draw")
  /\ UNCHANGED <<mp3, wav, jpg_old, jpg, slipped, sample_json, promised>>

\* i.jpg.new is opened for writing.
BeginImage(i) ==
  /\ pc[i] = "open"
  /\ wav[i] # None
  /\ jpg_new' = Put(jpg_new, i, Torn)
  /\ Goto(i, "draw")
  /\ UNCHANGED <<mp3, wav, jpg_old, jpg, slipped, sample_json, promised>>

\* The recording has the 431 lines.
FinishImage(i) ==
  /\ pc[i] = "draw"
  /\ jpg_new' = Put(jpg_new, i, wav[i])
  /\ Goto(i, "copy")
  /\ UNCHANGED <<mp3, wav, jpg_old, jpg, slipped, sample_json, promised>>

\* Slipped form: goes on with it.
TooShortGoesOn(i) ==
  /\ pc[i] = "draw"
  /\ Goto(i, "copy")
  /\ UNCHANGED <<files, slipped, sample_json, promised>>

\* It has fewer; the image is closed as it is.
TooShort(i) ==
  /\ pc[i] = "draw"
  /\ Goto(i, "record")
  /\ UNCHANGED <<files, slipped, sample_json, promised>>

\* cp; only a status of -1 counts.
Copy(i) ==
  /\ pc[i] = "copy"
  /\ \E got \in {jpg_new[i], jpg_old[i], Torn} :
       /\ jpg_old' = Put(jpg_old, i, got)
       /\ Slips(i, got # jpg_new[i])
  /\ Goto(i, "flip")
  /\ UNCHANGED <<mp3, wav, jpg_new, jpg, sample_json, promised>>

\* jpegtran opens i.jpg for writing, once it has opened i.jpg.old: also when
\* that is the image clients are told to fetch.
BeginFlip(i) ==
  /\ pc[i] = "flip"
  /\ jpg_old[i] # None
  /\ jpg' = Put(jpg, i, Torn)
  /\ promised' = IF sample_json = i THEN None ELSE promised
  /\ Goto(i, "flipping")
  /\ UNCHANGED <<mp3, wav, jpg_new, jpg_old, slipped, sample_json>>

\* jpegtran cannot open its files; its status is dropped.
NoFlip(i) ==
  /\ pc[i] = "flip"
  /\ Slips(i, TRUE)
  /\ Goto(i, "remove")
  /\ UNCHANGED <<files, sample_json, promised>>

EndFlip(i) ==
  /\ pc[i] = "flipping"
  /\ \E got \in {jpg_old[i], Torn} :
       /\ jpg' = Put(jpg, i, got)
       /\ Slips(i, got # jpg_old[i])
  /\ Goto(i, "remove")
  /\ UNCHANGED <<mp3, wav, jpg_new, jpg_old, sample_json, promised>>

\* rm
Remove(i) ==
  /\ pc[i] = "remove"
  /\ jpg_old' \in {jpg_old, Put(jpg_old, i, None)}
  /\ Goto(i, "publish")
  /\ UNCHANGED <<mp3, wav, jpg_new, jpg, slipped, sample_json, promised>>

\* system returns -1 for one of the three commands: continue.
NoCommand(i) ==
  /\ pc[i] \in {"copy", "flip", "remove"}
  /\ Goto(i, "record")
  /\ UNCHANGED <<files, slipped, sample_json, promised>>

\* Under socket_mutex; then socket_cv.notify_all().
Publish(i) ==
  /\ pc[i] = "publish"
  /\ sample_json' = i
  /\ promised' = IF i \in slipped THEN None ELSE 0
  /\ Goto(i, "record")
  /\ UNCHANGED <<files, slipped>>

\* The process ends between any two steps (libjpeg's error exit, an i.jpg.new
\* that cannot be opened, a signal) and is started again when its child
\* processes have ended, too.  The files stay.
Restart ==
  /\ pc' = [i \in Threads |-> "record"]
  /\ slipped' = {}
  /\ sample_json' = None
  /\ promised' = None
  /\ UNCHANGED files

-----------------------------------------------------------------------------
Round(i) ==
  \/ StartRound(i) \/ ForkFails(i)
  \/ CurlDone(i) \/ CurlFails(i) \/ Convert(i)
  \/ NoRecording(i) \/ BeginImage(i) \/ FinishImage(i) \/ TooShort(i)
  \/ Copy(i) \/ BeginFlip(i) \/ NoFlip(i) \/ EndFlip(i) \/ Remove(i)
  \/ NoCommand(i) \/ Publish(i)

Next == (\E i \in Threads : Round(i)) \/ Restart

Spec == Init /\ [][Next]_vars

-----------------------------------------------------------------------------
(***************************************************************************)
(* The image clients are told to fetch is complete and is the recording    *)
(* made at the time they are told, from the announcement on until another  *)
(* is announced or its own thread has drawn the next one and jpegtran      *)
(* begins to write it, unless a command of its round went wrong unnoticed: *)
(* no early way out of a round, of this thread or another, leaves anything *)
(* behind that a later round announces as new (main.cpp 205-400).          *)
(***************************************************************************)
AnnouncedHonest ==
  promised # None => sample_json # None /\ jpg[sample_json] = promised
=============================================================================
