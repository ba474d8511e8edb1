---------------------------- MODULE ImageThread ----------------------------
(***************************************************************************)
(* The image thread of myServer's IQWebSocketServer and the row producer   *)
(* that feeds it.  The main loop computes one spectrogram row at a time    *)
(* (writeToBuffer), copies it into magnitude_buffer under image_mutex and  *)
(* notifies image_cv.  The image thread, holding image_mutex from the      *)
(* moment it is woken until it waits again, opens a new JPEG when one is   *)
(* due (openFile), appends the row to every JPEG being written, and closes *)
(* and announces the JPEG that has become full (closeFile).                *)
(*                                                                         *)
(* Row contents are left out; what a row does to the files is not.         *)
(***************************************************************************)
EXTENDS Integers, FiniteSets

CONSTANTS
  NumSlots,     \* entries of file_pointers, file_rows, ... (4 in the code)
  ImageHeight,  \* rows of a complete image (2153)
  Stagger,      \* rows the previous slot must have before a slot opens (538)
  NumNames,     \* file names are reused after this many (40)
  GarbageRows,  \* what an uninitialised file_rows entry may hold
  EarlyFlush,   \* libjpeg buffers its output: it may touch the file with this
  LateFlush,    \* row (8, the first blocks), and has with this one (about 320)
  MaxFailures   \* of the last NumNames names, fopen refused at most so many

ASSUME ParamAssumption ==
  /\ NumSlots \in Nat \ {0}
  /\ ImageHeight \in Nat \ {0}
  /\ Stagger \in Nat \ {0}
  /\ NumNames \in Nat \ {0}
  /\ GarbageRows \subseteq Int /\ 0 \in GarbageRows
  /\ EarlyFlush \in 2 .. LateFlush /\ LateFlush \in 2 .. Stagger
  /\ MaxFailures \in Nat

Slots   == 0 .. NumSlots - 1
Names   == 0 .. NumNames - 1
NoImage == -1           \* sample_json before the first image

VARIABLES
  file_pointers,   \* per slot: "null", "open", or "wild" (never initialised)
  file_rows,       \* per slot: rows written so far
  file_atomics,    \* per slot: does the write loop feed this slot?
  file_names,      \* per slot: the name last given to it
  fileless,        \* slots compressing an image for which fopen returned NULL
  file_name_index, \* the next name
  first_file,      \* has a file ever been opened?
  disk,            \* per name: what the web root holds under that name
  unopened,        \* history: names whose last fopen returned NULL
  closing,         \* the slot closeFile is working on
  sample_json,     \* the name announced to clients
  pc,              \* where the image thread is
  producer         \* where writeToBuffer is

fileVars == <<file_pointers, file_rows, file_atomics, file_names, fileless,
              file_name_index, first_file, unopened>>
webVars  == <<disk, closing, sample_json>>
vars     == <<fileVars, webVars, pc, producer>>

Holding == {"open", "write", "close", "flip", "publish"}  \* owns image_mutex
Labels  == Holding \cup {"idle", "waiting", "woken", "fault"}
\* "spoilt" is whatever mv, jpegtran and rm leave when one of them fails.
Forms   == {"absent", "partial", "raw", "flipped", "spoilt"}

TypeOK ==
  /\ file_pointers \in [Slots -> {"null", "open", "wild"}]
  /\ file_rows \in [Slots -> Int]
  /\ file_atomics \in [Slots -> BOOLEAN]
  /\ file_names \in [Slots -> Names]
  /\ fileless \in SUBSET Slots
  /\ file_name_index \in Names
  /\ first_file \in BOOLEAN
  /\ unopened \in SUBSET Names
  /\ disk \in [Names -> Forms]
  /\ closing \in Slots
  /\ sample_json \in Names \cup {NoImage}
  /\ pc \in Labels
  /\ producer \in {"copy", "notify"}

(***************************************************************************)
(* The constructor does not initialise file_pointers, file_rows and        *)
(* file_atomics, so Init lets them hold anything; ZeroedInit is the        *)
(* outcome in which the allocator hands out zeroed memory.                 *)
(***************************************************************************)
Init ==
  /\ file_pointers \in [Slots -> {"null", "wild"}]
  /\ file_rows \in [Slots -> GarbageRows]
  /\ file_atomics \in [Slots -> BOOLEAN]
  /\ file_names = [i \in Slots |-> 0]
  /\ fileless = {}
  /\ file_name_index = 0
  /\ first_file = FALSE
  /\ unopened = {}
  /\ disk = [n \in Names |-> "absent"]
  /\ closing = 0
  /\ sample_json = NoImage
  /\ pc = "idle"
  /\ producer = "copy"

ZeroedInit ==
  /\ Init
  /\ file_pointers = [i \in Slots |-> "null"]
  /\ file_rows = [i \in Slots |-> 0]
  /\ file_atomics = [i \in Slots |-> FALSE]

-----------------------------------------------------------------------------
(* The row handoff *)

\* writeToBuffer: lock image_mutex, memcpy, unlock.
CopyRow ==
  /\ producer = "copy"
  /\ pc \notin Holding \cup {"fault"}
  /\ producer' = "notify"
  /\ UNCHANGED <<fileVars, webVars, pc>>

\* image_cv.notify_all(): lost unless the image thread is already waiting.
NotifyRow ==
  /\ producer = "notify"
  /\ pc # "fault"
  /\ producer' = "copy"
  /\ pc' = IF pc = "waiting" THEN "woken" ELSE pc
  /\ UNCHANGED <<fileVars, webVars>>

\* Lock image_mutex and wait on image_cv, which releases it; no predicate.
Park ==
  /\ pc = "idle"
  /\ pc' = "waiting"
  /\ UNCHANGED <<fileVars, webVars, producer>>

\* A condition variable may return from wait without a notification.
SpuriousWakeup ==
  /\ pc = "waiting"
  /\ pc' = "woken"
  /\ UNCHANGED <<fileVars, webVars, producer>>

\* The woken thread gets image_mutex back and enters openFile.
Resume ==
  /\ pc = "woken"
  /\ pc' = "open"
  /\ UNCHANGED <<fileVars, webVars, producer>>

-----------------------------------------------------------------------------
(* openFile, the write loop and closeFile *)

Lowest(i, S) == i \in S /\ \A j \in S : i <= j

\* Slipped form: no wrap-around to the last slot.
PreviousNoWrap(i) == IF i = 0 THEN 0 ELSE i - 1

Previous(i) == IF i = 0 THEN NumSlots - 1 ELSE i - 1

\* Slipped form: any free slot will do.
OpenableUnstaggered == {i \in Slots : file_pointers[i] = "null"}

\* Slipped form: a slot that is being fed is not tried again.
OpenableOnce ==
  {i \in Slots : /\ file_pointers[i] = "null" /\ ~file_atomics[i]
                 /\ first_file => file_rows[Previous(i)] >= Stagger}

Openable ==
  {i \in Slots : /\ file_pointers[i] = "null"
                 /\ first_file => file_rows[Previous(i)] >= Stagger}

\* Slipped forms: the index is never reset; it is reset one slot round too early.
NextNameNoReset(n) == n + 1
NextNameEarly(n)   == IF n + 1 >= NumSlots THEN 0 ELSE n + 1

NextName(n) == IF n + 1 >= NumNames THEN 0 ELSE n + 1

NothingToOpen ==
  /\ pc = "open"
  /\ Openable = {}
  /\ pc' = "write"
  /\ UNCHANGED <<fileVars, webVars, producer>>

\* What openFile does to its slot whether or not fopen succeeds.
TakeSlot(i) ==
  /\ pc = "open"
  /\ Lowest(i, Openable)
  /\ file_names' = [file_names EXCEPT ![i] = file_name_index]
  /\ file_rows' = [file_rows EXCEPT ![i] = 0]
  /\ file_atomics' = [file_atomics EXCEPT ![i] = TRUE]
  /\ file_name_index' = NextName(file_name_index)
  /\ first_file' = TRUE
  /\ pc' = "write"
  /\ UNCHANGED <<closing, sample_json, producer>>

OpenFile(i) ==
  /\ TakeSlot(i)
  /\ file_pointers' = [file_pointers EXCEPT ![i] = "open"]
  /\ fileless' = fileless \ {i}
  /\ unopened' = unopened \ {file_name_index}
  /\ disk' = [disk EXCEPT ![file_name_index] = "partial"]

(***************************************************************************)
(* fopen returns NULL and nothing checks it: the slot stays free, so that  *)
(* the next row tries it again under the next name if it is still due, but *)
(* its compressor has been started and is fed.  The last conjunct is the   *)
(* bound on the failures of the environment.                               *)
(***************************************************************************)
OpenFileFails(i) ==
  /\ TakeSlot(i)
  /\ fileless' = fileless \cup {i}
  /\ unopened' = unopened \cup {file_name_index}
  /\ UNCHANGED <<file_pointers, disk>>
  /\ Cardinality(unopened') <= MaxFailures

(***************************************************************************)
(* Would the next row of slot i, written by jpeg_write_scanlines, go to a  *)
(* file that is not there?  A compressor started without one fills its     *)
(* buffer first; one that was never started is garbage from the beginning. *)
(***************************************************************************)
MayFlush(i) ==
  /\ file_atomics[i] /\ file_pointers[i] # "open"
  /\ i \in fileless => file_rows[i] + 1 >= EarlyFlush

MustFlush(i) ==
  /\ file_atomics[i] /\ file_pointers[i] # "open"
  /\ i \in fileless => file_rows[i] + 1 >= LateFlush

WriteRow ==
  /\ pc = "write"
  /\ \A i \in Slots : ~MustFlush(i)
  /\ file_rows' = [i \in Slots |-> IF file_atomics[i] THEN file_rows[i] + 1
                                                      ELSE file_rows[i]]
  /\ pc' = "close"
  /\ UNCHANGED <<file_pointers, file_atomics, file_names, fileless,
                 file_name_index, first_file, unopened, webVars, producer>>

WriteFaults ==
  /\ pc = "write"
  /\ \E i \in Slots : MayFlush(i)
  /\ pc' = "fault"
  /\ UNCHANGED <<fileVars, webVars, producer>>

\* Slipped form: one row too many.
DueLate == {i \in Slots : file_pointers[i] # "null" /\ file_rows[i] > ImageHeight}

Due == {i \in Slots : file_pointers[i] # "null" /\ file_rows[i] >= ImageHeight}

NothingToClose ==
  /\ pc = "close"
  /\ Due = {}
  /\ pc' = "idle"
  /\ UNCHANGED <<fileVars, webVars, producer>>

CloseFile(i) ==
  /\ pc = "close"
  /\ Lowest(i, Due)
  /\ file_pointers[i] = "open"
  /\ file_pointers' = [file_pointers EXCEPT ![i] = "null"]
  /\ file_rows' = [file_rows EXCEPT ![i] = 0]
  /\ file_atomics' = [file_atomics EXCEPT ![i] = FALSE]
  /\ disk' = [disk EXCEPT ![file_names[i]] = "raw"]
  /\ closing' = i
  /\ pc' = "flip"
  /\ UNCHANGED <<file_names, fileless, file_name_index, first_file, unopened,
                 sample_json, producer>>

\* jpeg_finish_compress and fclose on a pointer nobody assigned.
CloseFaults(i) ==
  /\ pc = "close"
  /\ Lowest(i, Due)
  /\ file_pointers[i] = "wild"
  /\ pc' = "fault"
  /\ UNCHANGED <<fileVars, webVars, producer>>

\* mv, jpegtran -flip, rm; the statuses of the three commands are ignored.
FlipImage ==
  /\ pc = "flip"
  /\ \E form \in {"flipped", "spoilt"} :
       disk' = [disk EXCEPT ![file_names[closing]] = form]
  /\ pc' = "publish"
  /\ UNCHANGED <<fileVars, closing, sample_json, producer>>

\* Slipped form: announces the name of the newest image, not of the closed one.
PublishNewest ==
  /\ pc = "publish"
  /\ sample_json' = file_name_index
  /\ pc' = "idle"
  /\ UNCHANGED <<fileVars, disk, closing, producer>>

\* Set sample_json under socket_mutex, then socket_cv.notify_all().
Publish ==
  /\ pc = "publish"
  /\ sample_json' = file_names[closing]
  /\ pc' = "idle"
  /\ UNCHANGED <<fileVars, disk, closing, producer>>

-----------------------------------------------------------------------------
ProducerStep == CopyRow \/ NotifyRow

ImageStep ==
  \/ Park \/ Resume
  \/ NothingToOpen \/ \E i \in Slots : OpenFile(i) \/ OpenFileFails(i)
  \/ WriteRow \/ WriteFaults
  \/ NothingToClose \/ \E i \in Slots : CloseFile(i) \/ CloseFaults(i)
  \/ FlipImage \/ Publish

Next == ProducerStep \/ ImageStep \/ SpuriousWakeup

\* The radio keeps delivering rows and the scheduler runs both threads.
Fairness == WF_vars(ProducerStep) /\ WF_vars(ImageStep)

Spec == Init /\ [][Next]_vars /\ Fairness

-----------------------------------------------------------------------------
OpenSlots == {i \in Slots : file_pointers[i] = "open"}

Staggered ==
  \A i, j \in OpenSlots :
    i # j => \/ file_rows[i] >= file_rows[j] + Stagger
             \/ file_rows[j] >= file_rows[i] + Stagger

(***************************************************************************)
(* An image is closed when it has exactly ImageHeight rows and never later *)
(* (closeFile looks at one slot per row, IQWebSocketServer.cpp:383-391):   *)
(* a file that holds ImageHeight rows is being closed in this very pass,   *)
(* unless that pass is the one in which the thread dies.                   *)
(***************************************************************************)
WholeImages ==
  \A i \in OpenSlots :
    /\ file_rows[i] <= ImageHeight
    /\ file_rows[i] = ImageHeight => pc \in {"close", "fault"}

(***************************************************************************)
(* On zeroed memory two images being written are always at least Stagger   *)
(* rows apart, which is what the test on the previous slot in openFile is  *)
(* for (line 308).                                                         *)
(***************************************************************************)
StaggeredFiles == ZeroedInit => []Staggered

(***************************************************************************)
(* The image clients are told to fetch is done and, if the commands of     *)
(* closeFile worked, complete and upright, and stays so until the next     *)
(* announcement: rotating the names never hands its file back to openFile  *)
(* too early, even when failed fopen calls use names up.                   *)
(***************************************************************************)
AnnouncedServable ==
  sample_json \in Names => disk[sample_json] \in {"flipped", "spoilt"}

\* How many names before a, counting round, the name b was handed out.
Ago(a, b) == IF b < a THEN a - b ELSE a - b + NumNames

\* How many names ago n was handed out, if it was at all.
Age(n) == Ago(file_name_index, n)

(***************************************************************************)
(* Images are announced in the order they were opened: the slots, reused   *)
(* out of step with the names, close first-in first-out, and the names     *)
(* left out are those for which fopen failed.                              *)
(***************************************************************************)
AnnouncedInOrder ==
  [][sample_json' # sample_json =>
       /\ Age(sample_json') < Age(sample_json)
       /\ \A n \in Names \ unopened :
            ~(Age(sample_json') < Age(n) /\ Age(n) < Age(sample_json))]_sample_json

\* The images announced after n.
AnnouncedSince(n) ==
  {m \in Names \ unopened : Age(sample_json) <= Age(m) /\ Age(m) < Age(n)}

(***************************************************************************)
(* A complete image stays as it is for NumNames - NumSlots announcements   *)
(* (36), less one for every name in the rotation that a failed fopen used  *)
(* up: a client that fetches what it was told to fetch no later than that  *)
(* gets the image whose time it shows (main.dart:893-909).                 *)
(***************************************************************************)
RecentImagesStay ==
  [][\A n \in Names : disk[n] = "flipped" /\ disk'[n] # "flipped" =>
       Cardinality(AnnouncedSince(n))
         >= NumNames - NumSlots - Cardinality(unopened)]_disk

(***************************************************************************)
(* The image thread is an ImageFeed: it draws the images of its open slots *)
(* and of the slot it is closing.                                          *)
(***************************************************************************)
Drawing ==
  {file_names[i] : i \in OpenSlots}
    \cup {file_names[i] : i \in {j \in {closing} : pc \in {"flip", "publish"}}}

Feed == INSTANCE ImageFeed
  WITH Images <- Names, Nothing <- NoImage,
       drawing <- Drawing, announced <- sample_json, broken <- (pc = "fault")

FeedImplemented == Feed!Spec

(***************************************************************************)
(* A failed fopen is survived: the slot is tried again while the previous  *)
(* one is being written, long before its compressor flushes.  Only the     *)
(* very first file has no previous one that would let openFile try again   *)
(* (line 308), and costs the thread its life.                              *)
(***************************************************************************)
OutageSurvived ==
  ZeroedInit => [](pc = "fault" => \A n \in Names : disk[n] = "absent")

(***************************************************************************)
(* On zeroed memory images keep being announced, unless the first file     *)
(* cannot be opened: no notification is lost for good, the slots never     *)
(* block each other, and a slot whose fopen failed gets a file in time.    *)
(***************************************************************************)
ImagesKeepComing ==
  ZeroedInit => \/ []<>(pc = "publish")
                \/ <>(pc = "fault" /\ sample_json = NoImage)
=============================================================================
