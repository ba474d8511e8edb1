------------------------- MODULE ImageThreadProofs -------------------------
(***************************************************************************)
(* Proofs about ImageThread, for every number of slots, image height,      *)
(* stagger and number of names.                                            *)
(***************************************************************************)
EXTENDS ImageThread, FiniteSetTheorems, TLAPS

(* Previous is an injection of Slots into itself. *)
LEMMA PreviousInSlots == \A i \in Slots : Previous(i) \in Slots
BY ParamAssumption DEF Slots, Previous

LEMMA PreviousInjective ==
  \A i, j \in Slots : Previous(i) = Previous(j) => i = j
BY ParamAssumption DEF Slots, Previous

LEMMA NextNameInNames == \A n \in Names : NextName(n) \in Names
BY ParamAssumption DEF Names, NextName

-----------------------------------------------------------------------------
(* Type correctness *)

LEMMA InitTypeOK == Init => TypeOK
<1> USE ParamAssumption
<1> SUFFICES ASSUME Init PROVE TypeOK
    OBVIOUS
<1>1. file_rows \in [Slots -> Int]
  BY DEF Init
<1>2. 0 \in Slots /\ 0 \in Names
  BY DEF Slots, Names
<1> QED
  BY <1>1, <1>2 DEF Init, TypeOK, Labels, Forms, NoImage

LEMMA NextTypeOK == TypeOK /\ [Next]_vars => TypeOK'
<1> USE ParamAssumption DEF TypeOK, fileVars, webVars
<1> SUFFICES ASSUME TypeOK, [Next]_vars PROVE TypeOK'
    OBVIOUS
<1> USE DEF Labels, Holding
<1>1. CASE CopyRow
  BY <1>1 DEF CopyRow
<1>2. CASE NotifyRow
  BY <1>2 DEF NotifyRow
<1>3. CASE Park
  BY <1>3 DEF Park
<1>4. CASE SpuriousWakeup
  BY <1>4 DEF SpuriousWakeup
<1>5. CASE Resume
  BY <1>5 DEF Resume
<1>6. CASE NothingToOpen
  BY <1>6 DEF NothingToOpen
<1>7. ASSUME NEW i \in Slots, TakeSlot(i)
      PROVE  /\ file_rows' \in [Slots -> Int]
             /\ file_atomics' \in [Slots -> BOOLEAN]
             /\ file_names' \in [Slots -> Names]
             /\ file_name_index' \in Names
             /\ first_file' \in BOOLEAN
             /\ closing' \in Slots
             /\ sample_json' \in Names \cup {NoImage}
             /\ pc' \in Labels
             /\ producer' \in {"copy", "notify"}
  BY <1>7, NextNameInNames DEF TakeSlot
<1>8. ASSUME NEW i \in Slots, OpenFile(i) PROVE TypeOK'
  BY <1>7, <1>8 DEF OpenFile, Forms
<1>9. ASSUME NEW i \in Slots, OpenFileFails(i) PROVE TypeOK'
  BY <1>7, <1>9 DEF OpenFileFails
<1>10. CASE WriteRow
  BY <1>10 DEF WriteRow
<1>11. CASE WriteFaults
  BY <1>11 DEF WriteFaults
<1>12. CASE NothingToClose
  BY <1>12 DEF NothingToClose
<1>13. ASSUME NEW i \in Slots, CloseFile(i) PROVE TypeOK'
  BY <1>13 DEF CloseFile, Forms
<1>14. ASSUME NEW i \in Slots, CloseFaults(i) PROVE TypeOK'
  BY <1>14 DEF CloseFaults
<1>15. CASE FlipImage
  <2>1. PICK form \in {"flipped", "spoilt"} :
          disk' = [disk EXCEPT ![file_names[closing]] = form]
    BY <1>15 DEF FlipImage
  <2>2. disk' \in [Names -> Forms]
    BY <2>1 DEF Forms
  <2> QED
    BY <1>15, <2>2 DEF FlipImage
<1>16. CASE Publish
  BY <1>16 DEF Publish
<1>17. CASE UNCHANGED vars
  BY <1>17 DEF vars
<1> QED
  BY <1>1, <1>2, <1>3, <1>4, <1>5, <1>6, <1>8, <1>9, <1>10, <1>11, <1>12,
     <1>13, <1>14, <1>15, <1>16, <1>17
  DEF Next, ProducerStep, ImageStep

(***************************************************************************)
(* Every variable keeps its type, whatever the uninitialised members of    *)
(* IQWebSocketServer hold when the image thread starts.                    *)
(***************************************************************************)
THEOREM TypeCorrect == Spec => []TypeOK
<1>1. Init => TypeOK
  BY InitTypeOK
<1>2. TypeOK /\ [Next]_vars => TypeOK'
  BY NextTypeOK
<1> QED
  BY <1>1, <1>2, PTL DEF Spec
-----------------------------------------------------------------------------
(***************************************************************************)
(* Whole images.  closeFile looks at one slot per row, so two slots that   *)
(* reached ImageHeight together would leave one of them too long.  They    *)
(* cannot: a slot opens with 0 rows when every open slot has at least 1,   *)
(* and from then on every open slot gains a row with every pass.           *)
(***************************************************************************)
DistinctRows ==
  \A i, j \in OpenSlots : i # j => file_rows[i] # file_rows[j]

FedWhileOpen == \A i \in OpenSlots : file_atomics[i]

RowRange ==
  \A i \in OpenSlots :
    /\ file_rows[i] \in 0 .. ImageHeight
    /\ file_rows[i] = 0 => pc \in {"write", "fault"}
    /\ file_rows[i] = ImageHeight => pc \in {"close", "fault"}

WholeInv == TypeOK /\ DistinctRows /\ FedWhileOpen /\ RowRange

LEMMA InitWholeInv == Init => WholeInv
<1> SUFFICES ASSUME Init PROVE WholeInv
    OBVIOUS
<1>1. OpenSlots = {}
  BY DEF Init, OpenSlots
<1> QED
  BY <1>1, InitTypeOK DEF WholeInv, DistinctRows, FedWhileOpen, RowRange

\* Steps that leave the files alone and do not leave "close" or "write".
LEMMA QuietWholeInv ==
  ASSUME WholeInv, TypeOK', UNCHANGED <<file_pointers, file_rows, file_atomics>>,
         \A i \in OpenSlots :
           /\ file_rows[i] = 0 => pc' \in {"write", "fault"}
           /\ file_rows[i] = ImageHeight => pc' \in {"close", "fault"}
  PROVE  WholeInv'
BY DEF WholeInv, DistinctRows, FedWhileOpen, RowRange, OpenSlots

LEMMA NextWholeInv == WholeInv /\ [Next]_vars => WholeInv'
<1> USE ParamAssumption
<1> SUFFICES ASSUME WholeInv, [Next]_vars PROVE WholeInv'
    OBVIOUS
<1>t. TypeOK /\ TypeOK'
  BY NextTypeOK DEF WholeInv
<1> USE <1>t
<1>1. ASSUME UNCHANGED <<file_pointers, file_rows, file_atomics>>,
             pc \notin {"write", "close", "fault"} \/ pc' = pc \/ pc' = "fault"
      PROVE  WholeInv'
  BY <1>1, QuietWholeInv DEF WholeInv, RowRange
<1>2. CASE ProducerStep
  BY <1>1, <1>2 DEF ProducerStep, CopyRow, NotifyRow, fileVars, Holding
<1>3. CASE Park \/ SpuriousWakeup \/ Resume \/ NothingToOpen
  BY <1>1, <1>3 DEF Park, SpuriousWakeup, Resume, NothingToOpen, fileVars
<1>4. ASSUME NEW i \in Slots, OpenFile(i) PROVE WholeInv'
  <2>1. /\ pc = "open" /\ pc' = "write"
        /\ file_pointers[i] = "null"
        /\ file_pointers' = [file_pointers EXCEPT ![i] = "open"]
        /\ file_rows' = [file_rows EXCEPT ![i] = 0]
        /\ file_atomics' = [file_atomics EXCEPT ![i] = TRUE]
    BY <1>4 DEF OpenFile, TakeSlot, Lowest, Openable
  <2>2. OpenSlots' = OpenSlots \cup {i}
    BY <2>1 DEF OpenSlots, TypeOK
  <2>3. \A j \in OpenSlots : /\ j # i /\ j \in Slots
                             /\ file_rows'[j] = file_rows[j]
                             /\ file_rows[j] \in 1 .. ImageHeight - 1
                             /\ file_atomics'[j]
    BY <2>1 DEF OpenSlots, TypeOK, WholeInv, RowRange, FedWhileOpen
  <2>4. file_rows'[i] = 0 /\ file_atomics'[i]
    BY <2>1 DEF TypeOK
  <2>5. DistinctRows'
    BY <2>2, <2>3, <2>4 DEF WholeInv, DistinctRows
  <2>6. FedWhileOpen' /\ RowRange'
    BY <2>1, <2>2, <2>3, <2>4 DEF FedWhileOpen, RowRange
  <2> QED
    BY <2>5, <2>6 DEF WholeInv
<1>5. ASSUME NEW i \in Slots, OpenFileFails(i) PROVE WholeInv'
  <2>1. /\ pc = "open" /\ pc' = "write"
        /\ i \notin OpenSlots /\ OpenSlots' = OpenSlots
    BY <1>5 DEF OpenFileFails, TakeSlot, Lowest, Openable, OpenSlots
  <2>2. \A j \in OpenSlots : /\ j \in Slots /\ j # i
                             /\ file_rows'[j] = file_rows[j]
                             /\ file_atomics'[j] = file_atomics[j]
                             /\ file_rows[j] # ImageHeight
    BY <1>5, <2>1
    DEF OpenFileFails, TakeSlot, OpenSlots, TypeOK, WholeInv, RowRange
  <2> QED
    BY <2>1, <2>2 DEF WholeInv, DistinctRows, FedWhileOpen, RowRange
<1>6. CASE WriteRow
  <2>1. /\ pc = "write" /\ pc' = "close"
        /\ OpenSlots' = OpenSlots /\ file_atomics' = file_atomics
    BY <1>6 DEF WriteRow, OpenSlots
  <2>2. \A j \in OpenSlots : /\ file_rows'[j] = file_rows[j] + 1
                             /\ file_rows[j] \in 0 .. ImageHeight - 1
    BY <1>6, <2>1 DEF WriteRow, OpenSlots, WholeInv, FedWhileOpen, RowRange, TypeOK
  <2>3. DistinctRows'
    BY <2>1, <2>2 DEF WholeInv, DistinctRows
  <2>4. FedWhileOpen' /\ RowRange'
    BY <2>1, <2>2 DEF WholeInv, FedWhileOpen, RowRange
  <2> QED
    BY <2>3, <2>4 DEF WholeInv
<1>7. CASE WriteFaults
  BY <1>1, <1>7 DEF WriteFaults, fileVars
<1>8. CASE NothingToClose
  <2>1. \A i \in OpenSlots : file_rows[i] # ImageHeight /\ file_rows[i] # 0
    BY <1>8 DEF NothingToClose, Due, OpenSlots, WholeInv, RowRange, TypeOK
  <2> QED
    BY <1>8, <2>1, QuietWholeInv DEF NothingToClose, fileVars
<1>9. ASSUME NEW i \in Slots, CloseFile(i) PROVE WholeInv'
  <2>1. /\ pc = "close" /\ i \in OpenSlots
        /\ file_rows[i] = ImageHeight
        /\ OpenSlots' = OpenSlots \ {i}
    BY <1>9 DEF CloseFile, Lowest, Due, OpenSlots, WholeInv, RowRange, TypeOK
  <2>2. \A j \in OpenSlots' : /\ j \in OpenSlots /\ j # i
                              /\ file_rows'[j] = file_rows[j]
                              /\ file_atomics'[j] = file_atomics[j]
    BY <1>9, <2>1 DEF CloseFile, OpenSlots, TypeOK
  <2>3. \A j \in OpenSlots' : file_rows[j] \in 1 .. ImageHeight - 1
    BY <2>1, <2>2 DEF WholeInv, RowRange, DistinctRows
  <2> QED
    BY <2>2, <2>3 DEF WholeInv, DistinctRows, FedWhileOpen, RowRange
<1>10. ASSUME NEW i \in Slots, CloseFaults(i) PROVE WholeInv'
  BY <1>1, <1>10 DEF CloseFaults, fileVars
<1>11. CASE FlipImage \/ Publish
  BY <1>1, <1>11 DEF FlipImage, Publish, fileVars
<1>12. CASE UNCHANGED vars
  BY <1>1, <1>12 DEF vars, fileVars
<1> QED
  BY <1>2, <1>3, <1>4, <1>5, <1>6, <1>7, <1>8, <1>9, <1>10, <1>11, <1>12
  DEF Next, ImageStep

(***************************************************************************)
(* No image is ever written past ImageHeight rows or kept open after it,   *)
(* whatever the uninitialised members hold (closeFile, lines 383-391).     *)
(***************************************************************************)
THEOREM ImagesAreWhole == Spec => []WholeImages
<1>1. Init => WholeInv
  BY InitWholeInv
<1>2. WholeInv /\ [Next]_vars => WholeInv'
  BY NextWholeInv
<1>3. WholeInv => WholeImages
  BY ParamAssumption DEF WholeInv, WholeImages, RowRange
<1> QED
  BY <1>1, <1>2, <1>3, PTL DEF Spec
-----------------------------------------------------------------------------
(***************************************************************************)
(* Staggered files.  openFile compares the new slot with the previous one  *)
(* only.  That is enough because the open slots form a chain: every open   *)
(* slot but the youngest is the previous slot of a younger open one.  A    *)
(* free slot whose previous slot is open can thus only follow the          *)
(* youngest, and if that one has Stagger rows then all have.               *)
(***************************************************************************)
Youngest(k) ==
  /\ k \in OpenSlots
  /\ \A j \in OpenSlots : file_rows[k] <= file_rows[j]
  /\ \A j \in OpenSlots \ {k} :
       \E m \in OpenSlots : Previous(m) = j /\ file_rows[m] < file_rows[j]

Chained == OpenSlots # {} => \E k \in Slots : Youngest(k)

\* A slot without a file is free, and a compressor without one young.
Cleared ==
  /\ \A i \in Slots \ OpenSlots :
       /\ file_pointers[i] = "null" /\ file_rows[i] < LateFlush
       /\ file_atomics[i] => i \in fileless
  /\ ~first_file => OpenSlots = {}

StaggerInv == WholeInv /\ Staggered /\ Chained /\ Cleared

LEMMA InitStaggerInv == ZeroedInit => StaggerInv
<1> USE ParamAssumption
<1> SUFFICES ASSUME ZeroedInit PROVE StaggerInv
    OBVIOUS
<1>1. OpenSlots = {}
  BY DEF ZeroedInit, OpenSlots
<1> QED
  BY <1>1, InitWholeInv
  DEF ZeroedInit, StaggerInv, Staggered, Chained, Cleared

\* Steps that leave the files alone.
LEMMA QuietStaggerInv ==
  ASSUME StaggerInv, WholeInv',
         UNCHANGED <<file_pointers, file_rows, file_atomics, fileless, first_file>>
  PROVE  StaggerInv'
BY DEF StaggerInv, Staggered, Chained, Cleared, Youngest, OpenSlots

\* A slot openFile may open has every open slot Stagger rows ahead of it.
LEMMA OpenableIsBehind ==
  ASSUME StaggerInv, NEW i \in Openable
  PROVE  /\ \A j \in OpenSlots : file_rows[j] >= Stagger
         /\ \A j \in OpenSlots : Youngest(j) => Previous(i) = j
<1> USE ParamAssumption
<1>1. CASE OpenSlots = {}
  BY <1>1
<1>2. CASE OpenSlots # {}
  <2> DEFINE p == Previous(i)
  <2>1. i \in Slots /\ i \notin OpenSlots /\ p \in Slots
    BY PreviousInSlots DEF Openable, OpenSlots
  <2>2. file_rows[p] >= Stagger
    BY <1>2 DEF StaggerInv, Cleared, Openable
  <2>3. p \in OpenSlots
    BY <2>1, <2>2 DEF StaggerInv, Cleared, WholeInv, TypeOK
  <2>4. \A k \in OpenSlots : Youngest(k) => p = k
    <3> SUFFICES ASSUME NEW k \in OpenSlots, Youngest(k), p # k PROVE FALSE
        OBVIOUS
    <3>1. PICK m \in OpenSlots : Previous(m) = p
      BY <2>3 DEF Youngest
    <3>2. m = i
      BY <2>1, <3>1, PreviousInjective DEF OpenSlots
    <3> QED
      BY <2>1, <3>2
  <2>5. PICK k \in OpenSlots : Youngest(k)
    BY <1>2 DEF StaggerInv, Chained, Youngest
  <2>6. \A j \in OpenSlots : file_rows[p] <= file_rows[j]
    BY <2>4, <2>5 DEF Youngest
  <2>7. \A j \in OpenSlots : file_rows[j] >= Stagger
    BY <2>1, <2>2, <2>6 DEF StaggerInv, WholeInv, TypeOK, OpenSlots
  <2> QED
    BY <2>4, <2>7
<1> QED
  BY <1>1, <1>2

LEMMA NextStaggerInv == StaggerInv /\ [Next]_vars => StaggerInv'
<1> USE ParamAssumption
<1> SUFFICES ASSUME StaggerInv, [Next]_vars PROVE StaggerInv'
    OBVIOUS
<1>w. WholeInv /\ WholeInv' /\ TypeOK /\ TypeOK'
  BY NextWholeInv DEF StaggerInv, WholeInv
<1> USE <1>w
<1>1. ASSUME UNCHANGED <<file_pointers, file_rows, file_atomics, fileless, first_file>>
      PROVE  StaggerInv'
  BY <1>1, QuietStaggerInv
<1>2. CASE ProducerStep
  BY <1>1, <1>2 DEF ProducerStep, CopyRow, NotifyRow, fileVars
<1>3. CASE Park \/ SpuriousWakeup \/ Resume \/ NothingToOpen
  BY <1>1, <1>3 DEF Park, SpuriousWakeup, Resume, NothingToOpen, fileVars
<1>4. ASSUME NEW i \in Slots, OpenFile(i) PROVE StaggerInv'
  <2>1. /\ i \in Openable /\ i \in Slots /\ i \notin OpenSlots
        /\ file_pointers' = [file_pointers EXCEPT ![i] = "open"]
        /\ file_rows' = [file_rows EXCEPT ![i] = 0]
        /\ file_atomics' = [file_atomics EXCEPT ![i] = TRUE]
        /\ first_file' = TRUE /\ fileless' = fileless \ {i}
    BY <1>4 DEF OpenFile, TakeSlot, Lowest, Openable, OpenSlots
  <2>2. /\ OpenSlots' = OpenSlots \cup {i}
        /\ file_rows'[i] = 0
        /\ \A j \in Slots \ {i} : file_rows'[j] = file_rows[j]
    BY <2>1 DEF OpenSlots, TypeOK
  <2>3. /\ \A j \in OpenSlots : file_rows[j] >= Stagger /\ file_rows[j] \in Int
        /\ \A j \in OpenSlots : Youngest(j) => Previous(i) = j
    BY <2>1, OpenableIsBehind DEF OpenSlots, TypeOK
  <2>4. Staggered'
    BY <2>1, <2>2, <2>3 DEF StaggerInv, Staggered, OpenSlots
  <2>5. Youngest(i)'
    <3>1. \A j \in OpenSlots' : file_rows'[i] <= file_rows'[j]
      BY <2>1, <2>2, <2>3 DEF OpenSlots
    <3>2. ASSUME NEW j \in OpenSlots
          PROVE  \E m \in OpenSlots' : Previous(m) = j /\ file_rows'[m] < file_rows'[j]
      <4>1. PICK k \in OpenSlots : Youngest(k)
        BY <3>2 DEF StaggerInv, Chained, Youngest
      <4>2. CASE j = k
        BY <2>1, <2>2, <2>3, <4>1, <4>2 DEF OpenSlots
      <4>3. CASE j # k
        <5>1. PICK m \in OpenSlots : Previous(m) = j /\ file_rows[m] < file_rows[j]
          BY <4>1, <4>3 DEF Youngest
        <5> QED
          BY <2>1, <2>2, <5>1 DEF OpenSlots
      <4> QED
        BY <4>2, <4>3
    <3> QED
      BY <2>2, <3>1, <3>2 DEF Youngest
  <2>6. Chained'
    BY <2>1, <2>5 DEF Chained
  <2>7. Cleared'
    BY <2>1, <2>2 DEF StaggerInv, Cleared, TypeOK
  <2> QED
    BY <2>4, <2>6, <2>7 DEF StaggerInv
<1>5. ASSUME NEW i \in Slots, OpenFileFails(i) PROVE StaggerInv'
  <2>1. /\ i \notin OpenSlots /\ OpenSlots' = OpenSlots
        /\ first_file' = TRUE /\ file_pointers' = file_pointers
        /\ file_rows' = [file_rows EXCEPT ![i] = 0]
        /\ file_atomics' = [file_atomics EXCEPT ![i] = TRUE]
        /\ fileless' = fileless \cup {i}
    BY <1>5 DEF OpenFileFails, TakeSlot, Lowest, Openable, OpenSlots
  <2>2. \A j \in OpenSlots : file_rows'[j] = file_rows[j]
    BY <2>1 DEF OpenSlots, TypeOK
  <2>3. Cleared'
    BY <2>1 DEF StaggerInv, Cleared, TypeOK
  <2>4. Staggered' /\ Chained'
    BY <2>1, <2>2 DEF StaggerInv, Staggered, Chained, Youngest
  <2> QED
    BY <2>3, <2>4 DEF StaggerInv
<1>6. CASE WriteRow
  <2>1. /\ OpenSlots' = OpenSlots /\ first_file' = first_file
        /\ UNCHANGED <<file_pointers, file_atomics, fileless>>
        /\ \A j \in OpenSlots : file_rows'[j] = file_rows[j] + 1 /\ file_rows[j] \in Int
    BY <1>6 DEF WriteRow, OpenSlots, WholeInv, FedWhileOpen, TypeOK
  <2>2. Staggered'
    BY <2>1 DEF StaggerInv, Staggered
  <2>3. ASSUME NEW k \in Slots, Youngest(k) PROVE Youngest(k)'
    BY <2>1, <2>3 DEF Youngest
  <2>4. Chained'
    BY <2>1, <2>3 DEF StaggerInv, Chained
  <2>5. \A j \in Slots \ OpenSlots : file_rows'[j] < LateFlush
    <3> SUFFICES ASSUME NEW j \in Slots \ OpenSlots PROVE file_rows'[j] < LateFlush
        OBVIOUS
    <3>1. file_atomics[j] => j \in fileless /\ file_rows[j] + 1 < LateFlush
      BY <1>6 DEF WriteRow, MustFlush, StaggerInv, Cleared, OpenSlots, TypeOK
    <3> QED
      BY <1>6, <3>1 DEF WriteRow, StaggerInv, Cleared, TypeOK
  <2>6. Cleared'
    BY <2>1, <2>5 DEF StaggerInv, Cleared
  <2> QED
    BY <2>2, <2>4, <2>6 DEF StaggerInv
<1>7. CASE WriteFaults
  BY <1>1, <1>7 DEF WriteFaults, fileVars
<1>8. CASE NothingToClose
  BY <1>1, <1>8 DEF NothingToClose, fileVars
<1>9. ASSUME NEW i \in Slots, CloseFile(i) PROVE StaggerInv'
  <2>1. /\ i \in OpenSlots /\ i \in Slots
        /\ file_rows[i] = ImageHeight
        /\ file_pointers' = [file_pointers EXCEPT ![i] = "null"]
        /\ file_rows' = [file_rows EXCEPT ![i] = 0]
        /\ file_atomics' = [file_atomics EXCEPT ![i] = FALSE]
        /\ first_file' = first_file /\ fileless' = fileless
    BY <1>9 DEF CloseFile, Lowest, Due, OpenSlots, WholeInv, RowRange, TypeOK
  <2>2. /\ OpenSlots' = OpenSlots \ {i}
        /\ file_rows'[i] = 0 /\ file_pointers'[i] = "null"
        /\ \A j \in Slots \ {i} : /\ file_rows'[j] = file_rows[j]
                                  /\ file_pointers'[j] = file_pointers[j]
    BY <2>1 DEF OpenSlots, TypeOK
  <2>3. \A j \in OpenSlots : file_rows[j] \in 0 .. ImageHeight
    BY DEF WholeInv, RowRange
  <2>4. Staggered' /\ Cleared'
    <3>1. ~file_atomics'[i] /\ \A j \in Slots \ {i} : file_atomics'[j] = file_atomics[j]
      BY <2>1 DEF TypeOK
    <3> QED
      BY <2>1, <2>2, <3>1 DEF StaggerInv, Staggered, Cleared, OpenSlots
  <2>5. ASSUME NEW k \in Slots, Youngest(k), OpenSlots' # {}
        PROVE  Youngest(k)'
    <3>1. k # i
      <4>1. PICK j \in OpenSlots : j # i
        BY <2>2, <2>5
      <4> QED
        BY <2>1, <2>3, <2>5, <4>1 DEF Youngest, WholeInv, DistinctRows
    <3>2. ASSUME NEW j \in OpenSlots' \ {k}
          PROVE  \E m \in OpenSlots' : Previous(m) = j /\ file_rows'[m] < file_rows'[j]
      <4>1. j \in OpenSlots \ {k}
        BY <2>2, <3>2
      <4>2. PICK m \in OpenSlots : Previous(m) = j /\ file_rows[m] < file_rows[j]
        BY <2>5, <4>1 DEF Youngest
      <4>3. m # i
        BY <2>1, <2>3, <4>1, <4>2
      <4> QED
        BY <2>2, <4>1, <4>2, <4>3, <3>2 DEF OpenSlots
    <3>3. k \in OpenSlots' /\ \A j \in OpenSlots' : file_rows'[k] <= file_rows'[j]
      BY <2>2, <2>5, <3>1 DEF Youngest, OpenSlots
    <3> QED
      BY <3>2, <3>3 DEF Youngest
  <2>6. Chained'
    BY <2>2, <2>5 DEF StaggerInv, Chained
  <2> QED
    BY <2>4, <2>6 DEF StaggerInv
<1>10. ASSUME NEW i \in Slots, CloseFaults(i) PROVE StaggerInv'
  BY <1>1, <1>10 DEF CloseFaults, fileVars
<1>11. CASE FlipImage \/ Publish
  BY <1>1, <1>11 DEF FlipImage, Publish, fileVars
<1>12. CASE UNCHANGED vars
  BY <1>1, <1>12 DEF vars, fileVars
<1> QED
  BY <1>2, <1>3, <1>4, <1>5, <1>6, <1>7, <1>8, <1>9, <1>10, <1>11, <1>12
  DEF Next, ImageStep

(***************************************************************************)
(* On zeroed memory, images being written stay at least Stagger rows apart *)
(* for every number of slots, although openFile looks at one other slot.   *)
(***************************************************************************)
THEOREM FilesAreStaggered == Spec => StaggeredFiles
<1>1. ZeroedInit => StaggerInv
  BY InitStaggerInv
<1>2. StaggerInv /\ [Next]_vars => StaggerInv'
  BY NextStaggerInv
<1>3. StaggerInv => Staggered
  BY DEF StaggerInv
<1> QED
  BY <1>1, <1>2, <1>3, PTL DEF Spec, StaggeredFiles

-----------------------------------------------------------------------------
(***************************************************************************)
(* The order in which images are announced, and how long their files stay. *)
(* There must be more names than slots and failed fopen calls together.    *)
(*                                                                         *)
(* Seen from file_name_index, the open slots have names the older the more *)
(* rows they have, and younger than the image that was closed last; a name *)
(* in between that belongs to no open slot is one fopen refused.  So that  *)
(* image is at most as many names away as there are slots and failures.    *)
(***************************************************************************)
LEMMA AgeRange ==
  ASSUME TypeOK, NEW n \in Names \cup {NoImage}
  PROVE  /\ Age(n) \in 1 .. NumNames
         /\ n = file_name_index => Age(n) = NumNames
         /\ n \in Names /\ n # file_name_index => Age(n) < NumNames
  BY ParamAssumption DEF TypeOK, Names, NoImage, Age, Ago

LEMMA AgeInjective ==
  ASSUME TypeOK, NEW m \in Names, NEW n \in Names, Age(m) = Age(n)
  PROVE  m = n
  BY ParamAssumption DEF TypeOK, Names, Age, Ago

LEMMA AgeOnto ==
  ASSUME TypeOK, NEW d \in 1 .. NumNames
  PROVE  \E n \in Names : Age(n) = d
<1> USE ParamAssumption DEF TypeOK, Names, Age, Ago
<1> DEFINE n == IF d <= file_name_index THEN file_name_index - d
                                        ELSE file_name_index - d + NumNames
<1>1. n \in Names /\ Age(n) = d
  OBVIOUS
<1> QED BY <1>1

\* When a name is handed out, the others grow older by one.
LEMMA AgeNext ==
  ASSUME TypeOK, file_name_index' = NextName(file_name_index)
  PROVE  \A n \in Names \cup {NoImage} :
           /\ n = file_name_index => Age(n)' = 1
           /\ Age(n) < NumNames => Age(n)' = Age(n) + 1
  BY ParamAssumption DEF TypeOK, Names, NoImage, Age, Ago, NextName

LEMMA ImageSize ==
  ASSUME NEW S, IsFiniteSet(S), NEW T, NEW f \in [S -> T],
         \A t \in T : \E x \in S : f[x] = t
  PROVE  IsFiniteSet(T) /\ Cardinality(T) <= Cardinality(S)
<1>1. f \in Surjection(S, T)
  BY DEF Surjection
<1> QED BY <1>1, FS_Surjection

\* At least d - 1 names were handed out since one that is d names old.
LEMMA YoungerNames ==
  ASSUME TypeOK, NEW d \in 1 .. NumNames
  PROVE  Cardinality({n \in Names : Age(n) < d}) >= d - 1
<1> DEFINE S == {n \in Names : Age(n) < d}
           T == 1 .. d - 1
           f == [n \in S |-> Age(n)]
<1>1. IsFiniteSet(Names)
  BY FS_Interval, ParamAssumption DEF Names
<1>2. IsFiniteSet(S)
  BY <1>1, FS_Subset
<1>3. f \in [S -> T]
  BY AgeRange, ParamAssumption
<1>4. ASSUME NEW t \in T PROVE \E x \in S : f[x] = t
  <2>1. t \in 1 .. NumNames
    BY ParamAssumption
  <2>2. PICK n \in Names : Age(n) = t
    BY <2>1, AgeOnto
  <2> QED BY <2>2
<1>5. Cardinality(T) <= Cardinality(S)
  <2> HIDE DEF S, T, f
  <2> QED BY <1>2, <1>3, <1>4, ImageSize
<1>6. Cardinality(T) = d - 1
  BY FS_Interval, ParamAssumption
<1> QED BY <1>5, <1>6

-----------------------------------------------------------------------------
(* How many names belong to open slots and to failures *)

OpenNames == {file_names[i] : i \in OpenSlots}

LEMMA SlotSets ==
  ASSUME NEW S \in SUBSET Slots
  PROVE  /\ IsFiniteSet(S) /\ Cardinality(S) \in 0 .. NumSlots
         /\ S # Slots => Cardinality(S) < NumSlots
<1>1. IsFiniteSet(Slots) /\ Cardinality(Slots) = NumSlots
  BY FS_Interval, ParamAssumption DEF Slots
<1>2. /\ IsFiniteSet(S) /\ Cardinality(S) <= Cardinality(Slots)
      /\ Cardinality(Slots) = Cardinality(S) => Slots = S
  BY <1>1, FS_Subset
<1>3. Cardinality(S) \in Nat
  BY <1>2, FS_CardinalityType
<1> QED BY <1>1, <1>2, <1>3, ParamAssumption

LEMMA NameSets ==
  ASSUME NEW S \in SUBSET Names
  PROVE  /\ IsFiniteSet(S) /\ Cardinality(S) \in 0 .. NumNames
         /\ \A T \in SUBSET S : Cardinality(T) <= Cardinality(S)
<1>1. IsFiniteSet(Names) /\ Cardinality(Names) = NumNames
  BY FS_Interval, ParamAssumption DEF Names
<1>2. IsFiniteSet(S) /\ Cardinality(S) <= Cardinality(Names)
  BY <1>1, FS_Subset
<1>3. Cardinality(S) \in Nat
  BY <1>2, FS_CardinalityType
<1>4. \A T \in SUBSET S : Cardinality(T) <= Cardinality(S)
  BY <1>2, FS_Subset
<1> QED BY <1>1, <1>2, <1>3, <1>4, ParamAssumption

LEMMA OpenNamesSize ==
  ASSUME TypeOK
  PROVE  OpenNames \in SUBSET Names /\ Cardinality(OpenNames) <= Cardinality(OpenSlots)
<1> DEFINE f == [i \in OpenSlots |-> file_names[i]]
<1>1. OpenSlots \in SUBSET Slots /\ IsFiniteSet(OpenSlots)
  BY SlotSets DEF OpenSlots
<1>2. f \in [OpenSlots -> OpenNames] /\ \A t \in OpenNames : \E i \in OpenSlots : f[i] = t
  BY DEF OpenNames
<1>3. Cardinality(OpenNames) <= Cardinality(OpenSlots)
  <2> HIDE DEF f
  <2> QED BY <1>1, <1>2, ImageSize
<1> QED BY <1>1, <1>3 DEF OpenNames, TypeOK

\* The size of a union is at most the sum of the sizes.
LEMMA UnionSize ==
  ASSUME NEW S \in SUBSET Names, NEW T \in SUBSET Names
  PROVE  Cardinality(S \cup T) <= Cardinality(S) + Cardinality(T)
<1>1. IsFiniteSet(S) /\ IsFiniteSet(T) /\ Cardinality(S) \in Int /\ Cardinality(T) \in Int
  BY NameSets
<1>2. Cardinality(S \cap T) \in Int /\ Cardinality(S \cap T) >= 0
  <2>1. S \cap T \in SUBSET Names
    OBVIOUS
  <2> QED BY <2>1, NameSets
<1>3. Cardinality(S \cup T) = Cardinality(S) + Cardinality(T) - Cardinality(S \cap T)
  BY <1>1, FS_Union
<1> QED BY <1>1, <1>2, <1>3

-----------------------------------------------------------------------------
\* The image that left the slots last.
LastClosed ==
  IF pc \in {"flip", "publish"} THEN file_names[closing] ELSE sample_json

OpenPlaced ==
  /\ \A i \in OpenSlots : /\ file_names[i] \notin unopened
                          /\ Age(file_names[i]) < Age(LastClosed)
  /\ \A i, j \in OpenSlots :
       file_rows[i] < file_rows[j] => Age(file_names[i]) < Age(file_names[j])
  /\ \A n \in Names \ unopened : Age(n) < Age(LastClosed) => n \in OpenNames

ClosedPlaced ==
  pc \in {"flip", "publish"} =>
    /\ closing \notin OpenSlots
    /\ Age(file_names[closing]) < Age(sample_json)
    /\ \A n \in Names \ unopened :
         ~(Age(file_names[closing]) < Age(n) /\ Age(n) < Age(sample_json))

Written ==
  /\ \A i \in OpenSlots : disk[file_names[i]] = "partial"
  /\ pc = "flip" => disk[file_names[closing]] = "raw"
  /\ pc = "publish" => disk[file_names[closing]] \in {"flipped", "spoilt"}
  /\ AnnouncedServable

OrderInv ==
  /\ WholeInv /\ Cardinality(unopened) <= MaxFailures
  /\ OpenPlaced /\ ClosedPlaced /\ Written

-----------------------------------------------------------------------------
LEMMA InitOrderInv == Init => OrderInv
<1> SUFFICES ASSUME Init PROVE OrderInv
    OBVIOUS
<1>1. OpenSlots = {} /\ WholeInv
  BY InitWholeInv DEF Init, OpenSlots
<1>2. Cardinality(unopened) = 0
  BY FS_EmptySet DEF Init
<1>3. Age(LastClosed) = 1 /\ \A n \in Names : Age(n) >= 1
  BY <1>1, AgeRange, ParamAssumption
  DEF Init, LastClosed, Age, Ago, NoImage, WholeInv
<1>4. OpenPlaced
  <2>1. \A n \in Names : Age(n) \in Int
    BY <1>1, AgeRange DEF WholeInv
  <2> QED BY <1>1, <1>3, <2>1 DEF OpenPlaced
<1> QED BY <1>1, <1>2, <1>4, ParamAssumption
        DEF Init, OrderInv, ClosedPlaced, Written, AnnouncedServable, Names, NoImage

\* Steps that leave the slots and the files alone.
LEMMA QuietOrderInv ==
  ASSUME OrderInv, WholeInv',
         UNCHANGED <<file_pointers, file_names, file_name_index, unopened, webVars>>,
         \A i, j \in OpenSlots : file_rows'[i] < file_rows'[j] => file_rows[i] < file_rows[j],
         \/ pc' = pc
         \/ pc \notin {"flip", "publish"} /\ pc' \notin {"flip", "publish"}
  PROVE  OrderInv'
<1>1. OpenSlots' = OpenSlots /\ OpenNames' = OpenNames
  BY DEF OpenSlots, OpenNames
<1>2. LastClosed' = LastClosed
  BY DEF LastClosed, webVars
<1>3. \A n : Age(n)' = Age(n)
  BY DEF Age
<1>4. OpenPlaced'
  BY <1>1, <1>2, <1>3 DEF OrderInv, OpenPlaced
<1>5. ClosedPlaced'
  BY <1>1, <1>3 DEF OrderInv, ClosedPlaced, webVars
<1>6. Written'
  BY <1>1 DEF OrderInv, Written, AnnouncedServable, webVars
<1> QED BY <1>4, <1>5, <1>6 DEF OrderInv

\* Whatever name is announced or being flipped or written is not the next one.
LEMMA LastClosedAge ==
  ASSUME NumSlots + MaxFailures < NumNames, OrderInv, OpenSlots # Slots
  PROVE  Age(LastClosed) < NumNames
<1> USE ParamAssumption
<1> DEFINE S == {n \in Names : Age(n) < Age(LastClosed)}
<1>t. TypeOK
  BY DEF OrderInv, WholeInv
<1>1. LastClosed \in Names \cup {NoImage}
  BY <1>t DEF LastClosed, TypeOK
<1>2. Age(LastClosed) \in 1 .. NumNames /\ Cardinality(S) >= Age(LastClosed) - 1
  BY <1>t, <1>1, AgeRange, YoungerNames
<1>3. S \in SUBSET (unopened \cup OpenNames)
  BY DEF OrderInv, OpenPlaced
<1>4. /\ unopened \in SUBSET Names /\ OpenNames \in SUBSET Names
      /\ unopened \cup OpenNames \in SUBSET Names
      /\ S \in SUBSET Names
  BY <1>t, OpenNamesSize DEF TypeOK
<1>5. Cardinality(S) <= Cardinality(unopened \cup OpenNames)
  <2> HIDE DEF S
  <2> QED BY <1>3, <1>4, NameSets
<1>6. Cardinality(OpenNames) <= NumSlots - 1
  <2>1. Cardinality(OpenSlots) \in 0 .. NumSlots - 1
    BY SlotSets DEF OpenSlots
  <2>2. Cardinality(OpenNames) \in Int
    BY <1>4, NameSets
  <2> QED BY <1>t, <2>1, <2>2, OpenNamesSize
<1>7. /\ Cardinality(unopened) \in Int /\ Cardinality(OpenNames) \in Int
      /\ Cardinality(unopened \cup OpenNames) \in Int /\ Cardinality(S) \in Int
      /\ Cardinality(unopened \cup OpenNames) <= Cardinality(unopened) + Cardinality(OpenNames)
  <2> HIDE DEF S
  <2> QED BY <1>4, NameSets, UnionSize
<1>8. Cardinality(unopened) <= MaxFailures
  BY DEF OrderInv
<1> QED
  <2> HIDE DEF S
  <2> QED BY <1>2, <1>5, <1>6, <1>7, <1>8

\* Handing out a name makes every name in use one older.
LEMMA TakeSlotAges ==
  ASSUME NumSlots + MaxFailures < NumNames, OrderInv, NEW i \in Slots, TakeSlot(i)
  PROVE  /\ i \notin OpenSlots /\ file_name_index \in Names
         /\ LastClosed = sample_json /\ LastClosed' = sample_json
         /\ sample_json # file_name_index
         /\ Age(sample_json) \in Int /\ Age(sample_json)' = Age(sample_json) + 1
         /\ \A n \in Names : n = file_name_index => Age(n)' = 1
         /\ \A n \in Names \ {file_name_index} :
              Age(n) \in 1 .. NumNames - 1 /\ Age(n)' = Age(n) + 1
         /\ \A j \in OpenSlots :
              /\ j # i /\ file_names[j] \in Names \ {file_name_index}
              /\ file_names'[j] = file_names[j] /\ file_rows'[j] = file_rows[j]
<1>t. TypeOK
  BY DEF OrderInv, WholeInv
<1>1. /\ pc = "open" /\ pc' = "write" /\ i \notin OpenSlots /\ file_name_index \in Names
      /\ file_name_index' = NextName(file_name_index)
      /\ file_names' = [file_names EXCEPT ![i] = file_name_index]
      /\ file_rows' = [file_rows EXCEPT ![i] = 0]
      /\ sample_json' = sample_json /\ sample_json \in Names \cup {NoImage}
  BY <1>t DEF TakeSlot, Lowest, Openable, OpenSlots, TypeOK
<1>2. LastClosed = sample_json /\ LastClosed' = sample_json
  BY <1>1 DEF LastClosed
<1>3. Age(sample_json) < NumNames
  BY <1>1, <1>2, LastClosedAge
<1>4. /\ Age(file_name_index) = NumNames
      /\ \A n \in Names \cup {NoImage} : Age(n) \in 1 .. NumNames
      /\ \A n \in Names \ {file_name_index} : Age(n) < NumNames
  BY <1>t, <1>1, AgeRange
<1>5. \A n \in Names \cup {NoImage} : /\ n = file_name_index => Age(n)' = 1
                                      /\ Age(n) < NumNames => Age(n)' = Age(n) + 1
  BY <1>t, <1>1, AgeNext
<1>6. \A j \in OpenSlots :
        /\ j # i /\ file_names[j] \in Names \ {file_name_index}
        /\ file_names'[j] = file_names[j] /\ file_rows'[j] = file_rows[j]
  <2> SUFFICES ASSUME NEW j \in OpenSlots
               PROVE  /\ j # i /\ file_names[j] \in Names \ {file_name_index}
                      /\ file_names'[j] = file_names[j] /\ file_rows'[j] = file_rows[j]
      OBVIOUS
  <2>1. j # i /\ j \in Slots /\ file_names[j] \in Names
    BY <1>t, <1>1 DEF OpenSlots, TypeOK
  <2>2. Age(file_names[j]) < Age(sample_json)
    BY <1>2 DEF OrderInv, OpenPlaced
  <2>3. file_names[j] # file_name_index
    BY <1>1, <1>3, <1>4, <2>1, <2>2, ParamAssumption
  <2> QED BY <1>t, <1>1, <2>1, <2>3 DEF TypeOK
<1>7. Age(sample_json)' = Age(sample_json) + 1
  <2>1. Ago(file_name_index', sample_json) = Age(sample_json) + 1
    BY <1>1, <1>3, <1>5 DEF Age
  <2> QED BY <1>1, <2>1 DEF Age
<1> QED BY <1>1, <1>2, <1>3, <1>4, <1>5, <1>6, <1>7, ParamAssumption

LEMMA OpenFileOrderInv ==
  ASSUME NumSlots + MaxFailures < NumNames, OrderInv, WholeInv', NEW i \in Slots, OpenFile(i)
  PROVE  OrderInv'
<1> USE ParamAssumption
<1>t. TypeOK /\ WholeInv
  BY DEF OrderInv, WholeInv
<1>a. TakeSlot(i)
  BY DEF OpenFile
<1>1. /\ pc = "open" /\ pc' = "write" /\ OpenSlots' = OpenSlots \cup {i}
      /\ file_names'[i] = file_name_index /\ file_rows'[i] = 0
      /\ unopened' = unopened \ {file_name_index}
      /\ disk' = [disk EXCEPT ![file_name_index] = "partial"]
      /\ UNCHANGED <<closing, sample_json>>
  BY <1>t DEF OpenFile, TakeSlot, OpenSlots, TypeOK
<1>2. OpenNames' = OpenNames \cup {file_name_index}
  BY <1>a, <1>1, TakeSlotAges DEF OpenNames
<1>3. Cardinality(unopened') <= MaxFailures
  <2>1. unopened' \in SUBSET unopened /\ unopened \in SUBSET Names
    BY <1>t, <1>1 DEF TypeOK
  <2>2. /\ Cardinality(unopened') <= Cardinality(unopened)
        /\ Cardinality(unopened) \in Int /\ Cardinality(unopened') \in Int
    BY <2>1, NameSets
  <2> QED BY <2>2 DEF OrderInv
<1>4. OpenPlaced'
  <2>1. \A j \in OpenSlots' : /\ file_names'[j] \notin unopened'
                              /\ (Age(file_names[j]) < Age(LastClosed))'
    <3> SUFFICES ASSUME NEW j \in OpenSlots'
                 PROVE  /\ file_names'[j] \notin unopened'
                        /\ (Age(file_names[j]) < Age(LastClosed))'
        OBVIOUS
    <3>1. CASE j = i
      <4>1. \A n \in Names \cup {NoImage} : Age(n) >= 1 /\ Age(n) \in Int
        BY <1>t, AgeRange
      <4>2. Age(sample_json)' = Age(sample_json) + 1 /\ Age(sample_json) >= 1
        BY <1>t, <1>a, <4>1, TakeSlotAges DEF TypeOK
      <4>3. (Age(file_names[j]))' = 1
        BY <1>a, <1>1, <3>1, TakeSlotAges DEF Age
      <4> QED BY <1>a, <1>1, <3>1, <4>2, <4>3, TakeSlotAges DEF Age
    <3>2. CASE j # i
      <4>1. j \in OpenSlots
        BY <1>1, <3>2
      <4>2. file_names[j] \notin unopened /\ Age(file_names[j]) < Age(sample_json)
        BY <1>a, <4>1, TakeSlotAges DEF OrderInv, OpenPlaced
      <4> QED BY <1>a, <1>1, <4>1, <4>2, TakeSlotAges DEF Age
    <3> QED BY <3>1, <3>2
  <2>2. ASSUME NEW j \in OpenSlots', NEW k \in OpenSlots', file_rows'[j] < file_rows'[k]
        PROVE  (Age(file_names[j]) < Age(file_names[k]))'
    <3>1. k \in OpenSlots
      <4>1. ASSUME k = i PROVE FALSE
        <5>1. j \in OpenSlots /\ file_rows'[j] = file_rows[j]
          BY <1>a, <1>1, <2>2, <4>1, TakeSlotAges
        <5>2. file_rows[j] \in 0 .. ImageHeight
          BY <1>t, <5>1 DEF WholeInv, RowRange
        <5> QED BY <1>1, <2>2, <4>1, <5>1, <5>2
      <4> QED BY <1>1, <4>1
    <3>2. (Age(file_names[k]))' = Age(file_names[k]) + 1 /\ Age(file_names[k]) \in 1 .. NumNames - 1
      BY <1>a, <3>1, TakeSlotAges DEF Age
    <3>3. CASE j = i
      BY <1>a, <1>1, <3>2, <3>3, TakeSlotAges DEF Age
    <3>4. CASE j # i
      <4>1. j \in OpenSlots
        BY <1>1, <3>4
      <4>2. (Age(file_names[j]))' = Age(file_names[j]) + 1 /\ Age(file_names[j]) \in 1 .. NumNames - 1
        BY <1>a, <4>1, TakeSlotAges DEF Age
      <4>3. file_rows[j] < file_rows[k]
        BY <1>a, <2>2, <3>1, <4>1, TakeSlotAges
      <4> QED BY <3>1, <3>2, <4>1, <4>2, <4>3 DEF OrderInv, OpenPlaced
    <3> QED BY <3>3, <3>4
  <2>3. ASSUME NEW n \in Names \ unopened', (Age(n) < Age(LastClosed))'
        PROVE  n \in OpenNames'
    <3>1. CASE n = file_name_index
      BY <1>2, <3>1
    <3>2. CASE n # file_name_index
      <4>1. n \in Names \ unopened /\ Age(n) < Age(LastClosed)
        BY <1>a, <1>1, <2>3, <3>2, TakeSlotAges
      <4> QED BY <1>2, <4>1 DEF OrderInv, OpenPlaced
    <3> QED BY <3>1, <3>2
  <2> QED BY <2>1, <2>2, <2>3 DEF OpenPlaced
<1>5. Written'
  <2>1. \A j \in OpenSlots' : disk'[file_names'[j]] = "partial"
    BY <1>t, <1>a, <1>1, TakeSlotAges DEF OrderInv, Written, TypeOK
  <2>2. sample_json # file_name_index
    BY <1>a, TakeSlotAges
  <2> QED BY <1>t, <1>1, <2>1, <2>2 DEF OrderInv, Written, AnnouncedServable, TypeOK
<1>6. ClosedPlaced'
  BY <1>1 DEF ClosedPlaced
<1> QED BY <1>3, <1>4, <1>5, <1>6 DEF OrderInv

\* The name is used up without a file.
LEMMA OpenFileFailsOrderInv ==
  ASSUME NumSlots + MaxFailures < NumNames, OrderInv, WholeInv',
         NEW i \in Slots, OpenFileFails(i)
  PROVE  OrderInv'
<1> USE ParamAssumption
<1>a. TakeSlot(i)
  BY DEF OpenFileFails
<1>1. /\ pc = "open" /\ pc' = "write" /\ OpenSlots' = OpenSlots
      /\ unopened' = unopened \cup {file_name_index}
      /\ Cardinality(unopened') <= MaxFailures
      /\ UNCHANGED <<disk, closing, sample_json>>
  BY DEF OpenFileFails, TakeSlot, OpenSlots
<1>2. OpenNames' = OpenNames
  BY <1>a, <1>1, TakeSlotAges DEF OpenNames
<1>3. OpenPlaced'
  <2>1. \A j \in OpenSlots : /\ file_names'[j] = file_names[j]
                             /\ file_names[j] \notin unopened'
                             /\ (Age(file_names[j]))' = Age(file_names[j]) + 1
                             /\ Age(file_names[j]) \in 1 .. NumNames - 1
                             /\ Age(file_names[j]) < Age(sample_json)
                             /\ file_rows'[j] = file_rows[j]
    BY <1>a, <1>1, TakeSlotAges DEF Age, OrderInv, OpenPlaced
  <2>2. \A j \in OpenSlots' : /\ file_names'[j] \notin unopened'
                              /\ (Age(file_names[j]) < Age(LastClosed))'
    BY <1>a, <1>1, <2>1, TakeSlotAges
  <2>3. \A j, k \in OpenSlots' :
          file_rows'[j] < file_rows'[k] => (Age(file_names[j]) < Age(file_names[k]))'
    BY <1>1, <2>1 DEF OrderInv, OpenPlaced
  <2>4. ASSUME NEW n \in Names \ unopened', (Age(n) < Age(LastClosed))'
        PROVE  n \in OpenNames'
    <3>1. n \in Names \ unopened /\ Age(n) < Age(LastClosed)
      BY <1>a, <1>1, <2>4, TakeSlotAges
    <3> QED BY <1>2, <3>1 DEF OrderInv, OpenPlaced
  <2> QED BY <2>2, <2>3, <2>4 DEF OpenPlaced
<1>4. Written'
  BY <1>a, <1>1, TakeSlotAges DEF OrderInv, Written, AnnouncedServable
<1>5. ClosedPlaced'
  BY <1>1 DEF ClosedPlaced
<1> QED BY <1>1, <1>3, <1>4, <1>5 DEF OrderInv

LEMMA WriteRowOrderInv ==
  ASSUME OrderInv, WholeInv', WriteRow
  PROVE  OrderInv'
<1>1. /\ UNCHANGED <<file_pointers, file_names, file_name_index, unopened, webVars>>
      /\ pc = "write" /\ pc' = "close"
  BY DEF WriteRow
<1>2. \A j \in OpenSlots : file_rows'[j] = file_rows[j] + 1 /\ file_rows[j] \in Int
  BY DEF WriteRow, OrderInv, WholeInv, FedWhileOpen, OpenSlots, TypeOK
<1> QED BY <1>1, <1>2, QuietOrderInv

LEMMA CloseFileOrderInv ==
  ASSUME OrderInv, WholeInv', NEW i \in Slots, CloseFile(i)
  PROVE  OrderInv'
<1> DEFINE n == file_names[i]
<1> USE ParamAssumption
<1>t. TypeOK /\ WholeInv
  BY DEF OrderInv, WholeInv
<1>1. /\ pc = "close" /\ pc' = "flip" /\ i \in OpenSlots /\ OpenSlots' = OpenSlots \ {i}
      /\ file_rows[i] = ImageHeight /\ closing' = i
      /\ disk' = [disk EXCEPT ![n] = "raw"] /\ n \in Names
      /\ \A j \in Slots \ {i} : file_rows'[j] = file_rows[j]
      /\ UNCHANGED <<file_names, file_name_index, unopened, sample_json>>
  BY <1>t DEF CloseFile, Lowest, Due, OpenSlots, WholeInv, RowRange, TypeOK
<1>2. /\ LastClosed = sample_json /\ LastClosed' = n
      /\ \A m : Age(m)' = Age(m)
  BY <1>1 DEF LastClosed, Age
<1>3. \A m \in Names \cup {NoImage} : Age(m) \in Int
  BY <1>t, AgeRange
<1>4. \A j \in OpenSlots \ {i} :
        /\ j \in Slots /\ file_names[j] \in Names
        /\ Age(file_names[j]) < Age(n) /\ file_names[j] # n
  <2>1. \A j \in OpenSlots \ {i} : j \in Slots /\ file_rows[j] < file_rows[i]
    BY <1>t, <1>1 DEF OpenSlots, WholeInv, RowRange, DistinctRows
  <2> QED BY <1>t, <1>1, <1>3, <2>1 DEF OrderInv, OpenPlaced, TypeOK
<1>5. n \notin unopened /\ Age(n) < Age(sample_json)
  BY <1>1, <1>2 DEF OrderInv, OpenPlaced
<1>6. \A m \in Names \ unopened : Age(m) < Age(sample_json) => m = n \/ Age(m) < Age(n)
  <2>1. \A m \in Names \ unopened : Age(m) < Age(sample_json) => m \in OpenNames
    BY <1>2 DEF OrderInv, OpenPlaced
  <2> QED BY <1>4, <2>1 DEF OpenNames
<1>7. OpenPlaced'
  <2>1. \A j \in OpenSlots' : file_names'[j] \notin unopened' /\ (Age(file_names[j]) < Age(LastClosed))'
    BY <1>1, <1>2, <1>4 DEF OrderInv, OpenPlaced
  <2>2. \A j, k \in OpenSlots' :
          file_rows'[j] < file_rows'[k] => (Age(file_names[j]) < Age(file_names[k]))'
    BY <1>1, <1>2, <1>4 DEF OrderInv, OpenPlaced
  <2>3. ASSUME NEW m \in Names \ unopened', (Age(m) < Age(LastClosed))' PROVE m \in OpenNames'
    <3>1. Age(m) < Age(n) /\ m \in Names \ unopened
      BY <1>1, <1>2, <2>3
    <3>2. m \in OpenNames /\ m # n
      BY <1>1, <1>2, <1>3, <1>5, <3>1, <1>t DEF OrderInv, OpenPlaced, TypeOK
    <3> QED BY <1>1, <3>2 DEF OpenNames
  <2> QED BY <2>1, <2>2, <2>3 DEF OpenPlaced
<1>8. ClosedPlaced'
  BY <1>1, <1>2, <1>3, <1>5, <1>6 DEF ClosedPlaced
<1>9. sample_json # n
  BY <1>1, <1>3, <1>5
<1>10. Written'
  <2>1. \A j \in OpenSlots' : disk'[file_names'[j]] = "partial"
    BY <1>t, <1>1, <1>4 DEF OrderInv, Written, TypeOK
  <2>2. disk'[n] = "raw" /\ \A m \in Names \ {n} : disk'[m] = disk[m]
    BY <1>t, <1>1 DEF TypeOK
  <2> QED BY <1>1, <1>9, <2>1, <2>2 DEF OrderInv, Written, AnnouncedServable
<1> QED BY <1>1, <1>7, <1>8, <1>10 DEF OrderInv

LEMMA FlipImageOrderInv ==
  ASSUME OrderInv, WholeInv', FlipImage
  PROVE  OrderInv'
<1> DEFINE n == file_names[closing]
<1>t. TypeOK
  BY DEF OrderInv, WholeInv
<1>1. /\ pc = "flip" /\ pc' = "publish" /\ LastClosed = n /\ LastClosed' = n
      /\ OpenSlots' = OpenSlots /\ OpenNames' = OpenNames /\ \A m : Age(m)' = Age(m)
      /\ UNCHANGED <<file_rows, file_names, unopened, closing, sample_json>>
  BY DEF FlipImage, fileVars, OpenSlots, OpenNames, LastClosed, Age
<1>2. PICK form \in {"flipped", "spoilt"} : disk' = [disk EXCEPT ![n] = form]
  BY DEF FlipImage
<1>3. OpenPlaced' /\ ClosedPlaced'
  BY <1>1 DEF OrderInv, OpenPlaced, ClosedPlaced
<1>4. /\ \A m \in Names \cup {NoImage} : Age(m) \in Int
      /\ n \in Names /\ sample_json \in Names \cup {NoImage}
      /\ \A j \in OpenSlots : file_names[j] \in Names
  BY <1>t, AgeRange DEF TypeOK, OpenSlots
<1>5. sample_json # n /\ \A j \in OpenSlots : file_names[j] # n
  BY <1>1, <1>4 DEF OrderInv, OpenPlaced, ClosedPlaced
<1>6. disk'[n] = form /\ \A m \in Names \ {n} : disk'[m] = disk[m]
  BY <1>t, <1>2, <1>4 DEF TypeOK
<1>7. Written'
  BY <1>1, <1>2, <1>4, <1>5, <1>6 DEF OrderInv, Written, AnnouncedServable
<1> QED BY <1>1, <1>3, <1>7 DEF OrderInv

LEMMA PublishOrderInv ==
  ASSUME OrderInv, WholeInv', Publish
  PROVE  OrderInv'
<1>1. /\ pc = "publish" /\ pc' = "idle" /\ LastClosed' = LastClosed
      /\ OpenSlots' = OpenSlots /\ OpenNames' = OpenNames /\ \A m : Age(m)' = Age(m)
      /\ sample_json' = file_names[closing]
      /\ UNCHANGED <<file_rows, file_names, unopened, disk>>
  BY DEF Publish, fileVars, OpenSlots, OpenNames, LastClosed, Age
<1>2. OpenPlaced' /\ ClosedPlaced'
  BY <1>1 DEF OrderInv, OpenPlaced, ClosedPlaced
<1>3. Written'
  BY <1>1 DEF OrderInv, Written, AnnouncedServable
<1> QED BY <1>1, <1>2, <1>3 DEF OrderInv

LEMMA NextOrderInv ==
  ASSUME NumSlots + MaxFailures < NumNames, OrderInv, [Next]_vars
  PROVE  OrderInv'
<1>w. WholeInv'
  BY NextWholeInv DEF OrderInv
<1> USE <1>w
<1>1. CASE ProducerStep \/ Park \/ Resume \/ SpuriousWakeup
  BY <1>1, QuietOrderInv
  DEF ProducerStep, CopyRow, NotifyRow, Park, Resume, SpuriousWakeup, Holding, fileVars
<1>2. CASE NothingToOpen \/ WriteFaults \/ NothingToClose
  BY <1>2, QuietOrderInv DEF NothingToOpen, WriteFaults, NothingToClose, fileVars
<1>3. ASSUME NEW i \in Slots,
             OpenFile(i) \/ OpenFileFails(i) \/ CloseFile(i) \/ CloseFaults(i)
      PROVE  OrderInv'
  <2>1. CASE CloseFaults(i)
    BY <2>1, QuietOrderInv DEF CloseFaults, fileVars
  <2> QED BY <1>3, <2>1, OpenFileOrderInv, OpenFileFailsOrderInv, CloseFileOrderInv
<1>4. CASE WriteRow \/ FlipImage \/ Publish
  BY <1>4, WriteRowOrderInv, FlipImageOrderInv, PublishOrderInv
<1>5. CASE UNCHANGED vars
  BY <1>5, QuietOrderInv DEF vars, fileVars
<1> QED BY <1>1, <1>2, <1>3, <1>4, <1>5 DEF Next, ImageStep

(***************************************************************************)
(* The announced image is done until the next one is announced, whatever   *)
(* the uninitialised members hold and wherever fopen fails, as long as     *)
(* slots and failures together are fewer than the names: with the 40 names *)
(* of the code, up to 35 failures in one round of the names.               *)
(***************************************************************************)
THEOREM AnnouncedAreServable ==
  ASSUME NumSlots + MaxFailures < NumNames
  PROVE  Spec => []AnnouncedServable
<1>1. OrderInv => AnnouncedServable
  BY DEF OrderInv, Written
<1> QED BY <1>1, InitOrderInv, NextOrderInv, PTL DEF Spec

(***************************************************************************)
(* Images are announced in the order they were opened, although closeFile  *)
(* looks for full slots in the order of the slots, and no name is left out *)
(* but those for which fopen failed.                                       *)
(***************************************************************************)
THEOREM ImagesInOrder ==
  ASSUME NumSlots + MaxFailures < NumNames
  PROVE  Spec => AnnouncedInOrder
<1> DEFINE Later ==
      /\ Age(sample_json') < Age(sample_json)
      /\ \A n \in Names \ unopened :
           ~(Age(sample_json') < Age(n) /\ Age(n) < Age(sample_json))
<1>1. OrderInv /\ [Next]_vars => [sample_json' # sample_json => Later]_sample_json
  <2> SUFFICES ASSUME OrderInv, [Next]_vars, sample_json' # sample_json
               PROVE  Later
      OBVIOUS
  <2>1. Publish
    BY DEF Next, ProducerStep, ImageStep, vars, webVars, CopyRow, NotifyRow, Park,
           SpuriousWakeup, Resume, NothingToOpen, OpenFile, OpenFileFails, TakeSlot,
           WriteRow, WriteFaults, NothingToClose, CloseFile, CloseFaults, FlipImage
  <2> QED BY <2>1 DEF Publish, OrderInv, ClosedPlaced
<1> QED BY <1>1, InitOrderInv, NextOrderInv, PTL DEF Spec, AnnouncedInOrder

(***************************************************************************)
(* A complete image keeps its file for NumNames - NumSlots announcements   *)
(* less the failures: a client has that long to fetch it.                  *)
(***************************************************************************)
THEOREM RecentImagesAreKept ==
  ASSUME NumSlots + MaxFailures < NumNames
  PROVE  Spec => RecentImagesStay
<1> DEFINE Long(n) ==
      Cardinality(AnnouncedSince(n)) >= NumNames - NumSlots - Cardinality(unopened)
<1>1. OrderInv /\ [Next]_vars
        => [\A n \in Names : disk[n] = "flipped" /\ disk'[n] # "flipped" => Long(n)]_disk
  <2> SUFFICES ASSUME OrderInv, [Next]_vars, NEW n \in Names,
                      disk[n] = "flipped", disk'[n] # "flipped"
               PROVE  Long(n)
      OBVIOUS
  <2> USE ParamAssumption
  <2>t. TypeOK
    BY DEF OrderInv, WholeInv
  <2>1. ASSUME NEW i \in Slots, OpenFile(i) PROVE Long(n)
    <3>a. TakeSlot(i)
      BY <2>1 DEF OpenFile
    <3>1. n = file_name_index /\ i \notin OpenSlots /\ LastClosed = sample_json
      BY <2>1, <2>t, <3>a, TakeSlotAges DEF OpenFile, TypeOK
    <3>2. Cardinality(OpenSlots) \in 0 .. NumSlots - 1
      BY <3>1, SlotSets DEF OpenSlots
    <3> DEFINE S == AnnouncedSince(n)
               U == unopened \cup OpenNames
    <3>3. /\ S \in SUBSET Names /\ unopened \in SUBSET Names /\ OpenNames \in SUBSET Names
          /\ U \in SUBSET Names /\ {n} \in SUBSET Names /\ S \cup U \in SUBSET Names
      BY <2>t, OpenNamesSize DEF AnnouncedSince, TypeOK
    <3>4. Names = (S \cup U) \cup {n}
      <4>1. ASSUME NEW m \in Names, m # n, m \notin U PROVE m \in S
        <5>1. Age(m) < Age(n)
          BY <2>t, <3>1, <4>1, AgeRange
        <5>2. Age(m) \in Int /\ Age(sample_json) \in Int /\ ~(Age(m) < Age(sample_json))
          BY <2>t, <3>1, <4>1, AgeRange DEF TypeOK, OrderInv, OpenPlaced
        <5> QED BY <4>1, <5>1, <5>2 DEF AnnouncedSince
      <4> QED BY <3>3, <4>1
    <3>5. Cardinality(Names) = NumNames /\ Cardinality({n}) = 1
      <4>1. Cardinality(Names) = NumNames
        BY FS_Interval DEF Names
      <4> QED BY <4>1, FS_Singleton
    <3> HIDE DEF S, U
    <3>6. /\ Cardinality(S \cup U) <= Cardinality(S) + Cardinality(U)
          /\ Cardinality((S \cup U) \cup {n}) <= Cardinality(S \cup U) + Cardinality({n})
      BY <3>3, UnionSize
    <3>7. Cardinality(U) <= Cardinality(unopened) + Cardinality(OpenNames)
      BY <3>3, UnionSize DEF U
    <3>8. /\ Cardinality(S) \in Int /\ Cardinality(U) \in Int /\ Cardinality(unopened) \in Int
          /\ Cardinality(OpenNames) \in Int /\ Cardinality(S \cup U) \in Int
      BY <3>3, NameSets
    <3>9. Cardinality(OpenNames) <= Cardinality(OpenSlots)
      BY <2>t, OpenNamesSize
    <3>10. Cardinality(S) >= NumNames - NumSlots - Cardinality(unopened)
      BY <3>2, <3>4, <3>5, <3>6, <3>7, <3>8, <3>9
    <3> QED BY <3>10 DEF S
  <2>2. ASSUME NEW i \in Slots, CloseFile(i) PROVE FALSE
    <3>1. i \in OpenSlots /\ disk' = [disk EXCEPT ![file_names[i]] = "raw"]
      BY <2>2 DEF CloseFile, OpenSlots
    <3>2. disk[file_names[i]] = "partial"
      BY <3>1 DEF OrderInv, Written
    <3> QED BY <2>t, <3>1, <3>2 DEF TypeOK
  <2>3. ASSUME FlipImage PROVE FALSE
    <3>1. disk[file_names[closing]] = "raw"
      BY <2>3 DEF FlipImage, OrderInv, Written
    <3> QED BY <2>t, <2>3, <3>1 DEF FlipImage, TypeOK
  <2> QED
    BY <2>1, <2>2, <2>3
    DEF Next, ProducerStep, ImageStep, vars, webVars, CopyRow, NotifyRow, Park,
        SpuriousWakeup, Resume, NothingToOpen, OpenFileFails,
        WriteRow, WriteFaults, NothingToClose, CloseFaults, Publish
<1> QED BY <1>1, InitOrderInv, NextOrderInv, PTL DEF Spec, RecentImagesStay

-----------------------------------------------------------------------------
(* The abstract feed *)

LEMMA DrawingIs ==
  Drawing = {file_names[i] : i \in OpenSlots}
              \cup IF pc \in {"flip", "publish"} THEN {file_names[closing]} ELSE {}
BY DEF Drawing

LEMMA NextIsFeedStep ==
  ASSUME NumSlots + MaxFailures < NumNames, OrderInv, [Next]_vars
  PROVE  Feed!Next \/ UNCHANGED <<Drawing, sample_json, pc = "fault">>
<1> USE ParamAssumption
<1>t. TypeOK /\ TypeOK' /\ WholeInv
  BY NextTypeOK DEF OrderInv, WholeInv
<1>1. ASSUME UNCHANGED <<file_pointers, file_names, closing, sample_json>>,
             (pc = "fault") = (pc' = "fault"),
             pc \in {"flip", "publish"} <=> pc' \in {"flip", "publish"}
      PROVE  UNCHANGED <<Drawing, sample_json, pc = "fault">>
  <2>1. OpenSlots' = OpenSlots
    BY <1>1 DEF OpenSlots
  <2> QED BY <1>1, <2>1, DrawingIs DEF Drawing
<1>2. CASE \/ ProducerStep \/ Park \/ Resume \/ SpuriousWakeup \/ NothingToOpen
           \/ WriteRow \/ NothingToClose \/ FlipImage \/ UNCHANGED vars
  <2> USE DEF fileVars, webVars
  <2>1. CASE ProducerStep
    BY <1>1, <2>1 DEF ProducerStep, CopyRow, NotifyRow
  <2>2. CASE Park \/ Resume \/ SpuriousWakeup
    BY <1>1, <2>2 DEF Park, Resume, SpuriousWakeup
  <2>3. CASE NothingToOpen \/ WriteRow \/ NothingToClose
    BY <1>1, <2>3 DEF NothingToOpen, WriteRow, NothingToClose
  <2>4. CASE FlipImage
    BY <1>1, <2>4 DEF FlipImage
  <2>5. CASE UNCHANGED vars
    BY <1>1, <2>5 DEF vars
  <2> QED BY <1>2, <2>1, <2>2, <2>3, <2>4, <2>5
<1>3. ASSUME NEW i \in Slots, OpenFile(i) PROVE Feed!Next
  <2> DEFINE n == file_name_index
  <2>a. TakeSlot(i)
    BY <1>3 DEF OpenFile
  <2>1. /\ pc = "open" /\ pc' = "write"
        /\ i \notin OpenSlots /\ OpenSlots' = OpenSlots \cup {i} /\ n \in Names
        /\ file_names' = [file_names EXCEPT ![i] = n] /\ UNCHANGED sample_json
    BY <1>3, <1>t DEF OpenFile, TakeSlot, Lowest, Openable, OpenSlots, TypeOK
  <2>2. Drawing' = Drawing \cup {n}
    <3>1. \A j \in OpenSlots : j # i /\ file_names'[j] = file_names[j]
      BY <1>t, <2>1 DEF OpenSlots, TypeOK
    <3>2. file_names'[i] = n
      BY <1>t, <2>1 DEF TypeOK
    <3>3. Drawing = {file_names[j] : j \in OpenSlots}
      BY <2>1, DrawingIs
    <3>4. Drawing' = {file_names'[j] : j \in OpenSlots'}
      BY <2>1 DEF Drawing
    <3> QED BY <2>1, <3>1, <3>2, <3>3, <3>4
  <2>3. n \notin Drawing /\ n # sample_json
    <3>1. n # sample_json /\ \A j \in OpenSlots : file_names[j] # n
      BY <2>a, TakeSlotAges
    <3> QED BY <2>1, <3>1, DrawingIs
  <2> QED BY <2>1, <2>2, <2>3 DEF Feed!Next, Feed!Begin
<1>4. ASSUME NEW i \in Slots, OpenFileFails(i)
      PROVE  UNCHANGED <<Drawing, sample_json, pc = "fault">>
  <2>1. /\ pc = "open" /\ pc' = "write" /\ i \notin OpenSlots /\ OpenSlots' = OpenSlots
        /\ UNCHANGED sample_json
        /\ \A j \in OpenSlots : file_names'[j] = file_names[j]
    BY <1>4, <1>t DEF OpenFileFails, TakeSlot, Lowest, Openable, OpenSlots, TypeOK
  <2> QED BY <2>1 DEF Drawing
<1>5. ASSUME NEW i \in Slots, CloseFile(i)
      PROVE  UNCHANGED <<Drawing, sample_json, pc = "fault">>
  <2>1. /\ pc = "close" /\ pc' = "flip" /\ i \in OpenSlots /\ OpenSlots' = OpenSlots \ {i}
        /\ closing' = i /\ UNCHANGED <<file_names, sample_json>>
    BY <1>5, <1>t DEF CloseFile, OpenSlots, TypeOK
  <2> QED BY <2>1 DEF Drawing
<1>6. CASE WriteFaults \/ \E i \in Slots : CloseFaults(i)
  <2>1. /\ pc \in {"write", "close"} /\ pc' = "fault"
        /\ UNCHANGED <<file_pointers, file_names, closing, sample_json>>
    BY <1>6 DEF WriteFaults, CloseFaults, fileVars, webVars
  <2>2. UNCHANGED Drawing
    BY <2>1 DEF Drawing, OpenSlots
  <2> QED BY <2>1, <2>2 DEF Feed!Next, Feed!Break
<1>7. CASE Publish
  <2> DEFINE n == file_names[closing]
  <2>1. /\ pc = "publish" /\ pc' = "idle" /\ LastClosed = n
        /\ OpenSlots' = OpenSlots /\ n \in Names
        /\ sample_json' = n /\ UNCHANGED file_names
    BY <1>7, <1>t DEF Publish, fileVars, LastClosed, OpenSlots, TypeOK
  <2>2. Drawing = {file_names[j] : j \in OpenSlots} \cup {n}
    BY <2>1, DrawingIs
  <2>3. Drawing' = {file_names[j] : j \in OpenSlots}
    BY <2>1 DEF Drawing
  <2>4. \A j \in OpenSlots : file_names[j] # n
    BY <1>t, <2>1, AgeRange DEF OrderInv, OpenPlaced, TypeOK, OpenSlots
  <2> QED BY <2>1, <2>2, <2>3, <2>4 DEF Feed!Next, Feed!Announce
<1> QED BY <1>2, <1>3, <1>4, <1>5, <1>6, <1>7 DEF Next, ImageStep

(***************************************************************************)
(* The image thread is an ImageFeed: of the names in rotation it never     *)
(* opens one that is announced or still being written, and announces none  *)
(* before it is closed; failed fopen calls only shorten the rotation.      *)
(***************************************************************************)
THEOREM ImageThreadIsAFeed ==
  ASSUME NumSlots + MaxFailures < NumNames
  PROVE  Spec => FeedImplemented
<1>1. Init => Feed!Init
  <2> SUFFICES ASSUME Init PROVE Feed!Init
      OBVIOUS
  <2>1. OpenSlots = {} /\ pc = "idle"
    BY DEF Init, OpenSlots
  <2>2. Drawing = {}
    BY <2>1, DrawingIs
  <2> QED BY <2>1, <2>2 DEF Init, Feed!Init
<1>2. OrderInv /\ [Next]_vars => [Feed!Next]_(Feed!feedVars)
  BY NextIsFeedStep DEF Feed!feedVars
<1> QED BY <1>1, <1>2, InitOrderInv, NextOrderInv, PTL
        DEF Spec, FeedImplemented, Feed!Spec
-----------------------------------------------------------------------------
(***************************************************************************)
(* A failed fopen is survived.  The slot after the youngest open one is    *)
(* tried at every row once the youngest has Stagger rows.  It is free when *)
(* the youngest has at most ImageHeight - Stagger, since images are that   *)
(* far apart, and every row it takes longer is a failure, hence a name     *)
(* younger than the youngest image's: the youngest is never full before.   *)
(***************************************************************************)
LEMMA PreviousOnto == \A k \in Slots : \E i \in Slots : Previous(i) = k
<1> SUFFICES ASSUME NEW k \in Slots PROVE \E i \in Slots : Previous(i) = k
    OBVIOUS
<1> DEFINE i == IF k = NumSlots - 1 THEN 0 ELSE k + 1
<1>1. i \in Slots /\ Previous(i) = k
  BY ParamAssumption DEF Slots, Previous
<1> QED BY <1>1

RowDue == IF pc = "write" THEN 1 ELSE 0   \* the row about to be written

\* The slot after the youngest open slot k gets its file in time.
Kept(k) ==
  /\ file_rows[k] + RowDue <= ImageHeight - Stagger + Age(file_names[k]) - 1
  /\ \A i \in fileless : /\ i \notin OpenSlots /\ Previous(i) = k
                         /\ file_rows[k] >= Stagger
                         /\ pc = "write" => file_rows[i] = 0

SurviveInv ==
  /\ OrderInv /\ StaggerInv
  /\ ~first_file => fileless = {}
  /\ OpenSlots = {} =>
       pc \notin {"flip", "publish"} /\ \A n \in Names : disk[n] = "absent"
  /\ \A k \in OpenSlots : Youngest(k) => Kept(k)
  /\ pc = "fault" => OpenSlots = {}

\* What the code's numbers satisfy: 4 slots, 2153 rows, 538 apart, 40 names.
SurviveAssumption ==
  /\ NumSlots >= 2 /\ ImageHeight >= 2 * Stagger
  /\ MaxFailures < Stagger /\ NumSlots + MaxFailures < NumNames

LEMMA InitSurviveInv == ZeroedInit => SurviveInv
<1> SUFFICES ASSUME ZeroedInit PROVE SurviveInv
    OBVIOUS
<1>1. Init
  BY DEF ZeroedInit
<1>2. OpenSlots = {}
  BY <1>1 DEF Init, OpenSlots
<1> QED BY <1>1, <1>2, InitOrderInv, InitStaggerInv DEF Init, SurviveInv

\* Only failures are younger than the youngest open slot.
LEMMA YoungestAge ==
  ASSUME OrderInv, NEW k \in OpenSlots, Youngest(k)
  PROVE  Age(file_names[k]) \in 1 .. MaxFailures + 1
<1> DEFINE S == {n \in Names : Age(n) < Age(file_names[k])}
<1>t. TypeOK /\ WholeInv
  BY DEF OrderInv, WholeInv
<1>1. /\ \A n \in Names : Age(n) \in 1 .. NumNames
      /\ \A j \in OpenSlots : j \in Slots /\ file_names[j] \in Names /\ file_rows[j] \in Int
  BY <1>t, AgeRange DEF TypeOK, OpenSlots
<1>2. \A j \in OpenSlots : ~(Age(file_names[j]) < Age(file_names[k]))
  <2> SUFFICES ASSUME NEW j \in OpenSlots, Age(file_names[j]) < Age(file_names[k]) PROVE FALSE
      OBVIOUS
  <2>1. j # k /\ file_rows[k] <= file_rows[j]
    BY <1>1 DEF Youngest
  <2>2. file_rows[k] < file_rows[j]
    BY <1>t, <1>1, <2>1 DEF WholeInv, DistinctRows
  <2> QED BY <1>1, <2>2 DEF OrderInv, OpenPlaced
<1>3. S \in SUBSET unopened /\ unopened \in SUBSET Names /\ S \in SUBSET Names
  <2>1. LastClosed \in Names \cup {NoImage}
    BY <1>t DEF LastClosed, TypeOK
  <2>2. Age(LastClosed) \in 1 .. NumNames
    BY <1>t, <2>1, AgeRange
  <2>3. Age(file_names[k]) < Age(LastClosed)
    BY DEF OrderInv, OpenPlaced
  <2>4. \A n \in Names \ unopened : Age(n) < Age(LastClosed) => n \in OpenNames
    BY DEF OrderInv, OpenPlaced
  <2> QED BY <1>t, <1>1, <1>2, <2>2, <2>3, <2>4 DEF OpenNames, TypeOK
<1>4. Cardinality(S) >= Age(file_names[k]) - 1
  BY <1>t, <1>1, YoungerNames
<1> HIDE DEF S
<1>5. /\ Cardinality(S) <= Cardinality(unopened)
      /\ Cardinality(S) \in Int /\ Cardinality(unopened) \in Int
  BY <1>3, NameSets
<1>6. Cardinality(unopened) <= MaxFailures
  BY DEF OrderInv
<1> QED BY <1>1, <1>4, <1>5, <1>6, ParamAssumption

\* Nothing can be opened any more if the first file could not be.
LEMMA FirstOpen ==
  ASSUME StaggerInv, OpenSlots = {}, NEW i \in Openable
  PROVE  ~first_file
<1>1. i \in Slots /\ Previous(i) \in Slots \ OpenSlots
  BY PreviousInSlots DEF Openable
<1>2. file_rows[Previous(i)] < LateFlush /\ file_rows[Previous(i)] \in Int
  BY <1>1 DEF StaggerInv, Cleared, WholeInv, TypeOK
<1> QED BY <1>2, ParamAssumption DEF Openable

\* Steps that leave the files alone.
LEMMA QuietSurviveInv ==
  ASSUME SurviveInv, OrderInv', StaggerInv',
         UNCHANGED <<file_pointers, file_rows, file_names, fileless, file_name_index,
                     first_file>>,
         pc' # "write" \/ pc' = pc,
         OpenSlots = {} => pc' \notin {"flip", "publish"} /\ disk' = disk,
         pc' = "fault" => OpenSlots = {}
  PROVE  SurviveInv'
<1> USE ParamAssumption
<1>t. TypeOK
  BY DEF SurviveInv, OrderInv, WholeInv
<1>1. OpenSlots' = OpenSlots /\ \A k \in OpenSlots : Youngest(k)' = Youngest(k)
  BY DEF OpenSlots, Youngest
<1>2. ASSUME NEW k \in OpenSlots, Kept(k) PROVE Kept(k)'
  <2>1. Age(file_names[k])' = Age(file_names[k]) /\ Age(file_names[k]) \in Int
    BY <1>t, AgeRange DEF Age, OpenSlots, TypeOK
  <2>2. RowDue' <= RowDue /\ RowDue \in Int /\ RowDue' \in Int
    BY DEF RowDue
  <2>3. file_rows[k] \in Int
    BY <1>t DEF OpenSlots, TypeOK
  <2> QED BY <1>1, <1>2, <2>1, <2>2, <2>3 DEF Kept
<1> QED BY <1>1, <1>2 DEF SurviveInv

LEMMA OpenFileSurviveInv ==
  ASSUME SurviveAssumption, SurviveInv, OrderInv', StaggerInv',
         NEW i \in Slots, OpenFile(i)
  PROVE  SurviveInv'
<1> USE ParamAssumption
<1>t. TypeOK /\ TypeOK' /\ WholeInv
  BY DEF SurviveInv, OrderInv, WholeInv
<1>1. /\ pc = "open" /\ pc' = "write" /\ i \in Openable /\ i \notin OpenSlots
      /\ OpenSlots' = OpenSlots \cup {i} /\ file_rows' = [file_rows EXCEPT ![i] = 0]
      /\ file_names'[i] = file_name_index /\ fileless' = fileless \ {i} /\ first_file'
  BY <1>t DEF OpenFile, TakeSlot, Lowest, Openable, OpenSlots, TypeOK
<1>2. fileless' = {}
  <2>1. CASE OpenSlots = {}
    BY <1>1, <2>1, FirstOpen DEF SurviveInv
  <2>2. CASE OpenSlots # {}
    <3>1. PICK k \in OpenSlots : Youngest(k)
      BY <2>2 DEF SurviveInv, StaggerInv, Chained, Youngest
    <3>2. Previous(i) = k
      BY <1>1, <3>1, OpenableIsBehind DEF SurviveInv
    <3>3. \A j \in fileless : j \in Slots /\ Previous(j) = k
      BY <1>t, <3>1 DEF SurviveInv, Kept, TypeOK
    <3> QED BY <1>1, <3>2, <3>3, PreviousInjective
  <2> QED BY <2>1, <2>2
<1>3. ASSUME NEW k \in OpenSlots', Youngest(k)' PROVE Kept(k)'
  <2>1. k = i
    <3>1. file_rows'[k] <= file_rows'[i] /\ file_rows'[i] = 0
      BY <1>t, <1>1, <1>3 DEF Youngest, TypeOK
    <3>2. \A j \in OpenSlots : file_rows'[j] = file_rows[j] /\ file_rows[j] \in 1 .. ImageHeight
      BY <1>t, <1>1 DEF OpenSlots, WholeInv, RowRange, TypeOK
    <3> QED BY <1>1, <3>1, <3>2
  <2>2. (Age(file_names[k]))' = 1
    <3>1. TakeSlot(i) /\ NumSlots + MaxFailures < NumNames /\ OrderInv
      BY DEF OpenFile, SurviveAssumption, SurviveInv
    <3> QED BY <1>1, <2>1, <3>1, TakeSlotAges DEF Age
  <2>3. file_rows'[k] = 0 /\ RowDue' = 1
    BY <1>t, <1>1, <2>1 DEF TypeOK, RowDue
  <2> QED BY <1>2, <2>2, <2>3 DEF Kept, SurviveAssumption
<1> QED BY <1>1, <1>3 DEF SurviveInv

LEMMA OpenFileFailsSurviveInv ==
  ASSUME SurviveAssumption, SurviveInv, OrderInv', StaggerInv',
         NEW i \in Slots, OpenFileFails(i)
  PROVE  SurviveInv'
<1> USE ParamAssumption
<1>t. TypeOK /\ TypeOK' /\ WholeInv
  BY DEF SurviveInv, OrderInv, WholeInv
<1>1. /\ pc = "open" /\ pc' = "write" /\ i \in Openable /\ i \notin OpenSlots
      /\ OpenSlots' = OpenSlots /\ file_rows' = [file_rows EXCEPT ![i] = 0]
      /\ file_pointers' = file_pointers /\ disk' = disk
      /\ fileless' = fileless \cup {i} /\ first_file'
  BY <1>t DEF OpenFileFails, TakeSlot, Lowest, Openable, OpenSlots, TypeOK
<1>2. ASSUME NEW k \in OpenSlots', Youngest(k)' PROVE Kept(k)'
  <2>1. \A j \in OpenSlots : file_rows'[j] = file_rows[j] /\ file_rows[j] \in Int
    BY <1>t, <1>1 DEF OpenSlots, TypeOK
  <2>2. k \in OpenSlots /\ Youngest(k)
    BY <1>1, <1>2, <2>1 DEF Youngest
  <2>3. Kept(k) /\ RowDue = 0 /\ RowDue' = 1
    BY <1>1, <2>2 DEF SurviveInv, RowDue
  <2>4. Previous(i) = k /\ file_rows[k] >= Stagger
    BY <1>1, <2>2, OpenableIsBehind DEF SurviveInv
  <2>5. fileless' = {i} /\ file_rows'[i] = 0
    <3>1. \A j \in fileless : j \in Slots /\ Previous(j) = k
      BY <1>t, <2>3 DEF Kept, TypeOK
    <3> QED BY <1>t, <1>1, <2>4, <3>1, PreviousInjective DEF TypeOK
  <2>6. (Age(file_names[k]))' = Age(file_names[k]) + 1 /\ Age(file_names[k]) \in Int
    <3>1. TakeSlot(i) /\ NumSlots + MaxFailures < NumNames /\ OrderInv
      BY DEF OpenFileFails, SurviveAssumption, SurviveInv
    <3> QED BY <2>2, <3>1, TakeSlotAges DEF Age
  <2> QED BY <1>1, <2>1, <2>2, <2>3, <2>4, <2>5, <2>6 DEF Kept
<1> QED BY <1>1, <1>2 DEF SurviveInv

\* Nothing is due: the youngest is not far enough, or all slots are open.
LEMMA NothingToOpenSurviveInv ==
  ASSUME SurviveAssumption, SurviveInv, OrderInv', StaggerInv', NothingToOpen
  PROVE  SurviveInv'
<1> USE ParamAssumption
<1>t. TypeOK /\ WholeInv
  BY DEF SurviveInv, OrderInv, WholeInv
<1>1. /\ pc = "open" /\ pc' = "write" /\ Openable = {} /\ OpenSlots' = OpenSlots
      /\ UNCHANGED <<file_rows, file_names, fileless, file_name_index, first_file, disk>>
      /\ \A k \in OpenSlots : Youngest(k)' = Youngest(k)
  BY DEF NothingToOpen, fileVars, webVars, OpenSlots, Youngest
<1>2. ASSUME NEW k \in OpenSlots, Youngest(k) PROVE Kept(k)'
  <2>1. PICK i \in Slots : Previous(i) = k
    BY <1>2, PreviousOnto DEF OpenSlots
  <2>2. k \in Slots /\ file_rows[k] \in Int /\ file_names[k] \in Names
    BY <1>t, <1>2 DEF OpenSlots, TypeOK
  <2>3. i \notin OpenSlots => file_rows[k] < Stagger
    <3>1. i \notin OpenSlots => file_pointers[i] = "null"
      BY DEF SurviveInv, StaggerInv, Cleared
    <3>2. i \notin Openable
      BY <1>1
    <3> QED BY <2>1, <2>2, <3>1, <3>2 DEF Openable
  <2>4. i \in OpenSlots => file_rows[k] + Stagger < ImageHeight
    <3> SUFFICES ASSUME i \in OpenSlots PROVE file_rows[k] + Stagger < ImageHeight
        OBVIOUS
    <3>1. i # k
      BY <2>1, <2>2 DEF Previous, Slots, SurviveAssumption
    <3>2. file_rows[i] \in 0 .. ImageHeight - 1
      BY <1>t, <1>1 DEF WholeInv, RowRange
    <3>3. file_rows[k] <= file_rows[i]
      BY <1>2 DEF Youngest
    <3> QED BY <2>2, <3>1, <3>2, <3>3 DEF SurviveInv, StaggerInv, Staggered
  <2>5. \A j \in fileless : FALSE
    <3> SUFFICES ASSUME NEW j \in fileless PROVE FALSE
        OBVIOUS
    <3>1. /\ j \in Slots \ OpenSlots /\ Previous(j) = k /\ file_rows[k] >= Stagger
      BY <1>t, <1>2 DEF SurviveInv, Kept, TypeOK
    <3>2. j \in Openable
      BY <3>1 DEF SurviveInv, StaggerInv, Cleared, Openable
    <3> QED BY <1>1, <3>2
  <2>6. Age(file_names[k])' = Age(file_names[k]) /\ Age(file_names[k]) \in 1 .. NumNames
    BY <1>t, <1>1, <2>2, AgeRange DEF Age
  <2>7. RowDue' = 1
    BY <1>1 DEF RowDue
  <2>8. file_rows[k] + 1 <= ImageHeight - Stagger
    BY <2>2, <2>3, <2>4 DEF SurviveAssumption
  <2> QED BY <1>1, <2>2, <2>5, <2>6, <2>7, <2>8 DEF Kept
<1> QED BY <1>1, <1>2 DEF SurviveInv

LEMMA WriteRowSurviveInv ==
  ASSUME SurviveInv, OrderInv', StaggerInv', WriteRow
  PROVE  SurviveInv'
<1> USE ParamAssumption
<1>t. TypeOK /\ WholeInv
  BY DEF SurviveInv, OrderInv, WholeInv
<1>1. /\ pc = "write" /\ pc' = "close" /\ OpenSlots' = OpenSlots
      /\ UNCHANGED <<file_names, fileless, file_name_index, first_file, disk>>
      /\ \A j \in OpenSlots : file_rows'[j] = file_rows[j] + 1 /\ file_rows[j] \in Int
  BY <1>t DEF WriteRow, webVars, OpenSlots, WholeInv, FedWhileOpen, TypeOK
<1>2. ASSUME NEW k \in OpenSlots, Youngest(k)' PROVE Kept(k)'
  <2>1. Youngest(k)
    BY <1>1, <1>2 DEF Youngest
  <2>2. Kept(k) /\ RowDue = 1 /\ RowDue' = 0
    BY <1>1, <2>1 DEF SurviveInv, RowDue
  <2>3. Age(file_names[k])' = Age(file_names[k]) /\ Age(file_names[k]) \in Int
    BY <1>t, <1>1, AgeRange DEF Age, OpenSlots, TypeOK
  <2> QED BY <1>1, <2>2, <2>3 DEF Kept
<1> QED BY <1>1, <1>2 DEF SurviveInv

\* The youngest image never becomes full: another one is opened before.
LEMMA CloseFileSurviveInv ==
  ASSUME SurviveAssumption, SurviveInv, OrderInv', StaggerInv',
         NEW i \in Slots, CloseFile(i)
  PROVE  SurviveInv'
<1> USE ParamAssumption
<1>t. TypeOK /\ WholeInv
  BY DEF SurviveInv, OrderInv, WholeInv
<1>1. /\ pc = "close" /\ pc' = "flip" /\ i \in OpenSlots /\ file_rows[i] = ImageHeight
      /\ OpenSlots' = OpenSlots \ {i}
      /\ UNCHANGED <<file_names, fileless, file_name_index, first_file>>
      /\ \A j \in OpenSlots \ {i} : file_rows'[j] = file_rows[j]
  BY <1>t DEF CloseFile, Lowest, Due, OpenSlots, WholeInv, RowRange, TypeOK
<1>2. PICK z \in OpenSlots : Youngest(z)
  BY <1>1 DEF SurviveInv, StaggerInv, Chained, Youngest
<1>3. Kept(z) /\ RowDue = 0 /\ RowDue' = 0
  BY <1>1, <1>2 DEF SurviveInv, RowDue
<1>4. z # i
  <2>1. Age(file_names[z]) \in 1 .. MaxFailures + 1
    BY <1>2, YoungestAge DEF SurviveInv
  <2> QED BY <1>1, <1>3, <2>1 DEF Kept, SurviveAssumption
<1>5. ASSUME NEW k \in OpenSlots', Youngest(k)' PROVE Kept(k)'
  <2>1. /\ file_rows'[k] <= file_rows'[z] /\ file_rows[z] <= file_rows[k]
        /\ file_rows'[k] = file_rows[k] /\ file_rows'[z] = file_rows[z]
        /\ file_rows[k] \in Int /\ file_rows[z] \in Int
    BY <1>t, <1>1, <1>2, <1>4, <1>5 DEF Youngest, OpenSlots, TypeOK
  <2>2. k = z
    BY <1>t, <1>1, <1>5, <2>1 DEF WholeInv, DistinctRows
  <2>3. Age(file_names[k])' = Age(file_names[k])
    BY <1>1 DEF Age
  <2> QED BY <1>1, <1>3, <2>1, <2>2, <2>3 DEF Kept
<1> QED BY <1>1, <1>2, <1>4, <1>5 DEF SurviveInv

LEMMA WriteFaultsSurviveInv ==
  ASSUME SurviveInv, WriteFaults PROVE OpenSlots = {}
<1> USE ParamAssumption
<1> SUFFICES ASSUME OpenSlots # {} PROVE FALSE
    OBVIOUS
<1>1. PICK k \in OpenSlots : Youngest(k)
  BY DEF SurviveInv, StaggerInv, Chained, Youngest
<1>2. PICK i \in Slots : MayFlush(i)
  BY DEF WriteFaults
<1>3. i \in fileless
  BY <1>2 DEF MayFlush, SurviveInv, StaggerInv, Cleared, OpenSlots
<1>4. file_rows[i] = 0
  BY <1>1, <1>3 DEF WriteFaults, SurviveInv, Kept
<1> QED BY <1>2, <1>3, <1>4 DEF MayFlush

LEMMA NextSurviveInv ==
  ASSUME SurviveAssumption, SurviveInv, [Next]_vars
  PROVE  SurviveInv'
<1>w. OrderInv' /\ StaggerInv'
  BY NextOrderInv, NextStaggerInv DEF SurviveInv, SurviveAssumption
<1> USE <1>w
<1>1. CASE ProducerStep \/ Park \/ Resume \/ SpuriousWakeup
  BY <1>1, QuietSurviveInv
  DEF ProducerStep, CopyRow, NotifyRow, Park, Resume, SpuriousWakeup, Holding,
      fileVars, webVars, SurviveInv
<1>2. CASE NothingToOpen \/ WriteRow
  BY <1>2, NothingToOpenSurviveInv, WriteRowSurviveInv
<1>3. CASE WriteFaults
  BY <1>3, WriteFaultsSurviveInv, QuietSurviveInv DEF WriteFaults, fileVars, webVars
<1>4. CASE NothingToClose
  BY <1>4, QuietSurviveInv DEF NothingToClose, fileVars, webVars
<1>5. ASSUME NEW i \in Slots, OpenFile(i) \/ OpenFileFails(i) \/ CloseFile(i)
      PROVE  SurviveInv'
  BY <1>5, OpenFileSurviveInv, OpenFileFailsSurviveInv, CloseFileSurviveInv
<1>6. ASSUME NEW i \in Slots, CloseFaults(i) PROVE FALSE
  BY <1>6 DEF CloseFaults, SurviveInv, StaggerInv, Cleared, OpenSlots
<1>7. CASE FlipImage \/ Publish
  BY <1>7, QuietSurviveInv DEF FlipImage, Publish, fileVars, SurviveInv
<1>8. CASE UNCHANGED vars
  BY <1>8, QuietSurviveInv DEF vars, fileVars, webVars, SurviveInv
<1> QED BY <1>1, <1>2, <1>3, <1>4, <1>5, <1>6, <1>7, <1>8 DEF Next, ImageStep

(***************************************************************************)
(* On zeroed memory the thread dies of a failed fopen only if it never     *)
(* opened a file, for the numbers of the code and all that satisfy         *)
(* SurviveAssumption.                                                      *)
(***************************************************************************)
THEOREM OutageIsSurvived ==
  ASSUME SurviveAssumption
  PROVE  Spec => OutageSurvived
<1>1. ZeroedInit => SurviveInv
  BY InitSurviveInv
<1>2. SurviveInv /\ [Next]_vars => SurviveInv'
  BY NextSurviveInv
<1>3. SurviveInv => (pc = "fault" => \A n \in Names : disk[n] = "absent")
  BY DEF SurviveInv
<1> QED BY <1>1, <1>2, <1>3, PTL DEF Spec, OutageSurvived
=============================================================================
