------------------------- MODULE CloudImagesProofs -------------------------
(***************************************************************************)
(* Theorems about CloudImages, for any threads and any count of ages.      *)
(***************************************************************************)
EXTENDS CloudImages, TLAPS

\* The last file the present round has written, if it has not slipped.
Fresh(i) ==
  /\ pc[i] = "convert" => mp3[i] = 0
  /\ pc[i] \in {"open", "draw"} => wav[i] = 0
  /\ pc[i] = "copy" => jpg_new[i] = 0
  /\ pc[i] \in {"flip", "flipping"} => jpg_old[i] = 0
  /\ pc[i] \in {"remove", "publish"} => jpg[i] = 0

InStep ==
  \A i \in Threads : /\ i \notin slipped => Fresh(i)
                     /\ pc[i] = "flipping" => sample_json # i \/ promised = None

Inv == TypeOK /\ InStep /\ AnnouncedHonest

Ages == {None} \cup 0 .. MaxAge

LEMMA OlderType ==
  ASSUME NEW c \in Contents
  PROVE  /\ Older(c) \in Contents
         /\ c \in Ages => Older(c) \in Ages
         /\ c \in 0 .. MaxAge => Older(c) \in 0 .. MaxAge
         /\ c = None <=> Older(c) = None
  BY ImagesAssumption, SMT DEF Older, Contents, Ages, None, Torn

LEMMA InvInit == Init => Inv
  BY ImagesAssumption, SMT
  DEF Init, Inv, TypeOK, InStep, Fresh, AnnouncedHonest, Places, Contents, None, Torn

LEMMA TypeRound ==
  ASSUME TypeOK, NEW i \in Threads, Round(i)
  PROVE  TypeOK'
<1> USE ImagesAssumption
<1>1. CASE StartRound(i)
  <2> USE <1>1 DEF StartRound, Put
  <2>1. \A c \in Contents : /\ Older(c) \in Contents
                            /\ c \in Ages => Older(c) \in Ages
    BY OlderType
  <2>2. Ages \subseteq Contents
    BY DEF Ages, Contents
  <2> HIDE ImagesAssumption
  <2> QED BY <2>1, <2>2, SMT DEF TypeOK, Goto, Ages, Places
<1>2. CASE ForkFails(i) \/ NoRecording(i) \/ TooShort(i) \/ NoCommand(i)
  BY <1>2, SMT DEF TypeOK, ForkFails, NoRecording, TooShort, NoCommand, Goto, Put, Slips, files, Places,
     Contents, None, Torn
<1>3. CASE CurlDone(i) \/ CurlFails(i)
  BY <1>3, SMT DEF TypeOK, CurlDone, CurlFails, Goto, Put, Slips, files, Places,
     Contents, None, Torn
<1>4. CASE Convert(i)
  BY <1>4, SMT DEF TypeOK, Convert, Goto, Put, Slips, files, Places,
     Contents, None, Torn
<1>5. CASE BeginImage(i) \/ FinishImage(i)
  BY <1>5, SMT DEF TypeOK, BeginImage, FinishImage, Goto, Put, Slips, files, Places,
     Contents, None, Torn
<1>6. CASE Copy(i)
  BY <1>6, SMT DEF TypeOK, Copy, Goto, Put, Slips, files, Places,
     Contents, None, Torn
<1>7. CASE BeginFlip(i) \/ NoFlip(i) \/ EndFlip(i)
  BY <1>7, SMT DEF TypeOK, BeginFlip, NoFlip, EndFlip, Goto, Put, Slips, files, Places,
     Contents, None, Torn
<1>8. CASE Remove(i) \/ Publish(i)
  BY <1>8, SMT DEF TypeOK, Remove, Publish, Goto, Put, Slips, files, Places,
     Contents, None, Torn
<1> QED BY <1>1, <1>2, <1>3, <1>4, <1>5, <1>6, <1>7, <1>8 DEF Round

LEMMA InvRound ==
  ASSUME NEW i \in Threads, Inv, Round(i)
  PROVE  Inv'
<1> USE ImagesAssumption DEF Inv
<1>0. TypeOK'
  BY TypeRound
<1>1. CASE StartRound(i)
  <2> USE <1>1 DEF StartRound, Put
  <2>1. ASSUME NEW j \in Threads
        PROVE  /\ (j \notin slipped => Fresh(j))'
               /\ (pc[j] = "flipping" => sample_json # j \/ promised = None)'
    BY <2>1, SMT DEF TypeOK, InStep, Fresh, Goto
  <2>2. AnnouncedHonest'
    <3>1. promised \in Contents /\ (promised = None <=> Older(promised) = None)
      BY OlderType DEF TypeOK, Contents
    <3>2. CASE sample_json = i
      <4>1. promised' = Older(promised) /\ sample_json' = i /\ jpg'[i] = Older(jpg[i])
        BY <3>2 DEF TypeOK
      <4> QED BY <4>1, <3>1, <3>2 DEF AnnouncedHonest
    <3>3. CASE sample_json # i
      BY <3>3, SMT DEF TypeOK, AnnouncedHonest
    <3> QED BY <3>2, <3>3
  <2> QED BY <1>0, <2>1, <2>2 DEF InStep
<1>2. CASE ForkFails(i)
  <2>1. ASSUME NEW j \in Threads
        PROVE  /\ (j \notin slipped => Fresh(j))'
               /\ (pc[j] = "flipping" => sample_json # j \/ promised = None)'
    BY <1>2, <2>1, SMT DEF TypeOK, InStep, Fresh, ForkFails, Goto, Put, Slips, files
  <2>2. AnnouncedHonest'
    BY <1>2, SMT DEF TypeOK, InStep, Fresh, AnnouncedHonest, ForkFails, Goto, Put, Slips, files
  <2> QED BY <1>0, <2>1, <2>2 DEF InStep
<1>3. CASE CurlDone(i)
  <2>1. ASSUME NEW j \in Threads
        PROVE  /\ (j \notin slipped => Fresh(j))'
               /\ (pc[j] = "flipping" => sample_json # j \/ promised = None)'
    BY <1>3, <2>1, SMT DEF TypeOK, InStep, Fresh, CurlDone, Goto, Put, Slips, files
  <2>2. AnnouncedHonest'
    BY <1>3, SMT DEF TypeOK, InStep, Fresh, AnnouncedHonest, CurlDone, Goto, Put, Slips, files
  <2> QED BY <1>0, <2>1, <2>2 DEF InStep
<1>4. CASE CurlFails(i)
  <2>1. ASSUME NEW j \in Threads
        PROVE  /\ (j \notin slipped => Fresh(j))'
               /\ (pc[j] = "flipping" => sample_json # j \/ promised = None)'
    BY <1>4, <2>1, SMT DEF TypeOK, InStep, Fresh, CurlFails, Goto, Put, Slips, files
  <2>2. AnnouncedHonest'
    BY <1>4, SMT DEF TypeOK, InStep, Fresh, AnnouncedHonest, CurlFails, Goto, Put, Slips, files
  <2> QED BY <1>0, <2>1, <2>2 DEF InStep
<1>5. CASE Convert(i)
  <2>1. ASSUME NEW j \in Threads
        PROVE  /\ (j \notin slipped => Fresh(j))'
               /\ (pc[j] = "flipping" => sample_json # j \/ promised = None)'
    BY <1>5, <2>1, SMT DEF TypeOK, InStep, Fresh, Convert, Goto, Put, Slips, files
  <2>2. AnnouncedHonest'
    BY <1>5, SMT DEF TypeOK, InStep, Fresh, AnnouncedHonest, Convert, Goto, Put, Slips, files
  <2> QED BY <1>0, <2>1, <2>2 DEF InStep
<1>6. CASE NoRecording(i)
  <2>1. ASSUME NEW j \in Threads
        PROVE  /\ (j \notin slipped => Fresh(j))'
               /\ (pc[j] = "flipping" => sample_json # j \/ promised = None)'
    BY <1>6, <2>1, SMT DEF TypeOK, InStep, Fresh, NoRecording, Goto, Put, Slips, files
  <2>2. AnnouncedHonest'
    BY <1>6, SMT DEF TypeOK, InStep, Fresh, AnnouncedHonest, NoRecording, Goto, Put, Slips, files
  <2> QED BY <1>0, <2>1, <2>2 DEF InStep
<1>7. CASE BeginImage(i)
  <2>1. ASSUME NEW j \in Threads
        PROVE  /\ (j \notin slipped => Fresh(j))'
               /\ (pc[j] = "flipping" => sample_json # j \/ promised = None)'
    BY <1>7, <2>1, SMT DEF TypeOK, InStep, Fresh, BeginImage, Goto, Put, Slips, files
  <2>2. AnnouncedHonest'
    BY <1>7, SMT DEF TypeOK, InStep, Fresh, AnnouncedHonest, BeginImage, Goto, Put, Slips, files
  <2> QED BY <1>0, <2>1, <2>2 DEF InStep
<1>8. CASE FinishImage(i)
  <2>1. ASSUME NEW j \in Threads
        PROVE  /\ (j \notin slipped => Fresh(j))'
               /\ (pc[j] = "flipping" => sample_json # j \/ promised = None)'
    BY <1>8, <2>1, SMT DEF TypeOK, InStep, Fresh, FinishImage, Goto, Put, Slips, files
  <2>2. AnnouncedHonest'
    BY <1>8, SMT DEF TypeOK, InStep, Fresh, AnnouncedHonest, FinishImage, Goto, Put, Slips, files
  <2> QED BY <1>0, <2>1, <2>2 DEF InStep
<1>9. CASE TooShort(i)
  <2>1. ASSUME NEW j \in Threads
        PROVE  /\ (j \notin slipped => Fresh(j))'
               /\ (pc[j] = "flipping" => sample_json # j \/ promised = None)'
    BY <1>9, <2>1, SMT DEF TypeOK, InStep, Fresh, TooShort, Goto, Put, Slips, files
  <2>2. AnnouncedHonest'
    BY <1>9, SMT DEF TypeOK, InStep, Fresh, AnnouncedHonest, TooShort, Goto, Put, Slips, files
  <2> QED BY <1>0, <2>1, <2>2 DEF InStep
<1>10. CASE Copy(i)
  <2>1. ASSUME NEW j \in Threads
        PROVE  /\ (j \notin slipped => Fresh(j))'
               /\ (pc[j] = "flipping" => sample_json # j \/ promised = None)'
    BY <1>10, <2>1, SMT DEF TypeOK, InStep, Fresh, Copy, Goto, Put, Slips, files
  <2>2. AnnouncedHonest'
    BY <1>10, SMT DEF TypeOK, InStep, Fresh, AnnouncedHonest, Copy, Goto, Put, Slips, files
  <2> QED BY <1>0, <2>1, <2>2 DEF InStep
<1>11. CASE BeginFlip(i)
  <2>1. ASSUME NEW j \in Threads
        PROVE  /\ (j \notin slipped => Fresh(j))'
               /\ (pc[j] = "flipping" => sample_json # j \/ promised = None)'
    BY <1>11, <2>1, SMT DEF TypeOK, InStep, Fresh, BeginFlip, Goto, Put, Slips, files
  <2>2. AnnouncedHonest'
    BY <1>11, SMT DEF TypeOK, InStep, Fresh, AnnouncedHonest, BeginFlip, Goto, Put, Slips, files
  <2> QED BY <1>0, <2>1, <2>2 DEF InStep
<1>12. CASE NoFlip(i)
  <2>1. ASSUME NEW j \in Threads
        PROVE  /\ (j \notin slipped => Fresh(j))'
               /\ (pc[j] = "flipping" => sample_json # j \/ promised = None)'
    BY <1>12, <2>1, SMT DEF TypeOK, InStep, Fresh, NoFlip, Goto, Put, Slips, files
  <2>2. AnnouncedHonest'
    BY <1>12, SMT DEF TypeOK, InStep, Fresh, AnnouncedHonest, NoFlip, Goto, Put, Slips, files
  <2> QED BY <1>0, <2>1, <2>2 DEF InStep
<1>13. CASE EndFlip(i)
  <2>1. ASSUME NEW j \in Threads
        PROVE  /\ (j \notin slipped => Fresh(j))'
               /\ (pc[j] = "flipping" => sample_json # j \/ promised = None)'
    BY <1>13, <2>1, SMT DEF TypeOK, InStep, Fresh, EndFlip, Goto, Put, Slips, files
  <2>2. AnnouncedHonest'
    BY <1>13, SMT DEF TypeOK, InStep, Fresh, AnnouncedHonest, EndFlip, Goto, Put, Slips, files
  <2> QED BY <1>0, <2>1, <2>2 DEF InStep
<1>14. CASE Remove(i)
  <2>1. ASSUME NEW j \in Threads
        PROVE  /\ (j \notin slipped => Fresh(j))'
               /\ (pc[j] = "flipping" => sample_json # j \/ promised = None)'
    BY <1>14, <2>1, SMT DEF TypeOK, InStep, Fresh, Remove, Goto, Put, Slips, files
  <2>2. AnnouncedHonest'
    BY <1>14, SMT DEF TypeOK, InStep, Fresh, AnnouncedHonest, Remove, Goto, Put, Slips, files
  <2> QED BY <1>0, <2>1, <2>2 DEF InStep
<1>15. CASE NoCommand(i)
  <2>1. ASSUME NEW j \in Threads
        PROVE  /\ (j \notin slipped => Fresh(j))'
               /\ (pc[j] = "flipping" => sample_json # j \/ promised = None)'
    BY <1>15, <2>1, SMT DEF TypeOK, InStep, Fresh, NoCommand, Goto, Put, Slips, files
  <2>2. AnnouncedHonest'
    BY <1>15, SMT DEF TypeOK, InStep, Fresh, AnnouncedHonest, NoCommand, Goto, Put, Slips, files
  <2> QED BY <1>0, <2>1, <2>2 DEF InStep
<1>16. CASE Publish(i)
  <2>1. ASSUME NEW j \in Threads
        PROVE  /\ (j \notin slipped => Fresh(j))'
               /\ (pc[j] = "flipping" => sample_json # j \/ promised = None)'
    BY <1>16, <2>1, SMT DEF TypeOK, InStep, Fresh, Publish, Goto, Put, Slips, files
  <2>2. AnnouncedHonest'
    BY <1>16, SMT DEF TypeOK, InStep, Fresh, AnnouncedHonest, Publish, Goto, Put, Slips, files
  <2> QED BY <1>0, <2>1, <2>2 DEF InStep
<1> QED BY <1>1, <1>2, <1>3, <1>4, <1>5, <1>6, <1>7, <1>8, <1>9, <1>10, <1>11, <1>12, <1>13, <1>14, <1>15, <1>16 DEF Round

LEMMA InvNext ==
  ASSUME Inv, [Next]_vars
  PROVE  Inv'
<1>1. ASSUME NEW i \in Threads, Round(i)
      PROVE  Inv'
  BY <1>1, InvRound
<1>2. CASE Restart
  BY <1>2 DEF Restart, files, Inv, TypeOK, InStep, Fresh, AnnouncedHonest, Places
<1>3. CASE UNCHANGED vars
  BY <1>3 DEF vars, files, Inv, TypeOK, InStep, Fresh, AnnouncedHonest
<1> QED BY <1>1, <1>2, <1>3 DEF Next

(***************************************************************************)
(* Wherever the process ends, a thread draws only from a recording that is *)
(* there (main.cpp:205-360).                                               *)
(***************************************************************************)
THEOREM TypeCorrect == Spec => []TypeOK
<1>1. TypeOK /\ [Next]_vars => TypeOK'
  <2> SUFFICES ASSUME TypeOK, [Next]_vars PROVE TypeOK'
    OBVIOUS
  <2>1. CASE Restart
    BY <2>1 DEF Restart, files, TypeOK, Places
  <2>2. CASE UNCHANGED vars
    BY <2>2 DEF vars, files, TypeOK
  <2> QED BY <2>1, <2>2, TypeRound DEF Next
<1>2. Init => TypeOK
  BY InvInit DEF Inv
<1> QED BY <1>1, <1>2, PTL DEF Spec

(***************************************************************************)
(* The announced image is the recording it is announced as, and stays it   *)
(* until the next announcement or until its own thread writes the next     *)
(* one, for any number of threads in any order and wherever the process    *)
(* ends, unless a command of its round went wrong unnoticed.               *)
(***************************************************************************)
THEOREM ImagesAreHonest == Spec => []AnnouncedHonest
<1>1. Inv /\ [Next]_vars => Inv'
  BY InvNext
<1>2. Inv => AnnouncedHonest
  BY DEF Inv
<1> QED BY InvInit, <1>1, <1>2, PTL DEF Spec
=============================================================================
