--------------------------- MODULE HomePageProofs ---------------------------
(***************************************************************************)
(* Theorems about HomePage, for any count of ages and any length of the    *)
(* timers.  The two parts of the page share nothing, so what each of them  *)
(* keeps is proved for its own steps, and a step of the page is a step of  *)
(* one and leaves the other alone.                                         *)
(***************************************************************************)
EXTENDS HomePage, TLAPS

\* The window has at most one request out, and none while it accepts one.
SingleFlight ==
  /\ fetches # {} => _fetchingImage
  /\ \A a \in fetches, b \in fetches : a = b

WindowInv == TypeOK /\ SingleFlight /\ NeverBackwards

\* The element cannot have told all of its events before the first of them.
MetadataFirst ==
  "loadedmetadata" \in events /\ readyState = "future" => "canplay" \in events

\* The timer that carries the current id is the last click's: it ends ten
\* seconds after that click.
OwnTimer ==
  timers[_playUUID] # NoTimer => timers[_playUUID] + sinceClick = Wait

AudioInv == AudioTypeOK /\ OwnTimer /\ MetadataFirst /\ AudibleIsShown

-----------------------------------------------------------------------------
(* The window *)

LEMMA OlderAges ==
  /\ \A a \in Ages : Older(a) \in Ages /\ Older(a) # None /\ (a # MaxAge => Older(a) = a + 1)
  /\ Older(MaxAge) = MaxAge
  /\ 0 \in Ages /\ None \notin Ages
  BY ClientAssumption DEF Ages, Older, None

LEMMA AgedAges ==
  ASSUME fetches \in SUBSET Ages
  PROVE  Aged(fetches) \in SUBSET Ages
  BY OlderAges DEF Aged

\* What is out stays newer than what is shown when everything grows older.
LEMMA OrderStays ==
  ASSUME TypeOK, NeverBackwards, myImage # None
  PROVE  \A a \in Aged(fetches) : a < Older(myImage) \/ Older(myImage) = MaxAge
<1> SUFFICES ASSUME NEW b \in fetches
             PROVE  Older(b) < Older(myImage) \/ Older(myImage) = MaxAge
  BY DEF Aged
<1>1. b \in Ages /\ myImage \in Ages /\ (b < myImage \/ myImage = MaxAge)
  BY DEF TypeOK, NeverBackwards
<1> QED BY <1>1, ClientAssumption DEF Older, Ages

LEMMA WindowInit == Init => WindowInv
  BY ClientAssumption DEF Init, WindowInv, TypeOK, SingleFlight, NeverBackwards, Ages, None

LEMMA WindowNext == WindowInv /\ [Next]_vars => WindowInv'
<1> SUFFICES ASSUME WindowInv, [Next]_vars PROVE WindowInv'
  OBVIOUS
<1> USE DEF WindowInv
<1>1. CASE \/ KeepAlive \/ ChannelOpens \/ ChannelCloses
           \/ QueueMessage \/ Admitted \/ SelectPage
  <2>1. UNCHANGED windowVars
    BY <1>1
    DEF KeepAlive, ChannelOpens, ChannelCloses, QueueMessage, Admitted, SelectPage
  <2>2. /\ channel' \in {"connecting", "queued", "open", "closed"}
        /\ _websocketFailed' \in BOOLEAN /\ _connected' \in BOOLEAN /\ _served' \in BOOLEAN
        /\ _pageSelect' \in {"home", "about", "what"}
    BY <1>1
    DEF KeepAlive, ChannelOpens, ChannelCloses, QueueMessage, Admitted, SelectPage, TypeOK
  <2>3. TypeOK'
    BY <2>1, <2>2 DEF windowVars, TypeOK
  <2> QED BY <2>1, <2>3 DEF windowVars, SingleFlight, NeverBackwards
<1>2. CASE ImageMessage
  <2>1. Aged(fetches) \in SUBSET Ages
    BY AgedAges DEF TypeOK
  <2>2. TypeOK'
    BY <1>2, <2>1, OlderAges DEF ImageMessage, TypeOK, Accepts, Aged
  <2>3. CASE Accepts
    <3>1. fetches' = {0} /\ _fetchingImage'
      BY <1>2, <2>3 DEF ImageMessage, Accepts, SingleFlight, Aged
    <3>2. NeverBackwards'
      <4>1. myImage' # None => myImage \in Ages /\ myImage' = Older(myImage)
        BY <1>2 DEF ImageMessage, TypeOK
      <4>2. \A a \in Ages : 0 < Older(a) \/ Older(a) = MaxAge
        BY ClientAssumption DEF Ages, Older
      <4> QED BY <3>1, <4>1, <4>2 DEF NeverBackwards
    <3> QED BY <2>2, <3>1, <3>2 DEF SingleFlight
  <2>4. CASE ~Accepts
    <3>1. /\ fetches' = Aged(fetches) /\ _fetchingImage' = _fetchingImage
          /\ myImage' = IF myImage = None THEN None ELSE Older(myImage)
      BY <1>2, <2>4 DEF ImageMessage, TypeOK
    <3>2. SingleFlight'
      BY <3>1 DEF SingleFlight, Aged
    <3>3. NeverBackwards'
      BY <3>1, OrderStays DEF NeverBackwards
    <3> QED BY <2>2, <3>2, <3>3
  <2> QED BY <2>3, <2>4
<1>3. CASE ImageMissed
  <2>1. Aged(fetches) \in SUBSET Ages
    BY AgedAges DEF TypeOK
  <2>2. TypeOK'
    BY <1>3, <2>1, OlderAges DEF ImageMissed, homeVars, TypeOK, Aged
  <2>3. SingleFlight'
    BY <1>3 DEF ImageMissed, SingleFlight, Aged
  <2>4. NeverBackwards'
    BY <1>3, OrderStays DEF ImageMissed, NeverBackwards
  <2> QED BY <2>2, <2>3, <2>4
<1>4. CASE ImageArrives \/ FetchFails
  BY <1>4 DEF ImageArrives, FetchFails, homeVars, TypeOK, SingleFlight, NeverBackwards
<1>5. CASE BuildFrame
  BY <1>5 DEF BuildFrame, WindowWanted, homeVars, TypeOK, SingleFlight, NeverBackwards
<1>6. CASE UNCHANGED vars
  BY <1>6 DEF vars, homeVars, windowVars, TypeOK, SingleFlight, NeverBackwards
<1> QED BY <1>1, <1>2, <1>3, <1>4, <1>5, <1>6 DEF Next

-----------------------------------------------------------------------------
(* The button *)

LEMMA AudioInitial == AudioInit => AudioInv
<1> SUFFICES ASSUME AudioInit PROVE AudioInv
  OBVIOUS
<1>1. /\ timers \in [UUIDs -> 0 .. Wait \cup {NoTimer}]
      /\ timers[_playUUID] = NoTimer /\ sinceClick \in 0 .. Wait
  BY AudioAssumption DEF AudioInit
<1> QED BY <1>1 DEF AudioInit, AudioInv, AudioTypeOK, OwnTimer, MetadataFirst, AudibleIsShown

\* Clicks, ends and the clock: the current id's timer stays the last click's,
\* because a click takes an id that no timer carries.
LEMMA TimersNext ==
  ASSUME AudioTypeOK, OwnTimer, [AudioNext]_audioVars
  PROVE  /\ _playUUID' \in UUIDs
         /\ timers' \in [UUIDs -> 0 .. Wait \cup {NoTimer}]
         /\ sinceClick' \in 0 .. Wait
         /\ OwnTimer'
         /\ _loadAudio' => (timers[_playUUID] # NoTimer)'
<1> USE AudioAssumption DEF AudioTypeOK, OwnTimer, NoTimer
<1>1. CASE Play
  BY <1>1 DEF Play, StartTimer
<1>2. ASSUME NEW u \in UUIDs, TimerEnds(u)
      PROVE  /\ _playUUID' \in UUIDs
             /\ timers' \in [UUIDs -> 0 .. Wait \cup {NoTimer}]
             /\ sinceClick' \in 0 .. Wait
             /\ OwnTimer'
             /\ _loadAudio' => (timers[_playUUID] # NoTimer)'
  BY <1>2 DEF TimerEnds, IsCurrent
<1>3. CASE TimePasses
  BY <1>3 DEF TimePasses
<1>4. CASE UNCHANGED timerVars /\ (_loadAudio' => _loadAudio)
  BY <1>4 DEF timerVars
<1>5. \/ Play \/ TimePasses \/ \E u \in UUIDs : TimerEnds(u)
      \/ UNCHANGED timerVars /\ (_loadAudio' => _loadAudio)
  BY DEF AudioNext, Timers, Stop, Metadata, EnoughData, Stall, StreamEnds,
         LoadedMetadata, CanPlay, buttonVars, audioVars
<1> QED BY <1>1, <1>2, <1>3, <1>4, <1>5

LEMMA AudioStep == AudioInv /\ [AudioNext]_audioVars => AudioInv'
<1> SUFFICES ASSUME AudioInv, [AudioNext]_audioVars PROVE AudioInv'
  OBVIOUS
<1> USE DEF AudioInv, MetadataFirst, AudibleIsShown, buttonVars, elementVars
<1>1. /\ _playUUID' \in UUIDs
      /\ timers' \in [UUIDs -> 0 .. Wait \cup {NoTimer}]
      /\ sinceClick' \in 0 .. Wait
      /\ OwnTimer'
      /\ _loadAudio' => (timers[_playUUID] # NoTimer)'
  BY TimersNext
<1>2. CASE Play
  BY <1>1, <1>2 DEF Play, AudioTypeOK
<1>3. CASE Stop
  BY <1>1, <1>3 DEF Stop, AudioTypeOK
<1>4. ASSUME NEW u \in UUIDs, TimerEnds(u) PROVE AudioInv'
  BY <1>1, <1>4 DEF TimerEnds, AudioTypeOK
<1>5. CASE TimePasses
  BY <1>1, <1>5 DEF TimePasses, AudioTypeOK
<1>6. CASE Metadata \/ EnoughData \/ Stall \/ StreamEnds
  <2>1. /\ UNCHANGED buttonVars
        /\ paused' \in BOOLEAN /\ events' \in SUBSET {"loadedmetadata", "canplay"}
        /\ readyState' \in {"idle", "nothing", "metadata", "future"}
    BY <1>6 DEF Metadata, EnoughData, Stall, StreamEnds, AudioTypeOK
  <2>2. readyState' = "future" => "canplay" \in events'
    BY <1>6 DEF Metadata, EnoughData, Stall, StreamEnds
  <2> QED BY <1>1, <2>1, <2>2 DEF AudioTypeOK
<1>7. CASE LoadedMetadata
  BY <1>1, <1>7 DEF LoadedMetadata, AudioTypeOK
<1>8. CASE CanPlay
  BY <1>1, <1>8 DEF CanPlay, AudioTypeOK
<1>9. CASE UNCHANGED audioVars
  BY <1>1, <1>9 DEF audioVars, AudioTypeOK
<1> QED BY <1>2, <1>3, <1>4, <1>5, <1>6, <1>7, <1>8, <1>9 DEF AudioNext, Timers

-----------------------------------------------------------------------------
(* The page *)

LEMMA PageInitial == PageInit => WindowInv /\ AudioInv
  BY WindowInit, AudioInitial DEF PageInit

LEMMA PageStep ==
  WindowInv /\ AudioInv /\ [PageNext]_pageVars => WindowInv' /\ AudioInv'
<1>1. [PageNext]_pageVars => [Next]_vars /\ [AudioNext]_audioVars
  BY DEF PageNext, pageVars
<1> QED BY <1>1, WindowNext, AudioStep

(***************************************************************************)
(* Every variable of the page keeps its type.                              *)
(***************************************************************************)
THEOREM PageIsTyped == PageSpec => []PageTypeOK
<1>1. WindowInv /\ AudioInv => PageTypeOK
  BY DEF WindowInv, AudioInv, PageTypeOK
<1> QED BY PageInitial, PageStep, <1>1, PTL DEF PageSpec

(***************************************************************************)
(* The window never goes back to an older image: _fetchingImage keeps it   *)
(* from having two requests out, whatever messages are missed and however  *)
(* often the connection or the page changes (main.dart:893-909).           *)
(***************************************************************************)
THEOREM ImagesGetNewer == PageSpec => []NeverBackwards
<1>1. WindowInv => NeverBackwards
  BY DEF WindowInv
<1> QED BY PageInitial, PageStep, <1>1, PTL DEF PageSpec

(***************************************************************************)
(* A radio that can be heard can be stopped, or can as soon as the canplay *)
(* event under way is handled (main.dart:126-155, index.html:46-94).       *)
(***************************************************************************)
THEOREM RadioCanBeStopped == PageSpec => []AudibleIsShown
<1>1. AudioInv => AudibleIsShown
  BY DEF AudioInv
<1> QED BY PageInitial, PageStep, <1>1, PTL DEF PageSpec

(***************************************************************************)
(* A click's spinner is not ended by the timer of an earlier click, for    *)
(* any number of ids: it goes when the element can play or ten seconds     *)
(* after the click (lines 138-147), since a timer with the current id is   *)
(* the last click's (OwnTimer).                                            *)
(***************************************************************************)
THEOREM SpinnersAreKept == PageSpec => SpinnerKept
<1>1. AudioInv /\ [PageNext]_pageVars
        => [_loadAudio /\ ~_loadAudio' => _playing' \/ sinceClick = Wait]_audioVars
  <2> SUFFICES ASSUME AudioInv, AudioNext, _loadAudio, ~_loadAudio', ~_playing'
               PROVE  sinceClick = Wait
    BY DEF PageNext, pageVars
  <2>1. PICK u \in UUIDs : TimerEnds(u)
    BY DEF AudioNext, Timers, Play, Stop, TimePasses, Metadata, EnoughData, Stall,
           StreamEnds, LoadedMetadata, CanPlay, buttonVars, elementVars
  <2>2. u = _playUUID /\ timers[_playUUID] = 0
    BY <2>1 DEF TimerEnds, IsCurrent
  <2> QED BY <2>2, AudioAssumption DEF AudioInv, AudioTypeOK, OwnTimer, NoTimer
<1> QED BY PageInitial, PageStep, <1>1, PTL DEF PageSpec, SpinnerKept

-----------------------------------------------------------------------------
(* A request that fails *)

\* The window waits for a request that is no longer out.
Stuck == mounted /\ _fetchingImage /\ fetches = {}

LEMMA StuckStays ==
  ASSUME Stuck, WindowWanted, [Next]_vars
  PROVE  Stuck'
<1>1. CASE KeepAlive \/ ChannelOpens \/ ChannelCloses \/ QueueMessage \/ Admitted \/ SelectPage
  BY <1>1 DEF KeepAlive, ChannelOpens, ChannelCloses, QueueMessage, Admitted, SelectPage,
     windowVars, Stuck
<1>2. CASE ImageMessage \/ ImageMissed
  BY <1>2 DEF ImageMessage, ImageMissed, Accepts, Aged, Stuck
<1>3. ~(ImageArrives \/ FetchFails \/ BuildFrame)
  BY DEF ImageArrives, FetchFails, BuildFrame, Stuck
<1>4. CASE UNCHANGED vars
  BY <1>4 DEF vars, windowVars, Stuck
<1> QED BY <1>1, <1>2, <1>3, <1>4 DEF Next

(***************************************************************************)
(* A failed request is the window's last (then() without an error handler, *)
(* main.dart:899): while the page goes on showing the window, no image     *)
(* ever arrives in it again, however many are announced.                   *)
(***************************************************************************)
THEOREM FailedFetchIsFinal ==
  PageSpec => [](Stuck /\ []WindowWanted => []Stuck /\ [][~ImageArrives]_vars)
<1>1. Stuck /\ WindowWanted /\ [PageNext]_pageVars => Stuck'
  BY StuckStays DEF PageNext, pageVars
<1>2. Stuck => [~ImageArrives]_vars
  BY DEF Stuck, ImageArrives
<1> QED BY <1>1, <1>2, PTL DEF PageSpec
=============================================================================
