---------------------------- MODULE AudioPlayer ----------------------------
(***************************************************************************)
(* The play button of flutterSite's home page and the page's one audio     *)
(* element.  A click that starts a load shows a spinner in place of the    *)
(* button; the spinner goes when the element can play, or when the ten     *)
(* seconds of that click are over.  The timers of earlier clicks still     *)
(* run; each carries the id of its click and does something only if that   *)
(* is the last one's.  Every click adds another canplay and loadedmetadata *)
(* listener; all of one kind do the same, so one stands for them.          *)
(*                                                                         *)
(* The element is the browser's: setting src drops its pending events,     *)
(* loadedmetadata comes before canplay, and canplay comes again whenever   *)
(* the element has run out of data and got some.                           *)
(***************************************************************************)
EXTENDS Integers

CONSTANTS
  Wait,   \* the ten seconds, in steps of the clock
  UUIDs   \* what uuid.v1() returns; an id no timer carries may come again

ASSUME AudioAssumption == Wait \in Nat \ {0}

NoTimer == -1

VARIABLES
  _loadAudio,  \* is the spinner shown?
  _playing,    \* if not: does the button offer to stop?
  _playUUID,   \* the id of the last click that started a load
  timers,      \* what is left of the ten seconds of the click with an id
  sinceClick,  \* history: the time since that last click, up to Wait
  paused,      \* the element
  readyState,
  events       \* its events that are not handled yet

timerVars   == <<_playUUID, timers, sinceClick>>
buttonVars  == <<_loadAudio, _playing, timerVars>>
elementVars == <<paused, readyState, events>>
audioVars   == <<buttonVars, elementVars>>

AudioTypeOK ==
  /\ _loadAudio \in BOOLEAN /\ _playing \in BOOLEAN
  /\ _playUUID \in UUIDs
  /\ timers \in [UUIDs -> 0 .. Wait \cup {NoTimer}]
  /\ sinceClick \in 0 .. Wait
  /\ paused \in BOOLEAN
  /\ readyState \in {"idle", "nothing", "metadata", "future"}
  /\ events \in SUBSET {"loadedmetadata", "canplay"}
  /\ _loadAudio => timers[_playUUID] # NoTimer

AudioInit ==
  /\ _loadAudio = FALSE /\ _playing = FALSE
  /\ _playUUID \in UUIDs /\ timers = [u \in UUIDs |-> NoTimer]
  /\ sinceClick = Wait
  /\ paused = TRUE /\ readyState = "idle" /\ events = {}

-----------------------------------------------------------------------------
(* The button; the spinner cannot be clicked *)

\* A new id, and a timer that carries it.
StartTimer ==
  \E myUUID \in UUIDs :
    /\ myUUID # _playUUID /\ timers[myUUID] = NoTimer
    /\ _playUUID' = myUUID
    /\ timers' = [timers EXCEPT ![myUUID] = Wait]
    /\ sinceClick' = 0

\* Slipped form: a stream that was loaded once is played without a new load.
PlayLoaded ==
  /\ ~_loadAudio /\ ~_playing
  /\ _loadAudio' = TRUE
  /\ StartTimer
  /\ \/ readyState = "idle" /\ readyState' = "nothing" /\ UNCHANGED paused
     \/ readyState # "idle" /\ paused' = FALSE /\ UNCHANGED readyState
  /\ UNCHANGED <<_playing, events>>

\* _playAudio; playAudio sets audio.src.
Play ==
  /\ ~_loadAudio /\ ~_playing
  /\ _loadAudio' = TRUE
  /\ StartTimer
  /\ paused' = TRUE /\ readyState' = "nothing" /\ events' = {}
  /\ UNCHANGED _playing

\* _playAudio: stopAudio pauses the element, which goes on loading.
Stop ==
  /\ ~_loadAudio /\ _playing
  /\ _playing' = FALSE
  /\ paused' = TRUE
  /\ UNCHANGED <<_loadAudio, timerVars, readyState, events>>

\* Slipped form: the ids are not compared.
IsCurrentAlways(myUUID) == TRUE

IsCurrent(myUUID) == myUUID = _playUUID

\* What Future.delayed goes on with.
TimerEnds(myUUID) ==
  /\ timers[myUUID] = 0
  /\ timers' = [timers EXCEPT ![myUUID] = NoTimer]
  /\ IF IsCurrent(myUUID) THEN _loadAudio' = FALSE ELSE UNCHANGED _loadAudio
  /\ UNCHANGED <<_playing, _playUUID, sinceClick, elementVars>>

\* Timers are not late by a step of the clock.
TimePasses ==
  /\ \A u \in UUIDs : timers[u] # 0
  /\ \E u \in UUIDs : timers[u] > 0
  /\ timers' = [u \in UUIDs |-> IF timers[u] = NoTimer THEN NoTimer ELSE timers[u] - 1]
  /\ sinceClick' = IF sinceClick = Wait THEN Wait ELSE sinceClick + 1
  /\ UNCHANGED <<_loadAudio, _playing, _playUUID, elementVars>>

-----------------------------------------------------------------------------
(* The element *)

Metadata ==
  /\ readyState = "nothing"
  /\ readyState' = "metadata"
  /\ events' = events \cup {"loadedmetadata"}
  /\ UNCHANGED <<buttonVars, paused>>

EnoughData ==
  /\ readyState = "metadata"
  /\ readyState' = "future"
  /\ events' = events \cup {"canplay"}
  /\ UNCHANGED <<buttonVars, paused>>

\* The element has played all there was.
Stall ==
  /\ readyState = "future"
  /\ readyState' = "metadata"
  /\ UNCHANGED <<buttonVars, paused, events>>

\* The stream ends or breaks off; the page listens to neither.
StreamEnds ==
  /\ readyState # "idle"
  /\ readyState' = "idle"
  /\ paused' = TRUE
  /\ UNCHANGED <<buttonVars, events>>

\* loadedmetadata: audio.play(), which the browser may refuse.
LoadedMetadata ==
  /\ "loadedmetadata" \in events
  /\ events' = events \ {"loadedmetadata"}
  /\ paused' \in {FALSE, paused}
  /\ UNCHANGED <<buttonVars, readyState>>

\* canplay: functionName(), which is setFinished.
CanPlay ==
  /\ "canplay" \in events /\ "loadedmetadata" \notin events
  /\ events' = events \ {"canplay"}
  /\ _loadAudio' = FALSE
  /\ _playing' = TRUE
  /\ UNCHANGED <<timerVars, paused, readyState>>

-----------------------------------------------------------------------------
Timers == (\E u \in UUIDs : TimerEnds(u)) \/ TimePasses

AudioNext ==
  \/ Play \/ Stop \/ Timers
  \/ Metadata \/ EnoughData \/ Stall \/ StreamEnds
  \/ LoadedMetadata \/ CanPlay

\* The browser runs its timers.
AudioFairness == WF_audioVars(Timers)

AudioSpec == AudioInit /\ [][AudioNext]_audioVars /\ AudioFairness

-----------------------------------------------------------------------------
(***************************************************************************)
(* Whenever the radio can be heard, the button offers to stop it, or will  *)
(* once the canplay event under way is handled: no order of clicks, timers *)
(* and events leaves a radio playing behind a play button (main.dart:126,  *)
(* 134-155 with index.html:46-94).                                         *)
(***************************************************************************)
AudibleIsShown ==
  ~paused /\ readyState = "future" => _playing \/ "canplay" \in events

(***************************************************************************)
(* The spinner of a click stays until the element can play or ten seconds  *)
(* have passed since that click, whatever timers of earlier clicks end in  *)
(* the meantime: what the UUIDs are compared for (lines 138-147).          *)
(***************************************************************************)
SpinnerKept ==
  [][_loadAudio /\ ~_loadAudio' => _playing' \/ sinceClick = Wait]_audioVars
=============================================================================
