------------------------- MODULE SpectrogramClient -------------------------
(***************************************************************************)
(* The web client (flutterSite): the home page's web socket with its       *)
(* keep-alive chain, and the spectrogram window that fetches and shows the *)
(* images the socket announces.                                            *)
(*                                                                         *)
(* An image is its age, the number of images published since, counted up   *)
(* to MaxAge.  The flags _queued, _queuePosition and _duplicate are left   *)
(* out: they reach RealTimeSpectrogram, which never looks at them.         *)
(***************************************************************************)
EXTENDS Integers

CONSTANT MaxAge  \* ages are counted up to here

ASSUME ClientAssumption == MaxAge \in Nat \ {0}

Ages == 0 .. MaxAge
None == -1

VARIABLES
  channel,          \* the socket; "queued": open, but the server sends no images yet
  _websocketFailed,
  _connected,
  _served,
  _pageSelect,
  mounted,          \* is the spectrogram window in the widget tree?
  _fetchingImage,   \* of the mounted window
  fetches,          \* the images it has requests out for
  myImage           \* the image it shows

homeVars   == <<channel, _websocketFailed, _connected, _served, _pageSelect>>
windowVars == <<mounted, _fetchingImage, fetches, myImage>>
vars       == <<homeVars, windowVars>>

TypeOK ==
  /\ channel \in {"connecting", "queued", "open", "closed"}
  /\ _websocketFailed \in BOOLEAN
  /\ _connected \in BOOLEAN
  /\ _served \in BOOLEAN
  /\ _pageSelect \in {"home", "about", "what"}
  /\ mounted \in BOOLEAN
  /\ _fetchingImage \in BOOLEAN
  /\ fetches \in SUBSET Ages
  /\ myImage \in Ages \cup {None}
  /\ ~mounted => fetches = {} /\ ~_fetchingImage /\ myImage = None

Init ==
  /\ \/ channel = "connecting" /\ _websocketFailed = FALSE
     \/ channel = "closed" /\ _websocketFailed = TRUE   \* connect threw
  /\ _connected = FALSE
  /\ _served = FALSE
  /\ _pageSelect = "home"
  /\ mounted = FALSE
  /\ _fetchingImage = FALSE
  /\ fetches = {}
  /\ myImage = None

-----------------------------------------------------------------------------
(* The connection *)

\* webSocketKeepAlive, every three seconds; connect may throw.
KeepAlive ==
  /\ channel = "closed"
  /\ channel' \in {"connecting", "closed"}
  /\ _websocketFailed' = TRUE
  /\ UNCHANGED <<_connected, _served, _pageSelect, windowVars>>

ChannelOpens ==
  /\ channel = "connecting"
  /\ channel' = "queued"
  /\ UNCHANGED <<_websocketFailed, _connected, _served, _pageSelect, windowVars>>

ChannelCloses ==
  /\ channel # "closed"
  /\ channel' = "closed"
  /\ UNCHANGED <<_websocketFailed, _connected, _served, _pageSelect, windowVars>>

\* {"Served": false, "Queue Position": n}
QueueMessage ==
  /\ channel = "queued"
  /\ _websocketFailed' = FALSE
  /\ _connected' = TRUE
  /\ _served' = FALSE
  /\ UNCHANGED <<channel, _pageSelect, windowVars>>

\* {"Duplicate": false} from myServer; cloudServer admits without a message.
Admitted ==
  /\ channel = "queued"
  /\ channel' = "open"
  /\ \/ _websocketFailed' = FALSE /\ _connected' = TRUE
     \/ UNCHANGED <<_websocketFailed, _connected>>
  /\ UNCHANGED <<_served, _pageSelect, windowVars>>

-----------------------------------------------------------------------------
(* The images *)

Older(a) == IF a = MaxAge THEN a ELSE a + 1

Aged(S) == {Older(a) : a \in S}

\* Slipped forms: every announcement starts a request; a window gone from the
\* tree goes on listening; the flag misread.
AcceptsAlways    == mounted
AcceptsUnmounted == ~_fetchingImage
AcceptsInverted  == mounted /\ _fetchingImage

\* The listener of a mounted window, unless it is fetching already.
Accepts == mounted /\ ~_fetchingImage

\* {"Image Name": ..., "Image Time": ..., "Served": true}: the window that
\* this message makes appear is built later, and misses it.
ImageMessage ==
  /\ channel = "open"
  /\ _websocketFailed' = FALSE
  /\ _connected' = TRUE
  /\ _served' = TRUE
  /\ fetches' = Aged(fetches) \cup (IF Accepts THEN {0} ELSE {})
  /\ _fetchingImage' = (_fetchingImage \/ Accepts)
  /\ myImage' = IF myImage = None THEN None ELSE Older(myImage)
  /\ UNCHANGED <<channel, _pageSelect, mounted>>

\* An image this client is not told of.
ImageMissed ==
  /\ fetches' = Aged(fetches)
  /\ myImage' = IF myImage = None THEN None ELSE Older(myImage)
  /\ UNCHANGED <<homeVars, mounted, _fetchingImage>>

ImageArrives ==
  /\ mounted
  /\ \E a \in fetches : fetches' = fetches \ {a} /\ myImage' = a
  /\ _fetchingImage' = FALSE
  /\ UNCHANGED <<homeVars, mounted>>

\* fetchImage throws; then() has no error handler, so _fetchingImage stays.
FetchFails ==
  /\ mounted
  /\ \E a \in fetches : fetches' = fetches \ {a}
  /\ UNCHANGED <<homeVars, mounted, _fetchingImage, myImage>>

-----------------------------------------------------------------------------
(* The widget tree *)

SelectPage ==
  /\ _pageSelect' \in {"home", "about", "what"}
  /\ UNCHANGED <<channel, _websocketFailed, _connected, _served, windowVars>>

\* What build returns: the window, or a notice or an animation in its place.
WindowWanted ==
  _pageSelect = "home" /\ ~_websocketFailed /\ _connected /\ _served

\* The next frame mounts a new window state or disposes of the old one.
BuildFrame ==
  /\ mounted # WindowWanted
  /\ mounted' = WindowWanted
  /\ _fetchingImage' = FALSE
  /\ fetches' = {}
  /\ myImage' = None
  /\ UNCHANGED homeVars

-----------------------------------------------------------------------------
Next ==
  \/ KeepAlive \/ ChannelOpens \/ ChannelCloses
  \/ QueueMessage \/ Admitted \/ ImageMessage \/ ImageMissed
  \/ ImageArrives \/ FetchFails
  \/ SelectPage \/ BuildFrame

\* Images keep being announced, requests are answered, frames are drawn.
Fairness ==
  /\ WF_vars(ImageMessage) /\ WF_vars(ImageArrives) /\ WF_vars(BuildFrame)
  /\ WF_vars(KeepAlive)

Spec == Init /\ [][Next]_vars /\ Fairness

-----------------------------------------------------------------------------
Settled == _pageSelect = "home" /\ channel = "open"

(***************************************************************************)
(* The window never goes back to an older image: a request that is still   *)
(* out is for a newer one than it shows (main.dart:893-909).               *)
(***************************************************************************)
NeverBackwards ==
  myImage # None => \A a \in fetches : a < myImage \/ myImage = MaxAge

(***************************************************************************)
(* On a home page that stays connected images keep arriving, unless the    *)
(* window waits for a request that is no longer out: the first message     *)
(* after a (re)connection, which finds no window, does not block the rest. *)
(***************************************************************************)
UpdatesUntilFailure ==
  <>[]Settled => \/ []<><<ImageArrives>>_vars
                 \/ <>[](_fetchingImage /\ fetches = {})

(***************************************************************************)
(* "The home page shows a real time spectrogram feed" (main.dart:561): on  *)
(* a home page that stays connected, images keep arriving.                 *)
(***************************************************************************)
WindowKeepsUpdating == <>[]Settled => []<><<ImageArrives>>_vars
=============================================================================
