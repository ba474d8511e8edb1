----------------------------- MODULE ImageFeed -----------------------------
(***************************************************************************)
(* What an image server promises a web client about the images it is told  *)
(* to fetch: an image is drawn under a name that is neither announced nor  *)
(* being drawn already, and is announced only when it is done.             *)
(* ImageThread (myServer) implements this.                                 *)
(***************************************************************************)
CONSTANTS
  Images,  \* the names
  Nothing  \* what is announced before the first image

VARIABLES
  drawing,    \* the names that are being drawn
  announced,
  broken      \* has the server died?

feedVars == <<drawing, announced, broken>>

Init ==
  /\ drawing = {}
  /\ announced = Nothing
  /\ broken = FALSE

Begin(n) ==
  /\ ~broken
  /\ n \notin drawing /\ n # announced
  /\ drawing' = drawing \cup {n}
  /\ UNCHANGED <<announced, broken>>

Announce(n) ==
  /\ ~broken
  /\ n \in drawing
  /\ drawing' = drawing \ {n}
  /\ announced' = n
  /\ UNCHANGED broken

Break ==
  /\ ~broken
  /\ broken' = TRUE
  /\ UNCHANGED <<drawing, announced>>

Next ==
  \/ \E n \in Images : Begin(n) \/ Announce(n)
  \/ Break

Spec == Init /\ [][Next]_feedVars
=============================================================================
