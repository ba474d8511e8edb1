------------------------------ MODULE HomePage ------------------------------
(***************************************************************************)
(* The state of flutterSite's home page (_MyHomePageState): the feed of    *)
(* SpectrogramClient and the play button of AudioPlayer, side by side on   *)
(* one event loop.  The address the button plays is the same whether or    *)
(* not _connected, so neither part reads what the other writes.            *)
(***************************************************************************)
EXTENDS SpectrogramClient, AudioPlayer

pageVars == <<vars, audioVars>>

PageInit == Init /\ AudioInit

PageNext ==
  \/ Next /\ UNCHANGED audioVars
  \/ AudioNext /\ UNCHANGED vars

PageSpec == PageInit /\ [][PageNext]_pageVars /\ Fairness /\ AudioFairness

PageTypeOK == TypeOK /\ AudioTypeOK
=============================================================================
