--------------------------- MODULE MCHackRFBuffer ---------------------------
(* A small instance of HackRFBuffer: a long and a short transfer. *)
EXTENDS HackRFBuffer

MCLengths == {2, Threshold}
=============================================================================
