--------------------------- MODULE MCCloudImages ---------------------------
(* Threads that differ in nothing but their name. *)
EXTENDS CloudImages, TLC

MCSymmetry == Permutations(Threads)
=============================================================================
