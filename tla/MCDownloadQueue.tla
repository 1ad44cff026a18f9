-------------------------- MODULE MCDownloadQueue --------------------------
(* Instances of DownloadQueue for TLC. *)
EXTENDS DownloadQueue, TLC

CONSTANTS r1, r2

Symmetry == Permutations(Rows)
=============================================================================
