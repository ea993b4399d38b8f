----------------------------- MODULE MCFileSync -----------------------------
(* Instances of FileSync for TLC.                                          *)
EXTENDS FileSync, TLC

Symmetry == Permutations(LocalEdits) \cup Permutations(RemoteEdits)
              \cup Permutations(Uploads)
=============================================================================
