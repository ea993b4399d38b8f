----------------------------- MODULE MCBlobStore ----------------------------
(* Instances of BlobStore for TLC.                                         *)
EXTENDS BlobStore, TLC

\* The permutations keep Mergeable: it is all of Inodes.
Symmetry == Permutations(Inodes) \cup Permutations(Contents) \cup Permutations(Tasks)
=============================================================================
