---------------------------- MODULE MCDeltaFeed ----------------------------
(* Two directories in the root, one inside the other's reach, and a file.  *)
EXTENDS DeltaFeed

CONSTANTS folder, album, photo

MCItems == {folder, album, photo}
MCDirs  == {folder, album}
MCHome  == [i \in MCItems |-> IF i = photo THEN folder ELSE Root]

=============================================================================
