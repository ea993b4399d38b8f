----------------------------- MODULE MCConflicts ----------------------------
(* Instances of Conflicts for TLC.                                         *)
EXTENDS Conflicts, TLC

\* Two files that share a stem, and one without an extension.
TwoFiles  == {<<"report", "pdf">>, <<"report", "txt">>}
PlainFile == {<<"readme">>}
TwoStamps == <<"t1", "t2">>
OneStamp  == <<"t1">>
Symmetry  == Permutations(Edits)
=============================================================================
