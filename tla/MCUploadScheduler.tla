------------------------- MODULE MCUploadScheduler -------------------------
(* Instances of UploadScheduler for TLC: a day of four minutes of two      *)
(* seconds.                                                                *)
EXTENDS UploadScheduler, TLC

\* 03:00-01:00: wraps past midnight, closed for half of the day.
NightWindow == [start_min |-> 3, end_min |-> 1]

Symmetry == Permutations(Inodes)
=============================================================================
