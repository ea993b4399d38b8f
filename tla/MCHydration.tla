------------------------------ MODULE MCHydration -----------------------------
(* Instance of Hydration for TLC: two downloads may run at a time.          *)
EXTENDS Hydration
=============================================================================
