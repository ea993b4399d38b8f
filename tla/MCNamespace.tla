----------------------------- MODULE MCNamespace -----------------------------
(* Namespace for TLC: files x and y, in the root, in d, and in e.          *)
EXTENDS Namespace

TwoDirs == <<<<"d">>, <<"e">>, <<"x">>, <<"y">>, <<"d", "x">>, <<"d", "y">>,
             <<"e", "x">>, <<"e", "y">>>>
=============================================================================
