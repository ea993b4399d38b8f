----------------------------- MODULE ChangeFeed -----------------------------
(***************************************************************************)
(* What the poller takes a backend's change feed to be (the trait          *)
(* DeltaProvider in backend/delta.rs): a log of changes and a token that   *)
(* marks how far the client has been told.  One answer tells, in one step, *)
(* of every change between the old token and the new one that the provider *)
(* lets the client see; an answer that fails tells nothing and leaves the  *)
(* token where it is.                                                      *)
(***************************************************************************)
EXTENDS Naturals

VARIABLES
  length,   \* changes logged by the provider
  token,    \* the change up to which the client has been told
  told,     \* the changes it was told of
  silent    \* the changes the feed need not tell of, as the log stands

vars == <<length, token, told>>

Init == length = 0 /\ token = 0 /\ told = {}

\* Another client changes something.
Log ==
  /\ length' = length + 1
  /\ UNCHANGED <<token, told>>

\* changes_since.
Answer ==
  /\ \E n \in token..length, S \in SUBSET (1..length) :
        /\ S \subseteq (token + 1)..n
        /\ ((token + 1)..n) \ silent \subseteq S
        /\ token' = n
        /\ told' = told \cup S
  /\ UNCHANGED length

\* A full listing tells of everything so far.
Relist ==
  /\ \E S \in SUBSET (1..length) :
        /\ told' = told \cup S
        /\ (1..length) \ silent' \subseteq told'
  /\ UNCHANGED <<length, token>>

\* start_token passes over what the client has been told of.
Restart ==
  /\ token' = length
  /\ ((token + 1)..length) \ silent' \subseteq told
  /\ UNCHANGED <<length, told>>

Next == Log \/ Answer \/ Relist \/ Restart
Spec == Init /\ [][Next]_vars

=============================================================================
