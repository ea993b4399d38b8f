--------------------------- MODULE TransferWindow ---------------------------
(***************************************************************************)
(* The bandwidth schedule of a mount (stratosync-core, config):            *)
(* a daily interval of minutes in which transfers may run.  The interval   *)
(* is half open, may wrap past midnight, and is "always open" when its     *)
(* ends coincide.  The code has 1440 minutes of 60 seconds; the model      *)
(* keeps both numbers as parameters.                                       *)
(***************************************************************************)
EXTENDS Integers

CONSTANTS MinutesPerDay, SecsPerMinute

ASSUME ClockAssumption ==
  /\ MinutesPerDay \in Nat \ {0}
  /\ SecsPerMinute \in Nat \ {0}

Minutes == 0 .. MinutesPerDay - 1
Seconds == 0 .. SecsPerMinute - 1

\* What parse_transfer_window accepts: two times of day.
Windows == [start_min : Minutes, end_min : Minutes]

\* Fault variant: a window that wraps past midnight is never open.
contains_minute_NoWrap(w, m) ==
  w.start_min = w.end_min \/ (w.start_min <= m /\ m < w.end_min)

contains_minute(w, m) ==
  \/ w.start_min = w.end_min
  \/ w.start_min < w.end_min /\ w.start_min <= m /\ m < w.end_min
  \/ w.start_min > w.end_min /\ (m >= w.start_min \/ m < w.end_min)

seconds_until_open(w, now_min, now_sec) ==
  LET diff == w.start_min * SecsPerMinute - (now_min * SecsPerMinute + now_sec)
      day  == MinutesPerDay * SecsPerMinute
  IN  IF contains_minute(w, now_min) THEN 0
      ELSE IF diff <= 0 THEN diff + day ELSE diff

-----------------------------------------------------------------------------
(* The wall clock (chrono::Local) the schedule is read against.            *)

NextSecond(s) == IF s + 1 = SecsPerMinute THEN 0 ELSE s + 1

NextMinute(m, s) ==
  IF s + 1 # SecsPerMinute THEN m
  ELSE IF m + 1 = MinutesPerDay THEN 0 ELSE m + 1
=============================================================================
