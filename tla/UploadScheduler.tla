--------------------------- MODULE UploadScheduler --------------------------
(***************************************************************************)
(* The upload loop of stratosyncd (sync/upload_queue.rs, upload_loop):     *)
(* which upload starts when.  Triggers from FUSE and from the watcher      *)
(* arrive through a bounded channel; each inode has at most one pending    *)
(* entry with a debounce deadline; the loop sleeps until the earliest      *)
(* deadline that the bandwidth window allows, launches what is ready up    *)
(* to max_concurrent, and handles completed uploads.  While it resolves a  *)
(* conflict it does nothing else.                                          *)
(*                                                                         *)
(* Deadlines are kept relative to now (0 = already due), so that time can  *)
(* run for ever.  What an upload does is the subject of FileSync; here it  *)
(* only has an outcome.                                                    *)
(***************************************************************************)
EXTENDS TransferWindow, Sequences, FiniteSets

CONSTANTS
  Inodes,
  Debounce,         \* restart of the debounce on a write
  CloseDebounce,    \* the shorter one on close
  MaxConcurrent,    \* max_upload_concurrent
  Window,           \* upload_window: a member of Windows, or NoWindow
  NoWindow,
  Nobody,           \* no conflict is being resolved
  NoDeadline,       \* the loop sleeps until it is poked
  ChannelCap,       \* capacity of the mpsc channel (512 in the code)
  MaxTriggers,      \* bound: triggers sent in a behaviour
  MaxFaults         \* bound: uploads that end in a retry or in a conflict

ASSUME SchedulerAssumption ==
  /\ IsFiniteSet(Inodes)
  /\ Debounce \in Nat /\ CloseDebounce \in Nat
  /\ MaxConcurrent \in Nat \ {0}
  /\ Window \in Windows \cup {NoWindow}
  /\ NoWindow \notin Windows
  /\ Nobody \notin Inodes
  /\ NoDeadline \notin Nat
  /\ ChannelCap \in Nat \ {0}

VARIABLES
  now_min, now_sec, \* the wall clock
  rx,               \* the channel: a sequence of triggers
  pending,          \* the inodes with a pending upload
  due,              \* seconds until the deadline of a pending upload
  immediate,        \* the pending inodes whose upload bypasses the window
  in_flight,        \* how many uploads of each inode are running
  resolving,        \* the inode whose conflict the loop is resolving
  deadline,         \* what the select! sleeps on, relative to now
  sent, faults      \* counters for the bounds

clock == <<now_min, now_sec>>
queue == <<pending, due, immediate>>
vars  == <<now_min, now_sec, rx, pending, due, immediate, in_flight,
           resolving, deadline, sent, faults>>

Kinds    == {"write", "close", "fsync"}
Triggers == [kind : Kinds, inode : Inodes]

-----------------------------------------------------------------------------
secs_until_window_opens ==
  IF Window = NoWindow THEN 0
  ELSE seconds_until_open(Window, now_min, now_sec)

effective_due_at(d, imm) ==
  IF imm \/ secs_until_window_opens = 0 THEN d
  ELSE IF d >= secs_until_window_opens THEN d ELSE secs_until_window_opens

\* Fault variant: the latest deadline instead of the soonest.
next_deadline_Latest(P, D, I) ==
  IF P = {} THEN NoDeadline
  ELSE LET eff(i) == effective_due_at(D[i], i \in I)
       IN  eff(CHOOSE i \in P : \A j \in P : eff(i) >= eff(j))

\* The soonest effective deadline among the pending entries.
next_deadline(P, D, I) ==
  IF P = {} THEN NoDeadline
  ELSE LET eff(i) == effective_due_at(D[i], i \in I)
       IN  eff(CHOOSE i \in P : \A j \in P : eff(i) <= eff(j))

\* The tasks of the JoinSet: those of one inode are numbered.
Tasks       == UNION {{i} \X (1..in_flight[i]) : i \in Inodes}
InFlight    == Cardinality(Tasks)
at_capacity == InFlight >= MaxConcurrent

debounce_of(kind) ==
  CASE kind = "write" -> Debounce
    [] kind = "close" -> CloseDebounce
    [] kind = "fsync" -> 0

\* Every arm of the select! ends an iteration: the next one computes the
\* deadline from the pending map the arm leaves behind.
Loop == deadline' = next_deadline(pending', due', immediate')

-----------------------------------------------------------------------------
Init ==
  /\ now_min \in Minutes /\ now_sec = 0
  /\ rx = << >>
  /\ pending = {} /\ due = [i \in Inodes |-> 0] /\ immediate = {}
  /\ in_flight = [i \in Inodes |-> 0]
  /\ resolving = Nobody
  /\ deadline = NoDeadline
  /\ sent = 0 /\ faults = 0

\* UploadQueue::enqueue: the sender waits while the channel is full.
enqueue(t) ==
  /\ Len(rx) < ChannelCap
  /\ sent < MaxTriggers
  /\ rx' = Append(rx, t)
  /\ sent' = sent + 1
  /\ UNCHANGED <<clock, queue, in_flight, resolving, deadline, faults>>

\* rx.recv(): a write restarts the debounce, close and fsync only shorten it.
\* The code tells them apart by comparing durations.
Receive ==
  /\ resolving = Nobody
  /\ rx # << >>
  /\ LET i   == Head(rx).inode
         new == debounce_of(Head(rx).kind)
     IN  /\ due' = [due EXCEPT ![i] =
                      IF i \notin pending \/ new = Debounce \/ new <= due[i]
                      THEN new ELSE due[i]]
         /\ pending' = pending \cup {i}
         /\ immediate' = IF Head(rx).kind = "fsync" THEN immediate \cup {i}
                                                    ELSE immediate
  /\ rx' = Tail(rx)
  /\ Loop
  /\ UNCHANGED <<clock, in_flight, resolving, sent, faults>>

Ready(i) ==
  /\ i \in pending
  /\ due[i] = 0
  /\ i \in immediate \/ secs_until_window_opens = 0

\* Fault variant: the limit is looked at once, not before every spawn.
FillsSlots_OnceChecked(L) == \A i \in pending : Ready(i) => i \in L

\* Ready entries are spawned until max_concurrent uploads are in flight.
FillsSlots(L) ==
  \/ Cardinality(L) + InFlight = MaxConcurrent
  \/ Cardinality(L) + InFlight < MaxConcurrent
     /\ \A i \in pending \ L : ~Ready(i)

\* The deadline arm.  The window is read again; the pending map is iterated
\* in no particular order, so any choice of ready inodes may get the slots.
Launch(L) ==
  /\ resolving = Nobody
  /\ ~at_capacity
  /\ deadline = 0
  /\ \A i \in L : Ready(i)
  /\ FillsSlots(L)
  /\ pending' = pending \ L
  /\ immediate' = immediate \ L
  /\ in_flight' = [i \in Inodes |-> IF i \in L THEN in_flight[i] + 1
                                               ELSE in_flight[i]]
  /\ due' = due
  /\ Loop
  /\ UNCHANGED <<clock, rx, resolving, sent, faults>>

\* Fault variant: a task is joined twice.
Finished_Twice(i) ==
  /\ resolving = Nobody
  /\ in_flight' = [in_flight EXCEPT ![i] = @ - 1]
  /\ UNCHANGED <<clock, rx, sent>>

Finished(i) ==
  /\ resolving = Nobody
  /\ in_flight[i] > 0
  /\ in_flight' = [in_flight EXCEPT ![i] = @ - 1]
  /\ UNCHANGED <<clock, rx, sent>>

\* join_next(): success and fatal errors leave the queue alone.
Complete(i) ==
  /\ Finished(i)
  /\ UNCHANGED <<queue, resolving, faults>>
  /\ Loop

\* A retryable error puts the inode back with a fresh, non-immediate entry.
CompleteRetry(i) ==
  /\ Finished(i)
  /\ faults < MaxFaults /\ faults' = faults + 1
  /\ pending' = pending \cup {i}
  /\ due' = [due EXCEPT ![i] = Debounce]
  /\ immediate' = immediate \ {i}
  /\ UNCHANGED resolving
  /\ Loop

\* A conflict is resolved inside the loop's own task.
CompleteConflict(i) ==
  /\ Finished(i)
  /\ faults < MaxFaults /\ faults' = faults + 1
  /\ resolving' = i
  /\ UNCHANGED <<queue, deadline>>

Resolved ==
  /\ resolving # Nobody
  /\ resolving' = Nobody
  /\ UNCHANGED <<clock, rx, queue, in_flight, sent, faults>>
  /\ Loop

\* One second passes, for the clock, the debounces and the sleeping loop.
Tick ==
  /\ now_min' = NextMinute(now_min, now_sec)
  /\ now_sec' = NextSecond(now_sec)
  /\ due' = [i \in Inodes |-> IF due[i] = 0 THEN 0 ELSE due[i] - 1]
  /\ deadline' = IF deadline \in {NoDeadline, 0} THEN deadline ELSE deadline - 1
  /\ UNCHANGED <<rx, pending, immediate, in_flight, resolving, sent, faults>>

Next ==
  \/ \E t \in Triggers : enqueue(t)
  \/ Receive
  \/ \E L \in SUBSET Inodes : Launch(L)
  \/ \E i \in Inodes : Complete(i) \/ CompleteRetry(i) \/ CompleteConflict(i)
  \/ Resolved
  \/ Tick

\* Time passes; the loop serves its arms; an upload and a resolution end
\* (rclone runs under a stall watchdog); a timer that fires while the window
\* is open is served before the window closes again, infinitely often.
Fairness ==
  /\ WF_vars(Tick) /\ WF_vars(Receive) /\ WF_vars(Resolved)
  /\ \A i \in Inodes : WF_vars(Complete(i))
  /\ SF_vars(\E L \in SUBSET Inodes \ {{}} : Launch(L))
  /\ WF_vars(Launch({}))

Spec == Init /\ [][Next]_vars /\ Fairness

-----------------------------------------------------------------------------
TypeOK ==
  /\ now_min \in Minutes /\ now_sec \in Seconds
  /\ rx \in Seq(Triggers)
  /\ pending \subseteq Inodes
  /\ due \in [Inodes -> Nat]
  /\ immediate \subseteq pending
  /\ in_flight \in [Inodes -> Nat]
  /\ resolving \in Inodes \cup {Nobody}
  /\ deadline \in Nat \cup {NoDeadline}
  /\ sent \in Nat /\ faults \in Nat

\* The loop never sleeps past an upload: whenever it waits in its select!,
\* the deadline it computed on entry is no later than the moment any pending
\* entry may start, read off the clock as it is now (debounce over and, unless
\* fsynced, window open).  upload_loop computes that deadline once per
\* iteration, possibly hours and a midnight before it matters.
NoOversleep ==
  resolving = Nobody =>
    \A i \in pending :
      deadline # NoDeadline /\ deadline <= effective_due_at(due[i], i \in immediate)

\* max_upload_concurrent bounds the uploads running at any time, whatever
\* mixture of retries and relaunches of one inode they are.
UploadsBounded == InFlight <= MaxConcurrent

\* When the applications stop, the queue drains: every trigger sent leads to
\* an upload of its inode, whatever the window, the failures and the
\* conflicts on the way.
Drains == <>[](rx = << >> /\ pending = {} /\ InFlight = 0 /\ resolving = Nobody)
=============================================================================
