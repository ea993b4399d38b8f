----------------------- MODULE UploadScheduler_proofs -----------------------
(***************************************************************************)
(* Theorems about the upload loop, for every clock, window, debounce,      *)
(* concurrency limit, channel capacity and set of inodes.                  *)
(***************************************************************************)
EXTENDS UploadScheduler, FiniteSetTheorems, WellFoundedInduction, TLAPS

-----------------------------------------------------------------------------
(* Arithmetic of the transfer window.                                      *)

\* Whole minutes are at least a minute apart.
LEMMA MinutesApart ==
  ASSUME NEW a \in Nat, NEW b \in Nat, NEW k \in Nat, a < b
  PROVE  a * k + k <= b * k
  <1> DEFINE d == b - a - 1
  <1>1. d \in Nat /\ b = a + 1 + d
    OBVIOUS
  <1> HIDE DEF d
  <1>2. b * k = a * k + k + d * k
    BY <1>1
  <1>3. d * k \in Nat /\ a * k \in Nat
    BY <1>1
  <1> QED BY <1>2, <1>3

\* seconds_until_open is a number of seconds: positive when the window is
\* closed, zero when it is open.
LEMMA UntilOpenNat ==
  ASSUME NEW w \in Windows, NEW m \in Minutes, NEW s \in Seconds
  PROVE  /\ seconds_until_open(w, m, s) \in Nat
         /\ seconds_until_open(w, m, s) = 0 <=> contains_minute(w, m)
  <1> DEFINE S == SecsPerMinute
             A == w.start_min * S
             M == m * S
             D == MinutesPerDay * S
  <1>1. /\ w.start_min \in Nat /\ m \in Nat /\ s \in Nat /\ S \in Nat
        /\ MinutesPerDay \in Nat /\ m < MinutesPerDay /\ s < S
    BY ClockAssumption DEF Windows, Minutes, Seconds
  <1>2. M + S <= D
    BY <1>1, MinutesApart
  <1>3. A \in Nat /\ M \in Nat /\ D \in Nat
    BY <1>1
  <1>4. seconds_until_open(w, m, s) =
          IF contains_minute(w, m) THEN 0
          ELSE IF A - (M + s) <= 0 THEN A - (M + s) + D ELSE A - (M + s)
    BY DEF seconds_until_open
  <1> HIDE DEF S, A, M, D
  <1> QED BY <1>1, <1>2, <1>3, <1>4

\* While the window is closed the time until it opens goes down by exactly one
\* second every second, across minutes and across midnight.
LEMMA Countdown ==
  ASSUME NEW w \in Windows, NEW m \in Minutes, NEW s \in Seconds,
         ~contains_minute(w, m)
  PROVE  seconds_until_open(w, NextMinute(m, s), NextSecond(s))
           = seconds_until_open(w, m, s) - 1
  <1> DEFINE S == SecsPerMinute
             N == NextMinute(m, s)
             T == NextSecond(s)
             a == w.start_min
             A == a * S
             M == m * S
             P == N * S
             D == MinutesPerDay * S
  <1> SUFFICES seconds_until_open(w, N, T) = seconds_until_open(w, m, s) - 1
    OBVIOUS
  <1>1. /\ a \in Nat /\ w.end_min \in Nat /\ m \in Nat /\ s \in Nat
        /\ S \in Nat /\ MinutesPerDay \in Nat
        /\ a < MinutesPerDay /\ w.end_min < MinutesPerDay
        /\ m < MinutesPerDay /\ s < S
    BY ClockAssumption DEF Windows, Minutes, Seconds
  <1>2. seconds_until_open(w, m, s) =
          IF A - (M + s) <= 0 THEN A - (M + s) + D ELSE A - (M + s)
    BY DEF seconds_until_open
  <1>3. seconds_until_open(w, N, T) =
          IF contains_minute(w, N) THEN 0
          ELSE IF A - (P + T) <= 0 THEN A - (P + T) + D ELSE A - (P + T)
    BY DEF seconds_until_open
  <1>4. A \in Nat /\ M \in Nat /\ D \in Nat
    BY <1>1
  <1>5. (a < m => A + S <= M) /\ (m < a => M + S <= A) /\ (m = a => M = A)
    BY <1>1, MinutesApart
  <1>6. a # m /\ w.start_min # w.end_min
    BY <1>1 DEF contains_minute
  <1>7. CASE s + 1 # S
    <2>1. N = m /\ T = s + 1 /\ P = M /\ ~contains_minute(w, N)
      BY <1>7 DEF NextMinute, NextSecond
    <2> HIDE DEF S, N, T, a, A, M, P, D
    <2> QED BY <1>1, <1>2, <1>3, <1>4, <1>5, <1>6, <1>7, <2>1
  <1>8. CASE s + 1 = S /\ m + 1 # MinutesPerDay
    <2>1. N = m + 1 /\ T = 0 /\ P = M + S
      BY <1>1, <1>8 DEF NextMinute, NextSecond
    <2>2. contains_minute(w, N) <=> N = a
      BY <1>1, <1>6, <2>1 DEF contains_minute
    <2>3. N < a => P + S <= A
      BY <1>1, <2>1, MinutesApart
    <2>4. N = a => P = A
      OBVIOUS
    <2> HIDE DEF S, N, T, a, A, M, P, D
    <2> QED BY <1>1, <1>2, <1>3, <1>4, <1>5, <1>6, <1>8, <2>1, <2>2, <2>3, <2>4
  <1>9. CASE s + 1 = S /\ m + 1 = MinutesPerDay
    <2>1. N = 0 /\ T = 0 /\ P = 0
      BY <1>1, <1>9 DEF NextMinute, NextSecond
    <2>2. contains_minute(w, N) <=> a = 0
      BY <1>1, <1>6, <1>9, <2>1 DEF contains_minute
    <2>3. D = M + S
      BY <1>1, <1>9
    <2>4. a = 0 => A = 0
      BY <1>1
    <2>5. a # 0 => A >= S
      BY <1>1, MinutesApart, 0 * S = 0
    <2> HIDE DEF S, N, T, a, A, M, P, D
    <2> QED BY <1>1, <1>2, <1>3, <1>4, <1>5, <1>6, <1>9, <2>1, <2>2, <2>3, <2>4, <2>5
  <1> QED BY <1>7, <1>8, <1>9

-----------------------------------------------------------------------------
(* The loop's deadline.                                                    *)

\* A nonempty set of numbers has a least one.
LEMMA LeastExists ==
  ASSUME NEW X, X \subseteq Nat, X # {}
  PROVE  \E x \in X : \A y \in X : x <= y
  <1>1. PICK x \in X : \A y \in X : ~(<<y, x>> \in OpToRel(<, Nat))
    BY WFMin, NatLessThanWellFounded
  <1>2. \A y \in X : ~(y < x)
    BY <1>1 DEF OpToRel
  <1> QED BY <1>2

\* The window opens in a natural number of seconds, whatever the clock says.
LEMMA WindowNat ==
  ASSUME now_min \in Minutes, now_sec \in Seconds
  PROVE  secs_until_window_opens \in Nat
  BY SchedulerAssumption, UntilOpenNat DEF secs_until_window_opens

\* effective_due_at is a number of seconds, and never before the debounce.
LEMMA EffectiveNat ==
  ASSUME secs_until_window_opens \in Nat, NEW d \in Nat, NEW imm \in BOOLEAN
  PROVE  effective_due_at(d, imm) \in Nat
  BY DEF effective_due_at

\* The deadline the loop computes is no later than any pending entry's.
LEMMA DeadlineSoonest ==
  ASSUME secs_until_window_opens \in Nat,
         NEW P \in SUBSET Inodes, NEW D \in [Inodes -> Nat], NEW I
  PROVE  /\ next_deadline(P, D, I) \in Nat \cup {NoDeadline}
         /\ \A i \in P : /\ next_deadline(P, D, I) \in Nat
                         /\ next_deadline(P, D, I) <= effective_due_at(D[i], i \in I)
  <1> DEFINE eff(i) == effective_due_at(D[i], i \in I)
  <1>1. CASE P = {}
    BY <1>1 DEF next_deadline
  <1>2. CASE P # {}
    <2> DEFINE least == CHOOSE i \in P : \A j \in P : eff(i) <= eff(j)
    <2>1. \A i \in P : eff(i) \in Nat
      BY DEF effective_due_at
    <2>2. \E i \in P : \A j \in P : eff(i) <= eff(j)
      <3> HIDE DEF eff
      <3>1. {eff(i) : i \in P} \subseteq Nat /\ {eff(i) : i \in P} # {}
        BY <1>2, <2>1
      <3>2. PICK x \in {eff(i) : i \in P} : \A y \in {eff(i) : i \in P} : x <= y
        BY <3>1, LeastExists, Zenon
      <3> QED BY <3>2
    <2>3. least \in P /\ \A j \in P : eff(least) <= eff(j)
      BY <2>2, Zenon
    <2>4. next_deadline(P, D, I) = eff(least)
      BY <1>2 DEF next_deadline
    <2> HIDE DEF least, eff
    <2>5. next_deadline(P, D, I) \in Nat
      BY <2>1, <2>3, <2>4
    <2>6. \A i \in P : next_deadline(P, D, I) <= eff(i)
      BY <2>3, <2>4
    <2> QED BY <2>5, <2>6 DEF eff
  <1> QED BY <1>1, <1>2

-----------------------------------------------------------------------------
(* Type correctness and NoOversleep.                                       *)

\* After an arm of the select! the loop sleeps no longer than it may.
LEMMA LoopComputes ==
  ASSUME TypeOK, Loop, UNCHANGED clock,
         pending' \in SUBSET Inodes, due' \in [Inodes -> Nat]
  PROVE  deadline' \in Nat \cup {NoDeadline} /\ NoOversleep'
  <1>1. secs_until_window_opens \in Nat
    BY WindowNat DEF TypeOK
  <1>2. secs_until_window_opens' = secs_until_window_opens
    BY DEF secs_until_window_opens, clock
  <1>3. /\ deadline' \in Nat \cup {NoDeadline}
        /\ \A i \in pending' :
             /\ deadline' \in Nat
             /\ deadline' <= effective_due_at(due'[i], i \in immediate')
    BY <1>1, DeadlineSoonest DEF Loop
  <1>4. NoDeadline \notin Nat
    BY SchedulerAssumption
  <1>5. NoOversleep'
    BY <1>2, <1>3, <1>4 DEF NoOversleep, effective_due_at
  <1> QED BY <1>3, <1>5

\* A second brings the deadline and every effective due time down together.
LEMMA TickKeepsOrder ==
  ASSUME TypeOK, NoOversleep, Tick
  PROVE  NoOversleep'
  <1> DEFINE u == secs_until_window_opens
  <1>1. now_min' \in Minutes /\ now_sec' \in Seconds
    BY ClockAssumption
    DEF TypeOK, Tick, Minutes, Seconds, NextMinute, NextSecond
  <1>2. u \in Nat /\ u' \in Nat
    BY <1>1, WindowNat, UntilOpenNat, SchedulerAssumption
    DEF TypeOK, secs_until_window_opens
  <1>3. u > 0 => u' = u - 1
    BY SchedulerAssumption, UntilOpenNat, Countdown
    DEF TypeOK, Tick, secs_until_window_opens
  <1>4. SUFFICES ASSUME resolving' = Nobody, NEW i \in pending'
                 PROVE  deadline' # NoDeadline
                        /\ deadline' <= effective_due_at(due[i], i \in immediate)'
    BY DEF NoOversleep
  <1>5. /\ deadline # NoDeadline /\ deadline \in Nat
        /\ deadline <= effective_due_at(due[i], i \in immediate)
        /\ due[i] \in Nat
    BY <1>4 DEF NoOversleep, Tick, TypeOK
  <1>6. /\ deadline' = IF deadline = 0 THEN 0 ELSE deadline - 1
        /\ due'[i] = IF due[i] = 0 THEN 0 ELSE due[i] - 1
        /\ immediate' = immediate
    BY <1>4, <1>5 DEF Tick, TypeOK
  <1>7. deadline' \in Nat
    BY <1>5, <1>6
  <1>8. effective_due_at(due[i], i \in immediate)'
          = IF i \in immediate \/ u' = 0 THEN due'[i]
            ELSE IF due'[i] >= u' THEN due'[i] ELSE u'
    BY <1>6 DEF effective_due_at
  <1>9. effective_due_at(due[i], i \in immediate)
          = IF i \in immediate \/ u = 0 THEN due[i]
            ELSE IF due[i] >= u THEN due[i] ELSE u
    BY DEF effective_due_at
  <1> HIDE DEF u
  <1>10. deadline' <= effective_due_at(due[i], i \in immediate)'
    BY <1>2, <1>3, <1>5, <1>6, <1>8, <1>9
  <1> QED BY <1>7, <1>10, SchedulerAssumption

\* Every variable of the upload loop keeps its type; in particular only
\* pending inodes are immediate, and no upload is joined that was not started.
THEOREM TypeCorrect == Spec => []TypeOK
  <1> USE ClockAssumption, SchedulerAssumption
  <1>1. Init => TypeOK
    BY DEF Init, TypeOK, Minutes, Seconds, Triggers
  <1>2. TypeOK /\ [Next]_vars => TypeOK'
    <2> SUFFICES ASSUME TypeOK, [Next]_vars
                 PROVE  TypeOK'
      OBVIOUS
    <2> USE DEF TypeOK
    <2>1. ASSUME NEW t \in Triggers, enqueue(t)
          PROVE  TypeOK'
      BY <2>1 DEF enqueue, clock, queue
    <2>2. CASE Receive
      <3>1. Head(rx) \in Triggers /\ Tail(rx) \in Seq(Triggers)
        BY <2>2 DEF Receive
      <3>2. Head(rx).inode \in Inodes /\ debounce_of(Head(rx).kind) \in Nat
        BY <3>1 DEF Triggers, Kinds, debounce_of
      <3>3. pending' \in SUBSET Inodes /\ due' \in [Inodes -> Nat]
        BY <2>2, <3>2 DEF Receive
      <3>4. deadline' \in Nat \cup {NoDeadline}
        BY <2>2, <3>3, LoopComputes DEF Receive
      <3> QED BY <2>2, <3>1, <3>2, <3>3, <3>4 DEF Receive, clock
    <2>3. ASSUME NEW L \in SUBSET Inodes, Launch(L)
          PROVE  TypeOK'
      <3>1. deadline' \in Nat \cup {NoDeadline}
        BY <2>3, LoopComputes DEF Launch
      <3> QED BY <2>3, <3>1 DEF Launch, clock
    <2>4. ASSUME NEW i \in Inodes, Complete(i)
          PROVE  TypeOK'
      <3>1. deadline' \in Nat \cup {NoDeadline}
        BY <2>4, LoopComputes DEF Complete, Finished, queue
      <3> QED BY <2>4, <3>1 DEF Complete, Finished, clock, queue
    <2>5. ASSUME NEW i \in Inodes, CompleteRetry(i)
          PROVE  TypeOK'
      <3>1. deadline' \in Nat \cup {NoDeadline}
        BY <2>5, LoopComputes DEF CompleteRetry, Finished
      <3> QED BY <2>5, <3>1 DEF CompleteRetry, Finished, clock
    <2>6. ASSUME NEW i \in Inodes, CompleteConflict(i)
          PROVE  TypeOK'
      BY <2>6 DEF CompleteConflict, Finished, clock, queue
    <2>7. CASE Resolved
      <3>1. deadline' \in Nat \cup {NoDeadline}
        BY <2>7, LoopComputes DEF Resolved, queue
      <3> QED BY <2>7, <3>1 DEF Resolved, clock, queue
    <2>8. CASE Tick
      BY <2>8 DEF Tick, Minutes, Seconds, NextMinute, NextSecond
    <2>9. CASE UNCHANGED vars
      BY <2>9 DEF vars
    <2> QED BY <2>1, <2>2, <2>3, <2>4, <2>5, <2>6, <2>7, <2>8, <2>9 DEF Next
  <1> QED BY <1>1, <1>2, PTL DEF Spec

\* The upload loop never sleeps past an upload: the deadline it computed when
\* it entered its select! stays no later than the moment each pending entry
\* may start, for every window and however long it sleeps.
THEOREM LoopNeverOversleeps == Spec => []NoOversleep
  <1>1. Init => NoOversleep
    BY DEF Init, NoOversleep
  <1>2. TypeOK /\ TypeOK' /\ NoOversleep /\ [Next]_vars => NoOversleep'
    <2> SUFFICES ASSUME TypeOK, TypeOK', NoOversleep, [Next]_vars
                 PROVE  NoOversleep'
      OBVIOUS
    <2>0. pending' \in SUBSET Inodes /\ due' \in [Inodes -> Nat]
      BY DEF TypeOK
    <2>1. ASSUME UNCHANGED <<clock, queue, resolving, deadline>>
          PROVE  NoOversleep'
      BY <2>1 DEF NoOversleep, effective_due_at, secs_until_window_opens,
                  clock, queue
    <2>2. ASSUME NEW t \in Triggers, enqueue(t)
          PROVE  NoOversleep'
      BY <2>1, <2>2 DEF enqueue
    <2>3. CASE Receive
      BY <2>0, <2>3, LoopComputes DEF Receive
    <2>4. ASSUME NEW L \in SUBSET Inodes, Launch(L)
          PROVE  NoOversleep'
      BY <2>0, <2>4, LoopComputes DEF Launch
    <2>5. ASSUME NEW i \in Inodes, Complete(i)
          PROVE  NoOversleep'
      BY <2>0, <2>5, LoopComputes DEF Complete, Finished
    <2>6. ASSUME NEW i \in Inodes, CompleteRetry(i)
          PROVE  NoOversleep'
      BY <2>0, <2>6, LoopComputes DEF CompleteRetry, Finished
    <2>7. ASSUME NEW i \in Inodes, CompleteConflict(i)
          PROVE  NoOversleep'
      BY <2>7, SchedulerAssumption DEF CompleteConflict, NoOversleep
    <2>8. CASE Resolved
      BY <2>0, <2>8, LoopComputes DEF Resolved
    <2>9. CASE Tick
      BY <2>9, TickKeepsOrder
    <2>10. CASE UNCHANGED vars
      BY <2>1, <2>10 DEF vars, clock, queue
    <2> QED BY <2>2, <2>3, <2>4, <2>5, <2>6, <2>7, <2>8, <2>9, <2>10 DEF Next
  <1> QED BY <1>1, <1>2, TypeCorrect, PTL DEF Spec

-----------------------------------------------------------------------------
(* The concurrency limit.                                                  *)

\* A launch spawns one task for each inode.
LEMMA Spawned ==
  ASSUME TypeOK, IsFiniteSet(Tasks),
         NEW L \in SUBSET Inodes, in_flight' = [i \in Inodes |-> IF i \in L THEN in_flight[i] + 1
                                                                            ELSE in_flight[i]]
  PROVE  IsFiniteSet(Tasks') /\ InFlight' = InFlight + Cardinality(L)
  <1> DEFINE new(i) == <<i, in_flight[i] + 1>>
             Fresh == {new(i) : i \in L}
  <1>1. IsFiniteSet(L)
    BY SchedulerAssumption, FS_Subset
  <1>2. IsFiniteSet(Fresh) /\ Cardinality(Fresh) = Cardinality(L)
    <2>1. [i \in L |-> new(i)] \in Bijection(L, Fresh)
      BY DEF Bijection, Injection, Surjection, IsInjective
    <2> QED BY <1>1, <2>1, FS_Bijection DEF ExistsBijection
  <1>3. Tasks' = Tasks \cup Fresh
    <2>1. ASSUME NEW i \in Inodes, NEW k
          PROVE  k \in 1..in_flight'[i] <=> k \in 1..in_flight[i] \/ (i \in L /\ <<i, k>> = new(i))
      BY DEF TypeOK
    <2>2. ASSUME NEW t PROVE t \in Tasks' <=> \E i \in Inodes : \E k \in 1..in_flight'[i] : t = <<i, k>>
      BY DEF Tasks
    <2>3. ASSUME NEW t PROVE t \in Tasks <=> \E i \in Inodes : \E k \in 1..in_flight[i] : t = <<i, k>>
      BY DEF Tasks
    <2>4. ASSUME NEW t PROVE t \in Fresh <=> \E i \in L : \E k : t = <<i, k>> /\ <<i, k>> = new(i)
      OBVIOUS
    <2> HIDE DEF Fresh, new
    <2> QED BY <2>1, <2>2, <2>3, <2>4
  <1>4. Tasks \cap Fresh = {}
    <2> SUFFICES ASSUME NEW i \in Inodes, NEW k \in 1..in_flight[i], NEW j \in L, <<i, k>> = new(j)
                 PROVE  FALSE
      BY DEF Tasks
    <2> QED BY DEF TypeOK
  <1> HIDE DEF Fresh
  <1>5. Cardinality({}) = 0 /\ Cardinality(Tasks) \in Nat /\ Cardinality(Fresh) \in Nat
    BY <1>2, FS_EmptySet, FS_CardinalityType
  <1>6. /\ IsFiniteSet(Tasks \cup Fresh)
        /\ Cardinality(Tasks \cup Fresh) = Cardinality(Tasks) + Cardinality(Fresh) - Cardinality(Tasks \cap Fresh)
    BY <1>2, FS_Union
  <1>7. Cardinality(Tasks \cap Fresh) = 0
    BY <1>4, <1>5
  <1>8. IsFiniteSet(Tasks') /\ Cardinality(Tasks') = Cardinality(Tasks) + Cardinality(L)
    <2>1. Cardinality(Tasks \cup Fresh) = Cardinality(Tasks) + Cardinality(L)
      BY <1>2, <1>5, <1>6, <1>7
    <2> QED BY <1>3, <1>6, <2>1
  <1> QED BY <1>8 DEF InFlight

\* A join takes one task away.
LEMMA Joined ==
  ASSUME TypeOK, IsFiniteSet(Tasks), NEW i \in Inodes, Finished(i)
  PROVE  IsFiniteSet(Tasks') /\ InFlight' = InFlight - 1
  <1>1. /\ in_flight[i] \in Nat \ {0} /\ in_flight'[i] = in_flight[i] - 1
        /\ \A j \in Inodes \ {i} : in_flight'[j] = in_flight[j]
    BY DEF Finished, TypeOK
  <1> DEFINE last == <<i, in_flight[i]>>
  <1>2. last \in Tasks
    BY <1>1 DEF Tasks
  <1>3. Tasks' = Tasks \ {last}
    <2>1. ASSUME NEW j \in Inodes, NEW k
          PROVE  k \in 1..in_flight'[j] <=> k \in 1..in_flight[j] /\ <<j, k>> # last
      BY <1>1 DEF TypeOK
    <2> HIDE DEF last
    <2>2. ASSUME NEW t PROVE t \in Tasks' <=> \E j \in Inodes : \E k \in 1..in_flight'[j] : t = <<j, k>>
      BY DEF Tasks
    <2>3. ASSUME NEW t PROVE t \in Tasks <=> \E j \in Inodes : \E k \in 1..in_flight[j] : t = <<j, k>>
      BY DEF Tasks
    <2> QED BY <2>1, <2>2, <2>3
  <1> HIDE DEF last
  <1> QED BY <1>2, <1>3, FS_RemoveElement DEF InFlight

\* max_upload_concurrent bounds the uploads running at any time, retries and several
\* uploads of one inode included, for any limit and any number of inodes.
THEOREM ConcurrencyBounded == Spec => []UploadsBounded
  <1> DEFINE Bounded == IsFiniteSet(Tasks) /\ UploadsBounded
  <1>1. Init => Bounded
    <2> SUFFICES ASSUME Init PROVE Tasks = {}
      BY FS_EmptySet, SchedulerAssumption DEF UploadsBounded, InFlight
    <2>1. \A i \in Inodes : in_flight[i] = 0
      BY DEF Init
    <2> QED BY <2>1 DEF Tasks
  <1>2. TypeOK /\ Bounded /\ [Next]_vars => Bounded'
    <2> SUFFICES ASSUME TypeOK, Bounded, [Next]_vars
                 PROVE  Bounded'
      OBVIOUS
    <2>0. InFlight \in Nat /\ MaxConcurrent \in Nat /\ InFlight <= MaxConcurrent
      BY FS_CardinalityType, SchedulerAssumption DEF InFlight, UploadsBounded
    <2>1. ASSUME UNCHANGED in_flight
          PROVE  Bounded'
      BY <2>1 DEF UploadsBounded, InFlight, Tasks
    <2>2. ASSUME NEW L \in SUBSET Inodes, Launch(L)
          PROVE  Bounded'
      <3>1. IsFiniteSet(Tasks') /\ InFlight' = InFlight + Cardinality(L)
        BY <2>2, Spawned DEF Launch
      <3>2. Cardinality(L) + InFlight <= MaxConcurrent /\ Cardinality(L) \in Nat
        <4>1. Cardinality(L) \in Nat
          BY SchedulerAssumption, FS_Subset, FS_CardinalityType
        <4> QED BY <2>0, <2>2, <4>1 DEF Launch, FillsSlots
      <3> QED BY <2>0, <3>1, <3>2 DEF UploadsBounded
    <2>3. ASSUME NEW i \in Inodes, Finished(i)
          PROVE  Bounded'
      BY <2>0, <2>3, Joined DEF UploadsBounded
    <2>4. ASSUME NEW i \in Inodes, Complete(i) \/ CompleteRetry(i) \/ CompleteConflict(i)
          PROVE  Bounded'
      BY <2>3, <2>4 DEF Complete, CompleteRetry, CompleteConflict
    <2>5. CASE (\E t \in Triggers : enqueue(t)) \/ Receive \/ Resolved \/ Tick \/ UNCHANGED vars
      BY <2>1, <2>5 DEF enqueue, Receive, Resolved, Tick, vars
    <2> QED BY <2>2, <2>4, <2>5 DEF Next
  <1>3. Bounded => UploadsBounded
    OBVIOUS
  <1> QED BY <1>1, <1>2, <1>3, TypeCorrect, PTL DEF Spec
=============================================================================
