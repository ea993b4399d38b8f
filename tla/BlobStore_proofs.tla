--------------------------- MODULE BlobStore_proofs -------------------------
(***************************************************************************)
(* Proofs about BlobStore: type correctness, and that the blobs of the     *)
(* version history and of the merge bases stay on disk outside the named   *)
(* races, for every number of files, contents, snapshots and crashes.      *)
(***************************************************************************)
EXTENDS BlobStore, FiniteSetTheorems, TLAPS

-----------------------------------------------------------------------------
(* The history of a file as a sequence.                                    *)

\* insert_version_history adds its hash and nothing else.
LEMMA RngInsert ==
  ASSUME NEW s \in Seq(Contents), NEW h \in Contents
  PROVE  <<h>> \o s \in Seq(Contents) /\ Rng(<<h>> \o s) = {h} \cup Rng(s)
  <1>1. <<h>> \o s \in Seq(Contents) /\ Len(<<h>> \o s) = Len(s) + 1
    OBVIOUS
  <1>2. (<<h>> \o s)[1] = h /\ \A k \in 1 .. Len(s) : (<<h>> \o s)[k + 1] = s[k]
    OBVIOUS
  <1>3. {h} \cup Rng(s) \subseteq Rng(<<h>> \o s)
    BY <1>1, <1>2 DEF Rng
  <1>4. Rng(<<h>> \o s) \subseteq {h} \cup Rng(s)
    <2> SUFFICES ASSUME NEW k \in 1 .. Len(<<h>> \o s)
                 PROVE  (<<h>> \o s)[k] \in {h} \cup Rng(s)
      BY DEF Rng
    <2>1. CASE k = 1
      BY <2>1, <1>2
    <2>2. CASE k # 1
      <3>1. k - 1 \in 1 .. Len(s) /\ (<<h>> \o s)[(k - 1) + 1] = s[k - 1]
        BY <2>2, <1>1, <1>2
      <3> QED BY <3>1 DEF Rng
    <2> QED BY <2>1, <2>2
  <1> QED BY <1>1, <1>3, <1>4

\* prune_version_history keeps and drops rows of the history it was given.
LEMMA RngPrune ==
  ASSUME NEW s \in Seq(Contents)
  PROVE  /\ Newest(s) \in Seq(Contents) /\ Rng(Newest(s)) \subseteq Rng(s)
         /\ Rng(Oldest(s)) \subseteq Contents
  BY BlobStoreAssumption DEF Newest, Oldest, Rng

LEMMA RngTyped ==
  ASSUME NEW s \in Seq(Contents)
  PROVE  Rng(s) \subseteq Contents
  BY DEF Rng

-----------------------------------------------------------------------------
(* Type correctness, with the locals that a step reads.                    *)

RowsTyped ==
  /\ file \in [Inodes -> OptContents]
  /\ dirty \subseteq Inodes
  /\ objects \in [Contents -> OptContents]
  /\ bases \in [Inodes -> OptContents]
  /\ aged \subseteq {i \in Inodes : bases[i] # None}
  /\ history \in [Inodes -> Seq(Contents)]
  /\ \A i \in Inodes : file[i] = None => bases[i] = None /\ history[i] = << >>
  /\ raced \subseteq Contents /\ outdated \subseteq Contents /\ evicted \subseteq Contents
  /\ writes \in Nat /\ cuts \in Nat

TypedJobs ==
  {j \in Jobs : /\ j.pc # "idle" => j.inode \in Inodes
                /\ j.pc \in {"exists", "copy", "insert", "base"} => j.hash \in Contents}

TasksTyped == task \in [Tasks -> TypedJobs]

GcTyped ==
  /\ gc \in Evictors
  /\ gc.pc \in {"row", "blob"} => gc.at \in Entries

TypeInv == RowsTyped /\ TasksTyped /\ GcTyped

\* The states a snapshot moves to.
LEMMA JobTyped ==
  ASSUME NEW pc \in Pcs, NEW kind \in {"upload", "poll", "base"},
         NEW i \in Inodes \cup {None}, NEW h \in Contents \cup {None},
         NEW O \in SUBSET Contents,
         pc # "idle" => i \in Inodes,
         pc \in {"exists", "copy", "insert", "base"} => h \in Contents
  PROVE  Job(pc, kind, i, h, O) \in TypedJobs
  BY DEF Job, Jobs, TypedJobs, OptContents

LEMMA IdleTyped == IdleJob \in TypedJobs
  BY DEF IdleJob, Job, Jobs, TypedJobs, OptContents, Pcs

\* What a snapshot holds.
LEMMA TaskHolds ==
  ASSUME TasksTyped, NEW t \in Tasks
  PROVE  /\ task[t].kind \in {"upload", "poll", "base"}
         /\ task[t].orphans \in SUBSET Contents
         /\ task[t].inode \in Inodes \cup {None}
         /\ task[t].pc # "idle" => task[t].inode \in Inodes
         /\ task[t].pc \in {"exists", "copy", "insert", "base"} => task[t].hash \in Contents
  BY DEF TasksTyped, TypedJobs, Jobs

\* What is next when a capture ends, one way or the other.
LEMMA AfterTyped ==
  ASSUME TasksTyped, NEW t \in Tasks, task[t].pc # "idle"
  PROVE  AfterCapture(t) \in TypedJobs
  <1>1. Job("hash", "base", task[t].inode, None, {}) \in TypedJobs
    BY TaskHolds, JobTyped DEF Pcs
  <1> QED BY <1>1, IdleTyped DEF AfterCapture

\* The steps of a snapshot keep the types.
LEMMA SnapshotTyped ==
  ASSUME TypeInv, NEW t \in Tasks, Snapshot(t)
  PROVE  TypeInv'
  <1> DEFINE j == task[t]
             i == task[t].inode
  <1>0. /\ j.kind \in {"upload", "poll", "base"} /\ j.orphans \in SUBSET Contents
        /\ i \in Inodes \cup {None} /\ (j.pc # "idle" => i \in Inodes)
        /\ j.pc \in {"exists", "copy", "insert", "base"} => j.hash \in Contents
    BY TaskHolds DEF TypeInv
  <1>m. ASSUME NEW new \in TypedJobs, task' = [task EXCEPT ![t] = new]
        PROVE  TasksTyped'
    BY <1>m DEF TypeInv, TasksTyped
  <1> USE <1>0, BlobStoreAssumption DEF TypeInv, RowsTyped, OptContents, TaskStep, rows, marks
  <1>1. CASE StoreHash(t)
    <2>1. file[i] \in Contents /\ i \in Inodes
      BY <1>1 DEF StoreHash
    <2>2. At(t, "exists", file[i], {}) \in TypedJobs
      BY <2>1, JobTyped DEF At, Pcs
    <2>3. TasksTyped'
      BY <1>1, <1>m, <2>2 DEF StoreHash
    <2> QED BY <1>1, <2>3 DEF StoreHash, GcTyped
  <1>2. CASE StoreExists(t)
    <2>1. \A pc \in {"copy", "insert", "base"} : At(t, pc, j.hash, {}) \in TypedJobs
      BY <1>2, JobTyped DEF StoreExists, At, Pcs
    <2>2. TasksTyped'
      BY <1>2, <1>m, <2>1 DEF StoreExists, Stored
    <2> QED BY <1>2, <2>2 DEF StoreExists, GcTyped
  <1>3. CASE StoreCopy(t)
    <2>1. At(t, Stored(j.kind), j.hash, {}) \in TypedJobs
      BY <1>3, JobTyped DEF StoreCopy, At, Pcs, Stored
    <2>2. TasksTyped'
      BY <1>3, <1>m, <2>1 DEF StoreCopy
    <2> QED BY <1>3, <2>2 DEF StoreCopy, GcTyped
  <1>4. CASE InsertVersion(t)
    <2>1. At(t, "prune", None, {}) \in TypedJobs
      BY <1>4, JobTyped DEF InsertVersion, At, Pcs
    <2>2. TasksTyped'
      BY <1>4, <1>m, <2>1 DEF InsertVersion
    <2>3. <<j.hash>> \o history[i] \in Seq(Contents)
      BY <1>4, RngInsert DEF InsertVersion
    <2> QED BY <1>4, <2>2, <2>3 DEF InsertVersion, GcTyped
  <1>5. CASE Prune(t)
    <2>1. /\ Newest(history[i]) \in Seq(Contents)
          /\ Rng(Oldest(history[i])) \subseteq Contents
          /\ history[i] = << >> => Newest(history[i]) = << >>
      BY <1>5, RngPrune DEF Prune, Newest
    <2> DEFINE O == {h \in Rng(Oldest(history[i])) : Unreferenced(h)}
    <2>2. task' = [task EXCEPT ![t] = At(t, "remove", None, O)] /\ i \in Inodes
      BY <1>5 DEF Prune
    <2>3. O \in SUBSET Contents
      BY <2>1
    <2>4. TasksTyped'
      <3> HIDE DEF O
      <3>1. At(t, "remove", None, O) \in TypedJobs
        BY <2>2, <2>3, JobTyped DEF At, Pcs
      <3> QED BY <1>m, <2>2, <3>1
    <2> QED BY <1>5, <2>1, <2>4 DEF Prune, GcTyped
  <1>6. ASSUME NEW h \in Contents, RemoveOrphan(t, h)
        PROVE  TypeInv'
    <2>1. At(t, "remove", None, j.orphans \ {h}) \in TypedJobs
      BY <1>6, JobTyped DEF RemoveOrphan, At, Pcs
    <2>2. TasksTyped'
      BY <1>6, <1>m, <2>1 DEF RemoveOrphan
    <2> QED BY <1>6, <2>2 DEF RemoveOrphan, GcTyped
  <1>7. CASE Captured(t)
    <2>1. AfterCapture(t) \in TypedJobs
      BY <1>7, AfterTyped DEF Captured
    <2>2. TasksTyped'
      BY <1>7, <1>m, <2>1 DEF Captured
    <2> QED BY <1>7, <2>2 DEF Captured, GcTyped
  <1>8. CASE SetBase(t)
    <2>1. Listed(i) \subseteq Contents
      BY <1>8 DEF SetBase, Listed, GcTyped, Evictors, Entries
    <2>2. TasksTyped'
      BY <1>8, <1>m, IdleTyped DEF SetBase
    <2> QED BY <1>8, <2>1, <2>2 DEF SetBase, GcTyped
  <1>9. CASE FileGone(t)
    <2>1. AfterCapture(t) \in TypedJobs
      BY <1>9, AfterTyped DEF FileGone
    <2>2. TasksTyped'
      BY <1>9, <1>m, <2>1 DEF FileGone
    <2> QED BY <1>9, <2>2 DEF FileGone, GcTyped
  <1> QED BY <1>1, <1>2, <1>3, <1>4, <1>5, <1>6, <1>7, <1>8, <1>9 DEF Snapshot

\* So do those of the evictor.
LEMMA EvictTyped ==
  ASSUME TypeInv, Evict
  PROVE  TypeInv'
  <1> USE BlobStoreAssumption
          DEF TypeInv, GcTyped, OptContents, GcStep, Evictor, Evictors, IdleGc, NextEntry, rows, marks
  <1>1. CASE EvictList
    <2>1. Stale \subseteq Entries
      BY DEF Stale, RowsTyped, Entries
    <2> QED BY <1>1, <2>1 DEF EvictList, RowsTyped, TasksTyped
  <1>2. ASSUME NEW e \in Inodes \X Contents, EvictCount(e)
        PROVE  TypeInv'
    <2>1. base_hash_ref_count(e[2]) \in Nat
      <3>1. IsFiniteSet({i \in Inodes : bases[i] = e[2]})
        BY FS_Subset
      <3> QED BY <3>1, FS_CardinalityType DEF base_hash_ref_count
    <2> QED BY <1>2, <2>1 DEF EvictCount, RowsTyped, TasksTyped, Entries
  <1>3. CASE EvictRow
    BY <1>3 DEF EvictRow, RowsTyped, TasksTyped, Entries
  <1>4. CASE EvictBlob
    BY <1>4 DEF EvictBlob, RowsTyped, TasksTyped, Entries
  <1> QED BY <1>1, <1>2, <1>3, <1>4 DEF Evict

\* The types hold throughout.
LEMMA TypeInvariant == Spec => []TypeInv
  <1> USE BlobStoreAssumption
  <1>1. Init => TypeInv
    <2> SUFFICES ASSUME Init PROVE TypeInv
      OBVIOUS
    <2>1. IdleGc \in Evictors /\ IdleGc.pc = "idle"
      BY DEF Evictor, IdleGc, Evictors
    <2> QED BY <2>1, IdleTyped DEF Init, TypeInv, RowsTyped, TasksTyped, GcTyped, OptContents
  <1>2. TypeInv /\ [Next]_vars => TypeInv'
    <2> SUFFICES ASSUME TypeInv, [Next]_vars
                 PROVE  TypeInv'
      OBVIOUS
    <2> USE DEF TypeInv
    <2>1. ASSUME NEW i \in Inodes, NEW c \in Contents, Write(i, c)
          PROVE  TypeInv'
      BY <2>1 DEF Write, RowsTyped, TasksTyped, GcTyped, OptContents, rows, marks
    <2>2. ASSUME NEW t \in Tasks, NEW i \in Inodes, Uploaded(t, i) \/ BeforePoll(t, i)
          PROVE  TypeInv'
      <3>1. TasksTyped'
        <4>1. \A kind \in {"upload", "poll", "base"} : Job("hash", kind, i, None, {}) \in TypedJobs
          BY JobTyped DEF Pcs
        <4> QED BY <2>2, <4>1 DEF Uploaded, BeforePoll, Start, TasksTyped
      <3> QED BY <2>2, <3>1 DEF Uploaded, BeforePoll, RowsTyped, GcTyped, rows, marks
    <2>3. ASSUME NEW t \in Tasks, NEW i \in Inodes, NEW c \in Contents, Hydrated(t, i, c)
          PROVE  TypeInv'
      <3>1. TasksTyped'
        <4>1. Job("hash", "base", i, None, {}) \in TypedJobs
          BY JobTyped DEF Pcs
        <4> QED BY <2>3, <4>1 DEF Hydrated, Start, TasksTyped
      <3> QED BY <2>3, <3>1 DEF Hydrated, RowsTyped, GcTyped, OptContents, rows, marks
    <2>4. ASSUME NEW t \in Tasks, Abort(t)
          PROVE  TypeInv'
      <3>1. TasksTyped'
        <4>1. AfterCapture(t) \in TypedJobs
          BY <2>4, AfterTyped DEF Abort
        <4> QED BY <2>4, <4>1 DEF Abort, TasksTyped
      <3> QED BY <2>4, <3>1 DEF Abort, RowsTyped, GcTyped, rows, marks
    <2>5. ASSUME NEW i \in Inodes, Age(i)
          PROVE  TypeInv'
      BY <2>5 DEF Age, RowsTyped, TasksTyped, GcTyped, marks
    <2>6. ASSUME NEW i \in Inodes, Delete(i)
          PROVE  TypeInv'
      <3>1. Listed(i) \subseteq Contents
        BY DEF Listed, GcTyped, Evictors, Entries
      <3> QED BY <2>6, <3>1 DEF Delete, RowsTyped, TasksTyped, GcTyped, OptContents
    <2>7. CASE Crash
      <3>1. IdleGc \in Evictors /\ IdleGc.pc = "idle"
        BY DEF Evictor, IdleGc, Evictors
      <3>2. Cardinality({t \in Tasks : task[t].pc # "idle"}) \in Nat
        BY FS_Subset, FS_CardinalityType
      <3> QED BY <2>7, <3>1, <3>2, IdleTyped DEF Crash, RowsTyped, TasksTyped, GcTyped, rows, marks
    <2>8. ASSUME NEW i \in Inodes, NEW k \in DOMAIN history[i], Restore(i, k)
          PROVE  TypeInv'
      <3>1. history[i][k] \in Contents
        BY DEF RowsTyped
      <3> QED BY <2>8, <3>1 DEF Restore, RowsTyped, TasksTyped, GcTyped, OptContents, rows, marks
    <2>9. ASSUME NEW t \in Tasks, NEW h \in Contents, RemoveFails(t, h)
          PROVE  TypeInv'
      <3>1. At(t, "remove", None, task[t].orphans \ {h}) \in TypedJobs
        BY <2>9, TaskHolds, JobTyped DEF RemoveFails, At, Pcs
      <3>2. TasksTyped'
        BY <2>9, <3>1 DEF RemoveFails, TasksTyped
      <3> QED BY <2>9, <3>2 DEF RemoveFails, RowsTyped, GcTyped, rows, marks
    <2>10. CASE EvictAbort
      <3>1. IdleGc \in Evictors /\ IdleGc.pc = "idle"
        BY DEF Evictor, IdleGc, Evictors
      <3> QED BY <2>10, <3>1 DEF EvictAbort, RowsTyped, TasksTyped, GcTyped, rows, marks
    <2>11. CASE UNCHANGED vars
      BY <2>11 DEF vars, RowsTyped, TasksTyped, GcTyped
    <2> QED
      BY <2>1, <2>2, <2>3, <2>4, <2>5, <2>6, <2>7, <2>8, <2>9, <2>10, <2>11,
         SnapshotTyped, EvictTyped DEF Next
  <1> QED BY <1>1, <1>2, PTL DEF Spec

\* Type correctness of the blob store; in particular no base and no version
\* outlives the row of its file.
THEOREM TypeCorrect == Spec => []TypeOK
  <1>1. TypeInv => TypeOK
    BY DEF TypeInv, TypeOK, RowsTyped, TasksTyped, TypedJobs, GcTyped
  <1> QED BY <1>1, TypeInvariant, PTL

-----------------------------------------------------------------------------
(* The inductive invariants.                                               *)

\* What a snapshot found or put in place is on disk until its row is written.
FoundOnDisk ==
  \A t \in Tasks :
    task[t].pc \in {"insert", "base"} => task[t].hash \in raced \/ objects[task[t].hash] # None

\* What a pruning snapshot is about to remove is still free.
OrphansUnversioned == \A t \in Tasks : \A h \in task[t].orphans \ raced : ~InHistory(h)
OrphansNoBase      == \A t \in Tasks : \A h \in task[t].orphans \ raced : ~InBases(h)

\* The evictor's list: one entry for an inode, with the base it has now, and
\* the entry in hand is no longer in it.
ListCurrent ==
  /\ \A e \in gc.todo : e[2] \in outdated \/ bases[e[1]] = e[2]
  /\ \A e, f \in gc.todo : e[1] = f[1] => e = f
  /\ gc.pc = "row" => \A e \in gc.todo : e[1] # gc.at[1]

\* The entry in hand: before its row goes, a count of one means no other file
\* has that base; when the blob goes, no file has it.
CountCurrent ==
  /\ gc.pc = "row" /\ gc.at[2] \notin raced \cup outdated =>
       /\ bases[gc.at[1]] = gc.at[2]
       /\ gc.refs <= 1 => \A i \in Inodes \ {gc.at[1]} : bases[i] # gc.at[2]
  /\ gc.pc = "blob" /\ gc.at[2] \notin raced \cup outdated => ~InBases(gc.at[2])

VersionsInv == TypeInv /\ VersionsOnDisk /\ FoundOnDisk /\ OrphansUnversioned
BasesInv ==
  TypeInv /\ BasesOnDisk /\ FoundOnDisk /\ OrphansNoBase /\ ListCurrent /\ CountCurrent

LEMMA JobFields ==
  ASSUME NEW pc, NEW kind, NEW i, NEW h, NEW O
  PROVE  /\ Job(pc, kind, i, h, O).pc = pc /\ Job(pc, kind, i, h, O).hash = h
         /\ Job(pc, kind, i, h, O).orphans = O
  BY DEF Job

LEMMA TaskAfter ==
  ASSUME TypeInv, NEW t \in Tasks, NEW new, task' = [task EXCEPT ![t] = new]
  PROVE  \A s \in Tasks : task'[s] = IF s = t THEN new ELSE task[s]
  BY DEF TypeInv, TasksTyped

\* A step that leaves the rows, the blobs in use and the orphans alone.
Quiet ==
  /\ bases' = bases /\ history' = history /\ raced' = raced /\ outdated' = outdated
  /\ \A h \in Contents : objects[h] # None => objects'[h] # None
  /\ \A h \in Contents : h \in evicted => h \in evicted' \/ objects'[h] # None
  /\ \A s \in Tasks : task'[s].orphans \subseteq task[s].orphans
  /\ \A s \in Tasks : task'[s].pc \in {"insert", "base"} =>
       task'[s] = task[s] \/ objects'[task'[s].hash] # None

QuietStep ==
  \/ \E i \in Inodes, c \in Contents : Write(i, c)
  \/ \E t \in Tasks, i \in Inodes : Uploaded(t, i) \/ BeforePoll(t, i)
  \/ \E t \in Tasks, i \in Inodes, c \in Contents : Hydrated(t, i, c)
  \/ \E t \in Tasks : StoreHash(t) \/ StoreExists(t) \/ StoreCopy(t) \/ Captured(t)
                        \/ FileGone(t) \/ Abort(t)
  \/ \E t \in Tasks, h \in Contents : RemoveFails(t, h)
  \/ EvictAbort
  \/ \E i \in Inodes : Age(i)
  \/ Crash
  \/ \E i \in Inodes : \E k \in DOMAIN history[i] : Restore(i, k)
  \/ UNCHANGED vars

\* Most steps are of that kind.
LEMMA QuietSteps ==
  ASSUME TypeInv, QuietStep
  PROVE  Quiet /\ (gc' = gc \/ gc' = IdleGc)
  <1> DEFINE Calm(new, t) == /\ new.orphans \subseteq task[t].orphans
                             /\ new.pc \in {"insert", "base"} => objects'[new.hash] # None
  <1>m. ASSUME NEW t \in Tasks, NEW new, Calm(new, t), task' = [task EXCEPT ![t] = new],
               bases' = bases, history' = history, raced' = raced, outdated' = outdated, gc' = gc,
               \A h \in Contents : objects[h] # None => objects'[h] # None,
               \A h \in Contents : h \in evicted => h \in evicted' \/ objects'[h] # None
        PROVE  Quiet /\ gc' = gc
    BY <1>m, TaskAfter DEF Quiet
  <1>a. \A t \in Tasks : Calm(AfterCapture(t), t)
    <2>1. \A t \in Tasks : Calm(IdleJob, t) /\ Calm(Job("hash", "base", task[t].inode, None, {}), t)
      BY JobFields DEF IdleJob
    <2> HIDE DEF Calm
    <2> QED BY <2>1 DEF AfterCapture
  <1>s. ASSUME NEW t \in Tasks, NEW kind, NEW i, Start(t, kind, i),
               UNCHANGED <<bases, history, marks, gc, objects>>
        PROVE  Quiet /\ gc' = gc
    <2>1. Calm(Job("hash", kind, i, None, {}), t)
      BY JobFields
    <2> HIDE DEF Calm
    <2> QED BY <1>s, <1>m, <2>1 DEF Start, marks
  <1>1. ASSUME NEW i \in Inodes, NEW c \in Contents, Write(i, c)
        PROVE  Quiet /\ gc' = gc
    BY <1>1 DEF Write, rows, marks, Quiet
  <1>2. ASSUME NEW t \in Tasks, NEW i \in Inodes, Uploaded(t, i) \/ BeforePoll(t, i)
        PROVE  Quiet /\ gc' = gc
    BY <1>2, <1>s DEF Uploaded, BeforePoll, rows, marks
  <1>3. ASSUME NEW t \in Tasks, NEW i \in Inodes, NEW c \in Contents, Hydrated(t, i, c)
        PROVE  Quiet /\ gc' = gc
    <2>1. CASE i \in Mergeable
      BY <1>3, <1>s, <2>1 DEF Hydrated, rows, marks
    <2>2. CASE i \notin Mergeable
      BY <1>3, <2>2 DEF Hydrated, rows, marks, Quiet
    <2> QED BY <2>1, <2>2
  <1>4. ASSUME NEW t \in Tasks, StoreHash(t)
        PROVE  Quiet /\ gc' = gc
    <2>1. Calm(At(t, "exists", file[task[t].inode], {}), t)
      BY JobFields DEF At
    <2> HIDE DEF Calm
    <2> QED BY <1>4, <1>m, <2>1 DEF StoreHash, TaskStep, rows, marks
  <1>5. ASSUME NEW t \in Tasks, StoreExists(t)
        PROVE  Quiet /\ gc' = gc
    <2> DEFINE new == At(t, IF objects[task[t].hash] = None THEN "copy"
                            ELSE Stored(task[t].kind), task[t].hash, {})
    <2>1. Calm(new, t)
      BY <1>5, JobFields DEF At, StoreExists
    <2>2. task' = [task EXCEPT ![t] = new]
      BY <1>5 DEF StoreExists, TaskStep
    <2> HIDE DEF Calm, new
    <2> QED BY <1>5, <1>m, <2>1, <2>2 DEF StoreExists, TaskStep, rows, marks
  <1>6. ASSUME NEW t \in Tasks, StoreCopy(t)
        PROVE  Quiet /\ gc' = gc
    <2> DEFINE new == At(t, Stored(task[t].kind), task[t].hash, {})
    <2>0. task[t].hash \in Contents
      BY <1>6, TaskHolds DEF StoreCopy, TaskStep, TypeInv
    <2>1. /\ objects'[task[t].hash] # None
          /\ \A h \in Contents : objects[h] # None => objects'[h] # None
      BY <1>6, <2>0 DEF StoreCopy, TypeInv, RowsTyped
    <2>2. Calm(new, t)
      BY <2>1, JobFields DEF At
    <2>3. task' = [task EXCEPT ![t] = new]
      BY <1>6 DEF StoreCopy, TaskStep
    <2> HIDE DEF Calm, new
    <2> QED BY <1>6, <1>m, <2>1, <2>2, <2>3 DEF StoreCopy, TaskStep, rows, marks
  <1>7. ASSUME NEW t \in Tasks, Captured(t)
        PROVE  Quiet /\ gc' = gc
    <2> HIDE DEF Calm
    <2> QED BY <1>7, <1>m, <1>a DEF Captured, TaskStep, rows, marks
  <1>8. ASSUME NEW t \in Tasks, FileGone(t) \/ Abort(t)
        PROVE  Quiet /\ gc' = gc
    <2> HIDE DEF Calm
    <2> QED BY <1>8, <1>m, <1>a DEF FileGone, Abort, rows, marks
  <1>9. ASSUME NEW i \in Inodes, Age(i)
        PROVE  Quiet /\ gc' = gc
    BY <1>9 DEF Age, Quiet, marks
  <1>10. CASE Crash
    BY <1>10, JobFields DEF Crash, rows, marks, Quiet, IdleJob
  <1>11. ASSUME NEW i \in Inodes, NEW k \in DOMAIN history[i], Restore(i, k)
         PROVE  Quiet /\ gc' = gc
    BY <1>11 DEF Restore, rows, marks, Quiet
  <1>12. ASSUME NEW t \in Tasks, NEW h \in Contents, RemoveFails(t, h)
         PROVE  Quiet /\ gc' = gc
    <2>1. Calm(At(t, "remove", None, task[t].orphans \ {h}), t)
      BY JobFields DEF At
    <2> HIDE DEF Calm
    <2> QED BY <1>12, <1>m, <2>1 DEF RemoveFails, rows, marks
  <1>13. CASE EvictAbort
    BY <1>13 DEF EvictAbort, rows, marks, Quiet
  <1>14. CASE UNCHANGED vars
    BY <1>14 DEF vars, Quiet
  <1> HIDE DEF Calm
  <1> QED BY <1>1, <1>2, <1>3, <1>4, <1>5, <1>6, <1>7, <1>8, <1>9, <1>10, <1>11, <1>12,
             <1>13, <1>14
          DEF QuietStep

\* The others: the steps that write rows or remove blobs.
LEMMA OtherSteps ==
  ASSUME [Next]_vars
  PROVE  \/ QuietStep
         \/ \E t \in Tasks : InsertVersion(t) \/ Prune(t) \/ SetBase(t)
         \/ \E t \in Tasks, h \in Contents : RemoveOrphan(t, h)
         \/ \E i \in Inodes : Delete(i)
         \/ Evict
  BY DEF Next, Snapshot, QuietStep

\* What the writing steps leave of the snapshots.
LEMMA MovesTo ==
  ASSUME TypeInv, NEW t \in Tasks, NEW pc, NEW kind, NEW i, NEW h, NEW O,
         task' = [task EXCEPT ![t] = Job(pc, kind, i, h, O)]
  PROVE  /\ task'[t].pc = pc /\ task'[t].orphans = O
         /\ \A s \in Tasks \ {t} : task'[s] = task[s]
  <1> DEFINE new == Job(pc, kind, i, h, O)
  <1>1. new.pc = pc /\ new.orphans = O
    BY JobFields
  <1>2. task' = [task EXCEPT ![t] = new]
    OBVIOUS
  <1> HIDE DEF new
  <1>3. \A s \in Tasks : task'[s] = IF s = t THEN new ELSE task[s]
    BY <1>2, TaskAfter
  <1> QED BY <1>1, <1>3

LEMMA InsertMoves ==
  ASSUME TypeInv, NEW t \in Tasks, InsertVersion(t)
  PROVE  /\ task'[t].pc = "prune" /\ task'[t].orphans = {}
         /\ \A s \in Tasks \ {t} : task'[s] = task[s]
  BY MovesTo DEF InsertVersion, TaskStep, At

LEMMA PruneMoves ==
  ASSUME TypeInv, NEW t \in Tasks, Prune(t)
  PROVE  /\ task'[t].pc = "remove"
         /\ task'[t].orphans =
              {h \in Rng(Oldest(history[task[t].inode])) : Unreferenced(h)}
         /\ \A s \in Tasks \ {t} : task'[s] = task[s]
  <1> DEFINE O == {h \in Rng(Oldest(history[task[t].inode])) : Unreferenced(h)}
  <1>1. task' = [task EXCEPT ![t] = At(t, "remove", None, O)]
    BY DEF Prune, TaskStep
  <1> HIDE DEF O
  <1>2. /\ task'[t].pc = "remove" /\ task'[t].orphans = O
        /\ \A s \in Tasks \ {t} : task'[s] = task[s]
    BY <1>1, MovesTo DEF At
  <1> QED BY <1>2 DEF O

LEMMA RemoveMoves ==
  ASSUME TypeInv, NEW t \in Tasks, NEW h \in Contents, RemoveOrphan(t, h)
  PROVE  /\ task'[t].pc = "remove" /\ task'[t].orphans = task[t].orphans \ {h}
         /\ \A s \in Tasks \ {t} : task'[s] = task[s]
  BY MovesTo DEF RemoveOrphan, TaskStep, At

LEMMA SetBaseMoves ==
  ASSUME TypeInv, NEW t \in Tasks, SetBase(t)
  PROVE  /\ task'[t].pc = "idle" /\ task'[t].orphans = {}
         /\ \A s \in Tasks \ {t} : task'[s] = task[s]
  BY MovesTo DEF SetBase, TaskStep, IdleJob

\* Only remove_object and the evictor take blobs away.
LEMMA FoundStays ==
  ASSUME TypeInv, FoundOnDisk, [Next]_vars
  PROVE  FoundOnDisk'
  <1>0. \A t \in Tasks : task[t].pc \in {"insert", "base"} =>
          task[t].hash \in Contents /\ task[t].hash \in Found
    BY TaskHolds DEF TypeInv, Found
  <1>1. CASE QuietStep
    BY <1>0, <1>1, QuietSteps DEF Quiet, FoundOnDisk
  <1>2. ASSUME NEW t \in Tasks, InsertVersion(t)
        PROVE  FoundOnDisk'
    BY <1>2, InsertMoves DEF InsertVersion, FoundOnDisk
  <1>3. ASSUME NEW t \in Tasks, Prune(t)
        PROVE  FoundOnDisk'
    BY <1>3, PruneMoves DEF Prune, FoundOnDisk, marks
  <1>4. ASSUME NEW t \in Tasks, SetBase(t)
        PROVE  FoundOnDisk'
    BY <1>4, SetBaseMoves DEF SetBase, FoundOnDisk
  <1>5. ASSUME NEW t \in Tasks, NEW h \in Contents, RemoveOrphan(t, h)
        PROVE  FoundOnDisk'
    <2>1. \A g \in Contents \ {h} : objects'[g] = objects[g]
      BY <1>5 DEF RemoveOrphan, TypeInv, RowsTyped
    <2>2. raced' = raced \cup (Found \cap {h})
      BY <1>5 DEF RemoveOrphan
    <2> QED BY <1>0, <1>5, <2>1, <2>2, RemoveMoves DEF FoundOnDisk
  <1>6. ASSUME NEW i \in Inodes, Delete(i)
        PROVE  FoundOnDisk'
    BY <1>6 DEF Delete, FoundOnDisk
  <1>7. CASE Evict
    <2>1. CASE EvictBlob
      <3>1. \A g \in Contents \ {gc.at[2]} : objects'[g] = objects[g]
        BY <2>1 DEF EvictBlob, TypeInv, RowsTyped
      <3> QED BY <1>0, <2>1, <3>1 DEF EvictBlob, GcStep, FoundOnDisk
    <2>2. CASE ~EvictBlob
      BY <1>7, <2>2 DEF Evict, EvictList, EvictCount, EvictRow, GcStep, FoundOnDisk, marks
    <2> QED BY <2>1, <2>2
  <1> QED BY <1>1, <1>2, <1>3, <1>4, <1>5, <1>6, <1>7, OtherSteps

-----------------------------------------------------------------------------
(* The version history.                                                    *)

\* A step keeps the history restorable.
LEMMA VersionsStep ==
  ASSUME VersionsInv, [Next]_vars
  PROVE  VersionsOnDisk' /\ OrphansUnversioned'
  <1> USE DEF VersionsInv
  <1>h. \A i \in Inodes : Rng(history[i]) \subseteq Contents
    BY RngTyped DEF TypeInv, RowsTyped
  <1>1. CASE QuietStep
    <2>1. Quiet
      BY <1>1, QuietSteps
    <2> QED BY <1>h, <2>1 DEF Quiet, VersionsOnDisk, OrphansUnversioned, InHistory
  <1>2. ASSUME NEW t \in Tasks, InsertVersion(t)
        PROVE  VersionsOnDisk' /\ OrphansUnversioned'
    <2> DEFINE i == task[t].inode
               h == task[t].hash
    <2>1. i \in Inodes /\ h \in Contents
      BY <1>2, TaskHolds DEF InsertVersion, TaskStep, TypeInv
    <2>2. /\ Rng(history'[i]) = {h} \cup Rng(history[i])
          /\ \A j \in Inodes \ {i} : history'[j] = history[j]
      BY <1>2, <2>1, RngInsert DEF InsertVersion, TypeInv, RowsTyped
    <2>3. h \in raced \/ objects[h] # None
      BY <1>2 DEF InsertVersion, TaskStep, FoundOnDisk
    <2>4. objects' = objects /\ evicted' = evicted /\ raced' = raced \cup (Doomed \cap {h})
      BY <1>2 DEF InsertVersion
    <2>5. VersionsOnDisk'
      BY <2>2, <2>3, <2>4 DEF VersionsOnDisk
    <2>6. ASSUME NEW s \in Tasks, NEW g \in task'[s].orphans \ raced'
          PROVE  \A j \in Inodes : g \notin Rng(history'[j])
      <3>1. g \in task[s].orphans
        BY <1>2, <2>6, InsertMoves
      <3>2. g # h
        BY <2>4, <2>6, <3>1 DEF Doomed
      <3> QED BY <2>2, <2>4, <2>6, <3>1, <3>2 DEF OrphansUnversioned, InHistory
    <2> QED BY <2>5, <2>6 DEF OrphansUnversioned, InHistory
  <1>3. ASSUME NEW t \in Tasks, Prune(t)
        PROVE  VersionsOnDisk' /\ OrphansUnversioned'
    <2> DEFINE i == task[t].inode
    <2>1. i \in Inodes
      BY <1>3, TaskHolds DEF Prune, TypeInv
    <2>2. \A j \in Inodes : Rng(history'[j]) \subseteq Rng(history[j])
      BY <1>3, <2>1, RngPrune DEF Prune, TypeInv, RowsTyped
    <2>3. objects' = objects /\ evicted' = evicted /\ raced' = raced
      BY <1>3 DEF Prune, marks
    <2>4. VersionsOnDisk'
      BY <2>2, <2>3 DEF VersionsOnDisk
    <2>5. ASSUME NEW s \in Tasks, NEW g \in task'[s].orphans \ raced'
          PROVE  \A j \in Inodes : g \notin Rng(history'[j])
      <3>1. CASE s = t
        BY <1>3, <2>5, <3>1, PruneMoves DEF Unreferenced, InHistory
      <3>2. CASE s # t
        BY <1>3, <2>2, <2>3, <2>5, <3>2, PruneMoves DEF OrphansUnversioned, InHistory
      <3> QED BY <3>1, <3>2
    <2> QED BY <2>4, <2>5 DEF OrphansUnversioned, InHistory
  <1>4. ASSUME NEW t \in Tasks, SetBase(t)
        PROVE  VersionsOnDisk' /\ OrphansUnversioned'
    BY <1>4, SetBaseMoves DEF SetBase, VersionsOnDisk, OrphansUnversioned, InHistory
  <1>5. ASSUME NEW t \in Tasks, NEW h \in Contents, RemoveOrphan(t, h)
        PROVE  VersionsOnDisk' /\ OrphansUnversioned'
    <2>1. h \in raced \/ ~InHistory(h)
      BY <1>5 DEF RemoveOrphan, OrphansUnversioned
    <2>2. /\ \A g \in Contents \ {h} : objects'[g] = objects[g]
          /\ history' = history /\ raced \subseteq raced' /\ evicted' = evicted
      BY <1>5 DEF RemoveOrphan, TypeInv, RowsTyped, rows, marks
    <2>3. VersionsOnDisk'
      BY <1>h, <2>1, <2>2 DEF VersionsOnDisk, InHistory
    <2> QED BY <1>5, <2>2, <2>3, RemoveMoves DEF OrphansUnversioned, InHistory
  <1>6. ASSUME NEW i \in Inodes, Delete(i)
        PROVE  VersionsOnDisk' /\ OrphansUnversioned'
    <2>1. \A j \in Inodes : Rng(history'[j]) \subseteq Rng(history[j])
      BY <1>6 DEF Delete, TypeInv, RowsTyped, Rng
    <2> QED BY <1>6, <2>1 DEF Delete, VersionsOnDisk, OrphansUnversioned, InHistory
  <1>7. CASE Evict
    <2>1. CASE EvictBlob
      <3>1. /\ \A g \in Contents \ {gc.at[2]} : objects'[g] = objects[g]
            /\ history' = history /\ task' = task /\ raced \subseteq raced'
            /\ evicted' = evicted \cup {g \in {gc.at[2]} : InHistory(g)}
        BY <2>1 DEF EvictBlob, GcStep, TypeInv, RowsTyped, rows, marks
      <3> QED BY <1>h, <3>1 DEF VersionsOnDisk, OrphansUnversioned, InHistory
    <2>2. CASE ~EvictBlob
      BY <1>7, <2>2
         DEF Evict, EvictList, EvictCount, EvictRow, GcStep, rows, marks,
             VersionsOnDisk, OrphansUnversioned, InHistory
    <2> QED BY <2>1, <2>2
  <1> QED BY <1>1, <1>2, <1>3, <1>4, <1>5, <1>6, <1>7, OtherSteps

\* Every version that the history lists can be restored, whatever snapshots
\* overlap, are cut short or meet a crash, with the evictor of bases running: only
\* a hash stored and collected at the same time, or a blob that evict_stale_bases
\* took without a look at the history, may be missing.
THEOREM VersionsKept == Spec => []VersionsOnDisk
  <1>1. Init /\ TypeInv => VersionsInv
    <2> SUFFICES ASSUME Init, TypeInv PROVE VersionsInv
      OBVIOUS
    <2>1. \A t \in Tasks : task[t].pc = "idle" /\ task[t].orphans = {}
      BY JobFields DEF Init, IdleJob
    <2> QED BY <2>1
            DEF Init, VersionsInv, VersionsOnDisk, FoundOnDisk, OrphansUnversioned, Rng
  <1>2. VersionsInv /\ TypeInv' /\ [Next]_vars => VersionsInv'
    BY VersionsStep, FoundStays DEF VersionsInv
  <1>3. VersionsInv => VersionsOnDisk
    BY DEF VersionsInv
  <1> QED BY <1>1, <1>2, <1>3, TypeInvariant, PTL DEF Spec

-----------------------------------------------------------------------------
(* The merge bases.                                                        *)

BasesKeep == BasesOnDisk' /\ OrphansNoBase' /\ ListCurrent' /\ CountCurrent'

LEMMA GcFields ==
  ASSUME NEW pc, NEW todo, NEW at, NEW refs
  PROVE  /\ Evictor(pc, todo, at, refs).pc = pc /\ Evictor(pc, todo, at, refs).todo = todo
         /\ Evictor(pc, todo, at, refs).at = at /\ Evictor(pc, todo, at, refs).refs = refs
  BY DEF Evictor

LEMMA IdleFields == IdleGc.pc = "idle" /\ IdleGc.todo = {}
  BY GcFields DEF IdleGc

LEMMA NextFields ==
  ASSUME NEW todo
  PROVE  /\ NextEntry(todo).pc \in {"idle", "count"} /\ NextEntry(todo).todo = todo
  <1>1. CASE todo = {}
    BY <1>1, IdleFields DEF NextEntry
  <1>2. CASE todo # {}
    BY <1>2, GcFields DEF NextEntry
  <1> QED BY <1>1, <1>2

LEMMA DoomedBlobs ==
  ASSUME NEW h
  PROVE  h \in Doomed <=>
           \/ \E t \in Tasks : h \in task[t].orphans
           \/ gc.pc \in {"row", "blob"} /\ h = gc.at[2]
  <1>0. h \in UNION {task[t].orphans : t \in Tasks} <=> \E t \in Tasks : h \in task[t].orphans
    OBVIOUS
  <1>1. CASE gc.pc \in {"row", "blob"}
    BY <1>0, <1>1 DEF Doomed
  <1>2. CASE gc.pc \notin {"row", "blob"}
    BY <1>0, <1>2 DEF Doomed
  <1> QED BY <1>1, <1>2

\* A step that writes no base and leaves the evictor alone or ends it.
LEMMA BasesFrame ==
  ASSUME BasesInv, bases' = bases, raced \subseteq raced', outdated \subseteq outdated',
         gc' = gc \/ (gc'.pc \in {"idle", "count"} /\ gc'.todo \subseteq gc.todo)
  PROVE  ListCurrent' /\ CountCurrent'
  <1>1. CASE gc' = gc
    BY <1>1 DEF BasesInv, ListCurrent, CountCurrent, InBases
  <1>2. CASE gc'.pc \in {"idle", "count"} /\ gc'.todo \subseteq gc.todo
    BY <1>2 DEF BasesInv, ListCurrent, CountCurrent
  <1> QED BY <1>1, <1>2

\* The steps of the evictor.
LEMMA BasesEvict ==
  ASSUME BasesInv, Evict
  PROVE  BasesKeep
  <1> USE DEF BasesInv
  <1>t. /\ gc.pc \in {"row", "blob"} => gc.at[1] \in Inodes /\ gc.at[2] \in Contents
        /\ \A e \in gc.todo : e[1] \in Inodes /\ e[2] \in Contents
        /\ bases \in [Inodes -> OptContents] /\ objects \in [Contents -> OptContents]
    BY DEF TypeInv, GcTyped, RowsTyped, Evictors, Entries
  <1>1. CASE EvictList
    <2>1. gc'.pc = "count" /\ gc'.todo = Stale /\ UNCHANGED <<objects, bases, task, marks>>
      BY <1>1, GcFields DEF EvictList, GcStep, rows, marks
    <2>2. /\ \A e \in Stale : bases[e[1]] = e[2]
          /\ \A e, f \in Stale : e[1] = f[1] => e = f
      BY DEF Stale
    <2> QED BY <2>1, <2>2
            DEF BasesKeep, BasesOnDisk, OrphansNoBase, ListCurrent, CountCurrent, InBases, marks
  <1>2. ASSUME NEW e \in Inodes \X Contents, EvictCount(e)
        PROVE  BasesKeep
    <2>1. /\ gc'.pc = "row" /\ gc'.todo = gc.todo \ {e} /\ gc'.at = e
          /\ gc'.refs = base_hash_ref_count(e[2])
          /\ e \in gc.todo /\ UNCHANGED <<objects, bases, task, marks>>
      BY <1>2, GcFields DEF EvictCount, GcStep, rows, marks
    <2>2. ASSUME e[2] \notin raced \cup outdated
          PROVE  /\ bases[e[1]] = e[2]
                 /\ gc'.refs <= 1 => \A i \in Inodes \ {e[1]} : bases[i] # e[2]
      <3> DEFINE S == {i \in Inodes : bases[i] = e[2]}
      <3>1. bases[e[1]] = e[2] /\ e[1] \in S
        BY <1>t, <2>1, <2>2 DEF ListCurrent
      <3>2. IsFiniteSet(S) /\ Cardinality(S) \in Nat
        BY BlobStoreAssumption, FS_Subset, FS_CardinalityType
      <3>3. ASSUME Cardinality(S) <= 1
            PROVE  S = {e[1]}
        <4>1. Cardinality(S) = 1
          BY <3>1, <3>2, <3>3, FS_EmptySet
        <4> HIDE DEF S
        <4> QED BY <3>1, <3>2, <4>1, FS_Singleton
      <3> QED BY <2>1, <3>1, <3>3 DEF base_hash_ref_count
    <2>3. ListCurrent'
      BY <2>1 DEF ListCurrent, marks
    <2>4. CountCurrent'
      BY <2>1, <2>2 DEF CountCurrent, marks
    <2> QED BY <2>1, <2>3, <2>4 DEF BasesKeep, BasesOnDisk, OrphansNoBase, InBases, marks
  <1>3. CASE EvictRow
    <2>1. /\ gc.pc = "row" /\ UNCHANGED <<objects, task, raced, outdated>>
          /\ bases' = [bases EXCEPT ![gc.at[1]] = None]
          /\ \/ gc.refs <= 1 /\ gc'.pc = "blob" /\ gc'.todo = gc.todo /\ gc'.at = gc.at
             \/ gc'.pc \in {"idle", "count"} /\ gc'.todo = gc.todo
      BY <1>3, GcFields, NextFields DEF EvictRow, GcStep, marks
    <2>2. /\ bases'[gc.at[1]] = None
          /\ \A i \in Inodes \ {gc.at[1]} : bases'[i] = bases[i]
      BY <1>t, <2>1
    <2>3. BasesOnDisk' /\ OrphansNoBase'
      BY <2>1, <2>2, BlobStoreAssumption, TaskHolds
         DEF BasesOnDisk, OrphansNoBase, InBases, TypeInv
    <2>4. ListCurrent'
      BY <1>t, <2>1, <2>2 DEF ListCurrent
    <2>5. CountCurrent'
      BY <1>t, <2>1, <2>2, BlobStoreAssumption DEF CountCurrent, InBases
    <2> QED BY <2>3, <2>4, <2>5 DEF BasesKeep
  <1>4. CASE EvictBlob
    <2>1. /\ gc.pc = "blob" /\ UNCHANGED <<bases, task, outdated>> /\ raced \subseteq raced'
          /\ objects' = [objects EXCEPT ![gc.at[2]] = None]
          /\ gc'.pc \in {"idle", "count"} /\ gc'.todo = gc.todo
      BY <1>4, NextFields DEF EvictBlob, GcStep, rows, marks
    <2>2. \A h \in Contents \ {gc.at[2]} : objects'[h] = objects[h]
      BY <1>t, <2>1
    <2>3. gc.at[2] \in raced \cup outdated \/ ~InBases(gc.at[2])
      BY <2>1 DEF CountCurrent
    <2>4. BasesOnDisk' /\ OrphansNoBase'
      BY <2>1, <2>2, <2>3 DEF BasesOnDisk, OrphansNoBase, InBases
    <2> QED BY <2>1, <2>4, BasesFrame DEF BasesKeep
  <1> QED BY <1>1, <1>2, <1>3, <1>4 DEF Evict

\* A base is written or deleted: what the evictor had listed is outdated.
LEMMA BaseWritten ==
  ASSUME BasesInv, NEW i \in Inodes, NEW b \in OptContents,
         bases' = [bases EXCEPT ![i] = b], gc' = gc, objects' = objects,
         raced \subseteq raced', outdated \cup Listed(i) \subseteq outdated',
         b # None => b \in raced \/ objects[b] # None,
         b \in Doomed => b \in raced',
         \A t \in Tasks : task'[t].orphans \subseteq task[t].orphans
  PROVE  BasesKeep
  <1> USE DEF BasesInv
  <1>t. /\ gc.pc \in {"row", "blob"} => gc.at[1] \in Inodes /\ gc.at[2] \in Contents
        /\ \A e \in gc.todo : e[1] \in Inodes /\ e[2] \in Contents
        /\ bases \in [Inodes -> OptContents]
    BY DEF TypeInv, GcTyped, RowsTyped, Evictors, Entries
  <1>b. bases'[i] = b /\ \A j \in Inodes \ {i} : bases'[j] = bases[j]
    BY <1>t
  <1>1. BasesOnDisk'
    BY <1>b, BlobStoreAssumption DEF BasesOnDisk, OptContents
  <1>2. OrphansNoBase'
    <2> SUFFICES ASSUME NEW t \in Tasks, NEW h \in task'[t].orphans \ raced', NEW j \in Inodes
                 PROVE  bases'[j] # h
      BY DEF OrphansNoBase, InBases
    <2>1. h \in task[t].orphans \ raced /\ h \in Doomed
      BY DEF Doomed
    <2> QED BY <1>b, <2>1 DEF OrphansNoBase, InBases
  <1>3. ListCurrent'
    BY <1>t, <1>b DEF ListCurrent, Listed
  <1>4. CountCurrent'
    <2>1. gc.at[1] = i => gc.at[2] \in outdated'
      BY DEF Listed
    <2>2. gc.pc \in {"row", "blob"} /\ gc.at[2] \notin raced' \cup outdated' => b # gc.at[2]
      BY DoomedBlobs
    <2> QED BY <1>t, <1>b, <2>1, <2>2 DEF CountCurrent, InBases
  <1> QED BY <1>1, <1>2, <1>3, <1>4 DEF BasesKeep

LEMMA BasesStep ==
  ASSUME BasesInv, [Next]_vars
  PROVE  BasesKeep
  <1> USE DEF BasesInv
  <1>1. CASE QuietStep
    <2>1. Quiet /\ (gc' = gc \/ (gc'.pc = "idle" /\ gc'.todo = {}))
      <3>1. Quiet /\ (gc' = gc \/ gc' = IdleGc)
        BY <1>1, QuietSteps
      <3>2. IdleGc.pc = "idle" /\ IdleGc.todo = {}
        BY IdleFields
      <3> QED BY <3>1, <3>2
    <2>2. BasesOnDisk' /\ OrphansNoBase'
      BY <2>1 DEF Quiet, BasesOnDisk, OrphansNoBase, InBases
    <2>3. bases' = bases /\ raced' = raced /\ outdated' = outdated
      BY <2>1 DEF Quiet
    <2> QED BY <2>1, <2>2, <2>3, BasesFrame DEF BasesKeep
  <1>2. ASSUME NEW t \in Tasks, InsertVersion(t)
        PROVE  BasesKeep
    <2>1. UNCHANGED <<objects, bases, gc, outdated>> /\ raced \subseteq raced'
      BY <1>2 DEF InsertVersion, TaskStep
    <2>2. BasesOnDisk' /\ OrphansNoBase'
      BY <1>2, <2>1, InsertMoves DEF BasesOnDisk, OrphansNoBase, InBases
    <2> QED BY <2>1, <2>2, BasesFrame DEF BasesKeep
  <1>3. ASSUME NEW t \in Tasks, Prune(t)
        PROVE  BasesKeep
    <2>1. UNCHANGED <<objects, bases, gc, raced, outdated>>
      BY <1>3 DEF Prune, TaskStep, marks
    <2>2. OrphansNoBase'
      <3> SUFFICES ASSUME NEW s \in Tasks, NEW h \in task'[s].orphans \ raced'
                   PROVE  \A j \in Inodes : bases[j] # h
        BY <2>1 DEF OrphansNoBase, InBases
      <3>1. CASE s = t
        BY <1>3, <3>1, PruneMoves DEF Unreferenced, InBases
      <3>2. CASE s # t
        BY <1>3, <2>1, <3>2, PruneMoves DEF OrphansNoBase, InBases
      <3> QED BY <3>1, <3>2
    <2> QED BY <2>1, <2>2, BasesFrame DEF BasesKeep, BasesOnDisk
  <1>4. ASSUME NEW t \in Tasks, SetBase(t)
        PROVE  BasesKeep
    <2> DEFINE i == task[t].inode
               h == task[t].hash
    <2>1. i \in Inodes /\ h \in Contents
      BY <1>4, TaskHolds DEF SetBase, TaskStep, TypeInv
    <2>2. /\ bases' = [bases EXCEPT ![i] = h] /\ UNCHANGED <<gc, objects>>
          /\ raced' = raced \cup (Doomed \cap {h}) /\ outdated' = outdated \cup Listed(i)
      BY <1>4 DEF SetBase, TaskStep
    <2>3. h \in raced \/ objects[h] # None
      BY <1>4 DEF SetBase, TaskStep, FoundOnDisk
    <2>4. \A s \in Tasks : task'[s].orphans \subseteq task[s].orphans
      BY <1>4, SetBaseMoves
    <2> HIDE DEF i, h
    <2> QED BY <2>1, <2>2, <2>3, <2>4, BaseWritten DEF OptContents
  <1>5. ASSUME NEW t \in Tasks, NEW h \in Contents, RemoveOrphan(t, h)
        PROVE  BasesKeep
    <2>1. h \in raced \/ ~InBases(h)
      BY <1>5 DEF RemoveOrphan, OrphansNoBase
    <2>2. /\ \A g \in Contents \ {h} : objects'[g] = objects[g]
          /\ bases' = bases /\ gc' = gc /\ raced \subseteq raced' /\ outdated' = outdated
      BY <1>5 DEF RemoveOrphan, TaskStep, TypeInv, RowsTyped, rows, marks
    <2>3. BasesOnDisk'
      BY <2>1, <2>2 DEF BasesOnDisk, InBases
    <2>4. OrphansNoBase'
      BY <1>5, <2>2, RemoveMoves DEF OrphansNoBase, InBases
    <2> QED BY <2>2, <2>3, <2>4, BasesFrame DEF BasesKeep
  <1>6. ASSUME NEW i \in Inodes, Delete(i)
        PROVE  BasesKeep
    <2>1. /\ bases' = [bases EXCEPT ![i] = None] /\ UNCHANGED <<gc, objects, task>>
          /\ raced' = raced /\ outdated' = outdated \cup Listed(i)
      BY <1>6 DEF Delete
    <2>2. None \notin Doomed
      <3>1. \A t \in Tasks : task[t].orphans \in SUBSET Contents
        BY TaskHolds DEF TypeInv
      <3>2. gc.pc \in {"row", "blob"} => gc.at[2] \in Contents
        BY DEF TypeInv, GcTyped, Entries
      <3> QED BY <3>1, <3>2, BlobStoreAssumption, DoomedBlobs
    <2> QED BY <2>1, <2>2, BaseWritten DEF OptContents
  <1> QED BY <1>1, <1>2, <1>3, <1>4, <1>5, <1>6, BasesEvict, OtherSteps

\* The merge base of a file is on disk while its row names it, whatever prunes
\* and evictions of other files run meanwhile: only a hash that was stored while
\* it was being collected, or that the evictor had listed for a file whose base
\* changed, may be missing.
THEOREM BasesKept == Spec => []BasesOnDisk
  <1>1. Init /\ TypeInv => BasesInv
    <2> SUFFICES ASSUME Init, TypeInv PROVE BasesInv
      OBVIOUS
    <2>1. \A t \in Tasks : task[t].pc = "idle" /\ task[t].orphans = {}
      BY JobFields DEF Init, IdleJob
    <2>2. gc.pc = "idle" /\ gc.todo = {}
      BY GcFields DEF Init, IdleGc
    <2> QED BY <2>1, <2>2, BlobStoreAssumption
            DEF Init, BasesInv, BasesOnDisk, FoundOnDisk, OrphansNoBase, ListCurrent, CountCurrent
  <1>2. BasesInv /\ TypeInv' /\ [Next]_vars => BasesInv'
    BY BasesStep, FoundStays DEF BasesInv, BasesKeep
  <1>3. BasesInv => BasesOnDisk
    BY DEF BasesInv
  <1> QED BY <1>1, <1>2, <1>3, TypeInvariant, PTL DEF Spec
-----------------------------------------------------------------------------
(* The length of the history.                                              *)

\* The snapshots that have added a version of file i and have yet to prune.
Pruners(i) == {t \in Tasks : task[t].pc = "prune" /\ task[t].inode = i}

LEMMA PrunersCount ==
  ASSUME NEW i
  PROVE  /\ IsFiniteSet(Pruners(i)) /\ Cardinality(Pruners(i)) \in Nat
         /\ Pruners(i)' \in SUBSET Tasks
         /\ IsFiniteSet(Pruners(i)') /\ Cardinality(Pruners(i)') \in Nat
  BY BlobStoreAssumption, FS_Subset, FS_CardinalityType DEF Pruners

\* A snapshot that is not about to prune, before and after its step, does not
\* change who is.
LEMMA PrunersStay ==
  ASSUME TypeInv, NEW t \in Tasks, NEW new, task' = [task EXCEPT ![t] = new],
         task[t].pc # "prune", new.pc # "prune", NEW i
  PROVE  Pruners(i)' = Pruners(i)
  BY TaskAfter DEF Pruners

\* A step that adds no version and takes no snapshot from its pruning.
Unpruned ==
  /\ history' = history /\ cuts' \in Nat /\ cuts' >= cuts
  /\ \A i \in Inodes : Pruners(i)' = Pruners(i)

\* Steps outside the history and the pruning of it.
LEMMA UnprunedSteps ==
  ASSUME TypeInv, [Next]_vars
  PROVE  \/ Unpruned
         \/ \E t \in Tasks : InsertVersion(t) \/ Prune(t) \/ Abort(t)
         \/ \E i \in Inodes : Delete(i)
         \/ Crash
  <1>0. cuts \in Nat
    BY DEF TypeInv, RowsTyped
  <1>m. ASSUME NEW t \in Tasks, NEW new, task' = [task EXCEPT ![t] = new],
               task[t].pc # "prune", new.pc # "prune", history' = history,
               cuts' = cuts \/ cuts' = cuts + 1
        PROVE  Unpruned
    <2>1. ASSUME NEW i \in Inodes PROVE Pruners(i)' = Pruners(i)
      BY <1>m, PrunersStay
    <2> QED BY <1>0, <1>m, <2>1 DEF Unpruned
  <1>a. \A t \in Tasks : AfterCapture(t).pc # "prune"
    <2>1. \A t \in Tasks : IdleJob.pc # "prune" /\ Job("hash", "base", task[t].inode, None, {}).pc # "prune"
      BY JobFields DEF IdleJob
    <2> QED BY <2>1 DEF AfterCapture
  <1>i. ASSUME task' = task, history' = history, cuts' = cuts \/ cuts' = cuts + 1
        PROVE  Unpruned
    BY <1>0, <1>i DEF Unpruned, Pruners
  <1>s. ASSUME NEW t \in Tasks, NEW kind, NEW i, Start(t, kind, i), history' = history,
               cuts' = cuts
        PROVE  Unpruned
    <2> DEFINE new == Job("hash", kind, i, None, {})
    <2>1. new.pc # "prune" /\ task' = [task EXCEPT ![t] = new] /\ task[t].pc # "prune"
      BY <1>s, JobFields DEF Start
    <2> HIDE DEF new
    <2> QED BY <1>m, <1>s, <2>1
  <1>1. ASSUME NEW i \in Inodes, NEW c \in Contents, Write(i, c)
        PROVE  Unpruned
    BY <1>1, <1>i DEF Write, rows, marks
  <1>2. ASSUME NEW t \in Tasks, NEW i \in Inodes, Uploaded(t, i) \/ BeforePoll(t, i)
        PROVE  Unpruned
    BY <1>2, <1>s DEF Uploaded, BeforePoll, rows, marks
  <1>3. ASSUME NEW t \in Tasks, NEW i \in Inodes, NEW c \in Contents, Hydrated(t, i, c)
        PROVE  Unpruned
    BY <1>3, <1>s, <1>i DEF Hydrated, rows, marks
  <1>4. ASSUME NEW t \in Tasks, Snapshot(t), ~InsertVersion(t), ~Prune(t)
        PROVE  Unpruned
    <2>1. \A pc, h, O : At(t, pc, h, O).pc = pc
      BY JobFields DEF At
    <2>m. ASSUME NEW pc, NEW h, NEW O, pc # "prune", task' = [task EXCEPT ![t] = At(t, pc, h, O)],
                 task[t].pc # "prune", history' = history, cuts' = cuts
          PROVE  Unpruned
      <3> DEFINE new == At(t, pc, h, O)
      <3>1. new.pc # "prune" /\ task' = [task EXCEPT ![t] = new]
        BY <2>1, <2>m
      <3> HIDE DEF new
      <3> QED BY <1>m, <2>m, <3>1
    <2>2. CASE StoreHash(t)
      BY <2>2, <2>m DEF StoreHash, TaskStep, rows, marks
    <2>3. CASE StoreExists(t)
      BY <2>3, <2>m DEF StoreExists, TaskStep, rows, Stored
    <2>4. CASE StoreCopy(t)
      BY <2>4, <2>m DEF StoreCopy, TaskStep, rows, Stored
    <2>5. ASSUME NEW h \in Contents, RemoveOrphan(t, h)
          PROVE  Unpruned
      BY <2>5, <2>m DEF RemoveOrphan, TaskStep, rows, marks
    <2>6. CASE Captured(t)
      BY <2>6, <1>m, <1>a DEF Captured, TaskStep, rows, marks
    <2>7. CASE SetBase(t)
      <3>1. IdleJob.pc # "prune"
        BY JobFields DEF IdleJob
      <3> QED BY <2>7, <3>1, <1>m DEF SetBase, TaskStep
    <2>8. CASE FileGone(t)
      BY <2>8, <1>m, <1>a DEF FileGone, rows, marks
    <2> QED BY <1>4, <2>2, <2>3, <2>4, <2>5, <2>6, <2>7, <2>8 DEF Snapshot
  <1>5. ASSUME NEW t \in Tasks, NEW h \in Contents, RemoveFails(t, h)
        PROVE  Unpruned
    <2> DEFINE new == At(t, "remove", None, task[t].orphans \ {h})
    <2>1. new.pc # "prune" /\ task' = [task EXCEPT ![t] = new] /\ task[t].pc # "prune"
      BY <1>5, JobFields DEF RemoveFails, At
    <2> HIDE DEF new
    <2> QED BY <1>5, <1>m, <2>1 DEF RemoveFails, rows, marks
  <1>6. ASSUME NEW i \in Inodes, Age(i)
        PROVE  Unpruned
    BY <1>6, <1>i DEF Age
  <1>7. CASE Evict \/ EvictAbort
    BY <1>7, <1>i DEF Evict, EvictList, EvictCount, EvictRow, EvictBlob, EvictAbort, GcStep, rows, marks
  <1>8. ASSUME NEW i \in Inodes, NEW k \in DOMAIN history[i], Restore(i, k)
        PROVE  Unpruned
    BY <1>8, <1>i DEF Restore, rows, marks
  <1>9. CASE UNCHANGED vars
    BY <1>9, <1>i DEF vars
  <1> QED BY <1>1, <1>2, <1>3, <1>4, <1>5, <1>6, <1>7, <1>8, <1>9 DEF Next

\* A version added makes a snapshot that prunes; a prune cuts the history down;
\* a snapshot that is cut short is counted.
LEMMA HistoryStep ==
  ASSUME TypeInv, HistoryBounded, [Next]_vars
  PROVE  HistoryBounded'
  <1> USE PrunersCount, BlobStoreAssumption
  <1> DEFINE Bound(i) == Len(history[i]) <= Retention + cuts + Cardinality(Pruners(i))
  <1>0. /\ cuts \in Nat /\ history \in [Inodes -> Seq(Contents)]
        /\ \A i \in Inodes : Bound(i)
    BY DEF TypeInv, RowsTyped, HistoryBounded, Pruners
  <1> SUFFICES ASSUME NEW i \in Inodes PROVE Bound(i)'
    BY DEF HistoryBounded, Pruners
  <1>l. Len(history[i]) \in Nat
    BY <1>0
  <1>1. CASE Unpruned
    BY <1>0, <1>1, <1>l DEF Unpruned
  <1>2. ASSUME NEW t \in Tasks, InsertVersion(t)
        PROVE  Bound(i)'
    <2>0. task[t].inode \in Inodes /\ task[t].hash \in Contents /\ task[t].pc = "insert"
      BY <1>2, TaskHolds DEF InsertVersion, TaskStep, TypeInv
    <2>1. /\ task'[t].pc = "prune" /\ task'[t].inode = task[t].inode
          /\ \A s \in Tasks \ {t} : task'[s] = task[s]
      <3> DEFINE new == At(t, "prune", None, {})
      <3>0. task' = [task EXCEPT ![t] = new]
        BY <1>2 DEF InsertVersion, TaskStep
      <3>1. new.pc = "prune" /\ new.inode = task[t].inode
        BY DEF At, Job
      <3> HIDE DEF new
      <3>2. \A s \in Tasks : task'[s] = IF s = t THEN new ELSE task[s]
        BY <3>0, TaskAfter
      <3> QED BY <3>1, <3>2
    <2>2. cuts' = cuts
      BY <1>2 DEF InsertVersion, TaskStep
    <2>3. CASE i = task[t].inode
      <3>1. Pruners(i)' = Pruners(i) \cup {t} /\ t \notin Pruners(i)
        BY <2>0, <2>1, <2>3 DEF Pruners
      <3>2. Cardinality(Pruners(i)') = Cardinality(Pruners(i)) + 1
        BY <3>1, FS_AddElement
      <3>3. Len(history'[i]) = Len(history[i]) + 1
        BY <1>0, <1>2, <2>0, <2>3 DEF InsertVersion
      <3> QED BY <1>0, <1>l, <2>2, <3>2, <3>3
    <2>4. CASE i # task[t].inode
      <3>1. Pruners(i)' = Pruners(i)
        BY <2>0, <2>1, <2>4 DEF Pruners
      <3>2. history'[i] = history[i]
        BY <1>0, <1>2, <2>4 DEF InsertVersion
      <3> QED BY <1>0, <2>2, <3>1, <3>2
    <2> QED BY <2>3, <2>4
  <1>3. ASSUME NEW t \in Tasks, Prune(t)
        PROVE  Bound(i)'
    <2>0. task[t].inode \in Inodes
      BY <1>3, TaskHolds DEF Prune, TypeInv
    <2>1. cuts' = cuts
      BY <1>3 DEF Prune, TaskStep
    <2>2. CASE i = task[t].inode
      <3>1. history'[i] = Newest(history[i])
        BY <1>0, <1>3, <2>2 DEF Prune
      <3>2. Len(history'[i]) <= Retention /\ Len(history'[i]) \in Nat
        BY <1>0, <1>l, <3>1 DEF Newest
      <3> QED BY <1>0, <2>1, <3>2
    <2>3. CASE i # task[t].inode
      <3>1. Pruners(i)' = Pruners(i)
        BY <1>3, <2>3, PruneMoves DEF Pruners
      <3>2. history'[i] = history[i]
        BY <1>0, <1>3, <2>3 DEF Prune
      <3> QED BY <1>0, <2>1, <3>1, <3>2
    <2> QED BY <2>2, <2>3
  <1>4. ASSUME NEW t \in Tasks, Abort(t)
        PROVE  Bound(i)'
    <2>1. cuts' = cuts + 1 /\ history' = history
      BY <1>4 DEF Abort, rows, marks
    <2>2. \A s \in Tasks \ {t} : task'[s] = task[s]
      BY <1>4, TaskAfter DEF Abort
    <2>3. Pruners(i) \subseteq Pruners(i)' \cup {t}
      BY <2>2 DEF Pruners
    <2>4. /\ IsFiniteSet(Pruners(i)' \cup {t})
          /\ Cardinality(Pruners(i)' \cup {t}) <= Cardinality(Pruners(i)') + 1
      <3> DEFINE P == Pruners(i)'
      <3>1. IsFiniteSet(P) /\ Cardinality(P) \in Nat
        OBVIOUS
      <3> HIDE DEF P
      <3>2. /\ IsFiniteSet(P \cup {t})
            /\ Cardinality(P \cup {t}) = Cardinality(P) \/ Cardinality(P \cup {t}) = Cardinality(P) + 1
        BY <3>1, FS_AddElement
      <3>3. Cardinality(P \cup {t}) <= Cardinality(P) + 1
        BY <3>1, <3>2
      <3> QED BY <3>2, <3>3 DEF P
    <2>5. Cardinality(Pruners(i)) <= Cardinality(Pruners(i)' \cup {t})
      BY <2>3, <2>4, FS_Subset
    <2>6. Cardinality(Pruners(i)' \cup {t}) \in Nat
      BY <2>4, FS_CardinalityType
    <2> QED BY <1>0, <1>l, <2>1, <2>4, <2>5, <2>6
  <1>5. ASSUME NEW j \in Inodes, Delete(j)
        PROVE  Bound(i)'
    <2>1. cuts' = cuts /\ task' = task
      BY <1>5 DEF Delete
    <2>2. Pruners(i)' = Pruners(i)
      BY <2>1 DEF Pruners
    <2>3. history'[i] = history[i] \/ history'[i] = << >>
      BY <1>0, <1>5 DEF Delete
    <2> QED BY <1>0, <1>l, <2>1, <2>2, <2>3
  <1>6. CASE Crash
    <2> DEFINE Busy == {t \in Tasks : task[t].pc # "idle"}
    <2>1. IsFiniteSet(Busy) /\ Cardinality(Busy) \in Nat
      BY FS_Subset, FS_CardinalityType
    <2>2. Cardinality(Pruners(i)) <= Cardinality(Busy)
      BY <2>1, FS_Subset DEF Pruners
    <2>3. cuts' = cuts + Cardinality(Busy) /\ history' = history
      BY <1>6 DEF Crash, rows, marks
    <2> HIDE DEF Busy
    <2> QED BY <1>0, <1>l, <2>1, <2>2, <2>3
  <1> QED BY <1>1, <1>2, <1>3, <1>4, <1>5, <1>6, UnprunedSteps

\* version_retention bounds the history of every file, for any number of
\* overlapping snapshots: the excess is at most one row for each snapshot that
\* has inserted and has yet to prune, and one for each that was cut short.
THEOREM HistoryIsBounded == Spec => []HistoryBounded
  <1>1. Init => HistoryBounded
    <2> SUFFICES ASSUME Init, NEW i \in Inodes
                 PROVE  Len(history[i]) <= Retention + cuts + Cardinality(Pruners(i))
      BY DEF HistoryBounded, Pruners
    <2>1. Cardinality(Pruners(i)) \in Nat
      BY PrunersCount
    <2>2. Len(history[i]) = 0 /\ cuts = 0
      BY DEF Init
    <2> QED BY <2>1, <2>2, BlobStoreAssumption
  <1>2. TypeInv /\ HistoryBounded /\ [Next]_vars => HistoryBounded'
    BY HistoryStep
  <1> QED BY <1>1, <1>2, TypeInvariant, PTL DEF Spec
=============================================================================
