-------------------------- MODULE Hydration_proofs --------------------------
(***************************************************************************)
(* Proofs about Hydration: the types, that a row in the state hydrating    *)
(* has a download that will take it out of it, that an acknowledged write  *)
(* survives everything that starts after it, that the recorded ETag is not *)
(* ahead of the content, and that a start-up leaves no orphan behind.      *)
(*                                                                         *)
(* The inductive invariant is a conjunction of parts, one per variable or  *)
(* per idea.  A part can only be disturbed by the actions that write the   *)
(* variables it mentions: the frame lemmas say which ones those are, and   *)
(* the proof of a part has one step for each of them.                      *)
(***************************************************************************)
EXTENDS Hydration, TLAPS
-----------------------------------------------------------------------------
(* Which actions write which variables.                                    *)

ServerWrites ==
  \/ RemoteEdit \/ RemoteDelete \/ Upload

LEMMA ServerFrame == [Next]_vars => ServerWrites \/ UNCHANGED <<remote, top>>
<1> SUFFICES ASSUME [Next]_vars PROVE ServerWrites \/ UNCHANGED <<remote, top>>
  OBVIOUS
<1> USE DEF dbVars, srvVars, headVars, bootVars, ghosts, budgets
<1>1. CASE Poll \/ PollGone \/ UploadConflict \/ UploadMissing \/ HeaderQueued
          \/ HeaderDropped \/ HeaderFetched \/ HeaderWritten \/ Open
          \/ Release \/ Write \/ Truncate
  BY <1>1 DEF Poll, PollGone, UploadConflict, UploadMissing, HeaderQueued,
         HeaderDropped, HeaderFetched, HeaderWritten, Open, Release, Write,
         Truncate
<1>2. CASE Mark \/ ReadHeader \/ Read \/ ReadStatus \/ ReadRange \/ RangeFails
          \/ Check \/ Register \/ WaitTimesOut \/ ReadHydrated \/ ReadFile
          \/ EvictQuery
  BY <1>2 DEF Mark, ReadHeader, Read, ReadStatus, ReadRange, RangeFails, Check,
         Register, WaitTimesOut, ReadHydrated, ReadFile, EvictQuery
<1>3. CASE EvictCheck \/ EvictRemove \/ EvictSet \/ Pin \/ PinDownload
          \/ PinStat \/ PinFails \/ PinCommit \/ PinSet \/ Unpin
          \/ ClearUnlink \/ Crash
  BY <1>3 DEF EvictCheck, EvictRemove, EvictSet, Pin, PinDownload, PinStat,
         PinFails, PinCommit, PinSet, Unpin, ClearUnlink, Crash
<1>4. CASE BootReset \/ ReconcilePaths \/ BootRequeue \/ ReconcileWalk
  BY <1>4 DEF BootReset, ReconcilePaths, BootRequeue, ReconcileWalk
<1>5. ASSUME NEW t \in Tasks,
             SpawnedStarts(t) \/ SpawnedDies(t) \/ PrefetchStarts(t)
             \/ Download(t) \/ DownloadFails(t) \/ Verify(t) \/ Rename(t)
             \/ Commit(t) \/ Rollback(t) \/ Drain(t) \/ PrefetchQueued(t)
             \/ OpenHydrates(t)
      PROVE  UNCHANGED <<remote, top>>
  BY <1>5 DEF SpawnedStarts, SpawnedDies, PrefetchStarts, Download, DownloadFails,
         Verify, Rename, Commit, Rollback, Drain, PrefetchQueued, OpenHydrates,
         Committed
<1>6. ASSUME NEW t \in Tasks,
             ReadKicks(t) \/ Claim(t)
      PROVE  UNCHANGED <<remote, top>>
  BY <1>6 DEF ReadKicks, Claim
<1>7. ASSUME NEW p \in BOOLEAN, Clear(p) PROVE UNCHANGED <<remote, top>>
  BY <1>7 DEF Clear
<1>8. CASE UNCHANGED vars
  BY <1>8 DEF vars
<1> QED
  BY <1>1, <1>2, <1>3, <1>4, <1>5, <1>6, <1>7, <1>8
  DEF ServerWrites, Next, TaskStep, ReadStep, FuseStep, EvictStep, PinStep,
      BootStep

RowWrites ==
  \/ Poll \/ PollGone \/ Upload \/ UploadConflict \/ UploadMissing \/ Open
     \/ Mark \/ ReadStatus \/ WaitTimesOut \/ ReadHydrated \/ EvictSet
     \/ PinCommit \/ PinSet \/ Unpin \/ BootReset \/ BootRequeue
  \/ \E t \in Tasks : PrefetchStarts(t) \/ Verify(t) \/ Commit(t) \/ Rollback(t)
        \/ OpenHydrates(t) \/ ReadKicks(t) \/ Claim(t)
  \/ \E p \in BOOLEAN : Clear(p)

LEMMA RowFrame == [Next]_vars => RowWrites \/ UNCHANGED row
<1> SUFFICES ASSUME [Next]_vars PROVE RowWrites \/ UNCHANGED row
  OBVIOUS
<1> USE DEF dbVars, srvVars, headVars, bootVars, ghosts, budgets
<1>1. CASE RemoteEdit \/ RemoteDelete \/ HeaderQueued \/ HeaderDropped
          \/ HeaderFetched \/ HeaderWritten \/ Release \/ Write \/ Truncate
          \/ ReadHeader \/ Read \/ ReadRange
  BY <1>1 DEF RemoteEdit, RemoteDelete, HeaderQueued, HeaderDropped, HeaderFetched,
         HeaderWritten, Release, Write, Truncate, ReadHeader, Read, ReadRange
<1>2. CASE RangeFails \/ Check \/ Register \/ ReadFile \/ EvictQuery
          \/ EvictCheck \/ EvictRemove \/ Pin \/ PinDownload \/ PinStat
          \/ PinFails \/ ClearUnlink
  BY <1>2 DEF RangeFails, Check, Register, ReadFile, EvictQuery, EvictCheck,
         EvictRemove, Pin, PinDownload, PinStat, PinFails, ClearUnlink
<1>3. CASE Crash \/ ReconcilePaths \/ ReconcileWalk
  BY <1>3 DEF Crash, ReconcilePaths, ReconcileWalk
<1>4. ASSUME NEW t \in Tasks,
             SpawnedStarts(t) \/ SpawnedDies(t) \/ Download(t)
             \/ DownloadFails(t) \/ Rename(t) \/ Drain(t) \/ PrefetchQueued(t)
      PROVE  UNCHANGED row
  BY <1>4 DEF SpawnedStarts, SpawnedDies, Download, DownloadFails, Rename, Drain,
         PrefetchQueued
<1>5. CASE UNCHANGED vars
  BY <1>5 DEF vars
<1> QED
  BY <1>1, <1>2, <1>3, <1>4, <1>5
  DEF RowWrites, Next, TaskStep, ReadStep, FuseStep, EvictStep, PinStep,
      BootStep

DiskWrites ==
  \/ PollGone \/ Upload \/ UploadConflict \/ Write \/ Truncate \/ EvictRemove
     \/ PinDownload \/ ClearUnlink \/ ReconcileWalk
  \/ \E t \in Tasks : Rename(t)

LEMMA DiskFrame == [Next]_vars => DiskWrites \/ UNCHANGED disk
<1> SUFFICES ASSUME [Next]_vars PROVE DiskWrites \/ UNCHANGED disk
  OBVIOUS
<1> USE DEF dbVars, srvVars, headVars, bootVars, ghosts, budgets
<1>1. CASE RemoteEdit \/ RemoteDelete \/ Poll \/ UploadMissing \/ HeaderQueued
          \/ HeaderDropped \/ HeaderFetched \/ HeaderWritten \/ Open
          \/ Release \/ Mark \/ ReadHeader
  BY <1>1 DEF RemoteEdit, RemoteDelete, Poll, UploadMissing, HeaderQueued,
         HeaderDropped, HeaderFetched, HeaderWritten, Open, Release, Mark,
         ReadHeader
<1>2. CASE Read \/ ReadStatus \/ ReadRange \/ RangeFails \/ Check \/ Register
          \/ WaitTimesOut \/ ReadHydrated \/ ReadFile \/ EvictQuery
          \/ EvictCheck \/ EvictSet
  BY <1>2 DEF Read, ReadStatus, ReadRange, RangeFails, Check, Register,
         WaitTimesOut, ReadHydrated, ReadFile, EvictQuery, EvictCheck,
         EvictSet
<1>3. CASE Pin \/ PinStat \/ PinFails \/ PinCommit \/ PinSet \/ Unpin \/ Crash
          \/ BootReset \/ ReconcilePaths \/ BootRequeue
  BY <1>3 DEF Pin, PinStat, PinFails, PinCommit, PinSet, Unpin, Crash, BootReset,
         ReconcilePaths, BootRequeue
<1>4. ASSUME NEW t \in Tasks,
             SpawnedStarts(t) \/ SpawnedDies(t) \/ PrefetchStarts(t)
             \/ Download(t) \/ DownloadFails(t) \/ Verify(t) \/ Commit(t)
             \/ Rollback(t) \/ Drain(t) \/ PrefetchQueued(t)
             \/ OpenHydrates(t) \/ ReadKicks(t)
      PROVE  UNCHANGED disk
  BY <1>4 DEF SpawnedStarts, SpawnedDies, PrefetchStarts, Download, DownloadFails,
         Verify, Commit, Rollback, Drain, PrefetchQueued, OpenHydrates,
         ReadKicks, Committed
<1>5. ASSUME NEW t \in Tasks,
             Claim(t)
      PROVE  UNCHANGED disk
  BY <1>5 DEF Claim
<1>6. ASSUME NEW p \in BOOLEAN, Clear(p) PROVE UNCHANGED disk
  BY <1>6 DEF Clear
<1>7. CASE UNCHANGED vars
  BY <1>7 DEF vars
<1> QED
  BY <1>1, <1>2, <1>3, <1>4, <1>5, <1>6, <1>7
  DEF DiskWrites, Next, TaskStep, ReadStep, FuseStep, EvictStep, PinStep,
      BootStep

TaskWrites ==
  \/ Crash
  \/ \E t \in Tasks : SpawnedStarts(t) \/ SpawnedDies(t) \/ PrefetchStarts(t) \/ Download(t)
        \/ DownloadFails(t) \/ Verify(t) \/ Rename(t) \/ Commit(t)
        \/ Rollback(t) \/ Drain(t) \/ PrefetchQueued(t) \/ OpenHydrates(t)
        \/ ReadKicks(t) \/ Claim(t)

LEMMA TaskFrame == [Next]_vars => TaskWrites \/ UNCHANGED task
<1> SUFFICES ASSUME [Next]_vars PROVE TaskWrites \/ UNCHANGED task
  OBVIOUS
<1> USE DEF dbVars, srvVars, headVars, bootVars, ghosts, budgets
<1>1. CASE RemoteEdit \/ RemoteDelete \/ Poll \/ PollGone \/ Upload
          \/ UploadConflict \/ UploadMissing \/ HeaderQueued \/ HeaderDropped
          \/ HeaderFetched \/ HeaderWritten \/ Open
  BY <1>1 DEF RemoteEdit, RemoteDelete, Poll, PollGone, Upload, UploadConflict,
         UploadMissing, HeaderQueued, HeaderDropped, HeaderFetched,
         HeaderWritten, Open
<1>2. CASE Release \/ Write \/ Truncate \/ Mark \/ ReadHeader \/ Read
          \/ ReadStatus \/ ReadRange \/ RangeFails \/ Check \/ Register
          \/ WaitTimesOut
  BY <1>2 DEF Release, Write, Truncate, Mark, ReadHeader, Read, ReadStatus,
         ReadRange, RangeFails, Check, Register, WaitTimesOut
<1>3. CASE ReadHydrated \/ ReadFile \/ EvictQuery \/ EvictCheck \/ EvictRemove
          \/ EvictSet \/ Pin \/ PinDownload \/ PinStat \/ PinFails
          \/ PinCommit \/ PinSet
  BY <1>3 DEF ReadHydrated, ReadFile, EvictQuery, EvictCheck, EvictRemove, EvictSet,
         Pin, PinDownload, PinStat, PinFails, PinCommit, PinSet
<1>4. CASE Unpin \/ ClearUnlink \/ BootReset \/ ReconcilePaths \/ BootRequeue
          \/ ReconcileWalk
  BY <1>4 DEF Unpin, ClearUnlink, BootReset, ReconcilePaths, BootRequeue,
         ReconcileWalk
<1>5. ASSUME NEW p \in BOOLEAN, Clear(p) PROVE UNCHANGED task
  BY <1>5 DEF Clear
<1>6. CASE UNCHANGED vars
  BY <1>6 DEF vars
<1> QED
  BY <1>1, <1>2, <1>3, <1>4, <1>5, <1>6
  DEF TaskWrites, Next, TaskStep, ReadStep, FuseStep, EvictStep, PinStep,
      BootStep

ReaderWrites ==
  \/ Read \/ ReadStatus \/ ReadRange \/ RangeFails \/ Check \/ Register
     \/ WaitTimesOut \/ ReadHydrated \/ ReadFile \/ Crash
  \/ \E t \in Tasks : Drain(t) \/ ReadKicks(t) \/ Claim(t)

LEMMA ReaderFrame == [Next]_vars => ReaderWrites \/ UNCHANGED reader
<1> SUFFICES ASSUME [Next]_vars PROVE ReaderWrites \/ UNCHANGED reader
  OBVIOUS
<1> USE DEF dbVars, srvVars, headVars, bootVars, ghosts, budgets
<1>1. CASE RemoteEdit \/ RemoteDelete \/ Poll \/ PollGone \/ Upload
          \/ UploadConflict \/ UploadMissing \/ HeaderQueued \/ HeaderDropped
          \/ HeaderFetched \/ HeaderWritten \/ Open
  BY <1>1 DEF RemoteEdit, RemoteDelete, Poll, PollGone, Upload, UploadConflict,
         UploadMissing, HeaderQueued, HeaderDropped, HeaderFetched,
         HeaderWritten, Open
<1>2. CASE Release \/ Write \/ Truncate \/ Mark \/ ReadHeader \/ EvictQuery
          \/ EvictCheck \/ EvictRemove \/ EvictSet \/ Pin \/ PinDownload
          \/ PinStat
  BY <1>2 DEF Release, Write, Truncate, Mark, ReadHeader, EvictQuery, EvictCheck,
         EvictRemove, EvictSet, Pin, PinDownload, PinStat
<1>3. CASE PinFails \/ PinCommit \/ PinSet \/ Unpin \/ ClearUnlink \/ BootReset
          \/ ReconcilePaths \/ BootRequeue \/ ReconcileWalk
  BY <1>3 DEF PinFails, PinCommit, PinSet, Unpin, ClearUnlink, BootReset,
         ReconcilePaths, BootRequeue, ReconcileWalk
<1>4. ASSUME NEW t \in Tasks,
             SpawnedStarts(t) \/ SpawnedDies(t) \/ PrefetchStarts(t)
             \/ Download(t) \/ DownloadFails(t) \/ Verify(t) \/ Rename(t)
             \/ Commit(t) \/ Rollback(t) \/ PrefetchQueued(t)
             \/ OpenHydrates(t)
      PROVE  UNCHANGED reader
  BY <1>4 DEF SpawnedStarts, SpawnedDies, PrefetchStarts, Download, DownloadFails,
         Verify, Rename, Commit, Rollback, PrefetchQueued, OpenHydrates,
         Committed
<1>5. ASSUME NEW p \in BOOLEAN, Clear(p) PROVE UNCHANGED reader
  BY <1>5 DEF Clear
<1>6. CASE UNCHANGED vars
  BY <1>6 DEF vars
<1> QED
  BY <1>1, <1>2, <1>3, <1>4, <1>5, <1>6
  DEF ReaderWrites, Next, TaskStep, ReadStep, FuseStep, EvictStep, PinStep,
      BootStep

CliWrites ==
  \/ Pin \/ PinDownload \/ PinStat \/ PinFails \/ PinCommit \/ PinSet
     \/ ClearUnlink
  \/ \E p \in BOOLEAN : Clear(p)

LEMMA CliFrame == [Next]_vars => CliWrites \/ UNCHANGED cli
<1> SUFFICES ASSUME [Next]_vars PROVE CliWrites \/ UNCHANGED cli
  OBVIOUS
<1> USE DEF dbVars, srvVars, headVars, bootVars, ghosts, budgets
<1>1. CASE RemoteEdit \/ RemoteDelete \/ Poll \/ PollGone \/ Upload
          \/ UploadConflict \/ UploadMissing \/ HeaderQueued \/ HeaderDropped
          \/ HeaderFetched \/ HeaderWritten \/ Open
  BY <1>1 DEF RemoteEdit, RemoteDelete, Poll, PollGone, Upload, UploadConflict,
         UploadMissing, HeaderQueued, HeaderDropped, HeaderFetched,
         HeaderWritten, Open
<1>2. CASE Release \/ Write \/ Truncate \/ Mark \/ ReadHeader \/ Read
          \/ ReadStatus \/ ReadRange \/ RangeFails \/ Check \/ Register
          \/ WaitTimesOut
  BY <1>2 DEF Release, Write, Truncate, Mark, ReadHeader, Read, ReadStatus,
         ReadRange, RangeFails, Check, Register, WaitTimesOut
<1>3. CASE ReadHydrated \/ ReadFile \/ EvictQuery \/ EvictCheck \/ EvictRemove
          \/ EvictSet \/ Unpin \/ Crash \/ BootReset \/ ReconcilePaths
          \/ BootRequeue \/ ReconcileWalk
  BY <1>3 DEF ReadHydrated, ReadFile, EvictQuery, EvictCheck, EvictRemove, EvictSet,
         Unpin, Crash, BootReset, ReconcilePaths, BootRequeue, ReconcileWalk
<1>4. ASSUME NEW t \in Tasks,
             SpawnedStarts(t) \/ SpawnedDies(t) \/ PrefetchStarts(t)
             \/ Download(t) \/ DownloadFails(t) \/ Verify(t) \/ Rename(t)
             \/ Commit(t) \/ Rollback(t) \/ Drain(t) \/ PrefetchQueued(t)
             \/ OpenHydrates(t)
      PROVE  UNCHANGED cli
  BY <1>4 DEF SpawnedStarts, SpawnedDies, PrefetchStarts, Download, DownloadFails,
         Verify, Rename, Commit, Rollback, Drain, PrefetchQueued, OpenHydrates,
         Committed
<1>5. ASSUME NEW t \in Tasks,
             ReadKicks(t) \/ Claim(t)
      PROVE  UNCHANGED cli
  BY <1>5 DEF ReadKicks, Claim
<1>6. CASE UNCHANGED vars
  BY <1>6 DEF vars
<1> QED
  BY <1>1, <1>2, <1>3, <1>4, <1>5, <1>6
  DEF CliWrites, Next, TaskStep, ReadStep, FuseStep, EvictStep, PinStep,
      BootStep

FuseWrites ==
  \/ Open \/ Release \/ Write \/ Truncate \/ Mark \/ ReadStatus
     \/ ReadHydrated \/ EvictQuery \/ EvictCheck \/ EvictRemove \/ EvictSet
     \/ Crash
  \/ \E t \in Tasks : OpenHydrates(t)

LEMMA FuseFrame == [Next]_vars => FuseWrites \/ UNCHANGED <<fuse, handle, evictor>>
<1> SUFFICES ASSUME [Next]_vars PROVE FuseWrites \/ UNCHANGED <<fuse, handle, evictor>>
  OBVIOUS
<1> USE DEF dbVars, srvVars, headVars, bootVars, ghosts, budgets
<1>1. CASE RemoteEdit \/ RemoteDelete \/ Poll \/ PollGone \/ Upload
          \/ UploadConflict \/ UploadMissing \/ HeaderQueued \/ HeaderDropped
          \/ HeaderFetched \/ HeaderWritten \/ ReadHeader
  BY <1>1 DEF RemoteEdit, RemoteDelete, Poll, PollGone, Upload, UploadConflict,
         UploadMissing, HeaderQueued, HeaderDropped, HeaderFetched,
         HeaderWritten, ReadHeader
<1>2. CASE Read \/ ReadRange \/ RangeFails \/ Check \/ Register \/ WaitTimesOut
          \/ ReadFile \/ Pin \/ PinDownload \/ PinStat \/ PinFails
          \/ PinCommit
  BY <1>2 DEF Read, ReadRange, RangeFails, Check, Register, WaitTimesOut, ReadFile,
         Pin, PinDownload, PinStat, PinFails, PinCommit
<1>3. CASE PinSet \/ Unpin \/ ClearUnlink \/ BootReset \/ ReconcilePaths
          \/ BootRequeue \/ ReconcileWalk
  BY <1>3 DEF PinSet, Unpin, ClearUnlink, BootReset, ReconcilePaths, BootRequeue,
         ReconcileWalk
<1>4. ASSUME NEW t \in Tasks,
             SpawnedStarts(t) \/ SpawnedDies(t) \/ PrefetchStarts(t)
             \/ Download(t) \/ DownloadFails(t) \/ Verify(t) \/ Rename(t)
             \/ Commit(t) \/ Rollback(t) \/ Drain(t) \/ PrefetchQueued(t)
             \/ ReadKicks(t)
      PROVE  UNCHANGED <<fuse, handle, evictor>>
  BY <1>4 DEF SpawnedStarts, SpawnedDies, PrefetchStarts, Download, DownloadFails,
         Verify, Rename, Commit, Rollback, Drain, PrefetchQueued, ReadKicks,
         Committed
<1>5. ASSUME NEW t \in Tasks,
             Claim(t)
      PROVE  UNCHANGED <<fuse, handle, evictor>>
  BY <1>5 DEF Claim
<1>6. ASSUME NEW p \in BOOLEAN, Clear(p) PROVE UNCHANGED <<fuse, handle, evictor>>
  BY <1>6 DEF Clear
<1>7. CASE UNCHANGED vars
  BY <1>7 DEF vars
<1> QED
  BY <1>1, <1>2, <1>3, <1>4, <1>5, <1>6, <1>7
  DEF FuseWrites, Next, TaskStep, ReadStep, FuseStep, EvictStep, PinStep,
      BootStep

BootWrites ==
  \/ Crash \/ BootReset \/ ReconcilePaths \/ BootRequeue \/ ReconcileWalk

LEMMA BootFrame == [Next]_vars => BootWrites \/ UNCHANGED <<boot, known, partial>>
<1> SUFFICES ASSUME [Next]_vars PROVE BootWrites \/ UNCHANGED <<boot, known, partial>>
  OBVIOUS
<1> USE DEF dbVars, srvVars, headVars, bootVars, ghosts, budgets
<1>1. CASE RemoteEdit \/ RemoteDelete \/ Poll \/ PollGone \/ Upload
          \/ UploadConflict \/ UploadMissing \/ HeaderQueued \/ HeaderDropped
          \/ HeaderFetched \/ HeaderWritten \/ Open
  BY <1>1 DEF RemoteEdit, RemoteDelete, Poll, PollGone, Upload, UploadConflict,
         UploadMissing, HeaderQueued, HeaderDropped, HeaderFetched,
         HeaderWritten, Open
<1>2. CASE Release \/ Write \/ Truncate \/ Mark \/ ReadHeader \/ Read
          \/ ReadStatus \/ ReadRange \/ RangeFails \/ Check \/ Register
          \/ WaitTimesOut
  BY <1>2 DEF Release, Write, Truncate, Mark, ReadHeader, Read, ReadStatus,
         ReadRange, RangeFails, Check, Register, WaitTimesOut
<1>3. CASE ReadHydrated \/ ReadFile \/ EvictQuery \/ EvictCheck \/ EvictRemove
          \/ EvictSet \/ Pin \/ PinDownload \/ PinStat \/ PinFails
          \/ PinCommit \/ PinSet
  BY <1>3 DEF ReadHydrated, ReadFile, EvictQuery, EvictCheck, EvictRemove, EvictSet,
         Pin, PinDownload, PinStat, PinFails, PinCommit, PinSet
<1>4. CASE Unpin \/ ClearUnlink
  BY <1>4 DEF Unpin, ClearUnlink
<1>5. ASSUME NEW t \in Tasks,
             SpawnedStarts(t) \/ SpawnedDies(t) \/ PrefetchStarts(t)
             \/ Download(t) \/ DownloadFails(t) \/ Verify(t) \/ Rename(t)
             \/ Commit(t) \/ Rollback(t) \/ Drain(t) \/ PrefetchQueued(t)
             \/ OpenHydrates(t)
      PROVE  UNCHANGED <<boot, known, partial>>
  BY <1>5 DEF SpawnedStarts, SpawnedDies, PrefetchStarts, Download, DownloadFails,
         Verify, Rename, Commit, Rollback, Drain, PrefetchQueued, OpenHydrates,
         Committed
<1>6. ASSUME NEW t \in Tasks,
             ReadKicks(t) \/ Claim(t)
      PROVE  UNCHANGED <<boot, known, partial>>
  BY <1>6 DEF ReadKicks, Claim
<1>7. ASSUME NEW p \in BOOLEAN, Clear(p) PROVE UNCHANGED <<boot, known, partial>>
  BY <1>7 DEF Clear
<1>8. CASE UNCHANGED vars
  BY <1>8 DEF vars
<1> QED
  BY <1>1, <1>2, <1>3, <1>4, <1>5, <1>6, <1>7, <1>8
  DEF BootWrites, Next, TaskStep, ReadStep, FuseStep, EvictStep, PinStep,
      BootStep

GhostWrites ==
  \/ Poll \/ Upload \/ UploadConflict \/ Mark \/ Pin \/ PinCommit \/ Crash
     \/ BootRequeue
  \/ \E t \in Tasks : SpawnedDies(t) \/ Commit(t)
  \/ \E p \in BOOLEAN : Clear(p)

LEMMA GhostFrame == [Next]_vars => GhostWrites \/ UNCHANGED <<edit, blind, dropped, meddled>>
<1> SUFFICES ASSUME [Next]_vars PROVE GhostWrites \/ UNCHANGED <<edit, blind, dropped, meddled>>
  OBVIOUS
<1> USE DEF dbVars, srvVars, headVars, bootVars, ghosts, budgets
<1>1. CASE RemoteEdit \/ RemoteDelete \/ PollGone \/ UploadMissing
          \/ HeaderQueued \/ HeaderDropped \/ HeaderFetched \/ HeaderWritten
          \/ Open \/ Release \/ Write \/ Truncate
  BY <1>1 DEF RemoteEdit, RemoteDelete, PollGone, UploadMissing, HeaderQueued,
         HeaderDropped, HeaderFetched, HeaderWritten, Open, Release, Write,
         Truncate
<1>2. CASE ReadHeader \/ Read \/ ReadStatus \/ ReadRange \/ RangeFails \/ Check
          \/ Register \/ WaitTimesOut \/ ReadHydrated \/ ReadFile
          \/ EvictQuery \/ EvictCheck
  BY <1>2 DEF ReadHeader, Read, ReadStatus, ReadRange, RangeFails, Check, Register,
         WaitTimesOut, ReadHydrated, ReadFile, EvictQuery, EvictCheck
<1>3. CASE EvictRemove \/ EvictSet \/ PinDownload \/ PinStat \/ PinFails
          \/ PinSet \/ Unpin \/ ClearUnlink \/ BootReset \/ ReconcilePaths
          \/ ReconcileWalk
  BY <1>3 DEF EvictRemove, EvictSet, PinDownload, PinStat, PinFails, PinSet, Unpin,
         ClearUnlink, BootReset, ReconcilePaths, ReconcileWalk
<1>4. ASSUME NEW t \in Tasks,
             SpawnedStarts(t) \/ PrefetchStarts(t) \/ Download(t)
             \/ DownloadFails(t) \/ Verify(t) \/ Rename(t) \/ Rollback(t)
             \/ Drain(t) \/ PrefetchQueued(t) \/ OpenHydrates(t)
             \/ ReadKicks(t) \/ Claim(t)
      PROVE  UNCHANGED <<edit, blind, dropped, meddled>>
  BY <1>4 DEF SpawnedStarts, PrefetchStarts, Download, DownloadFails, Verify,
         Rename, Rollback, Drain, PrefetchQueued, OpenHydrates, ReadKicks,
         Claim
<1>5. CASE UNCHANGED vars
  BY <1>5 DEF vars
<1> QED
  BY <1>1, <1>2, <1>3, <1>4, <1>5
  DEF GhostWrites, Next, TaskStep, ReadStep, FuseStep, EvictStep, PinStep,
      BootStep

HeaderWrites ==
  \/ Poll \/ PollGone \/ HeaderQueued \/ HeaderDropped \/ HeaderFetched
     \/ HeaderWritten \/ ReadRange \/ Crash

LEMMA HeaderFrame == [Next]_vars => HeaderWrites \/ UNCHANGED <<header, fetch>>
<1> SUFFICES ASSUME [Next]_vars PROVE HeaderWrites \/ UNCHANGED <<header, fetch>>
  OBVIOUS
<1> USE DEF dbVars, srvVars, headVars, bootVars, ghosts, budgets
<1>1. CASE RemoteEdit \/ RemoteDelete \/ Upload \/ UploadConflict
          \/ UploadMissing \/ Open \/ Release \/ Write \/ Truncate \/ Mark
          \/ ReadHeader \/ Read
  BY <1>1 DEF RemoteEdit, RemoteDelete, Upload, UploadConflict, UploadMissing, Open,
         Release, Write, Truncate, Mark, ReadHeader, Read
<1>2. CASE ReadStatus \/ RangeFails \/ Check \/ Register \/ WaitTimesOut
          \/ ReadHydrated \/ ReadFile \/ EvictQuery \/ EvictCheck
          \/ EvictRemove \/ EvictSet \/ Pin
  BY <1>2 DEF ReadStatus, RangeFails, Check, Register, WaitTimesOut, ReadHydrated,
         ReadFile, EvictQuery, EvictCheck, EvictRemove, EvictSet, Pin
<1>3. CASE PinDownload \/ PinStat \/ PinFails \/ PinCommit \/ PinSet \/ Unpin
          \/ ClearUnlink \/ BootReset \/ ReconcilePaths \/ BootRequeue
          \/ ReconcileWalk
  BY <1>3 DEF PinDownload, PinStat, PinFails, PinCommit, PinSet, Unpin, ClearUnlink,
         BootReset, ReconcilePaths, BootRequeue, ReconcileWalk
<1>4. ASSUME NEW t \in Tasks,
             SpawnedStarts(t) \/ SpawnedDies(t) \/ PrefetchStarts(t)
             \/ Download(t) \/ DownloadFails(t) \/ Verify(t) \/ Rename(t)
             \/ Commit(t) \/ Rollback(t) \/ Drain(t) \/ PrefetchQueued(t)
             \/ OpenHydrates(t)
      PROVE  UNCHANGED <<header, fetch>>
  BY <1>4 DEF SpawnedStarts, SpawnedDies, PrefetchStarts, Download, DownloadFails,
         Verify, Rename, Commit, Rollback, Drain, PrefetchQueued, OpenHydrates,
         Committed
<1>5. ASSUME NEW t \in Tasks,
             ReadKicks(t) \/ Claim(t)
      PROVE  UNCHANGED <<header, fetch>>
  BY <1>5 DEF ReadKicks, Claim
<1>6. ASSUME NEW p \in BOOLEAN, Clear(p) PROVE UNCHANGED <<header, fetch>>
  BY <1>6 DEF Clear
<1>7. CASE UNCHANGED vars
  BY <1>7 DEF vars
<1> QED
  BY <1>1, <1>2, <1>3, <1>4, <1>5, <1>6, <1>7
  DEF HeaderWrites, Next, TaskStep, ReadStep, FuseStep, EvictStep, PinStep,
      BootStep

BudgetWrites ==
  \/ RemoteEdit \/ RemoteDelete \/ HeaderQueued \/ Open \/ Write \/ Truncate
     \/ ReadHeader \/ Read \/ EvictQuery \/ Pin \/ Unpin \/ Crash
  \/ \E t \in Tasks : SpawnedDies(t) \/ DownloadFails(t) \/ PrefetchQueued(t)
  \/ \E p \in BOOLEAN : Clear(p)

LEMMA BudgetFrame == [Next]_vars => BudgetWrites \/ UNCHANGED <<events, faults, crashes>>
<1> SUFFICES ASSUME [Next]_vars PROVE BudgetWrites \/ UNCHANGED <<events, faults, crashes>>
  OBVIOUS
<1> USE DEF dbVars, srvVars, headVars, bootVars, ghosts, budgets
<1>1. CASE Poll \/ PollGone \/ Upload \/ UploadConflict \/ UploadMissing
          \/ HeaderDropped \/ HeaderFetched \/ HeaderWritten \/ Release
          \/ Mark \/ ReadStatus \/ ReadRange
  BY <1>1 DEF Poll, PollGone, Upload, UploadConflict, UploadMissing, HeaderDropped,
         HeaderFetched, HeaderWritten, Release, Mark, ReadStatus, ReadRange
<1>2. CASE RangeFails \/ Check \/ Register \/ WaitTimesOut \/ ReadHydrated
          \/ ReadFile \/ EvictCheck \/ EvictRemove \/ EvictSet \/ PinDownload
          \/ PinStat \/ PinFails
  BY <1>2 DEF RangeFails, Check, Register, WaitTimesOut, ReadHydrated, ReadFile,
         EvictCheck, EvictRemove, EvictSet, PinDownload, PinStat, PinFails
<1>3. CASE PinCommit \/ PinSet \/ ClearUnlink \/ BootReset \/ ReconcilePaths
          \/ BootRequeue \/ ReconcileWalk
  BY <1>3 DEF PinCommit, PinSet, ClearUnlink, BootReset, ReconcilePaths,
         BootRequeue, ReconcileWalk
<1>4. ASSUME NEW t \in Tasks,
             SpawnedStarts(t) \/ PrefetchStarts(t) \/ Download(t) \/ Verify(t)
             \/ Rename(t) \/ Commit(t) \/ Rollback(t) \/ Drain(t)
             \/ OpenHydrates(t) \/ ReadKicks(t) \/ Claim(t)
      PROVE  UNCHANGED <<events, faults, crashes>>
  BY <1>4 DEF SpawnedStarts, PrefetchStarts, Download, Verify, Rename, Commit,
         Rollback, Drain, OpenHydrates, ReadKicks, Claim, Committed
<1>5. CASE UNCHANGED vars
  BY <1>5 DEF vars
<1> QED
  BY <1>1, <1>2, <1>3, <1>4, <1>5
  DEF BudgetWrites, Next, TaskStep, ReadStep, FuseStep, EvictStep, PinStep,
      BootStep

-----------------------------------------------------------------------------
(* The types, with what has to be known about the versions: a row, a task, *)
(* a read and a command never hold a version the remote has not had, a     *)
(* download past its start has an ETag, and what it has fetched is not     *)
(* older than that ETag.                                                   *)

LruStates == {"none", "unpinned", "pinned"}
RowType == [status : Statuses \cup {"gone"}, etag : Versions, cpath : BOOLEAN,
            lru : LruStates]
TaskType ==
  [pc : {"idle", "spawned", "queued", "download", "verify", "rename", "commit",
         "rollback", "done", "failed"},
   etag : Versions, got : Versions]
ReaderType ==
  [pc : {"idle", "status", "kick", "range", "check", "claim", "register", "wait",
         "run", "hydrated", "file"},
   attempt : 0 .. MaxAttempts - 1, slot : Tasks \cup {0}, etag : Versions]
CliType == [pc : {"idle", "download", "stat", "commit", "pin", "unlink"},
            got : Versions, ver : Versions]

ServerOK == top \in Versions /\ remote \in {0, top}

RowOK ==
  /\ row \in RowType
  /\ row.etag = 0 <=> row = NoRow
  /\ row.status = "gone" => row = NoRow
  /\ row.etag <= top

DiskOK == disk \in [base : Versions, edited : BOOLEAN]

SoundTask(k) ==
  /\ k.etag <= top
  /\ k.pc \notin {"idle", "spawned"} => k.etag # 0
  /\ k.pc \in {"rename", "commit"} => k.etag <= k.got

TaskOK == task \in [Tasks -> TaskType] /\ \A t \in Tasks : SoundTask(task[t])

ReaderOK ==
  /\ reader \in ReaderType
  /\ reader.etag <= top
  /\ reader.pc = "claim" => reader.etag # 0

CliOK ==
  /\ cli \in CliType
  /\ cli.ver <= top
  /\ cli.pc = "commit" => cli.ver # 0

FuseOK ==
  /\ handle \in {"closed", "hydrating", "ready"}
  /\ fuse \in {"idle", "opening", "marking", "marking late", "linking", "linking late"}
  /\ evictor \in {"idle", "check", "remove", "set"}

BootOK ==
  /\ boot \in {"up", "reset", "paths", "walk", "requeue"}
  /\ known \in BOOLEAN /\ partial \in BOOLEAN

GhostOK ==
  /\ edit \in {"none", "kept", "overlapped"}
  /\ blind \subseteq {"poll", "write", "pin", "race", "crash"}
  /\ dropped \in BOOLEAN /\ meddled \in BOOLEAN

HeaderOK == header \in Versions /\ fetch \in [pc : {"none", "queued", "write"}, got : Versions]

BudgetOK ==
  events \in 0 .. MaxEvents /\ faults \in 0 .. MaxFaults /\ crashes \in 0 .. MaxCrashes

TypeInv ==
  /\ ServerOK /\ RowOK /\ DiskOK /\ TaskOK /\ ReaderOK /\ CliOK
  /\ FuseOK /\ BootOK /\ GhostOK /\ HeaderOK /\ BudgetOK

LEMMA TypeInvInit == Init => TypeInv
<1> SUFFICES ASSUME Init PROVE TypeInv
  OBVIOUS
<1>0. MaxVersions \in Nat /\ MaxVersions >= 2 /\ MaxAttempts \in Nat /\ MaxAttempts > 0
      /\ MaxEvents \in Nat /\ MaxFaults \in Nat /\ MaxCrashes \in Nat
  BY BoundsAssumption
<1>1. /\ \/ top = 1 /\ row = Row("remote", 1, FALSE, "none") /\ disk = NoFile
         \/ top = 1 /\ row = Row("cached", 1, TRUE, "unpinned") /\ disk = File(1, FALSE)
         \/ top = 2 /\ row = Row("stale", 2, TRUE, "unpinned") /\ disk = File(1, FALSE)
      /\ remote = top
  BY DEF Init
<1>2. (top = 1 \/ top = 2) /\ remote = top
  BY <1>1, Zenon
<1>3. ServerOK
  BY <1>0, <1>2 DEF ServerOK, Versions
<1>4. RowOK /\ DiskOK
  <2> USE <1>0 DEF RowOK, RowType, LruStates, DiskOK, File, NoFile, Row, NoRow, Statuses, Versions
  <2>1. CASE top = 1 /\ row = Row("remote", 1, FALSE, "none") /\ disk = NoFile
    BY <2>1
  <2>2. CASE top = 1 /\ row = Row("cached", 1, TRUE, "unpinned") /\ disk = File(1, FALSE)
    BY <2>2
  <2>3. CASE top = 2 /\ row = Row("stale", 2, TRUE, "unpinned") /\ disk = File(1, FALSE)
    BY <2>3
  <2> QED
    BY <1>1, <2>1, <2>2, <2>3
<1>5. TaskOK
  <2>1. task = [t \in Tasks |-> Idle]
    BY DEF Init
  <2> QED
    BY <1>0, <1>2, <2>1 DEF TaskOK, TaskType, SoundTask, Idle, Versions
<1>6. ReaderOK
  <2>1. reader = Quiet
    BY DEF Init
  <2> QED
    BY <1>0, <1>2, <2>1 DEF ReaderOK, ReaderType, Quiet, Versions
<1>7. CliOK
  <2>1. cli = NoCli
    BY DEF Init
  <2> QED
    BY <1>0, <1>2, <2>1 DEF CliOK, CliType, NoCli, Versions
<1>8. FuseOK /\ BootOK /\ GhostOK
  BY DEF Init, FuseOK, BootOK, GhostOK
<1>9. HeaderOK /\ BudgetOK
  BY <1>0 DEF Init, HeaderOK, BudgetOK, NoFetch, Versions
<1> QED
  BY <1>3, <1>4, <1>5, <1>6, <1>7, <1>8, <1>9 DEF TypeInv

LEMMA ServerStep == ASSUME ServerOK, [Next]_vars PROVE ServerOK' /\ top <= top'
<1> USE BoundsAssumption DEF ServerOK, Versions
<1>1. CASE RemoteEdit
  BY <1>1 DEF RemoteEdit
<1>2. CASE RemoteDelete
  BY <1>2 DEF RemoteDelete
<1>3. CASE Upload
  BY <1>3 DEF Upload
<1>4. CASE UNCHANGED <<remote, top>>
  BY <1>4
<1> QED
  BY <1>1, <1>2, <1>3, <1>4, ServerFrame DEF ServerWrites

\* What the statements of the state database leave of the row.
LEMMA RowUpdates ==
  ASSUME ServerOK, RowOK, UNCHANGED top,
         \/ \E s \in Statuses : set_status(s)
         \/ \E e \in Versions \ {0} : e <= top /\ set_cached(e)
         \/ set_evicted \/ touch_lru \/ set_dirty_size \/ set_dirty_with_cache_path
         \/ \E l \in {"unpinned", "pinned"} : set_pinned(l)
         \/ row' = NoRow
         \/ UNCHANGED row
  PROVE  RowOK'
<1> USE BoundsAssumption
    DEF ServerOK, RowOK, RowType, LruStates, Update, NoRow, Row, Exists, Versions,
        Statuses
<1>1. ASSUME NEW s \in Statuses, set_status(s) PROVE RowOK'
  BY <1>1 DEF set_status
<1>2. ASSUME NEW e \in Versions \ {0}, e <= top, set_cached(e) PROVE RowOK'
  BY <1>2 DEF set_cached, Touched
<1>3. CASE set_evicted
  BY <1>3 DEF set_evicted
<1>4. CASE touch_lru
  BY <1>4 DEF touch_lru, Touched
<1>5. CASE set_dirty_size
  BY <1>5 DEF set_dirty_size
<1>6. CASE set_dirty_with_cache_path
  BY <1>6 DEF set_dirty_with_cache_path
<1>7. ASSUME NEW l \in {"unpinned", "pinned"}, set_pinned(l) PROVE RowOK'
  BY <1>7 DEF set_pinned
<1>8. CASE row' = NoRow
  BY <1>8
<1>9. CASE UNCHANGED row
  BY <1>9
<1> QED
  BY <1>1, <1>2, <1>3, <1>4, <1>5, <1>6, <1>7, <1>8, <1>9

LEMMA RowStep == ASSUME TypeInv, [Next]_vars PROVE RowOK'
<1>0. /\ ServerOK /\ RowOK /\ "hydrating" \in Statuses /\ "remote" \in Statuses
      /\ \A t \in Tasks : task[t].pc = "commit" =>
           task[t].etag \in Versions \ {0} /\ task[t].etag <= top
      /\ cli.pc = "commit" => cli.ver \in Versions \ {0} /\ cli.ver <= top
  BY DEF TypeInv, TaskOK, TaskType, SoundTask, CliOK, CliType, Statuses
<1> USE <1>0 DEF srvVars
<1>1. CASE Poll
  <2>1. remote # 0 /\ UNCHANGED top /\ remote = top
    BY <1>1 DEF Poll, ServerOK
  <2>2. CASE Exists
    <3>1. CASE row.status = "dirty"
      <4>1. row' = [row EXCEPT !.etag = remote]
        BY <1>1, <2>2, <3>1 DEF Poll, RowOK, RowType
      <4> QED
        BY <2>1, <2>2, <3>1, <4>1 DEF ServerOK, RowOK, RowType, NoRow, Row, Statuses, Versions
    <3>2. CASE row.status # "dirty"
      <4>1. row' = [row EXCEPT !.etag = remote, !.status = "stale"]
        BY <1>1, <2>2, <3>2 DEF Poll
      <4>2. row' = Row("stale", remote, row.cpath, row.lru)
        BY <4>1 DEF RowOK, RowType, Row
      <4> QED
        BY <2>1, <4>2 DEF ServerOK, RowOK, RowType, NoRow, Row, Statuses, Versions
    <3> QED
      BY <3>1, <3>2
  <2>3. CASE ~Exists
    BY <2>1, <2>3, <1>1 DEF Poll, ServerOK, RowOK, RowType, LruStates, NoRow, Row, Statuses, Versions
  <2> QED
    BY <2>2, <2>3
<1>2. CASE Upload
  BY <1>2, BoundsAssumption
  DEF Upload, ServerOK, RowOK, RowType, LruStates, NoRow, Row, Touched, Statuses, Versions
<1>3. CASE UploadConflict
  BY <1>3, BoundsAssumption
  DEF UploadConflict, ServerOK, RowOK, RowType, LruStates, NoRow, Row, Touched, Statuses, Versions
<1>4. CASE UploadMissing
  <2>1. Exists
    BY <1>4 DEF UploadMissing, Exists, NoRow, Row
  <2> QED
    BY <1>4, <2>1, RowUpdates DEF UploadMissing, set_evicted, Update
<1>5. CASE PollGone
  BY <1>5, RowUpdates DEF PollGone
<1>6. ASSUME NEW t \in Tasks, PrefetchStarts(t) PROVE RowOK'
  BY <1>6, RowUpdates DEF PrefetchStarts
<1>7. ASSUME NEW t \in Tasks, Verify(t) PROVE RowOK'
  BY <1>7, RowUpdates DEF Verify
<1>8. ASSUME NEW t \in Tasks, Commit(t) PROVE RowOK'
  BY <1>8, RowUpdates DEF Commit, Committed
<1>9. ASSUME NEW t \in Tasks, Rollback(t) PROVE RowOK'
  BY <1>9, RowUpdates DEF Rollback
<1>10. ASSUME NEW t \in Tasks, OpenHydrates(t) PROVE RowOK'
  BY <1>10, RowUpdates DEF OpenHydrates
<1>11. ASSUME NEW t \in Tasks, ReadKicks(t) PROVE RowOK'
  BY <1>11, RowUpdates DEF ReadKicks
<1>12. ASSUME NEW t \in Tasks, Claim(t) PROVE RowOK'
  BY <1>12, RowUpdates DEF Claim
<1>13. CASE Open
  BY <1>13, RowUpdates DEF Open
<1>14. CASE Mark
  BY <1>14, RowUpdates DEF Mark
<1>15. CASE ReadStatus
  BY <1>15, RowUpdates DEF ReadStatus
<1>16. CASE WaitTimesOut
  BY <1>16, RowUpdates DEF WaitTimesOut
<1>17. CASE ReadHydrated
  BY <1>17, RowUpdates DEF ReadHydrated
<1>18. CASE EvictSet
  BY <1>18, RowUpdates DEF EvictSet
<1>19. CASE PinCommit
  BY <1>19, RowUpdates DEF PinCommit
<1>20. CASE PinSet
  BY <1>20, RowUpdates DEF PinSet
<1>21. CASE Unpin
  BY <1>21, RowUpdates DEF Unpin
<1>22. ASSUME NEW p \in BOOLEAN, Clear(p) PROVE RowOK'
  BY <1>22, RowUpdates DEF Clear
<1>23. CASE BootReset
  <2>1. CASE row.status = "hydrating"
    <3>1. row' = [row EXCEPT !.status = "remote", !.cpath = FALSE]
      BY <1>23, <2>1 DEF BootReset
    <3>2. row' = Row("remote", row.etag, FALSE, row.lru)
      BY <3>1 DEF RowOK, RowType, Row
    <3>3. row.etag # 0
      BY <2>1 DEF RowOK, NoRow, Row
    <3>4. UNCHANGED top
      BY <1>23 DEF BootReset
    <3> QED
      BY <3>2, <3>3, <3>4 DEF ServerOK, RowOK, RowType, NoRow, Row, Statuses, Versions
  <2>2. CASE row.status # "hydrating"
    BY <1>23, <2>2, RowUpdates DEF BootReset
  <2> QED
    BY <2>1, <2>2
<1>24. CASE BootRequeue
  <2>1. CASE row.status = "dirty" /\ ~row.cpath
    <3>1. row' = [row EXCEPT !.status = "remote"] /\ UNCHANGED top /\ Exists
      BY <1>24, <2>1 DEF BootRequeue, Exists, NoRow, Row
    <3> QED
      BY <3>1, RowUpdates DEF set_status, Update
  <2>2. CASE ~(row.status = "dirty" /\ ~row.cpath)
    BY <1>24, <2>2, RowUpdates DEF BootRequeue
  <2> QED
    BY <2>1, <2>2
<1>25. CASE UNCHANGED row
  BY <1>25, ServerStep DEF ServerOK, RowOK, RowType, Versions
<1> QED
  BY <1>1, <1>2, <1>3, <1>4, <1>5, <1>6, <1>7, <1>8, <1>9, <1>10, <1>11, <1>12,
     <1>13, <1>14, <1>15, <1>16, <1>17, <1>18, <1>19, <1>20, <1>21, <1>22, <1>23,
     <1>24, <1>25, RowFrame
  DEF RowWrites

LEMMA DiskStep == ASSUME TypeInv, [Next]_vars PROVE DiskOK'
<1>0. /\ DiskOK /\ remote \in Versions /\ row.etag \in Versions /\ 0 \in Versions
      /\ \A t \in Tasks : task[t].got \in Versions
  BY BoundsAssumption
  DEF TypeInv, ServerOK, RowOK, RowType, TaskOK, TaskType, Versions
<1> USE <1>0 DEF DiskOK, File, NoFile
<1>1. CASE PollGone
  BY <1>1 DEF PollGone
<1>2. CASE Upload
  <2>1. top + 1 \in Versions
    BY <1>2, BoundsAssumption DEF Upload, TypeInv, ServerOK, Versions
  <2> QED
    BY <1>2, <2>1 DEF Upload
<1>3. CASE UploadConflict
  BY <1>3 DEF UploadConflict
<1>4. ASSUME NEW t \in Tasks, Rename(t) PROVE DiskOK'
  BY <1>4 DEF Rename
<1>5. CASE Write
  BY <1>5 DEF Write
<1>6. CASE Truncate
  <2>1. disk' = File(disk.base, TRUE) \/ disk' = File(row.etag, TRUE)
    BY <1>6 DEF Truncate
  <2>2. CASE disk' = File(disk.base, TRUE)
    BY <2>2
  <2>3. CASE disk' = File(row.etag, TRUE)
    BY <2>3
  <2> QED
    BY <2>1, <2>2, <2>3
<1>7. CASE EvictRemove
  BY <1>7 DEF EvictRemove
<1>8. CASE PinDownload
  BY <1>8 DEF PinDownload
<1>9. CASE ClearUnlink
  BY <1>9 DEF ClearUnlink
<1>10. CASE ReconcileWalk
  BY <1>10 DEF ReconcileWalk
<1>11. CASE UNCHANGED disk
  BY <1>11
<1> QED
  BY <1>1, <1>2, <1>3, <1>4, <1>5, <1>6, <1>7, <1>8, <1>9, <1>10, <1>11, DiskFrame
  DEF DiskWrites

LEMMA Fetched ==
  ASSUME NEW k \in TaskType, NEW pc, NEW got,
         NEW new, new = [k EXCEPT !.pc = pc, !.got = got]
  PROVE  new = [pc |-> pc, etag |-> k.etag, got |-> got]
BY DEF TaskType

\* A step of one task that leaves a sound record behind.
LEMMA TaskChanges ==
  ASSUME ServerOK, TaskOK, ServerOK', top <= top',
         NEW t \in Tasks, NEW new \in TaskType, SoundTask(new),
         task' = [task EXCEPT ![t] = new]
  PROVE  TaskOK'
<1>1. task' \in [Tasks -> TaskType]
  BY DEF TaskOK
<1>2. ASSUME NEW u \in Tasks PROVE SoundTask(task[u])'
  <2>1. task'[u] \in TaskType /\ task[u] \in TaskType /\ SoundTask(task[u])
    BY <1>1 DEF TaskOK
  <2>2. task'[u] = task[u] \/ task'[u] = new
    BY DEF TaskOK
  <2> QED
    BY <2>1, <2>2 DEF SoundTask, TaskType, ServerOK, Versions
<1> QED
  BY <1>1, <1>2 DEF TaskOK

LEMMA TaskStepOK == ASSUME TypeInv, [Next]_vars PROVE TaskOK'
<1>0. ServerOK /\ RowOK /\ TaskOK /\ ServerOK' /\ top <= top'
  BY ServerStep DEF TypeInv
<1>1. ASSUME NEW t \in Tasks PROVE task[t] \in TaskType /\ SoundTask(task[t])
  BY <1>0 DEF TaskOK
<1>2. Idle \in TaskType /\ SoundTask(Idle)
  BY <1>0, BoundsAssumption DEF Idle, TaskType, SoundTask, ServerOK, Versions
<1>3. Running("spawned", 0) \in TaskType /\ SoundTask(Running("spawned", 0))
  BY <1>0, BoundsAssumption DEF Running, TaskType, SoundTask, ServerOK, Versions
<1>4. ASSUME NEW pc \in {"queued", "download"}, NEW e \in Versions \ {0}, e <= top
      PROVE  Running(pc, e) \in TaskType /\ SoundTask(Running(pc, e))
  BY <1>4, BoundsAssumption DEF Running, TaskType, SoundTask, ServerOK, Versions
<1>5. Exists => row.etag \in Versions \ {0} /\ row.etag <= top
  BY <1>0 DEF RowOK, RowType, Exists
\* Moves within a download, which keep the ETag.
<1>6. ASSUME NEW t \in Tasks,
             NEW pc \in {"download", "verify", "commit", "rollback", "done", "failed"},
             task[t].pc \notin {"idle", "spawned"},
             pc = "commit" => task[t].pc = "rename",
             task' = [task EXCEPT ![t].pc = pc]
      PROVE  TaskOK'
  <2> DEFINE new == [task[t] EXCEPT !.pc = pc]
  <2>1. new \in TaskType /\ SoundTask(new)
    BY <1>1, <1>6 DEF TaskType, SoundTask
  <2>2. task' = [task EXCEPT ![t] = new]
    BY <1>6
  <2> HIDE DEF new
  <2> QED
    BY <1>0, <2>1, <2>2, TaskChanges
<1>7. ASSUME NEW t \in Tasks, SpawnedStarts(t) PROVE TaskOK'
  <2>1. CASE Exists
    BY <1>0, <1>4, <1>5, <1>7, <2>1, TaskChanges DEF SpawnedStarts
  <2>2. CASE ~Exists
    BY <1>0, <1>2, <1>7, <2>2, TaskChanges DEF SpawnedStarts
  <2> QED
    BY <2>1, <2>2
<1>8. ASSUME NEW t \in Tasks, SpawnedDies(t) PROVE TaskOK'
  BY <1>0, <1>2, <1>8, TaskChanges DEF SpawnedDies
<1>9. ASSUME NEW t \in Tasks, PrefetchStarts(t) PROVE TaskOK'
  BY <1>6, <1>9 DEF PrefetchStarts
<1>10. ASSUME NEW t \in Tasks, Download(t) PROVE TaskOK'
  <2>1. task[t].pc = "download" /\ remote \in Versions /\ (remote # 0 => remote = top)
    BY <1>0, <1>10, BoundsAssumption DEF Download, ServerOK, Versions
  <2>2. CASE remote = 0
    <3> DEFINE new == [pc |-> "verify", etag |-> task[t].etag, got |-> remote]
    <3>1. task' = [task EXCEPT ![t] = [task[t] EXCEPT !.pc = "verify", !.got = remote]]
      BY <1>10, <2>2 DEF Download
    <3>2. [task[t] EXCEPT !.pc = "verify", !.got = remote] = new
      BY <1>1, Fetched
    <3>3. new \in TaskType /\ SoundTask(new)
      BY <1>1, <2>1, <2>2 DEF TaskType, SoundTask
    <3> HIDE DEF new
    <3> QED
      BY <1>0, <3>1, <3>2, <3>3, TaskChanges
  <2>3. CASE remote # 0
    <3> DEFINE new == [pc |-> "rename", etag |-> task[t].etag, got |-> remote]
    <3>1. task' = [task EXCEPT ![t] = [task[t] EXCEPT !.pc = "rename", !.got = remote]]
      BY <1>10, <2>3 DEF Download
    <3>2. [task[t] EXCEPT !.pc = "rename", !.got = remote] = new
      BY <1>1, Fetched
    <3>3. new \in TaskType /\ SoundTask(new)
      BY <1>1, <2>1, <2>3 DEF TaskType, SoundTask
    <3> HIDE DEF new
    <3> QED
      BY <1>0, <3>1, <3>2, <3>3, TaskChanges
  <2> QED
    BY <2>2, <2>3
<1>11. ASSUME NEW t \in Tasks, DownloadFails(t) PROVE TaskOK'
  BY <1>6, <1>11 DEF DownloadFails
<1>12. ASSUME NEW t \in Tasks, Verify(t) PROVE TaskOK'
  BY <1>6, <1>12 DEF Verify
<1>13. ASSUME NEW t \in Tasks, Rename(t) PROVE TaskOK'
  BY <1>6, <1>13 DEF Rename
<1>14. ASSUME NEW t \in Tasks, Commit(t) PROVE TaskOK'
  BY <1>6, <1>14 DEF Commit, Committed
<1>15. ASSUME NEW t \in Tasks, Rollback(t) PROVE TaskOK'
  BY <1>6, <1>15 DEF Rollback
<1>16. ASSUME NEW t \in Tasks, Drain(t) PROVE TaskOK'
  BY <1>0, <1>2, <1>16, TaskChanges DEF Drain
<1>17. ASSUME NEW t \in Tasks, PrefetchQueued(t) PROVE TaskOK'
  <2>1. Exists /\ task' = [task EXCEPT ![t] = Running("queued", row.etag)]
    BY <1>17 DEF PrefetchQueued, NeedsHydration, Exists, NoRow, Row
  <2> QED
    BY <1>0, <1>4, <1>5, <2>1, TaskChanges
<1>18. ASSUME NEW t \in Tasks, OpenHydrates(t) PROVE TaskOK'
  BY <1>0, <1>3, <1>18, TaskChanges DEF OpenHydrates
<1>19. ASSUME NEW t \in Tasks, ReadKicks(t) PROVE TaskOK'
  BY <1>0, <1>3, <1>19, TaskChanges DEF ReadKicks
<1>20. ASSUME NEW t \in Tasks, Claim(t) PROVE TaskOK'
  <2>1. reader.etag \in Versions \ {0} /\ reader.etag <= top
    BY <1>20 DEF Claim, TypeInv, ReaderOK, ReaderType
  <2> QED
    BY <1>0, <1>4, <1>20, <2>1, TaskChanges DEF Claim
<1>21. CASE Crash
  <2>1. task' = [t \in Tasks |-> Idle] /\ UNCHANGED top
    BY <1>21 DEF Crash, srvVars
  <2> QED
    BY <1>2, <2>1 DEF TaskOK, SoundTask
<1>22. CASE UNCHANGED task
  BY <1>0, <1>22 DEF TaskOK, TaskType, SoundTask, ServerOK, Versions
<1> QED
  BY <1>7, <1>8, <1>9, <1>10, <1>11, <1>12, <1>13, <1>14, <1>15, <1>16, <1>17,
     <1>18, <1>19, <1>20, <1>21, <1>22, TaskFrame
  DEF TaskWrites

LEMMA ReaderStepOK == ASSUME TypeInv, [Next]_vars PROVE ReaderOK'
<1>0. /\ ServerOK /\ RowOK /\ ReaderOK /\ ServerOK' /\ top <= top'
      /\ MaxAttempts \in Nat /\ MaxAttempts > 0
  BY ServerStep, BoundsAssumption DEF TypeInv
<1>1. ASSUME reader' = Quiet PROVE ReaderOK'
  BY <1>0, <1>1, BoundsAssumption DEF ReaderOK, ReaderType, Quiet, ServerOK, Versions
<1>2. ASSUME NEW pc \in {"status", "kick", "range", "check", "register", "wait",
                         "hydrated", "file"},
             ReaderAt(pc)
      PROVE  ReaderOK'
  BY <1>0, <1>2 DEF ReaderAt, ReaderOK, ReaderType, ServerOK, Versions
<1>3. ASSUME NEW t \in Tasks, Drain(t) PROVE ReaderOK'
  <2>1. \/ reader' = [Quiet EXCEPT !.pc = "hydrated"] \/ reader' = Quiet
        \/ reader' = reader
    BY <1>3 DEF Drain
  <2>2. ASSUME reader' = [Quiet EXCEPT !.pc = "hydrated"] PROVE ReaderOK'
    BY <1>0, <2>2, BoundsAssumption DEF ReaderOK, ReaderType, Quiet, ServerOK, Versions
  <2>3. ASSUME reader' = reader PROVE ReaderOK'
    BY <1>0, <2>3 DEF ReaderOK, ReaderType, ServerOK, Versions
  <2> QED
    BY <1>1, <2>1, <2>2, <2>3
<1>4. CASE Read
  <2>1. ReaderAt("file") \/ ReaderAt("status")
    BY <1>4 DEF Read
  <2> QED
    BY <1>2, <2>1
<1>5. CASE ReadStatus
  <2>1. ReaderAt("file") \/ ReaderAt("range") \/ ReaderAt("kick")
    BY <1>5 DEF ReadStatus
  <2> QED
    BY <1>2, <2>1
<1>6. ASSUME NEW t \in Tasks, ReadKicks(t) PROVE ReaderOK'
  BY <1>2, <1>6 DEF ReadKicks
<1>7. CASE ReadRange
  BY <1>1, <1>7 DEF ReadRange
<1>8. CASE RangeFails
  BY <1>2, <1>8 DEF RangeFails
<1>9. CASE Check
  <2>1. \/ reader' = Quiet \/ ReaderAt("hydrated") \/ ReaderAt("register")
        \/ Exists /\ reader' = [reader EXCEPT !.pc = "claim", !.etag = row.etag]
    BY <1>9 DEF Check, ReaderAt
  <2>2. ASSUME Exists, reader' = [reader EXCEPT !.pc = "claim", !.etag = row.etag]
        PROVE  ReaderOK'
    <3>1. row.etag \in Versions \ {0} /\ row.etag <= top
      BY <1>0, <2>2 DEF RowOK, RowType, Exists
    <3>2. reader' = [pc |-> "claim", attempt |-> reader.attempt, slot |-> reader.slot,
                     etag |-> row.etag]
      BY <1>0, <2>2 DEF ReaderOK, ReaderType
    <3> QED
      BY <1>0, <3>1, <3>2 DEF ReaderOK, ReaderType, ServerOK, Versions
  <2> QED
    BY <1>1, <1>2, <2>1, <2>2
<1>10. ASSUME NEW t \in Tasks, Claim(t) PROVE ReaderOK'
  <2>1. reader' = [reader EXCEPT !.pc = "run", !.slot = t, !.etag = 0]
    BY <1>10 DEF Claim
  <2>2. reader' = [pc |-> "run", attempt |-> reader.attempt, slot |-> t, etag |-> 0]
    BY <1>0, <2>1 DEF ReaderOK, ReaderType
  <2> QED
    BY <1>0, <2>2, BoundsAssumption DEF ReaderOK, ReaderType, ServerOK, Versions
<1>11. CASE Register
  BY <1>2, <1>11 DEF Register
<1>12. CASE WaitTimesOut
  <2>1. CASE reader.attempt + 1 < MaxAttempts
    <3>1. reader' = [reader EXCEPT !.pc = "check", !.attempt = reader.attempt + 1]
      BY <1>12, <2>1 DEF WaitTimesOut
    <3>2. reader' = [pc |-> "check", attempt |-> reader.attempt + 1,
                     slot |-> reader.slot, etag |-> reader.etag]
      BY <1>0, <3>1 DEF ReaderOK, ReaderType
    <3> QED
      BY <1>0, <2>1, <3>2 DEF ReaderOK, ReaderType, ServerOK, Versions
  <2>2. CASE ~(reader.attempt + 1 < MaxAttempts)
    BY <1>1, <1>12, <2>2 DEF WaitTimesOut
  <2> QED
    BY <2>1, <2>2
<1>13. CASE ReadHydrated
  BY <1>2, <1>13 DEF ReadHydrated
<1>14. CASE ReadFile
  BY <1>1, <1>14 DEF ReadFile
<1>15. CASE Crash
  BY <1>1, <1>15 DEF Crash
<1>16. CASE UNCHANGED reader
  BY <1>0, <1>16 DEF ReaderOK, ReaderType, ServerOK, Versions
<1> QED
  BY <1>3, <1>4, <1>5, <1>6, <1>7, <1>8, <1>9, <1>10, <1>11, <1>12, <1>13, <1>14,
     <1>15, <1>16, ReaderFrame
  DEF ReaderWrites

LEMMA CliStepOK == ASSUME TypeInv, [Next]_vars PROVE CliOK'
<1>0. /\ ServerOK /\ CliOK /\ ServerOK' /\ top <= top'
      /\ remote \in Versions /\ remote <= top /\ 0 \in Versions
  BY ServerStep, BoundsAssumption DEF TypeInv, ServerOK, Versions
<1>1. ASSUME NEW pc \in {"idle", "download", "pin", "unlink"}, cli' = [NoCli EXCEPT !.pc = pc]
      PROVE  CliOK'
  BY <1>0, <1>1 DEF CliOK, CliType, NoCli, ServerOK, Versions
<1>2. ASSUME cli' = NoCli PROVE CliOK'
  BY <1>0, <1>2 DEF CliOK, CliType, NoCli, ServerOK, Versions
<1>3. CASE Pin
  BY <1>1, <1>3 DEF Pin
<1>4. CASE PinDownload
  <2>1. cli' = [cli EXCEPT !.pc = "stat", !.got = remote]
    BY <1>4 DEF PinDownload
  <2>2. cli' = [pc |-> "stat", got |-> remote, ver |-> cli.ver]
    BY <1>0, <2>1 DEF CliOK, CliType
  <2> QED
    BY <1>0, <2>2 DEF CliOK, CliType, ServerOK, Versions
<1>5. CASE PinStat
  <2>1. remote # 0 /\ cli' = [cli EXCEPT !.pc = "commit", !.ver = remote]
    BY <1>5 DEF PinStat
  <2>2. cli' = [pc |-> "commit", got |-> cli.got, ver |-> remote]
    BY <1>0, <2>1 DEF CliOK, CliType
  <2> QED
    BY <1>0, <2>1, <2>2 DEF CliOK, CliType, ServerOK, Versions
<1>6. CASE PinFails
  BY <1>2, <1>6 DEF PinFails
<1>7. CASE PinCommit
  BY <1>1, <1>7 DEF PinCommit
<1>8. CASE PinSet
  BY <1>2, <1>8 DEF PinSet
<1>9. ASSUME NEW p \in BOOLEAN, Clear(p) PROVE CliOK'
  BY <1>1, <1>9 DEF Clear
<1>10. CASE ClearUnlink
  BY <1>2, <1>10 DEF ClearUnlink
<1>11. CASE UNCHANGED cli
  BY <1>0, <1>11 DEF CliOK, CliType, ServerOK, Versions
<1> QED
  BY <1>3, <1>4, <1>5, <1>6, <1>7, <1>8, <1>9, <1>10, <1>11, CliFrame
  DEF CliWrites

LEMMA SmallStep ==
  ASSUME TypeInv, [Next]_vars PROVE FuseOK' /\ BootOK' /\ GhostOK' /\ HeaderOK'
<1>1. FuseOK'
  <2> USE DEF FuseOK, TypeInv
  <2>1. CASE Open
    BY <2>1 DEF Open
  <2>2. CASE Release \/ ReadStatus \/ ReadHydrated
    BY <2>2 DEF Release, ReadStatus, ReadHydrated
  <2>3. CASE Write \/ Truncate \/ Mark
    BY <2>3 DEF Write, Truncate, Mark
  <2>4. CASE EvictQuery \/ EvictCheck \/ EvictRemove \/ EvictSet
    BY <2>4 DEF EvictQuery, EvictCheck, EvictRemove, EvictSet
  <2>5. CASE Crash
    BY <2>5 DEF Crash
  <2>6. ASSUME NEW t \in Tasks, OpenHydrates(t) PROVE FuseOK'
    BY <2>6 DEF OpenHydrates
  <2>7. CASE UNCHANGED <<fuse, handle, evictor>>
    BY <2>7
  <2> QED
    BY <2>1, <2>2, <2>3, <2>4, <2>5, <2>6, <2>7, FuseFrame DEF FuseWrites
<1>2. BootOK'
  <2>0. BootOK /\ row.cpath \in BOOLEAN
    BY DEF TypeInv, RowOK, RowType
  <2> USE <2>0 DEF BootOK
  <2>1. CASE Crash
    BY <2>1 DEF Crash
  <2>2. CASE BootReset \/ ReconcilePaths \/ ReconcileWalk \/ BootRequeue
    BY <2>2 DEF BootReset, ReconcilePaths, ReconcileWalk, BootRequeue
  <2>3. CASE UNCHANGED <<boot, known, partial>>
    BY <2>3
  <2> QED
    BY <2>1, <2>2, <2>3, BootFrame DEF BootWrites
<1>3. GhostOK'
  <2> USE DEF GhostOK, TypeInv, Blinds
  <2>1. CASE Upload \/ UploadConflict
    BY <2>1 DEF Upload, UploadConflict
  <2>2. CASE Poll \/ PinCommit
    BY <2>2 DEF Poll, PinCommit
  <2>3. CASE Mark
    BY <2>3 DEF Mark
  <2>4. CASE Pin \/ BootRequeue \/ Crash
    BY <2>4 DEF Pin, BootRequeue, Crash
  <2>5. ASSUME NEW t \in Tasks, SpawnedDies(t) \/ Commit(t) PROVE GhostOK'
    BY <2>5 DEF SpawnedDies, Commit, Committed
  <2>6. ASSUME NEW p \in BOOLEAN, Clear(p) PROVE GhostOK'
    BY <2>6 DEF Clear
  <2>7. CASE UNCHANGED <<edit, blind, dropped, meddled>>
    BY <2>7
  <2> QED
    BY <2>1, <2>2, <2>3, <2>4, <2>5, <2>6, <2>7, GhostFrame DEF GhostWrites
<1>4. HeaderOK'
  <2>0. HeaderOK /\ 0 \in Versions /\ remote \in Versions
    BY BoundsAssumption DEF TypeInv, ServerOK, Versions
  <2> USE <2>0 DEF HeaderOK, NoFetch
  <2>1. CASE Poll \/ PollGone
    BY <2>1 DEF Poll, PollGone
  <2>2. CASE HeaderQueued \/ HeaderDropped \/ HeaderFetched
    BY <2>2 DEF HeaderQueued, HeaderDropped, HeaderFetched
  <2>3. CASE HeaderWritten
    BY <2>3 DEF HeaderWritten
  <2>4. CASE ReadRange
    BY <2>4 DEF ReadRange
  <2>5. CASE Crash
    BY <2>5 DEF Crash
  <2>6. CASE UNCHANGED <<header, fetch>>
    BY <2>6
  <2> QED
    BY <2>1, <2>2, <2>3, <2>4, <2>5, <2>6, HeaderFrame DEF HeaderWrites
<1> QED
  BY <1>1, <1>2, <1>3, <1>4

LEMMA BudgetStep == ASSUME BudgetOK, [Next]_vars PROVE BudgetOK'
<1>0. MaxEvents \in Nat /\ MaxFaults \in Nat /\ MaxCrashes \in Nat
  BY BoundsAssumption
<1>1. CASE Spend /\ UNCHANGED <<faults, crashes>>
  BY <1>0, <1>1 DEF Spend, BudgetOK
<1>2. CASE Fault /\ UNCHANGED <<events, crashes>>
  BY <1>0, <1>2 DEF Fault, BudgetOK
<1>3. CASE Crash
  BY <1>0, <1>3 DEF Crash, BudgetOK
<1>4. CASE RemoteEdit \/ RemoteDelete \/ HeaderQueued \/ Open \/ Write \/ Truncate
  BY <1>1, <1>4 DEF RemoteEdit, RemoteDelete, HeaderQueued, Open, Write, Truncate
<1>5. CASE ReadHeader \/ Read \/ EvictQuery \/ Pin \/ Unpin
  BY <1>1, <1>5 DEF ReadHeader, Read, EvictQuery, Pin, Unpin
<1>6. ASSUME NEW p \in BOOLEAN, Clear(p) PROVE BudgetOK'
  BY <1>1, <1>6 DEF Clear
<1>7. ASSUME NEW t \in Tasks, SpawnedDies(t) \/ DownloadFails(t) \/ PrefetchQueued(t)
      PROVE  BudgetOK'
  BY <1>1, <1>2, <1>7 DEF SpawnedDies, DownloadFails, PrefetchQueued
<1>8. CASE UNCHANGED <<events, faults, crashes>>
  BY <1>8 DEF BudgetOK
<1> QED
  BY <1>3, <1>4, <1>5, <1>6, <1>7, <1>8, BudgetFrame DEF BudgetWrites

LEMMA TypeInvStep == ASSUME TypeInv, [Next]_vars PROVE TypeInv'
BY ServerStep, RowStep, DiskStep, TaskStepOK, ReaderStepOK, CliStepOK, SmallStep,
   BudgetStep
DEF TypeInv

LEMMA TypeInvTypes == TypeInv => TypeOK
<1> SUFFICES ASSUME TypeInv PROVE TypeOK
  OBVIOUS
<1>1. remote \in Versions /\ top \in Versions /\ remote <= top
  BY BoundsAssumption DEF TypeInv, ServerOK, Versions
<1>2. /\ row \in RowType /\ (row.etag = 0 <=> row = NoRow)
      /\ disk \in [base : Versions, edited : BOOLEAN]
  BY DEF TypeInv, RowOK, DiskOK
<1>3. task \in [Tasks -> TaskType] /\ reader \in ReaderType /\ cli \in CliType
  BY DEF TypeInv, TaskOK, ReaderOK, CliOK
<1>4. FuseOK /\ BootOK /\ GhostOK /\ HeaderOK /\ BudgetOK
  BY DEF TypeInv
<1> QED
  BY <1>1, <1>2, <1>3, <1>4
  DEF TypeOK, RowType, LruStates, TaskType, ReaderType, CliType, FuseOK, BootOK,
      GhostOK, HeaderOK, BudgetOK

LEMMA TypeInvariant == Spec => []TypeInv
<1>1. Init => TypeInv
  BY TypeInvInit
<1>2. TypeInv /\ [Next]_vars => TypeInv'
  BY TypeInvStep
<1> QED
  BY <1>1, <1>2, PTL DEF Spec

\* Every variable keeps its type, whatever the user, the pollers, the
\* downloads, the commands and the crashes of the daemon do.
THEOREM TypeCorrect == Spec => []TypeOK
BY TypeInvariant, TypeInvTypes, PTL

-----------------------------------------------------------------------------
(* While the daemon is down or starting, none of its tasks exists.         *)

Down ==
  ~Up => /\ \A t \in Tasks : task[t] = Idle
         /\ reader = Quiet /\ fuse = "idle" /\ handle = "closed" /\ evictor = "idle"

LEMMA DownSteps ==
  ASSUME Down, ~Up, [Next]_vars
  PROVE  Crash \/ UNCHANGED <<task, reader, fuse, handle, evictor>>
<1>0. /\ \A t \in Tasks : task[t].pc = "idle"
      /\ reader.pc = "idle" /\ fuse = "idle" /\ handle = "closed" /\ evictor = "idle"
  BY DEF Down, Idle, Quiet
<1>1. TaskWrites => Crash
  <2>1. ASSUME NEW t \in Tasks,
               \/ SpawnedStarts(t) \/ SpawnedDies(t) \/ PrefetchStarts(t)
               \/ Download(t) \/ DownloadFails(t) \/ Verify(t) \/ Rename(t)
        PROVE  FALSE
    BY <1>0, <2>1 DEF SpawnedStarts, SpawnedDies, PrefetchStarts, Download,
       DownloadFails, Verify, Rename
  <2>2. ASSUME NEW t \in Tasks,
               \/ Commit(t) \/ Rollback(t) \/ Drain(t) \/ PrefetchQueued(t)
               \/ OpenHydrates(t) \/ ReadKicks(t) \/ Claim(t)
        PROVE  FALSE
    BY <1>0, <2>2 DEF Commit, Committed, Rollback, Drain, PrefetchQueued,
       OpenHydrates, ReadKicks, Claim
  <2> QED
    BY <2>1, <2>2 DEF TaskWrites
<1>2. ReaderWrites => Crash
  <2>1. ~(Read \/ ReadStatus \/ ReadRange \/ RangeFails \/ Check \/ Register)
    BY <1>0 DEF Read, ReadStatus, ReadRange, RangeFails, Check, Register
  <2>2. ~(WaitTimesOut \/ ReadHydrated \/ ReadFile)
    BY <1>0 DEF WaitTimesOut, ReadHydrated, ReadFile
  <2>3. ASSUME NEW t \in Tasks PROVE ~(Drain(t) \/ ReadKicks(t) \/ Claim(t))
    BY <1>0 DEF Drain, ReadKicks, Claim
  <2> QED
    BY <2>1, <2>2, <2>3 DEF ReaderWrites
<1>3. FuseWrites => Crash
  <2>1. ~(Open \/ Release \/ Write \/ Truncate \/ Mark \/ ReadStatus \/ ReadHydrated)
    BY <1>0 DEF Open, Release, Write, Truncate, Mark, ReadStatus, ReadHydrated
  <2>2. ~(EvictQuery \/ EvictCheck \/ EvictRemove \/ EvictSet)
    BY <1>0 DEF EvictQuery, EvictCheck, EvictRemove, EvictSet
  <2>3. ASSUME NEW t \in Tasks PROVE ~OpenHydrates(t)
    BY <1>0 DEF OpenHydrates
  <2> QED
    BY <2>1, <2>2, <2>3 DEF FuseWrites
<1> QED
  BY <1>1, <1>2, <1>3, TaskFrame, ReaderFrame, FuseFrame

\* What can still change the row and the file then: the start-up itself and
\* the commands of the user.
LEMMA DownRow ==
  ASSUME Down, ~Up, [Next]_vars
  PROVE  \/ BootReset \/ BootRequeue \/ PinCommit \/ PinSet \/ Unpin
         \/ \E p \in BOOLEAN : Clear(p)
         \/ UNCHANGED row
<1>0. /\ \A t \in Tasks : task[t].pc = "idle"
      /\ reader.pc = "idle" /\ fuse = "idle" /\ evictor = "idle"
  BY DEF Down, Idle, Quiet
<1>1. ~(Poll \/ PollGone \/ Upload \/ UploadConflict \/ UploadMissing \/ Open)
  BY DEF Poll, PollGone, Upload, UploadConflict, UploadMissing, Open
<1>2. ~(Mark \/ ReadStatus \/ WaitTimesOut \/ ReadHydrated \/ EvictSet)
  BY <1>0 DEF Mark, ReadStatus, WaitTimesOut, ReadHydrated, EvictSet
<1>3. ASSUME NEW t \in Tasks
      PROVE  ~(\/ PrefetchStarts(t) \/ Verify(t) \/ Commit(t) \/ Rollback(t)
               \/ OpenHydrates(t) \/ ReadKicks(t) \/ Claim(t))
  BY <1>0 DEF PrefetchStarts, Verify, Commit, Committed, Rollback, OpenHydrates,
     ReadKicks, Claim
<1> QED
  BY <1>1, <1>2, <1>3, RowFrame DEF RowWrites

LEMMA DownDisk ==
  ASSUME Down, ~Up, [Next]_vars
  PROVE  PinDownload \/ ClearUnlink \/ ReconcileWalk \/ UNCHANGED disk
<1>0. /\ \A t \in Tasks : task[t].pc = "idle"
      /\ fuse = "idle" /\ handle = "closed" /\ evictor = "idle"
  BY DEF Down, Idle
<1>1. ~(PollGone \/ Upload \/ UploadConflict \/ Write \/ Truncate \/ EvictRemove)
  BY <1>0 DEF PollGone, Upload, UploadConflict, Write, Truncate, EvictRemove
<1>2. ASSUME NEW t \in Tasks PROVE ~Rename(t)
  BY <1>0 DEF Rename
<1> QED
  BY <1>1, <1>2, DiskFrame DEF DiskWrites

LEMMA DownStep == ASSUME Down, [Next]_vars PROVE Down'
<1> SUFFICES ASSUME ~Up'
             PROVE  /\ \A t \in Tasks : task'[t] = Idle
                    /\ reader' = Quiet /\ fuse' = "idle" /\ handle' = "closed"
                    /\ evictor' = "idle"
  BY DEF Down, Idle, Quiet
<1>1. CASE Crash
  BY <1>1 DEF Crash
<1>2. CASE ~Crash /\ Up
  BY <1>2, BootFrame DEF BootWrites, Up, BootReset, ReconcilePaths, ReconcileWalk,
     BootRequeue
<1>3. CASE ~Crash /\ ~Up
  BY <1>3, DownSteps DEF Down
<1> QED
  BY <1>1, <1>2, <1>3

\* reset_hydrating has run, and nothing claims a row before the mount is up.
NotHydrating == boot \in {"paths", "walk", "requeue"} => row.status # "hydrating"

LEMMA NotHydratingStep ==
  ASSUME TypeInv, Down, NotHydrating, [Next]_vars PROVE NotHydrating'
<1>0. row \in RowType
  BY DEF TypeInv, RowOK
<1> SUFFICES ASSUME boot' \in {"paths", "walk", "requeue"}
             PROVE  row'.status # "hydrating"
  BY DEF NotHydrating
<1>1. CASE BootReset
  BY <1>0, <1>1 DEF BootReset, RowType
<1>2. CASE ~BootReset
  <2>1. ~Up /\ ~BootRequeue /\ row.status # "hydrating"
    BY <1>2, BootFrame
    DEF BootWrites, Crash, ReconcilePaths, ReconcileWalk, BootRequeue, NotHydrating, Up
  <2>2. CASE PinCommit
    BY <2>1, <2>2 DEF PinCommit, set_cached, Update, Row
  <2>3. CASE PinSet \/ Unpin
    BY <1>0, <2>1, <2>3 DEF PinSet, Unpin, set_pinned, Update, RowType
  <2>4. ASSUME NEW p \in BOOLEAN, Clear(p) PROVE row'.status # "hydrating"
    BY <2>1, <2>4 DEF Clear, set_evicted, Update, Row
  <2>5. CASE UNCHANGED row
    BY <2>1, <2>5
  <2> QED
    BY <1>2, <2>1, <2>2, <2>3, <2>4, <2>5, DownRow
<1> QED
  BY <1>1, <1>2

-----------------------------------------------------------------------------
(* A row in the state hydrating has a download.                            *)

Alive(pc) == pc \notin {"idle", "queued", "done", "failed"}

\* The row reaches the state hydrating only together with a task that runs.
LEMMA HydratingClaims ==
  ASSUME TypeInv, [Next]_vars, row'.status = "hydrating"
  PROVE  \/ row.status = "hydrating"
         \/ \E t \in Tasks : Alive(task'[t].pc)
<1>0. row \in RowType /\ task \in [Tasks -> TaskType]
  BY DEF TypeInv, RowOK, TaskOK
<1>1. ASSUME NEW t \in Tasks, PrefetchStarts(t) \/ OpenHydrates(t) \/ ReadKicks(t) \/ Claim(t)
      PROVE  Alive(task'[t].pc)
  <2>1. CASE PrefetchStarts(t)
    BY <1>0, <2>1 DEF PrefetchStarts, TaskType, Alive
  <2>2. CASE OpenHydrates(t)
    BY <1>0, <2>2 DEF OpenHydrates, Running, Alive
  <2>3. CASE ReadKicks(t)
    BY <1>0, <2>3 DEF ReadKicks, Running, Alive
  <2>4. CASE Claim(t)
    BY <1>0, <2>4 DEF Claim, Running, Alive
  <2> QED
    BY <1>1, <2>1, <2>2, <2>3, <2>4
<1>2. ASSUME NEW t \in Tasks, Verify(t) \/ Commit(t) \/ Rollback(t)
      PROVE  row.status = "hydrating"
  BY <1>0, <1>2 DEF Verify, Commit, Committed, Rollback, set_cached, set_status, Update,
     RowType, Row, NoRow
<1>3. ASSUME Poll \/ PollGone \/ Upload \/ UploadConflict \/ UploadMissing
      PROVE  row.status = "hydrating"
  <2>1. CASE Poll
    <3>1. CASE Exists /\ row.status = "dirty"
      BY <1>0, <2>1, <3>1 DEF Poll, RowType
    <3>2. CASE Exists /\ row.status # "dirty"
      <4>1. row' = [row EXCEPT !.etag = remote, !.status = "stale"]
        BY <2>1, <3>2 DEF Poll
      <4> QED
        BY <1>0, <4>1 DEF RowType
    <3>3. CASE ~Exists
      BY <2>1, <3>3 DEF Poll, Row
    <3> QED
      BY <3>1, <3>2, <3>3
  <2>2. CASE PollGone \/ UploadMissing
    BY <2>2 DEF PollGone, UploadMissing, Row, NoRow
  <2>3. CASE Upload
    BY <2>3 DEF Upload, Row
  <2>4. CASE UploadConflict
    BY <2>4 DEF UploadConflict, Row
  <2> QED
    BY <1>3, <2>1, <2>2, <2>3, <2>4
<1>4. ASSUME Open \/ Mark \/ ReadStatus \/ ReadHydrated
      PROVE  row.status = "hydrating"
  <2>1. touch_lru \/ set_dirty_with_cache_path \/ set_dirty_size \/ UNCHANGED row
    BY <1>4 DEF Open, Mark, ReadStatus, ReadHydrated
  <2>2. CASE touch_lru
    BY <1>0, <2>2 DEF touch_lru, Update, RowType
  <2>3. CASE set_dirty_with_cache_path
    BY <1>0, <2>3 DEF set_dirty_with_cache_path, Update, RowType
  <2>4. CASE set_dirty_size
    BY <1>0, <2>4 DEF set_dirty_size, Update, RowType
  <2> QED
    BY <2>1, <2>2, <2>3, <2>4
<1>5. ASSUME WaitTimesOut \/ EvictSet \/ PinCommit
      PROVE  row.status = "hydrating"
  BY <1>0, <1>5 DEF WaitTimesOut, EvictSet, PinCommit, set_status, set_evicted,
     set_cached, Update, RowType, Row
<1>6. ASSUME PinSet \/ Unpin PROVE row.status = "hydrating"
  BY <1>0, <1>6 DEF PinSet, Unpin, set_pinned, Update, RowType
<1>7. ASSUME NEW p \in BOOLEAN, Clear(p) PROVE row.status = "hydrating"
  BY <1>0, <1>7 DEF Clear, set_evicted, Update, Row
<1>8. ASSUME BootReset \/ BootRequeue PROVE row.status = "hydrating"
  BY <1>0, <1>8 DEF BootReset, BootRequeue, RowType
<1> QED
  BY <1>1, <1>2, <1>3, <1>4, <1>5, <1>6, <1>7, <1>8, RowFrame DEF RowWrites

\* A task ends, or gives up, only after it has taken the row out of the
\* state hydrating, or by dropping its claim.
LEMMA AliveStays ==
  ASSUME TypeInv, [Next]_vars, ~Crash, row.status = "hydrating",
         row'.status = "hydrating", ~dropped',
         NEW t \in Tasks, Alive(task[t].pc)
  PROVE  Alive(task'[t].pc)
<1>0. row \in RowType /\ task \in [Tasks -> TaskType] /\ Exists
  BY DEF TypeInv, RowOK, TaskOK, Exists, NoRow, Row
<1>1. ASSUME NEW u \in Tasks, NEW new, task' = [task EXCEPT ![u] = new],
             u = t => Alive(new.pc)
      PROVE  Alive(task'[t].pc)
  BY <1>0, <1>1
<1>2. ASSUME NEW u \in Tasks, NEW pc, task' = [task EXCEPT ![u].pc = pc],
             u = t => Alive(pc)
      PROVE  Alive(task'[t].pc)
  BY <1>0, <1>2 DEF TaskType
<1>3. ASSUME NEW u \in Tasks, SpawnedStarts(u) PROVE Alive(task'[t].pc)
  BY <1>0, <1>1, <1>3 DEF SpawnedStarts, Running, Alive
<1>4. ASSUME NEW u \in Tasks, PrefetchStarts(u) \/ DownloadFails(u) \/ Rename(u)
      PROVE  Alive(task'[t].pc)
  BY <1>2, <1>4 DEF PrefetchStarts, DownloadFails, Rename, Alive
<1>5. ASSUME NEW u \in Tasks, Download(u) PROVE Alive(task'[t].pc)
  BY <1>0, <1>5 DEF Download, TaskType, Alive
<1>6. ASSUME NEW u \in Tasks, Verify(u) PROVE Alive(task'[t].pc)
  <2>1. remote # 0
    BY <1>6 DEF Verify, NoRow, Row
  <2> QED
    BY <1>2, <1>6, <2>1 DEF Verify, Alive
<1>7. ASSUME NEW u \in Tasks, Commit(u) PROVE Alive(task'[t].pc)
  <2>1. disk = NoFile
    BY <1>0, <1>7 DEF Commit, Committed, set_cached, Update, Row
  <2> QED
    BY <1>2, <1>7, <2>1 DEF Commit, Committed, Alive
<1>8. ASSUME NEW u \in Tasks PROVE ~Rollback(u) /\ ~SpawnedDies(u)
  BY <1>0 DEF Rollback, SpawnedDies, set_status, Update, RowType
<1>9. ASSUME NEW u \in Tasks, Drain(u) PROVE Alive(task'[t].pc)
  BY <1>1, <1>9 DEF Drain, Alive
<1>10. ASSUME NEW u \in Tasks, PrefetchQueued(u) \/ OpenHydrates(u) \/ ReadKicks(u) \/ Claim(u)
       PROVE  Alive(task'[t].pc)
  <2>1. u # t
    BY <1>10 DEF PrefetchQueued, OpenHydrates, ReadKicks, Claim, Idle, Alive
  <2> QED
    BY <1>1, <1>10, <2>1 DEF PrefetchQueued, OpenHydrates, ReadKicks, Claim
<1> QED
  BY <1>3, <1>4, <1>5, <1>6, <1>7, <1>8, <1>9, <1>10, TaskFrame DEF TaskWrites

LEMMA HydratingStep ==
  ASSUME TypeInv, NotHydrating, HydratingHasTask, [Next]_vars PROVE HydratingHasTask'
<1> SUFFICES ASSUME row'.status = "hydrating", Up', ~dropped'
             PROVE  \E t \in Tasks : Alive(task'[t].pc)
  BY DEF HydratingHasTask, Alive
<1>1. CASE row.status = "hydrating"
  <2>1. Up /\ ~Crash
    BY <1>1, BootFrame
    DEF BootWrites, Crash, BootReset, ReconcilePaths, ReconcileWalk, BootRequeue,
        NotHydrating, Up
  <2>2. ~dropped
    <3>1. dropped => dropped'
      BY GhostFrame
      DEF GhostWrites, Upload, UploadConflict, Poll, PinCommit, Mark, Pin, BootRequeue,
          Crash, SpawnedDies, Commit, Committed, Clear, ghosts
    <3> QED
      BY <3>1
  <2>3. PICK t \in Tasks : Alive(task[t].pc)
    BY <1>1, <2>1, <2>2 DEF HydratingHasTask, Alive
  <2> QED
    BY <1>1, <2>1, <2>3, AliveStays
<1>2. CASE row.status # "hydrating"
  BY <1>2, HydratingClaims
<1> QED
  BY <1>1, <1>2

-----------------------------------------------------------------------------
(* An acknowledged write.  Nothing was in flight when it was marked, and   *)
(* nothing that could touch it gets started while the row is dirty.        *)

Calm ==
  /\ \A t \in Tasks : task[t].pc = "idle"
  /\ reader.pc \notin {"kick", "claim", "register", "wait"}
  /\ fuse # "opening"
  /\ evictor \notin {"remove", "set"}
  /\ cli.pc \notin {"download", "stat", "commit", "unlink"}

Kept ==
  edit = "kept" => /\ disk.edited /\ row.status = "dirty" /\ row.cpath
                   /\ Calm
                   /\ boot = "walk" => known

\* While the row is dirty and nothing is in flight, nothing gets in flight.
LEMMA CalmStays ==
  ASSUME TypeInv, Calm, row.status = "dirty", [Next]_vars PROVE Calm'
<1>0. /\ ~NeedsHydration /\ HasLocalData
      /\ reader \in ReaderType /\ cli \in CliType
  BY DEF NeedsHydration, HasLocalData, TypeInv, ReaderOK, CliOK
<1>1. \A t \in Tasks : task'[t].pc = "idle"
  <2>1. ASSUME NEW t \in Tasks,
               \/ SpawnedStarts(t) \/ SpawnedDies(t) \/ PrefetchStarts(t)
               \/ Download(t) \/ DownloadFails(t) \/ Verify(t) \/ Rename(t)
        PROVE  FALSE
    BY <2>1 DEF Calm, SpawnedStarts, SpawnedDies, PrefetchStarts, Download,
       DownloadFails, Verify, Rename
  <2>2. ASSUME NEW t \in Tasks,
               \/ Commit(t) \/ Rollback(t) \/ Drain(t) \/ PrefetchQueued(t)
               \/ OpenHydrates(t) \/ ReadKicks(t) \/ Claim(t)
        PROVE  FALSE
    BY <1>0, <2>2 DEF Calm, Commit, Committed, Rollback, Drain, PrefetchQueued,
       OpenHydrates, ReadKicks, Claim
  <2>3. CASE Crash
    BY <2>3 DEF Crash, Idle
  <2>4. CASE UNCHANGED task
    BY <2>4 DEF Calm
  <2> QED
    BY <2>1, <2>2, <2>3, <2>4, TaskFrame DEF TaskWrites
<1>2. reader'.pc \notin {"kick", "claim", "register", "wait"}
  <2>1. ASSUME NEW t \in Tasks PROVE ~(Drain(t) \/ ReadKicks(t) \/ Claim(t))
    BY DEF Calm, Drain, ReadKicks, Claim
  <2>2. ~(Register \/ WaitTimesOut)
    BY DEF Calm, Register, WaitTimesOut
  <2>3. CASE Read \/ ReadStatus \/ RangeFails \/ ReadHydrated
    BY <1>0, <2>3
    DEF Read, ReadStatus, RangeFails, ReadHydrated, ReaderAt, ReaderType
  <2>4. CASE Check
    <3>1. Exists
      BY DEF Exists, NoRow, Row
    <3> QED
      BY <1>0, <2>4, <3>1 DEF Check, ReaderType
  <2>5. CASE ReadRange \/ ReadFile \/ Crash
    <3>1. reader' = Quiet
      BY <2>5 DEF ReadRange, ReadFile, Crash
    <3> QED
      BY <3>1 DEF Quiet
  <2>6. CASE UNCHANGED reader
    BY <2>6 DEF Calm
  <2> QED
    BY <2>1, <2>2, <2>3, <2>4, <2>5, <2>6, ReaderFrame DEF ReaderWrites
<1>3. fuse' # "opening" /\ evictor' \notin {"remove", "set"}
  <2>1. CASE Open \/ Release \/ ReadStatus \/ ReadHydrated
    BY <1>0, <2>1 DEF Calm, Open, Release, ReadStatus, ReadHydrated
  <2>2. CASE Write \/ Truncate \/ Mark
    BY <2>2 DEF Calm, Write, Truncate, Mark
  <2>3. CASE EvictQuery \/ EvictCheck \/ EvictRemove \/ EvictSet
    BY <2>3 DEF Calm, EvictQuery, EvictCheck, EvictRemove, EvictSet
  <2>4. CASE Crash
    BY <2>4 DEF Crash
  <2>5. ASSUME NEW t \in Tasks PROVE ~OpenHydrates(t)
    BY DEF Calm, OpenHydrates
  <2>6. CASE UNCHANGED <<fuse, handle, evictor>>
    BY <2>6 DEF Calm
  <2> QED
    BY <2>1, <2>2, <2>3, <2>4, <2>5, <2>6, FuseFrame DEF FuseWrites
<1>4. cli'.pc \notin {"download", "stat", "commit", "unlink"}
  <2>1. CASE Pin
    BY <1>0, <2>1 DEF Pin, NoCli
  <2>2. ~(PinDownload \/ PinStat \/ PinFails \/ PinCommit \/ ClearUnlink)
    BY DEF Calm, PinDownload, PinStat, PinFails, PinCommit, ClearUnlink
  <2>3. CASE PinSet
    BY <2>3 DEF PinSet, NoCli
  <2>4. ASSUME NEW p \in BOOLEAN PROVE ~Clear(p)
    BY DEF Clear, Clearable
  <2>5. CASE UNCHANGED cli
    BY <2>5 DEF Calm
  <2> QED
    BY <2>1, <2>2, <2>3, <2>4, <2>5, CliFrame DEF CliWrites
<1> QED
  BY <1>1, <1>2, <1>3, <1>4 DEF Calm

\* Nor does anything but an upload then change the content or the mark.
LEMMA DirtyStays ==
  ASSUME TypeInv, Calm, row.status = "dirty", row.cpath, disk.edited,
         [Next]_vars, ~Upload, ~UploadConflict, boot = "walk" => known
  PROVE  disk'.edited /\ row'.status = "dirty" /\ row'.cpath
<1>0. /\ row \in RowType /\ disk # NoFile /\ Exists /\ HasLocalData
  BY DEF TypeInv, RowOK, NoFile, File, Exists, NoRow, Row, HasLocalData
<1>1. disk'.edited
  <2>1. ~(PollGone \/ EvictRemove \/ PinDownload \/ ClearUnlink)
    BY DEF Calm, PollGone, EvictRemove, PinDownload, ClearUnlink
  <2>2. ASSUME NEW t \in Tasks PROVE ~Rename(t)
    BY DEF Calm, Rename
  <2>3. CASE Write \/ Truncate
    <3>1. disk' = File(disk.base, TRUE)
      BY <2>3 DEF Write, Truncate
    <3> QED
      BY <3>1 DEF File
  <2>4. CASE ReconcileWalk
    BY <2>4 DEF ReconcileWalk
  <2> QED
    BY <2>1, <2>2, <2>3, <2>4, DiskFrame DEF DiskWrites
<1>2. row'.status = "dirty" /\ row'.cpath
  <2>1. ~(PollGone \/ UploadMissing \/ WaitTimesOut \/ EvictSet \/ PinCommit)
    BY <1>0 DEF Calm, PollGone, UploadMissing, WaitTimesOut, EvictSet, PinCommit
  <2>2. ASSUME NEW t \in Tasks
        PROVE  ~(\/ PrefetchStarts(t) \/ Verify(t) \/ Commit(t) \/ Rollback(t)
                 \/ OpenHydrates(t) \/ ReadKicks(t) \/ Claim(t))
    BY DEF Calm, PrefetchStarts, Verify, Commit, Committed, Rollback, OpenHydrates,
       ReadKicks, Claim
  <2>3. ASSUME NEW p \in BOOLEAN PROVE ~Clear(p)
    BY DEF Clear, Clearable
  <2>4. CASE Poll
    BY <1>0, <2>4 DEF Poll, RowType
  <2>5. CASE Open \/ ReadStatus \/ ReadHydrated
    <3>1. touch_lru \/ UNCHANGED row
      BY <2>5 DEF Open, ReadStatus, ReadHydrated
    <3> QED
      BY <1>0, <3>1 DEF touch_lru, Update, RowType
  <2>6. CASE Mark
    <3>1. set_dirty_size \/ set_dirty_with_cache_path
      BY <2>6 DEF Mark
    <3>2. CASE set_dirty_size
      BY <1>0, <3>2 DEF set_dirty_size, Update, RowType
    <3>3. CASE set_dirty_with_cache_path
      BY <1>0, <3>3 DEF set_dirty_with_cache_path, Update, RowType
    <3> QED
      BY <3>1, <3>2, <3>3
  <2>7. CASE PinSet \/ Unpin
    BY <1>0, <2>7 DEF PinSet, Unpin, set_pinned, Update, RowType
  <2>8. CASE BootReset \/ BootRequeue
    BY <2>8 DEF BootReset, BootRequeue
  <2> QED
    BY <2>1, <2>2, <2>3, <2>4, <2>5, <2>6, <2>7, <2>8, RowFrame DEF RowWrites
<1> QED
  BY <1>1, <1>2

\* The write that is marked: the row is dirty, the bytes are in place.
LEMMA MarkKeeps ==
  ASSUME TypeInv, Down, Mark, edit' = "kept" PROVE Kept'
<1>0. row \in RowType
  BY DEF TypeInv, RowOK
<1>1. ~Overlapped /\ Up /\ UNCHANGED <<disk, boot, known>>
  BY DEF Mark, Down, dbVars, bootVars
<1>2. ~InFlight /\ Exists /\ disk.edited /\ (Linking \/ row.cpath)
  BY <1>1 DEF Overlapped
<1>3. row'.status = "dirty" /\ row'.cpath
  <2>1. CASE Linking
    BY <1>0, <1>2, <2>1 DEF Mark, set_dirty_with_cache_path, Update, RowType
  <2>2. CASE ~Linking
    BY <1>0, <1>2, <2>2 DEF Mark, set_dirty_size, Update, RowType
  <2> QED
    BY <2>1, <2>2
<1>4. Calm'
  BY <1>2 DEF Mark, Calm, InFlight, Filling
<1> QED
  BY <1>1, <1>2, <1>3, <1>4 DEF Kept, Up

LEMMA KeptStep == ASSUME TypeInv, Down, Kept, [Next]_vars PROVE Kept'
<1> SUFFICES ASSUME edit' = "kept" PROVE Kept'
  BY DEF Kept
<1>1. CASE Mark
  BY <1>1, MarkKeeps
<1>2. CASE ~Mark
  <2>1. edit = "kept" /\ ~Upload /\ ~UploadConflict
    BY <1>2, GhostFrame
    DEF GhostWrites, Upload, UploadConflict, Poll, PinCommit, Pin, BootRequeue, Crash,
        SpawnedDies, Commit, Committed, Clear, ghosts
  <2>2. disk'.edited /\ row'.status = "dirty" /\ row'.cpath /\ Calm'
    BY <2>1, CalmStays, DirtyStays DEF Kept
  <2>3. boot' = "walk" => known'
    BY <2>1, BootFrame
    DEF BootWrites, Crash, BootReset, ReconcilePaths, ReconcileWalk, BootRequeue, Kept
  <2> QED
    BY <2>2, <2>3 DEF Kept
<1> QED
  BY <1>1, <1>2

-----------------------------------------------------------------------------
(* The recorded ETag.                                                      *)

LEMMA BlindGrows == ASSUME [Next]_vars PROVE blind \subseteq blind'
<1> USE DEF Blinds
<1>1. CASE Upload \/ UploadConflict \/ Poll \/ PinCommit
  BY <1>1 DEF Upload, UploadConflict, Poll, PinCommit
<1>2. CASE Mark
  BY <1>2 DEF Mark
<1>3. CASE Pin \/ BootRequeue \/ Crash
  BY <1>3 DEF Pin, BootRequeue, Crash
<1>4. ASSUME NEW t \in Tasks, SpawnedDies(t) \/ Commit(t) PROVE blind \subseteq blind'
  BY <1>4 DEF SpawnedDies, Commit, Committed
<1>5. ASSUME NEW p \in BOOLEAN, Clear(p) PROVE blind \subseteq blind'
  BY <1>5 DEF Clear
<1> QED
  BY <1>1, <1>2, <1>3, <1>4, <1>5, GhostFrame DEF GhostWrites

\* A download leaves the point between its rename and its commit only by
\* the commit, or by a crash that is recorded.
LEMMA CommittingEnds ==
  ASSUME TypeInv, [Next]_vars, Committing, ~Committing', blind' = {}
  PROVE  \E t \in Tasks : Commit(t)
<1>0. task \in [Tasks -> TaskType]
  BY DEF TypeInv, TaskOK
<1>1. PICK c \in Tasks : task[c].pc = "commit"
  BY DEF Committing
<1>2. task'[c].pc # "commit"
  BY DEF Committing
<1>3. ~Crash
  BY DEF Crash, Blinds, Committing
<1>4. ASSUME NEW t \in Tasks, NEW new, task' = [task EXCEPT ![t] = new] PROVE t = c
  BY <1>0, <1>1, <1>2, <1>4
<1>5. ASSUME NEW t \in Tasks
      PROVE  ~(\/ SpawnedStarts(t) \/ SpawnedDies(t) \/ PrefetchStarts(t)
               \/ Download(t) \/ DownloadFails(t) \/ Verify(t) \/ Rename(t))
  <2>1. task[c].pc \notin {"spawned", "queued", "download", "verify", "rename"}
    BY <1>1
  <2> QED
    BY <1>4, <2>1 DEF SpawnedStarts, SpawnedDies, PrefetchStarts, Download,
       DownloadFails, Verify, Rename
<1>6. ASSUME NEW t \in Tasks
      PROVE  ~(\/ Rollback(t) \/ Drain(t) \/ PrefetchQueued(t) \/ OpenHydrates(t)
               \/ ReadKicks(t) \/ Claim(t))
  <2>1. task[c].pc \notin {"rollback", "done", "failed"} /\ task[c] # Idle
    BY <1>1 DEF Idle
  <2> QED
    BY <1>4, <2>1 DEF Rollback, Drain, PrefetchQueued, OpenHydrates, ReadKicks, Claim
<1> QED
  BY <1>1, <1>2, <1>3, <1>5, <1>6, TaskFrame DEF TaskWrites

Local(r) == r.status \in {"cached", "dirty"}

\* Statements that keep the ETag, or end with a row that has no local data.
LEMMA EtagKept ==
  ASSUME row \in RowType,
         \/ \E s \in {"remote", "hydrating"} : set_status(s)
         \/ set_evicted \/ touch_lru \/ row' = NoRow
         \/ \E l \in {"unpinned", "pinned"} : set_pinned(l)
         \/ UNCHANGED row,
         Local(row')
  PROVE  Local(row) /\ row'.etag = row.etag
<1> USE DEF Local, RowType, Update, Row, NoRow
<1>1. ASSUME NEW s \in {"remote", "hydrating"}, set_status(s)
      PROVE  Local(row) /\ row'.etag = row.etag
  BY <1>1 DEF set_status
<1>2. CASE set_evicted
  BY <1>2 DEF set_evicted
<1>3. CASE touch_lru
  BY <1>3 DEF touch_lru
<1>4. ASSUME NEW l \in {"unpinned", "pinned"}, set_pinned(l)
      PROVE  Local(row) /\ row'.etag = row.etag
  BY <1>4 DEF set_pinned
<1> QED
  BY <1>1, <1>2, <1>3, <1>4

\* Who gives a row with local data another ETag, or makes it one.
LEMMA EtagMoves ==
  ASSUME TypeInv, [Next]_vars, Local(row'), blind' = {}
  PROVE  \/ Upload \/ UploadConflict \/ PinCommit \/ Mark
         \/ \E t \in Tasks : Commit(t)
         \/ Local(row) /\ row'.etag = row.etag
<1>0. row \in RowType
  BY DEF TypeInv, RowOK
<1>1. ~Poll
  <2> SUFFICES ASSUME Poll PROVE FALSE
    OBVIOUS
  <2>1. row.status # "dirty"
    BY DEF Poll, Blinds
  <2>2. CASE Exists
    <3>1. row' = [row EXCEPT !.etag = remote, !.status = "stale"]
      BY <2>1, <2>2 DEF Poll
    <3> QED
      BY <1>0, <3>1 DEF RowType, Local
  <2>3. CASE ~Exists
    BY <2>3 DEF Poll, Row, Local
  <2> QED
    BY <2>2, <2>3
<1>2. ASSUME PollGone \/ UploadMissing
      PROVE  Local(row) /\ row'.etag = row.etag
  BY <1>2 DEF PollGone, UploadMissing, Row, NoRow, Local
<1>3. ASSUME NEW t \in Tasks,
             \/ PrefetchStarts(t) \/ Verify(t) \/ Rollback(t) \/ OpenHydrates(t)
             \/ ReadKicks(t) \/ Claim(t)
      PROVE  Local(row) /\ row'.etag = row.etag
  BY <1>0, <1>3, EtagKept
  DEF PrefetchStarts, Verify, Rollback, OpenHydrates, ReadKicks, Claim
<1>4. ASSUME Open \/ ReadStatus \/ WaitTimesOut \/ ReadHydrated
      PROVE  Local(row) /\ row'.etag = row.etag
  BY <1>0, <1>4, EtagKept DEF Open, ReadStatus, WaitTimesOut, ReadHydrated
<1>5. ASSUME EvictSet \/ PinSet \/ Unpin
      PROVE  Local(row) /\ row'.etag = row.etag
  BY <1>0, <1>5, EtagKept DEF EvictSet, PinSet, Unpin
<1>6. ASSUME NEW p \in BOOLEAN, Clear(p) PROVE Local(row) /\ row'.etag = row.etag
  BY <1>0, <1>6, EtagKept DEF Clear
<1>7. ASSUME BootReset \/ BootRequeue PROVE Local(row) /\ row'.etag = row.etag
  BY <1>0, <1>7 DEF BootReset, BootRequeue, RowType, Local
<1> QED
  BY <1>1, <1>2, <1>3, <1>4, <1>5, <1>6, <1>7, RowFrame DEF RowWrites

\* Who replaces the content: only by a version at least as new as the row.
LEMMA BaseMoves ==
  ASSUME TypeInv, [Next]_vars, disk' # NoFile, ~Committing'
  PROVE  \/ Upload \/ UploadConflict
         \/ disk # NoFile /\ disk'.base = disk.base
         \/ row.etag <= disk'.base
<1>0. row \in RowType /\ task \in [Tasks -> TaskType] /\ ServerOK /\ RowOK
  BY DEF TypeInv, RowOK, TaskOK
<1>1. ~(EvictRemove \/ ClearUnlink)
  BY DEF EvictRemove, ClearUnlink
<1>2. ASSUME PollGone \/ ReconcileWalk PROVE disk # NoFile /\ disk'.base = disk.base
  BY <1>2 DEF PollGone, ReconcileWalk
<1>3. ASSUME NEW t \in Tasks PROVE ~Rename(t)
  BY <1>0 DEF Rename, TaskType, Committing
<1>4. ASSUME Write PROVE disk # NoFile /\ disk'.base = disk.base
  BY <1>4 DEF Write, File
<1>5. CASE Truncate
  <2>1. CASE row.cpath
    <3>1. disk # NoFile /\ disk' = File(disk.base, TRUE)
      BY <1>5, <2>1 DEF Truncate
    <3> QED
      BY <3>1 DEF File
  <2>2. CASE ~row.cpath
    <3>1. disk' = File(row.etag, TRUE)
      BY <1>5, <2>2 DEF Truncate
    <3> QED
      BY <1>0, <3>1 DEF File, RowType, Versions
  <2> QED
    BY <2>1, <2>2
<1>6. CASE PinDownload
  <2>1. remote = top /\ disk' = File(remote, FALSE)
    BY <1>0, <1>6 DEF PinDownload, ServerOK
  <2> QED
    BY <1>0, <2>1 DEF File, RowOK
<1> QED
  BY <1>1, <1>2, <1>3, <1>4, <1>5, <1>6, DiskFrame DEF DiskWrites

LEMMA EtagStep == ASSUME TypeInv, EtagHonest, [Next]_vars PROVE EtagHonest'
<1> SUFFICES ASSUME blind' = {}, ~Committing', Local(row'), disk' # NoFile
             PROVE  row'.etag <= disk'.base
  BY DEF EtagHonest, HasLocalData, Local
<1>0. /\ blind = {} /\ row \in RowType /\ disk \in [base : Versions, edited : BOOLEAN]
      /\ ServerOK /\ task \in [Tasks -> TaskType] /\ cli \in CliType
  BY BlindGrows DEF TypeInv, RowOK, DiskOK, TaskOK, CliOK
<1>1. CASE Upload
  BY <1>0, <1>1 DEF Upload, Row, File, ServerOK, Versions
<1>2. CASE UploadConflict
  BY <1>0, <1>2 DEF UploadConflict, Row, File, ServerOK, Versions
<1>3. CASE PinCommit
  <2>1. cli.ver = cli.got /\ disk.base = cli.got /\ UNCHANGED disk
    BY <1>3 DEF PinCommit, Blinds
  <2>2. row' = IF Exists THEN Row("cached", cli.ver, TRUE, Touched(row.lru)) ELSE row
    BY <1>3 DEF PinCommit, set_cached, Update
  <2>3. CASE Exists
    BY <1>0, <2>1, <2>2, <2>3 DEF Row, Versions
  <2>4. CASE ~Exists
    BY <2>2, <2>4 DEF Exists, NoRow, Row, Local
  <2> QED
    BY <2>3, <2>4
<1>4. ASSUME NEW t \in Tasks, Commit(t) PROVE row'.etag <= disk'.base
  <2>1. task[t].pc = "commit" /\ disk.base = task[t].got /\ UNCHANGED disk
    BY <1>4 DEF Commit, Committed, Blinds
  <2>2. task[t].etag <= task[t].got
    BY <2>1 DEF TypeInv, TaskOK, SoundTask
  <2>3. row' = IF Exists THEN Row("cached", task[t].etag, TRUE, Touched(row.lru)) ELSE row
    BY <1>4, <2>1 DEF Commit, Committed, set_cached, Update
  <2>4. CASE Exists
    BY <1>0, <2>1, <2>2, <2>3, <2>4 DEF Row, Versions
  <2>5. CASE ~Exists
    BY <2>3, <2>5 DEF Exists, NoRow, Row, Local
  <2> QED
    BY <2>4, <2>5
<1>5. ASSUME ~Upload, ~UploadConflict, ~PinCommit, \A t \in Tasks : ~Commit(t)
      PROVE  row'.etag <= disk'.base
  <2>1. ~Committing
    BY <1>5, CommittingEnds
  <2>2. CASE Mark
    <3>1. UNCHANGED disk
      BY <2>2 DEF Mark
    <3>2. CASE Linking
      <4>1. row.etag = disk.base
        BY <2>2, <3>2 DEF Mark, Blinds
      <4>2. row'.etag = row.etag
        BY <1>0, <2>2, <3>2 DEF Mark, set_dirty_with_cache_path, Update, RowType
      <4> QED
        BY <1>0, <3>1, <4>1, <4>2 DEF Versions
    <3>3. CASE ~Linking
      <4>1. HasLocalData
        BY <2>2, <3>3 DEF Mark, Blinds
      <4>2. row'.etag = row.etag
        BY <1>0, <2>2, <3>3 DEF Mark, set_dirty_size, Update, RowType
      <4> QED
        BY <1>0, <2>1, <3>1, <4>1, <4>2 DEF EtagHonest
    <3> QED
      BY <3>2, <3>3
  <2>3. CASE ~Mark
    <3>1. Local(row) /\ row'.etag = row.etag
      BY <1>5, <2>3, EtagMoves
    <3>2. \/ disk # NoFile /\ disk'.base = disk.base
          \/ row.etag <= disk'.base
      BY <1>5, BaseMoves
    <3> QED
      BY <1>0, <2>1, <3>1, <3>2 DEF EtagHonest, HasLocalData, Local
  <2> QED
    BY <2>2, <2>3
<1> QED
  BY <1>1, <1>2, <1>3, <1>4, <1>5

-----------------------------------------------------------------------------
(* The start-up.  As long as no command is at work, what the reconciler    *)
(* has read and removed stays true until the mount is up.                  *)

Reconciled ==
  (~Up /\ ~meddled) =>
     /\ cli = NoCli
     /\ boot = "walk" => (known => row.cpath)
     /\ boot = "requeue" => ~partial /\ (disk # NoFile => row.cpath)

\* Without a command, the row keeps its path and the file is only removed.
LEMMA UndisturbedStart ==
  ASSUME TypeInv, Down, ~Up, cli = NoCli, [Next]_vars,
         ~Crash, ~Pin, \A p \in BOOLEAN : ~Clear(p)
  PROVE  /\ cli' = NoCli
         /\ BootReset \/ row'.cpath = row.cpath
         /\ ReconcileWalk \/ disk' = disk
<1>0. row \in RowType /\ cli.pc = "idle"
  BY DEF TypeInv, RowOK, NoCli
<1>1. ~(PinDownload \/ PinStat \/ PinFails \/ PinCommit \/ PinSet \/ ClearUnlink)
  BY <1>0 DEF PinDownload, PinStat, PinFails, PinCommit, PinSet, ClearUnlink
<1>2. cli' = NoCli
  BY <1>1, CliFrame DEF CliWrites
<1>3. BootReset \/ row'.cpath = row.cpath
  <2>1. CASE Unpin
    BY <1>0, <2>1 DEF Unpin, set_pinned, Update, RowType
  <2>2. CASE BootRequeue
    BY <1>0, <2>2 DEF BootRequeue, RowType
  <2> QED
    BY <1>1, <2>1, <2>2, DownRow
<1>4. ReconcileWalk \/ disk' = disk
  BY <1>1, DownDisk
<1> QED
  BY <1>2, <1>3, <1>4

LEMMA ReconciledStep == ASSUME TypeInv, Down, Reconciled, [Next]_vars PROVE Reconciled'
<1> SUFFICES ASSUME ~Up', ~meddled' PROVE Reconciled'
  BY DEF Reconciled
<1>1. CASE Crash
  BY <1>1 DEF Crash, Reconciled
<1>2. CASE ~Crash
  <2>1. ~Up
    BY <1>2, BootFrame DEF BootWrites, Up, BootReset, ReconcilePaths, ReconcileWalk,
       BootRequeue
  <2>2. ~Pin /\ (\A p \in BOOLEAN : ~Clear(p)) /\ ~BootRequeue
    BY <2>1 DEF Pin, Clear, BootRequeue, Up
  <2>3. ~meddled
    BY <1>2, <2>2, GhostFrame
    DEF GhostWrites, Upload, UploadConflict, Poll, PinCommit, Mark, SpawnedDies, Commit,
        Committed
  <2>4. /\ cli' = NoCli
        /\ BootReset \/ row'.cpath = row.cpath
        /\ ReconcileWalk \/ disk' = disk
    BY <1>2, <2>1, <2>2, <2>3, UndisturbedStart DEF Reconciled
  <2>5. CASE BootReset
    BY <2>4, <2>5 DEF BootReset, Reconciled
  <2>6. CASE ReconcilePaths
    BY <2>4, <2>6 DEF ReconcilePaths, Reconciled, dbVars
  <2>7. CASE ReconcileWalk
    BY <2>1, <2>3, <2>4, <2>7 DEF ReconcileWalk, Reconciled
  <2>8. CASE ~BootReset /\ ~ReconcilePaths /\ ~ReconcileWalk
    <3>1. UNCHANGED <<boot, known, partial>>
      BY <1>2, <2>2, <2>8, BootFrame DEF BootWrites
    <3> QED
      BY <2>1, <2>3, <2>4, <2>8, <3>1 DEF Reconciled
  <2> QED
    BY <2>5, <2>6, <2>7, <2>8
<1> QED
  BY <1>1, <1>2
-----------------------------------------------------------------------------
(* The theorems.                                                           *)

IInv ==
  TypeInv /\ Down /\ NotHydrating /\ HydratingHasTask /\ Kept /\ EtagHonest /\ Reconciled

LEMMA IInvInit == Init => IInv
<1> SUFFICES ASSUME Init PROVE IInv
  OBVIOUS
<1>1. TypeInv
  BY TypeInvInit
<1>2. boot = "up" /\ edit = "none"
  BY DEF Init
<1>3. Down /\ NotHydrating /\ Kept /\ Reconciled
  BY <1>2 DEF Down, NotHydrating, Kept, Reconciled, Up
<1>4. row.status # "hydrating" /\ (Local(row) /\ disk # NoFile => row.etag <= disk.base)
  <2>1. \/ row = Row("remote", 1, FALSE, "none") /\ disk = NoFile
        \/ row = Row("cached", 1, TRUE, "unpinned") /\ disk = File(1, FALSE)
        \/ row = Row("stale", 2, TRUE, "unpinned") /\ disk = File(1, FALSE)
    BY DEF Init
  <2>2. CASE row = Row("remote", 1, FALSE, "none") /\ disk = NoFile
    BY <2>2 DEF Row, Local
  <2>3. CASE row = Row("cached", 1, TRUE, "unpinned") /\ disk = File(1, FALSE)
    BY <2>3 DEF Row, File, Local
  <2>4. CASE row = Row("stale", 2, TRUE, "unpinned") /\ disk = File(1, FALSE)
    BY <2>4 DEF Row, Local
  <2> QED
    BY <2>1, <2>2, <2>3, <2>4
<1>5. HydratingHasTask /\ EtagHonest
  BY <1>4 DEF HydratingHasTask, EtagHonest, HasLocalData, Local
<1> QED
  BY <1>1, <1>3, <1>5 DEF IInv

LEMMA IInvStep == ASSUME IInv, [Next]_vars PROVE IInv'
BY TypeInvStep, DownStep, NotHydratingStep, HydratingStep, KeptStep, EtagStep, ReconciledStep
DEF IInv

LEMMA Invariant == Spec => []IInv
<1>1. Init => IInv
  BY IInvInit
<1>2. IInv /\ [Next]_vars => IInv'
  BY IInvStep
<1> QED
  BY <1>1, <1>2, PTL DEF Spec

\* A row says hydrating only while a download that will change its status is
\* alive: with any number of concurrent runs of do_hydrate, prefetches, time
\* outs of hydrate_if_needed and crashes, no open or read waits for nobody.
THEOREM HydratingRowsHaveTasks == Spec => []HydratingHasTask
<1>1. IInv => HydratingHasTask
  BY DEF IInv
<1> QED
  BY <1>1, Invariant, PTL

\* An acknowledged write that overlapped nothing keeps its bytes, its cache
\* path and its dirty mark until an upload takes them.
THEOREM WritesAreKept == Spec => []WritesKept
<1>1. IInv => WritesKept
  BY DEF IInv, Kept, WritesKept
<1> QED
  BY <1>1, Invariant, PTL

\* But for the cases the history variable names, the recorded ETag is never
\* newer than the content of the cache file.
THEOREM EtagIsHonest == Spec => []EtagHonest
<1>1. IInv => EtagHonest
  BY DEF IInv
<1> QED
  BY <1>1, Invariant, PTL

\* A start-up no command interferes with leaves no temp file and no cache
\* file without a row.
THEOREM StartupReconciles == Spec => ReconcileComplete
<1>1. ASSUME IInv, [Next]_vars
      PROVE  [(~Up /\ boot' = "up" /\ ~meddled) =>
                ~partial' /\ (disk' # NoFile => row'.cpath)]_vars
  <2> SUFFICES ASSUME ~Up, boot' = "up", ~meddled
               PROVE  ~partial' /\ (disk' # NoFile => row'.cpath)
    OBVIOUS
  <2>1. BootRequeue
    BY <1>1, BootFrame DEF BootWrites, Crash, BootReset, ReconcilePaths, ReconcileWalk, Up
  <2>2. ~partial /\ (disk # NoFile => row.cpath)
    BY <1>1, <2>1 DEF IInv, Reconciled, BootRequeue
  <2>3. row'.cpath = row.cpath
    BY <1>1, <2>1 DEF BootRequeue, IInv, TypeInv, RowOK, RowType
  <2> QED
    BY <2>1, <2>2, <2>3 DEF BootRequeue
<1> QED
  BY <1>1, Invariant, PTL DEF Spec, ReconcileComplete
=============================================================================
