--------------------------- MODULE FileSync_proofs --------------------------
(***************************************************************************)
(* Theorems about one file, for every set of edits, every number of        *)
(* uploads at once, failures and crashes, with and without merging: type   *)
(* correctness, that no edit is lost, that an edit which is only in the    *)
(* cache file survives a crash, and that a file at rest is uploaded.       *)
(***************************************************************************)
EXTENDS FileSync, TLAPS

-----------------------------------------------------------------------------
(* The inductive invariant.                                                *)

\* The locals a step reads are set.
LocalsSet ==
  /\ \A t \in Uploads : /\ up[t].pc = "commit" => up[t].snap # None
                       /\ up[t].pc = "record" => up[t].meta # None
  /\ res.pc \in {"eqcmp", "eqset", "mset"} => res.meta # None
  /\ res.pc \in {"eqcmp", "merge"} => res.read # None
  /\ res.pc \in {"mdl", "merge"} => base # None
  /\ res.pc \in {"mwrite", "mmark", "mcommit"} => res.merged # None
  /\ wr.pc # "idle" => wr.edit \in LocalEdits

\* The edits that must not get lost.
Live == (written \cup made) \ Excepted

\* What a holds of them is in b; in b or in a conflict copy.
In(a, b)   == Live \cap EditsOf(a) \subseteq EditsOf(b)
Kept(a, b) == Live \cap EditsOf(a) \subseteq EditsOf(b) \cup siblings

\* Nothing holds an edit that nobody made.
Known(c) == EditsOf(c) \subseteq written \cup made
KnownEdits ==
  /\ Known(row.etag) /\ Known(cache) /\ Known(base) /\ Known(remote)
  /\ \A t \in Uploads : Known(up[t].etag) /\ Known(up[t].snap) /\ Known(up[t].meta)
  /\ Known(res.meta) /\ Known(res.read) /\ Known(res.merged)
  /\ wr.pc # "idle" => wr.edit \in written
  /\ acked \subseteq written

\* While two uploads run at once, or one next to the resolver, nothing is claimed of
\* the edits made so far.
OverlapInv == Overlapping => written \cup made \subseteq overlapped

\* What holds at every moment, and so after a crash: the ETag and the base
\* stand for contents the local side still has, and the base for one the cloud
\* still has.
DiskInv ==
  /\ Live \subseteq Held
  /\ Kept(row.etag, cache)
  /\ row.etag = None => Kept(remote, cache)
  /\ Kept(base, cache) /\ Kept(base, remote)
  /\ captures > 0 => Kept(cache, remote)

\* The facts an upload has established at each of its steps.
UploadInv == \A t \in Uploads :
  /\ up[t].pc \in {"mark", "check"} => Kept(up[t].etag, cache)
  /\ up[t].pc = "mark" /\ up[t].etag = None => Kept(remote, cache)
  /\ up[t].pc \in {"send", "commit", "stat"} => Kept(remote, cache)
  /\ up[t].pc = "commit" =>
       /\ Kept(remote, up[t].snap) /\ Kept(up[t].snap, cache)
       /\ In(cache, up[t].snap)
  /\ up[t].pc \in {"stat", "record"} => In(cache, remote)
  /\ up[t].pc = "record" => Kept(up[t].meta, cache)

\* The facts the resolver has established at each of its steps.
ResolverInv ==
  /\ res.pc = "eqcmp" => /\ In(res.meta, remote)
                          /\ In(cache, res.read) /\ In(res.read, cache)
  /\ res.pc = "eqset" => Kept(res.meta, cache) /\ In(cache, remote)
  /\ res.pc = "merge" => In(remote, res.read) /\ In(res.read, remote)
  /\ res.pc \in {"mwrite", "mmark"} =>
       /\ Kept(cache, res.merged)
       /\ Live \cap res.merged \subseteq cache \cup EditsOf(remote)
  /\ res.pc = "mwrite" => Kept(remote, res.merged)
  /\ res.pc \in {"msend", "mcommit", "mstat", "kbstat"} => Kept(remote, cache)
  /\ res.pc = "mcommit" =>
       /\ Kept(remote, res.merged) /\ Kept(res.merged, cache)
       /\ In(cache, res.merged)
  /\ res.pc \in {"mstat", "mset", "kbstat", "kbset"} => In(cache, remote)
  /\ res.pc \in {"mset", "kbset"} => Kept(res.meta, cache)
  /\ res.pc = "kbdl" => Live \cap cache \subseteq siblings
  /\ res.pc = "kbset" /\ res.meta = None => Kept(remote, cache)

\* A row that says cached hides no acknowledged edit, if a write is always
\* recorded in its row.
Acked == acked \cup (IF wr.pc = "enqueue" THEN {wr.edit} ELSE {})
DirtyInv ==
  row.status = "cached" /\ "db" \notin FaultKinds =>
    Acked \cap Live \cap cache \subseteq EditsOf(remote)

IInv == KnownEdits /\ OverlapInv /\ DiskInv /\ UploadInv /\ ResolverInv /\ DirtyInv

-----------------------------------------------------------------------------
(* Type correctness.                                                       *)

TypeInv == TypeOK /\ LocalsSet

\* The steps of an upload and of its completion keep the types.
LEMMA UploadTyped ==
  ASSUME TypeInv, NEW t \in Uploads, Upload(t)
  PROVE  TypeInv'
  <1> USE FileSyncAssumption
      DEF TypeInv, TypeOK, LocalsSet, UploadStep, set_uploaded, UploadAt, AtPc,
          IdleUpload, UploadPcs,
          ResolverPcs, OptContents, disk, cloud, history, bounds
  <1>1. CASE Dispatch(t)
    <2>1. /\ UploadStep(t, "idle", AtPc("read"))
          /\ queued' \in BOOLEAN
          /\ UNCHANGED <<disk, cloud, res, captures, wr, written, acked, made, deleted,
                         raced, bounds>>
      BY <1>1, Zenon DEF Dispatch
    <2>2. overlapped' \subseteq overlapped \cup written \cup made
      BY <1>1, Zenon DEF Dispatch
    <2> QED BY <2>1, <2>2 DEF Edits
  <1>2. CASE ReadRow(t)
    BY <1>2 DEF ReadRow
  <1>3. CASE MarkUploading(t)
    BY <1>3 DEF MarkUploading
  <1>4. CASE CheckIfMatch(t)
    BY <1>4 DEF CheckIfMatch
  <1>5. CASE Send(t)
    BY <1>5 DEF Send
  <1>6. CASE Commit(t)
    BY <1>6 DEF Commit
  <1>7. CASE StatUpload(t)
    BY <1>7 DEF StatUpload
  <1>8. CASE SetUploaded(t)
    BY <1>8 DEF SetUploaded
  <1>9. CASE JoinOk(t)
    BY <1>9 DEF JoinOk
  <1>10. CASE JoinRetry(t)
    BY <1>10 DEF JoinRetry, TrySetStatus, Fault
  <1>11. CASE JoinFatal(t)
    BY <1>11 DEF JoinFatal, TrySetStatus, Fault
  <1>12. CASE JoinConflict(t)
    BY <1>12 DEF JoinConflict, ResolverAt, To
  <1> QED BY <1>1, <1>2, <1>3, <1>4, <1>5, <1>6, <1>7, <1>8, <1>9, <1>10, <1>11,
             <1>12
     DEF Upload

\* The steps of the resolver keep the types: a merge reads a remote version
\* that was downloaded, and the cache file is only replaced by a content.
LEMMA ResolveTyped ==
  ASSUME TypeInv, Resolve
  PROVE  TypeInv'
  <1> USE FileSyncAssumption
      DEF TypeInv, TypeOK, LocalsSet, ResolverStep, set_cached, ResolverAt, To,
          IdleResolver,
          UploadPcs, ResolverPcs, OptContents, Contents, disk, cloud, history
  <1>1. CASE GiveUp
    BY <1>1 DEF GiveUp, Fault
  <1>2. CASE EqStat
    BY <1>2 DEF EqStat, Fault, AfterCompare, Merging
  <1>3. CASE EqSame
    BY <1>3 DEF EqSame
  <1>4. CASE EqDiffers
    BY <1>4 DEF EqDiffers, Fault, AfterCompare, Merging
  <1>5. CASE EqSet
    BY <1>5 DEF EqSet
  <1>6. CASE MergeDownload
    BY <1>6 DEF MergeDownload, Fault
  <1>7. CASE MergeClean
    BY <1>7 DEF MergeClean, Merge3
  <1>8. CASE MergeMarkers
    BY <1>8 DEF MergeMarkers
  <1>9. CASE MergeFailed
    BY <1>9 DEF MergeFailed
  <1>10. CASE MergeWrite
    BY <1>10 DEF MergeWrite
  <1>11. CASE MergeSend
    BY <1>11 DEF MergeSend
  <1>12. CASE MergeCommit
    BY <1>12 DEF MergeCommit
  <1>13. CASE MergeStat
    BY <1>13 DEF MergeStat
  <1>14. CASE MergeSet
    BY <1>14 DEF MergeSet
  <1>19. CASE MergeTorn
    BY <1>19 DEF MergeTorn, Fault
  <1>15. CASE KeepBothUpload
    BY <1>15 DEF KeepBothUpload
  <1>16. CASE KeepBothDownload
    BY <1>16 DEF KeepBothDownload
  <1>17. CASE KeepBothStat
    BY <1>17 DEF KeepBothStat, Fault
  <1>18. CASE KeepBothSet
    BY <1>18 DEF KeepBothSet
  <1> QED BY <1>1, <1>2, <1>3, <1>4, <1>5, <1>6, <1>7, <1>8, <1>9, <1>10, <1>11,
             <1>12, <1>13, <1>14, <1>15, <1>16, <1>17, <1>18, <1>19
     DEF Resolve

\* Every variable keeps its type, under writes, uploads, failures, the
\* resolver, the other client and crashes.
LEMMA TypeInvariant == Spec => []TypeInv
  <1> USE FileSyncAssumption
  <1>1. Init => TypeInv
    <2> SUFFICES ASSUME Init PROVE TypeInv
      OBVIOUS
    <2>1. queued \in BOOLEAN
      BY Zenon DEF Init
    <2>2. /\ row \in [status : {"cached", "dirty", "uploading"}, etag : OptContents]
          /\ cache \in Contents /\ base \in OptContents /\ remote \in OptContents
      BY DEF Init, OptContents, Contents
    <2>3. /\ up = [t \in Uploads |-> IdleUpload] /\ res = IdleResolver
          /\ wr = IdleWrite /\ captures = 0 /\ siblings = {}
          /\ written = {} /\ acked = {} /\ made = {} /\ deleted = {} /\ raced = {}
          /\ overlapped = {}
          /\ faults = 0 /\ crashes = 0
      BY DEF Init
    <2> QED
      BY <2>1, <2>2, <2>3 DEF TypeInv, TypeOK, LocalsSet, UploadAt, AtPc,
         IdleUpload, ResolverAt, To, IdleResolver, IdleWrite, UploadPcs,
         ResolverPcs, OptContents
  <1>2. TypeInv /\ [Next]_vars => TypeInv'
    <2> SUFFICES ASSUME TypeInv, [Next]_vars
                 PROVE  TypeInv'
      OBVIOUS
    <2>1. CASE \E e \in LocalEdits : WriteFile(e)
      <3> PICK e \in LocalEdits : WriteFile(e)
        BY <2>1
      <3> QED BY DEF WriteFile, TypeInv, TypeOK, LocalsSet, Contents, Edits,
                     Overlap, cloud, bounds
    <2>2. CASE WriteStep
      <3>1. CASE WriteMark
        BY <3>1 DEF WriteMark, TrySetStatus, Fault, TypeInv, TypeOK, LocalsSet,
            cloud, history, bounds
      <3>2. CASE WriteEnqueue
        <4>1. queued' \in BOOLEAN
          BY <3>2, Zenon DEF WriteEnqueue
        <4>2. /\ wr.pc = "enqueue" /\ wr' = IdleWrite /\ acked' = acked \cup {wr.edit}
              /\ UNCHANGED <<disk, cloud, up, res, captures, written, made, deleted,
                             raced, overlapped, bounds>>
          BY <3>2, Zenon DEF WriteEnqueue
        <4> QED BY <4>1, <4>2 DEF IdleWrite, TypeInv, TypeOK, LocalsSet, disk,
                   cloud,
                                  bounds
      <3> QED BY <2>2, <3>1, <3>2 DEF WriteStep
    <2>3. CASE Fsync \/ Push \/ Release \/ WatcherEvent
      <3>1. /\ queued' = TRUE
            /\ UNCHANGED <<disk, cloud, up, res, captures, wr, history, bounds>>
        BY <2>3, Zenon DEF Fsync, Push, Release, WatcherEvent
      <3> QED BY <3>1 DEF TypeInv, TypeOK, LocalsSet, disk, cloud, history, bounds
    <2>4. ASSUME NEW t \in Uploads, Upload(t)
          PROVE  TypeInv'
      BY <2>4, UploadTyped
    <2>5. ASSUME NEW t \in Uploads, NEW kind \in UploadFaults, UploadFault(t, kind)
          PROVE  TypeInv'
      BY <2>5 DEF UploadFault, UploadFaults, Fault, UploadAt, AtPc, UploadPcs, OptContents,
          TypeInv,
                  TypeOK, LocalsSet, disk, cloud, history
    <2>6. CASE CaptureBase
      BY <2>6 DEF CaptureBase, Fault, TypeInv, TypeOK, LocalsSet, OptContents, cloud,
                  history, bounds
    <2>7. CASE Resolve
      BY <2>7, ResolveTyped
    <2>8. CASE (\E r \in RemoteEdits : RemoteEdit(r)) \/ RemoteDelete
      BY <2>8 DEF RemoteEdit, RemoteDelete, EditsOf, Overlap, TypeInv, TypeOK, LocalsSet,
                  OptContents, Contents, Edits, disk, memory, bounds
    <2>9. CASE CrashRestart
      BY <2>9 DEF CrashRestart, get_pending_uploads, UploadAt, AtPc, IdleUpload,
          ResolverAt, To,
                  IdleResolver, IdleWrite, UploadPcs, ResolverPcs, OptContents,
                  TypeInv, TypeOK, LocalsSet, disk, cloud, history
    <2>10. CASE UNCHANGED vars
      BY <2>10 DEF vars, TypeInv, TypeOK, LocalsSet
    <2> QED BY <2>1, <2>2, <2>3, <2>4, <2>5, <2>6, <2>7, <2>8, <2>9, <2>10 DEF Next
  <1> QED BY <1>1, <1>2, PTL DEF Spec

-----------------------------------------------------------------------------
(* The invariant is kept by each kind of step.                             *)

\* By the resolver: what it overwrites in the cache file or in the cloud is in
\* the other of the two, in the merge result or in the conflict copy.
\* Uploads run next to it only while nothing is claimed of the edits so far.
LEMMA ResolveKeeps ==
  ASSUME TypeInv, TypeInv', IInv, Resolve
  PROVE  IInv'
  <1>a. OverlapInv'
    <2>1. /\ UNCHANGED <<up, written, made, overlapped>>
          /\ res.pc # "idle"
      BY DEF Resolve, GiveUp, EqStat, EqSame, EqDiffers, EqSet, MergeDownload, MergeClean,
         MergeMarkers, MergeFailed, MergeWrite, MergeTorn, MergeSend, MergeCommit,
         MergeStat, MergeSet, KeepBothUpload, KeepBothDownload, KeepBothStat,
         KeepBothSet, ResolverStep, history
    <2> QED BY <2>1 DEF IInv, OverlapInv, Overlapping, Busy
  <1>b. Overlapping => Live = {}
    BY DEF IInv, OverlapInv, Live, Excepted
  <1>c. ~Overlapping => \A t \in Uploads : up[t].pc = "idle"
    <2>1. res.pc # "idle"
      BY DEF Resolve, GiveUp, EqStat, EqSame, EqDiffers, EqSet, MergeDownload, MergeClean,
         MergeMarkers, MergeFailed, MergeWrite, MergeTorn, MergeSend, MergeCommit,
         MergeStat, MergeSet, KeepBothUpload, KeepBothDownload, KeepBothStat,
         KeepBothSet, ResolverStep
    <2> QED BY <2>1 DEF Overlapping, Busy
  <1>d. (\A t \in Uploads : up[t].pc = "idle") \/ Live = {}
    BY <1>b, <1>c
  <1> USE FileSyncAssumption
      DEF ResolverStep, set_cached, ResolverAt, To, IdleResolver, disk, cloud,
          history
  <1>0. cache # None /\ cache' # None
    BY DEF TypeInv, TypeOK
  <1> USE <1>0, <1>a, <1>d DEF TypeInv, LocalsSet, IInv, KnownEdits, Known, DiskInv, UploadInv,
      ResolverInv, DirtyInv, Acked, Kept, In, Live, Excepted, Held, EditsOf
  <1>1. CASE GiveUp
    BY <1>1 DEF GiveUp, Fault
  <1>2. CASE EqStat
    BY <1>2 DEF EqStat, Fault, AfterCompare, Merging
  <1>3. CASE EqSame
    BY <1>3 DEF EqSame
  <1>4. CASE EqDiffers
    BY <1>4 DEF EqDiffers, Fault, AfterCompare, Merging
  <1>5. CASE EqSet
    BY <1>5 DEF EqSet
  <1>6. CASE MergeDownload
    BY <1>6 DEF MergeDownload, Fault
  <1>7. CASE MergeFailed
    BY <1>7 DEF MergeFailed
  <1>8. CASE MergeWrite
    BY <1>8 DEF MergeWrite
  <1>9. CASE MergeSend
    BY <1>9 DEF MergeSend
  <1>10. CASE MergeCommit
    BY <1>10 DEF MergeCommit
  <1>11. CASE MergeStat
    BY <1>11 DEF MergeStat
  <1>12. CASE MergeSet
    BY <1>12 DEF MergeSet
  <1>13. CASE KeepBothUpload
    BY <1>13 DEF KeepBothUpload
  <1>14. CASE KeepBothDownload
    BY <1>14 DEF KeepBothDownload
  <1>15. CASE KeepBothStat
    BY <1>15 DEF KeepBothStat, Fault
  <1>16. CASE KeepBothSet
    BY <1>16 DEF KeepBothSet
  <1>19. CASE MergeTorn
    BY <1>19 DEF MergeTorn, Fault
  <1>17. CASE MergeMarkers
    <2>1. /\ res.pc = "merge" /\ res.read # None
          /\ res'.pc = "mmark" /\ res'.merged = cache \cup res.read
          /\ res'.meta = None /\ res'.read = None
          /\ UNCHANGED <<row, cache, base, remote, siblings, captures, history, up, wr>>
      BY <1>17 DEF MergeMarkers
    <2> QED BY <2>1
  <1>18. CASE MergeClean
    <2>1. /\ res.pc = "merge" /\ res.read # None
          /\ res'.pc = "mwrite" /\ res'.merged = Merge3(base, cache, res.read)
          /\ res'.meta = None /\ res'.read = None
          /\ UNCHANGED <<row, cache, base, remote, siblings, captures, history, up, wr>>
      BY <1>18 DEF MergeClean
    <2>2. base # None /\ res'.merged # None
      BY <1>18, <2>1
    <2>3. \A x : x \in res'.merged <=> \/ x \in cache /\ x \in res.read
                                       \/ (x \in cache \/ x \in res.read) /\ x \notin base
      BY <2>1 DEF Merge3
    <2>4. ResolverInv'
      BY <2>1, <2>2, <2>3
    <2>5. KnownEdits'
      BY <2>1, <2>2, <2>3
    <2>6. DiskInv' /\ UploadInv' /\ DirtyInv'
      BY <2>1
    <2> QED BY <2>4, <2>5, <2>6
  <1> QED BY <1>1, <1>2, <1>3, <1>4, <1>5, <1>6, <1>7, <1>8, <1>9, <1>10, <1>11,
             <1>12, <1>13, <1>14, <1>15, <1>16, <1>17, <1>18, <1>19 DEF Resolve

\* ... and by the steps of an upload and of its completion: outside an overlap the
\* task that moves is the only one, and the resolver idle while it runs.
LEMMA UploadKeeps ==
  ASSUME TypeInv, TypeInv', IInv, NEW t \in Uploads, Upload(t)
  PROVE  IInv'
  <1> USE FileSyncAssumption
      DEF UploadStep, set_uploaded, UploadAt, AtPc, IdleUpload, disk, cloud, history
  <1>0. /\ cache # None /\ cache' # None
        /\ up \in [Uploads -> [pc : UploadPcs, etag : OptContents,
                               snap : OptContents, meta : OptContents]]
    BY DEF TypeInv, TypeOK
  <1> USE <1>0
  <1>1. CASE Dispatch(t)
    <2>1. /\ UploadStep(t, "idle", AtPc("read")) /\ res.pc = "idle"
          /\ UNCHANGED <<disk, cloud, res, captures, wr, written, acked, made, deleted,
                         raced, bounds>>
      BY <1>1, Zenon DEF Dispatch
    <2>2. /\ overlapped \subseteq overlapped'
          /\ (\E s \in Uploads : Busy(s)) => written \cup made \subseteq overlapped'
      BY <1>1, Zenon DEF Dispatch
    <2>3. OverlapInv'
      BY <2>1, <2>2 DEF OverlapInv, Overlapping, Busy
    <2>4. Live' \subseteq Live
      BY <2>1, <2>2 DEF Live, Excepted
    <2> HIDE DEF Live
    <2> QED BY <2>1, <2>3, <2>4
        DEF IInv, KnownEdits, Known, DiskInv, UploadInv, ResolverInv, DirtyInv, Acked,
            Kept, In, Held, EditsOf
  <1>2. CASE ~Dispatch(t)
    <2>a. /\ UNCHANGED <<written, made, acked, deleted, raced, overlapped>>
          /\ up[t].pc # "idle"
          /\ \A s \in Uploads \ {t} : up'[s] = up[s]
      BY <1>2 DEF Upload, ReadRow, MarkUploading, CheckIfMatch, Send, Commit, StatUpload,
         SetUploaded, JoinOk, JoinRetry, JoinFatal, JoinConflict
    <2>e. res' # res => res.pc = "idle" /\ up'[t].pc = "idle"
      BY <1>2 DEF Upload, ReadRow, MarkUploading, CheckIfMatch, Send, Commit, StatUpload,
         SetUploaded, JoinOk, JoinRetry, JoinFatal, JoinConflict
    <2>b. OverlapInv'
      BY <2>a, <2>e DEF IInv, OverlapInv, Overlapping, Busy
    <2>c. \/ Live = {}
          \/ res.pc = "idle" /\ \A s \in Uploads \ {t} : up[s].pc = "idle"
      BY <2>a DEF IInv, OverlapInv, Overlapping, Busy, Live, Excepted
    <2>d. Live' = Live
      BY <2>a DEF Live, Excepted
    <2> HIDE DEF Live
    <2> USE <2>a, <2>b, <2>c, <2>d
        DEF TypeInv, LocalsSet, IInv, KnownEdits, Known, DiskInv, UploadInv,
            ResolverInv, DirtyInv, Acked, Kept, In, Held, EditsOf
    <2>2. CASE ReadRow(t)
      BY <2>2 DEF ReadRow
    <2>3. CASE MarkUploading(t)
      BY <2>3 DEF MarkUploading
    <2>4. CASE CheckIfMatch(t)
      BY <2>4 DEF CheckIfMatch
    <2>5. CASE Send(t)
      BY <2>5 DEF Send
    <2>6. CASE Commit(t)
      BY <2>6 DEF Commit
    <2>7. CASE StatUpload(t)
      BY <2>7 DEF StatUpload
    <2>8. CASE SetUploaded(t)
      BY <2>8 DEF SetUploaded
    <2>9. CASE JoinOk(t)
      BY <2>9 DEF JoinOk
    <2>10. CASE JoinRetry(t)
      <3>1. row'.etag = row.etag /\ row'.status \in {"dirty", row.status}
        BY <2>10 DEF JoinRetry, TrySetStatus, TypeOK
      <3> QED BY <2>10, <3>1 DEF JoinRetry
    <2>11. CASE JoinFatal(t)
      <3>1. row'.etag = row.etag /\ row'.status \in {"dirty", row.status}
        BY <2>11 DEF JoinFatal, TrySetStatus, TypeOK
      <3> QED BY <2>11, <3>1 DEF JoinFatal
    <2>12. CASE JoinConflict(t)
      BY <2>12 DEF JoinConflict, ResolverAt, To
    <2> QED BY <1>2, <2>2, <2>3, <2>4, <2>5, <2>6, <2>7, <2>8, <2>9, <2>10, <2>11,
               <2>12 DEF Upload
  <1> QED BY <1>1, <1>2

\* ... by a failed upload,
LEMMA FaultKeeps ==
  ASSUME TypeInv, TypeInv', IInv, NEW t \in Uploads, NEW kind,
         UploadFault(t, kind)
  PROVE  IInv'
  <1>1. /\ cache # None
        /\ up \in [Uploads -> [pc : UploadPcs, etag : OptContents,
                               snap : OptContents, meta : OptContents]]
    BY FileSyncAssumption DEF TypeInv, TypeOK
  <1> QED
    BY <1>1 DEF UploadFault, UploadFaults, UploadAt, AtPc, disk, cloud, history, IInv, KnownEdits,
       Known, OverlapInv, Overlapping, Busy, DiskInv, UploadInv, ResolverInv, DirtyInv, Acked, Kept, In, Live, Excepted,
       Held, EditsOf

\* ... by the base snapshot,
LEMMA CaptureKeeps ==
  ASSUME TypeInv, TypeInv', IInv, CaptureBase
  PROVE  IInv'
  <1>1. cache # None /\ captures \in Nat
    BY FileSyncAssumption DEF TypeInv, TypeOK
  <1> QED
    BY <1>1 DEF CaptureBase, cloud, history, IInv, KnownEdits,
       Known, OverlapInv, Overlapping, Busy, DiskInv, UploadInv, ResolverInv, DirtyInv, Acked, Kept, In, Live, Excepted,
       Held, EditsOf

\* ... by the FUSE requests,
LEMMA WriteKeeps ==
  ASSUME TypeInv, TypeInv', IInv,
         \/ (\E e \in LocalEdits : WriteFile(e)) \/ WriteStep
         \/ Fsync \/ Push \/ Release \/ WatcherEvent
  PROVE  IInv'
  <1>0. cache # None /\ cache' # None
    BY FileSyncAssumption DEF TypeInv, TypeOK
  <1> USE <1>0 DEF TypeInv, LocalsSet, IInv, KnownEdits, Known, OverlapInv, Overlapping,
      Busy, Overlap, DiskInv, UploadInv,
      ResolverInv, DirtyInv, Acked, Kept, In, Live, Excepted, Held, EditsOf
  <1>1. ASSUME NEW e \in LocalEdits, WriteFile(e)
        PROVE  IInv'
    <2>1. /\ e \notin written \cup made
          /\ cache' = cache \cup {e} /\ written' = written \cup {e}
          /\ wr.pc = "idle" /\ wr' = [pc |-> "mark", edit |-> e]
          /\ UNCHANGED <<row, base, remote, siblings, up, res, captures, acked, made>>
      BY <1>1, FileSyncAssumption DEF WriteFile, TypeOK, cloud
    <2>2. /\ Live' \subseteq Live \cup {e}
          /\ LocalRace => Live' \subseteq Live
      BY <1>1 DEF WriteFile
    <2>3. OverlapInv'
      BY <1>1, <2>1 DEF WriteFile
    <2> HIDE DEF Live
    <2>4. KnownEdits' /\ DiskInv'
      BY <2>1, <2>2 DEF LocalRace
    <2>e. e \notin Live
      BY <2>1 DEF Live
    <2>5. ASSUME LocalRace PROVE UploadInv' /\ ResolverInv'
      <3>1. /\ Live' \subseteq Live /\ e \notin Live'
            /\ cache' = cache \cup {e} /\ UNCHANGED <<row, remote, siblings, up, res>>
        BY <2>1, <2>2, <2>5, <2>e
      <3>2. UploadInv'
        BY <3>1
      <3>3. ResolverInv'
        BY <3>1
      <3> QED BY <3>2, <3>3
    <2>6. ASSUME ~LocalRace PROVE UploadInv' /\ ResolverInv'
      <3>1. UploadInv'
        BY <2>1, <2>2, <2>6 DEF LocalRace
      <3>2. ResolverInv'
        BY <2>1, <2>2, <2>6 DEF LocalRace
      <3> QED BY <3>1, <3>2
    <2>7. DirtyInv'
      BY <2>1, <2>2
    <2> QED BY <2>3, <2>4, <2>5, <2>6, <2>7
  <1>2. CASE WriteMark
    BY <1>2, FileSyncAssumption DEF TypeOK, WriteMark, TrySetStatus, Fault, cloud,
        history
  <1>3. CASE WriteEnqueue
    <2>1. /\ wr.pc = "enqueue" /\ wr' = IdleWrite /\ acked' = acked \cup {wr.edit}
          /\ UNCHANGED <<disk, cloud, up, res, captures, written, made, deleted,
                         raced, overlapped, bounds>>
      BY <1>3, Zenon DEF WriteEnqueue
    <2> QED BY <2>1 DEF IdleWrite, disk, cloud, bounds
  <1>4. CASE Fsync \/ Push \/ Release \/ WatcherEvent
    <2>1. UNCHANGED <<disk, cloud, up, res, captures, wr, history, bounds>>
      BY <1>4, Zenon DEF Fsync, Push, Release, WatcherEvent
    <2> QED BY <2>1 DEF disk, cloud, history
  <1> QED BY <1>1, <1>2, <1>3, <1>4 DEF WriteStep

\* ... by the other client,
LEMMA CloudKeeps ==
  ASSUME TypeInv, TypeInv', IInv,
         (\E r \in RemoteEdits : RemoteEdit(r)) \/ RemoteDelete
  PROVE  IInv'
  <1>0. cache # None /\ remote \in OptContents
    BY FileSyncAssumption DEF TypeInv, TypeOK
  <1> USE <1>0 DEF TypeInv, LocalsSet, IInv, KnownEdits, Known, OverlapInv, Overlapping,
      Busy, Overlap, DiskInv, UploadInv,
      ResolverInv, DirtyInv, Acked, Kept, In, Live, Excepted, Held, EditsOf
  <1>1. ASSUME NEW r \in RemoteEdits, RemoteEdit(r)
        PROVE  IInv'
    <2>1. remote' # None /\ \A x : x \in remote' <=> x \in EditsOf(remote) \/ x = r
      <3>1. remote' \in Contents
        BY <1>1 DEF RemoteEdit, Contents, Edits, OptContents
      <3> QED BY <1>1, <3>1, FileSyncAssumption DEF RemoteEdit
    <2>2. r \notin written \cup made
      BY <1>1, FileSyncAssumption DEF RemoteEdit, TypeOK
    <2>3. /\ made' = made \cup {r}
          /\ UNCHANGED <<row, cache, base, siblings, up, res, captures, wr, written,
                         acked, deleted>>
      BY <1>1 DEF RemoteEdit, disk, memory
    <2>4. /\ Live' \subseteq Live \cup {r}
          /\ RemoteRace => Live' \subseteq Live
      BY <1>1 DEF RemoteEdit
    <2>5. OverlapInv'
      BY <1>1, <2>3 DEF RemoteEdit
    <2> HIDE DEF Live
    <2>6. KnownEdits' /\ DiskInv'
      BY <2>1, <2>2, <2>3, <2>4 DEF RemoteRace
    <2>7. UploadInv'
      BY <2>1, <2>2, <2>3, <2>4 DEF RemoteRace
    <2>8. ResolverInv'
      <3>1. r \notin EditsOf(res.meta) \cup EditsOf(res.read) \cup EditsOf(res.merged) \cup cache
        BY <2>2
      <3>2. CASE RemoteRace
        <4>1. Live' \subseteq Live /\ r \notin Live'
          BY <2>2, <2>4, <3>2 DEF Live
        <4> QED BY <2>1, <2>3, <3>1, <4>1
      <3>3. CASE ~RemoteRace
        BY <2>1, <2>3, <2>4, <3>1, <3>3 DEF RemoteRace
      <3> QED BY <3>2, <3>3
    <2>9. DirtyInv'
      BY <2>1, <2>2, <2>3, <2>4
    <2> QED BY <2>5, <2>6, <2>7, <2>8, <2>9
  <1>2. CASE RemoteDelete
    BY <1>2 DEF RemoteDelete, disk, memory, bounds
  <1> QED BY <1>1, <1>2

\* ... and by a crash, after which only the disk and the cloud matter.
LEMMA CrashKeeps ==
  ASSUME TypeInv, TypeInv', IInv, CrashRestart
  PROVE  IInv'
  BY DEF CrashRestart, get_pending_uploads, UploadAt, AtPc, IdleUpload, ResolverAt,
      To, IdleResolver,
     IdleWrite, disk, cloud, history, IInv, KnownEdits, Known, OverlapInv, Overlapping,
      Busy, Overlap, DiskInv, UploadInv,
     ResolverInv, DirtyInv, Acked, Kept, In, Live, Excepted, Held, EditsOf

-----------------------------------------------------------------------------
(* The theorems.                                                           *)

\* Every variable of the file's model keeps its type: no step reads an ETag, a
\* snapshot, a download or a merge result that an earlier step did not set.
THEOREM TypeCorrect == Spec => []TypeOK
  BY TypeInvariant, PTL DEF TypeInv

\* The inductive invariant holds throughout.
LEMMA Inductive == Spec => []IInv
  <1>1. Init => IInv
    BY FileSyncAssumption
    DEF Init, UploadAt, AtPc, IdleUpload, ResolverAt, To, IdleResolver, IdleWrite,
        IInv, KnownEdits, Known, OverlapInv, Overlapping, Busy, DiskInv, UploadInv, ResolverInv, DirtyInv, Acked,
        Kept, In, Live, Excepted, Held, EditsOf
  <1>2. TypeInv /\ TypeInv' /\ IInv /\ [Next]_vars => IInv'
    <2> SUFFICES ASSUME TypeInv, TypeInv', IInv, [Next]_vars
                 PROVE  IInv'
      OBVIOUS
    <2>1. CASE \/ (\E e \in LocalEdits : WriteFile(e)) \/ WriteStep
               \/ Fsync \/ Push \/ Release \/ WatcherEvent
      BY <2>1, WriteKeeps
    <2>2. ASSUME NEW t \in Uploads, Upload(t)
          PROVE  IInv'
      BY <2>2, UploadKeeps
    <2>3. ASSUME NEW t \in Uploads, NEW kind, UploadFault(t, kind)
          PROVE  IInv'
      BY <2>3, FaultKeeps
    <2>4. CASE CaptureBase
      BY <2>4, CaptureKeeps
    <2>5. CASE Resolve
      BY <2>5, ResolveKeeps
    <2>6. CASE (\E r \in RemoteEdits : RemoteEdit(r)) \/ RemoteDelete
      BY <2>6, CloudKeeps
    <2>7. CASE CrashRestart
      BY <2>7, CrashKeeps
    <2>8. CASE UNCHANGED vars
      BY <2>8 DEF vars, IInv, KnownEdits, Known, OverlapInv, Overlapping, Busy, DiskInv, UploadInv, ResolverInv,
                  DirtyInv, Acked, Kept, In, Live, Excepted, Held, EditsOf
    <2> QED BY <2>1, <2>2, <2>3, <2>4, <2>5, <2>6, <2>7, <2>8 DEF Next
  <1> QED BY <1>1, <1>2, TypeInvariant, PTL DEF Spec

\* No edit disappears outside the windows of LocalRace and RemoteRace, the torn merge
\* results and the overlaps of two uploads, for any number of edits, uploads, failures,
\* conflicts and crashes.
THEOREM NoEditIsLost == Spec => []NothingLost
  <1>1. IInv => NothingLost
    BY DEF IInv, KnownEdits, DiskInv, Live, Excepted, NothingLost
  <1> QED BY <1>1, Inductive, PTL

\* An acknowledged edit that only the cache file has is in a row that startup
\* recovery re-queues, if set_dirty_size does not fail.
THEOREM DirtyIsDurable ==
  ASSUME "db" \notin FaultKinds
  PROVE  Spec => []DurablyDirty
  <1>1. TypeOK /\ IInv => DurablyDirty
    BY DEF IInv, KnownEdits, DirtyInv, Acked, Live, Excepted, TypeOK, DurablyDirty
  <1> QED BY <1>1, Inductive, TypeCorrect, PTL

-----------------------------------------------------------------------------
(* A row that says cached and has no upload coming, while the daemon runs. *)

\* The edits that a file at rest must have uploaded.
Due == acked \ (deleted \cup overlapped)

\* Either a trigger is waiting, or what the applications wrote is in c.
Covered(c) == queued = TRUE \/ Due \cap cache \subseteq EditsOf(c)

\* The edits of a that count are in b.
Stay(a, b) == EditsOf(a) \ (deleted \cup overlapped) \subseteq b

\* What each step has established about the edits still to be uploaded.
QuietInv ==
  /\ \A t \in Uploads :
       /\ up[t].pc = "commit" => Covered(up[t].snap)
       /\ up[t].pc \in {"stat", "record"} => Covered(remote)
       /\ up[t].pc \in {"check", "send", "commit", "conflict", "ok"}
            /\ row.status = "cached" => Covered(remote)
  /\ res.pc = "eqcmp" => Covered(res.read) /\ Stay(res.meta, EditsOf(remote))
  /\ res.pc = "merge" => Stay(res.read, EditsOf(remote))
  /\ res.pc \in {"mwrite", "mmark"} => Stay(res.merged, cache \cup EditsOf(remote))
  /\ res.pc = "mcommit" => Covered(res.merged)
  /\ res.pc \in {"eqset", "mstat", "mset", "kbstat", "kbset"} => Covered(remote)
  /\ row.status = "cached" /\ (\A t \in Uploads : up[t].pc = "idle")
       => Covered(remote)

\* Every step of a running daemon keeps it.
LEMMA QuietKept ==
  ASSUME MaxCrashes = 0, "db" \notin FaultKinds,
         TypeInv, TypeInv', IInv, IInv', QuietInv, [Next]_vars
  PROVE  QuietInv'
  <1> USE FileSyncAssumption
  <1>0. cache # None /\ cache' # None
    BY DEF TypeInv, TypeOK
  <1> DEFINE Moot == Due = {} /\ Stay(res.meta, {}) /\ Stay(res.read, {}) /\ Stay(res.merged, {})
  <1>a. Overlapping => Moot
    BY DEF IInv, OverlapInv, KnownEdits, Known, Due, Stay
  <1>b. Overlapping' => Moot'
    BY DEF IInv, OverlapInv, KnownEdits, Known, Due, Stay
  <1> HIDE DEF Moot
  <1> USE <1>0 DEF TypeInv, LocalsSet, QuietInv, Covered, Stay, EditsOf
  <1>1. ASSUME NEW e \in LocalEdits, WriteFile(e)
        PROVE  QuietInv'
    BY <1>1 DEF WriteFile, cloud, IInv, KnownEdits, Due
  <1>2. CASE WriteMark
    BY <1>2 DEF TypeOK, WriteMark, TrySetStatus, Fault, cloud, history, Due
  <1>3. CASE WriteEnqueue
    <2>1. /\ queued' = TRUE
          /\ UNCHANGED <<row, cache, remote, up, res, deleted, overlapped>>
      BY <1>3 DEF WriteEnqueue, disk, cloud
    <2> QED BY <2>1
  <1>4. CASE Fsync \/ Push \/ Release \/ WatcherEvent
    BY <1>4 DEF Fsync, Push, Release, WatcherEvent, disk, cloud, history, Due
  <1>5. ASSUME NEW t \in Uploads, Upload(t)
        PROVE  QuietInv'
    <2>1. up \in [Uploads -> [pc : UploadPcs, etag : OptContents,
                              snap : OptContents, meta : OptContents]]
      BY DEF TypeOK
    <2> USE <2>1 DEF UploadStep, set_uploaded, UploadAt, AtPc, IdleUpload, disk,
        cloud, history
    <2>2. CASE Dispatch(t)
      <3>1. /\ res.pc = "idle" /\ up[t].pc = "idle"
            /\ up' = [up EXCEPT ![t] = AtPc("read")]
            /\ UNCHANGED <<row, cache, remote, res, written, acked, made, deleted>>
        BY <2>2, Zenon DEF Dispatch, UploadStep, disk, cloud
      <3>2. Due' \subseteq Due
        BY <2>2 DEF Dispatch, Due
      <3>3. CASE \E s \in Uploads : Busy(s)
        <4>1. Moot'
          BY <1>b, <3>1, <3>3 DEF Overlapping, Busy
        <4> QED BY <3>1, <4>1 DEF Moot
      <3>4. CASE ~\E s \in Uploads : Busy(s)
        BY <3>1, <3>4 DEF Busy
      <3> QED BY <3>3, <3>4
    <2>3. CASE ~Dispatch(t)
      <3>a. /\ UNCHANGED <<written, made, acked, deleted, raced, overlapped>>
            /\ up[t].pc # "idle"
            /\ \A s \in Uploads \ {t} : up'[s] = up[s]
            /\ cache' = cache
        BY <1>5, <2>3 DEF Upload, ReadRow, MarkUploading, CheckIfMatch, Send, Commit,
           StatUpload, SetUploaded, JoinOk, JoinRetry, JoinFatal, JoinConflict
      <3>b. Due' = Due
        BY <3>a DEF Due
      <3>c. \/ Moot
            \/ res.pc = "idle" /\ \A s \in Uploads \ {t} : up[s].pc = "idle"
        BY <1>a, <3>a DEF Overlapping, Busy
      <3> USE <3>a, <3>b, <3>c DEF Moot
      <3>3. CASE ReadRow(t)
        BY <3>3 DEF ReadRow
      <3>4. CASE MarkUploading(t)
        BY <3>4 DEF MarkUploading
      <3>5. CASE CheckIfMatch(t)
        BY <3>5 DEF CheckIfMatch
      <3>6. CASE Send(t)
        BY <3>6 DEF Send
      <3>7. CASE Commit(t)
        BY <3>7 DEF Commit
      <3>8. CASE StatUpload(t)
        BY <3>8 DEF StatUpload
      <3>9. CASE SetUploaded(t)
        BY <3>9 DEF SetUploaded
      <3>10. CASE JoinOk(t)
        BY <3>10 DEF JoinOk
      <3>11. CASE JoinRetry(t)
        <4>1. row'.status = "dirty"
          BY <3>11 DEF JoinRetry, TrySetStatus, Fault, TypeOK
        <4> QED BY <3>11, <4>1 DEF JoinRetry
      <3>12. CASE JoinFatal(t)
        <4>1. row'.status = "dirty"
          BY <3>12 DEF JoinFatal, TrySetStatus, Fault, TypeOK
        <4> QED BY <3>12, <4>1 DEF JoinFatal
      <3>13. CASE JoinConflict(t)
        BY <3>13 DEF JoinConflict, ResolverAt, To
      <3> QED BY <1>5, <2>3, <3>3, <3>4, <3>5, <3>6, <3>7, <3>8, <3>9, <3>10, <3>11,
                 <3>12, <3>13 DEF Upload
    <2> QED BY <2>2, <2>3
  <1>6. ASSUME NEW t \in Uploads, NEW kind, UploadFault(t, kind)
        PROVE  QuietInv'
    <2>1. up \in [Uploads -> [pc : UploadPcs, etag : OptContents,
                              snap : OptContents, meta : OptContents]]
      BY DEF TypeOK
    <2>2. Due' = Due
      BY <1>6 DEF UploadFault, Due, history
    <2> QED BY <1>6, <2>1, <2>2
        DEF UploadFault, UploadFaults, UploadAt, AtPc, disk, cloud, history
  <1>7. CASE CaptureBase
    BY <1>7 DEF CaptureBase, Fault, cloud, history, Due
  <1>8. CASE Resolve
    <2>a. /\ UNCHANGED <<up, queued, acked, deleted, overlapped>>
          /\ res.pc # "idle"
      BY <1>8 DEF Resolve, GiveUp, EqStat, EqSame, EqDiffers, EqSet, MergeDownload,
         MergeClean, MergeMarkers, MergeFailed, MergeWrite, MergeTorn, MergeSend,
         MergeCommit, MergeStat, MergeSet, KeepBothUpload, KeepBothDownload,
         KeepBothStat, KeepBothSet, ResolverStep, history
    <2>b. Due' = Due
      BY <2>a DEF Due
    <2>c. Moot \/ \A t \in Uploads : up[t].pc = "idle"
      BY <1>a, <2>a DEF Overlapping, Busy
    <2> USE <2>a, <2>b, <2>c
        DEF Moot, ResolverStep, set_cached, ResolverAt, To, IdleResolver, disk, cloud, history
    <2>1. CASE GiveUp
      BY <2>1 DEF GiveUp
    <2>2. CASE EqStat
      BY <2>2 DEF EqStat, AfterCompare
    <2>3. CASE EqSame
      BY <2>3 DEF EqSame
    <2>4. CASE EqDiffers
      BY <2>4 DEF EqDiffers, Fault, AfterCompare
    <2>5. CASE EqSet
      BY <2>5 DEF EqSet
    <2>6. CASE MergeDownload
      BY <2>6 DEF MergeDownload
    <2>7. CASE MergeClean
      <3>1. /\ res.pc = "merge" /\ res'.pc = "mwrite"
            /\ res'.merged = Merge3(base, cache, res.read)
            /\ UNCHANGED <<row, cache, remote>>
        BY <2>7 DEF MergeClean
      <3>2. res'.merged \subseteq cache \cup EditsOf(res.read)
        BY <3>1 DEF Merge3
      <3> QED BY <3>1, <3>2
    <2>8. CASE MergeMarkers
      BY <2>8 DEF MergeMarkers
    <2>9. CASE MergeFailed
      BY <2>9 DEF MergeFailed
    <2>10. CASE MergeWrite
      <3>1. /\ cache' = res.merged /\ res.pc \in {"mwrite", "mmark"} /\ res.merged # None
            /\ res'.pc \in {"msend", "sib"} /\ UNCHANGED <<row, remote>>
        BY <2>10 DEF MergeWrite
      <3>2. Due \cap cache' \subseteq cache \cup EditsOf(remote)
        BY <3>1 DEF Due
      <3> QED BY <3>1, <3>2
    <2>19. CASE MergeTorn
      <3>1. /\ cache' \subseteq res.merged /\ res.pc \in {"mwrite", "mmark"}
            /\ res.merged # None /\ res'.pc = "idle" /\ UNCHANGED <<row, remote>>
        BY <2>19 DEF MergeTorn
      <3>2. Due \cap cache' \subseteq cache \cup EditsOf(remote)
        BY <3>1 DEF Due
      <3> QED BY <3>1, <3>2
    <2>11. CASE MergeSend
      BY <2>11 DEF MergeSend
    <2>12. CASE MergeCommit
      BY <2>12 DEF MergeCommit
    <2>13. CASE MergeStat
      BY <2>13 DEF MergeStat
    <2>14. CASE MergeSet
      BY <2>14 DEF MergeSet
    <2>15. CASE KeepBothUpload
      BY <2>15 DEF KeepBothUpload
    <2>16. CASE KeepBothDownload
      BY <2>16 DEF KeepBothDownload
    <2>17. CASE KeepBothStat
      BY <2>17 DEF KeepBothStat
    <2>18. CASE KeepBothSet
      BY <2>18 DEF KeepBothSet
    <2> QED BY <1>8, <2>1, <2>2, <2>3, <2>4, <2>5, <2>6, <2>7, <2>8, <2>9, <2>10,
               <2>11, <2>12, <2>13, <2>14, <2>15, <2>16, <2>17, <2>18, <2>19 DEF Resolve
  <1>9. CASE (\E r \in RemoteEdits : RemoteEdit(r)) \/ RemoteDelete
    <2>1. ASSUME NEW r \in RemoteEdits, RemoteEdit(r)
          PROVE  QuietInv'
      <3>1. EditsOf(remote) \subseteq EditsOf(remote')
        <4>1. remote' \in Contents
          BY <2>1 DEF RemoteEdit, Contents, Edits, OptContents, TypeOK
        <4> QED BY <2>1, <4>1 DEF RemoteEdit
      <3>2. /\ UNCHANGED <<row, cache, up, res, queued>>
            /\ Due' \subseteq Due /\ deleted' = deleted /\ overlapped \subseteq overlapped'
        BY <2>1 DEF RemoteEdit, disk, memory, Due
      <3> QED BY <3>1, <3>2
    <2>2. CASE RemoteDelete
      <3>1. /\ UNCHANGED <<row, cache, up, res, queued>> /\ remote # None
            /\ \A x \in Due' : x \in Due /\ x \notin remote
            /\ deleted' = deleted \cup remote /\ overlapped' = overlapped
        BY <2>2 DEF RemoteDelete, disk, memory, Due
      <3> QED BY <3>1
    <2> QED BY <1>9, <2>1, <2>2
  <1>10. CASE UNCHANGED vars
    BY <1>10 DEF vars, Due
  <1>11. ~CrashRestart
    BY DEF CrashRestart, get_pending_uploads, TypeOK
  <1> QED BY <1>1, <1>2, <1>3, <1>4, <1>5, <1>6, <1>7, <1>8, <1>9, <1>10, <1>11
     DEF Next, WriteStep

\* A write that set_uploaded or set_cached marked clean still has its trigger:
\* while the daemon runs, a file at rest whose row says cached has nothing left
\* to upload, whatever the interleaving of writes, uploads and resolutions.
THEOREM RestMeansUploaded ==
  ASSUME MaxCrashes = 0, "db" \notin FaultKinds
  PROVE  Spec => []QuietMeansUploaded
  <1>1. Init => QuietInv
    BY DEF Init, UploadAt, AtPc, IdleUpload, ResolverAt, To, IdleResolver, QuietInv,
           Covered, Due
  <1>2. TypeInv /\ TypeInv' /\ IInv /\ IInv' /\ QuietInv /\ [Next]_vars => QuietInv'
    BY QuietKept
  <1>3. QuietInv => QuietMeansUploaded
    BY DEF QuietInv, Covered, Due, Quiet, QuietMeansUploaded
  <1> QED BY <1>1, <1>2, <1>3, Inductive, TypeInvariant, PTL DEF Spec
=============================================================================
