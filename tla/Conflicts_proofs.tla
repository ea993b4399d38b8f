-------------------------- MODULE Conflicts_proofs --------------------------
(***************************************************************************)
(* Proofs about Conflicts: the types, that no edit disappears through the  *)
(* commands, and that no command marks a row clean over an edit that is in *)
(* its cache file only.                                                    *)
(*                                                                         *)
(* Neither property is inductive.  What carries them: the remote file of a *)
(* path never loses an edit that is not excused, a clean cache file holds  *)
(* no edit the remote does not have, the ETag of a row is a content the    *)
(* remote has had and the cache file contains, and, for each program point *)
(* of a command, what it knows about the two sides of its file.            *)
(***************************************************************************)
EXTENDS Conflicts, WellFoundedInduction, TLAPS
-----------------------------------------------------------------------------
(* The newest of a set of copies is one of them.                           *)

LEMMA SmallestNat ==
  ASSUME NEW T \in SUBSET Nat, T # {} PROVE \E m \in T : \A n \in T : m <= n
<1>1. IsWellFoundedOn(OpToRel(<, Nat), Nat)
  BY NatLessThanWellFounded
<1>2. PICK m \in T : \A n \in T : ~(<<n, m>> \in OpToRel(<, Nat))
  BY <1>1, WFMin, Zenon
<1>3. \A n \in T : ~(<<n, m>> \in {ss \in Nat \X Nat : ss[1] < ss[2]})
  BY <1>2, Zenon DEF OpToRel
<1>4. \A n \in T : ~(n < m)
  BY <1>3
<1> QED
  BY <1>4

LEMMA LargestBelow ==
  ASSUME NEW b \in Nat, NEW T \in SUBSET (0 .. b), T # {}
  PROVE  \E m \in T : \A n \in T : n <= m
<1> DEFINE U == {u \in 0 .. b : \A n \in T : n <= u}
<1>1. U \in SUBSET Nat /\ b \in U
  OBVIOUS
<1>2. PICK m \in U : \A j \in U : m <= j
  <2> HIDE DEF U
  <2> QED
    BY <1>1, SmallestNat
<1>3. m \in T
  <2> SUFFICES ASSUME m \notin T PROVE FALSE
    OBVIOUS
  <2>1. \A n \in T : n <= m - 1 /\ n >= 0
    BY <1>2
  <2>2. PICK n \in T : TRUE
    OBVIOUS
  <2>3. m - 1 \in 0 .. b
    BY <1>2, <2>1, <2>2
  <2>4. m - 1 \in U
    BY <2>1, <2>3
  <2> QED
    BY <1>2, <2>4
<1> QED
  BY <1>2, <1>3

LEMMA StampsDomain == DOMAIN Stamps = 1 .. Len(Stamps) /\ Len(Stamps) \in Nat
BY ConflictsAssumption

LEMMA NewestIn == ASSUME NEW S \in SUBSET Sids, S # {} PROVE Newest(S) \in S
<1> DEFINE T == {s[2] : s \in S}
<1>1. \A s \in S : s[2] \in 1 .. Len(Stamps)
  BY StampsDomain DEF Sids
<1>2. T \in SUBSET (0 .. Len(Stamps)) /\ T # {}
  BY <1>1
<1>3. PICK m \in T : \A n \in T : n <= m
  <2> HIDE DEF T
  <2> QED
    BY <1>2, StampsDomain, LargestBelow
<1>4. PICK s \in S : s[2] = m
  OBVIOUS
<1>5. \A t \in S : t[2] <= s[2]
  BY <1>3, <1>4
<1> QED
  BY <1>5 DEF Newest
-----------------------------------------------------------------------------
(* The types.                                                              *)

RowType == [status : {"none", "remote", "cached", "stale", "dirty"}, etag : OptContents]

\* The program points of a command: resolving the conflict of one file, its
\* second half, and cleaning up one copy.
Final     == {"rmcopy", "rmrow", "stat", "set"}
Resolving == Final \cup {"upload", "download", "fetch", "merge", "clean", "markers"}
Cleaning  == {"eq", "eqcopy", "bytes", "drop", "droprow"}

CliType ==
  [pc : {"idle", "next"} \cup Resolving \cup Cleaning,
   cmd : {"none", "keep_local", "keep_remote", "merge", "cleanup"},
   file : Files \cup {None}, sib : Sids \cup {None}, got : OptContents,
   todo : SUBSET Sids, since : SUBSET Edits, gone : BOOLEAN]

FilesOK ==
  /\ row \in [Files -> RowType]
  /\ cache \in [Files -> OptContents] /\ remote \in [Files -> OptContents]
  /\ copies \in [Sids -> OptContents] /\ listed \in SUBSET Sids
  /\ made \in SUBSET Edits /\ excused \in SUBSET Edits

CountsOK ==
  /\ stamp \in 0 .. Len(Stamps)
  /\ faults \in 0 .. MaxFaults /\ runs \in 0 .. MaxRuns

\* Points with a file, with a copy, with a version in hand.
CliOK ==
  /\ cli \in CliType
  /\ cli.pc \in Resolving \cup Cleaning => cli.file \in Files
  /\ cli.pc \in Cleaning \cup {"rmcopy", "rmrow"} => cli.sib \in Sids
  /\ cli.pc \in {"merge", "clean", "markers", "set", "eqcopy"} => cli.got \in Contents
  /\ cli.pc = "upload" => cli.cmd \in {"keep_local", "merge"}
  /\ cli.pc \in {"fetch", "merge", "clean", "markers"} => cli.cmd = "merge"

\* A content is a set of edits, so none is None.
LEMMA ContentsFacts ==
  /\ None \notin Contents
  /\ None \notin Files /\ None \notin Sids
  /\ \A c \in OptContents : EditsOf(c) \in Contents /\ (c # None => c \in Contents /\ EditsOf(c) = c)
  /\ Contents = SUBSET Edits /\ {} \in Contents
  /\ \A c, d \in Contents : c \cup d \in Contents
<1>1. None \notin Contents
  BY ConflictsAssumption DEF Contents
<1>2. None \notin Files /\ None \notin Sids
  BY ConflictsAssumption DEF Sids
<1>3. Contents = SUBSET Edits
  BY DEF Contents
<1>4. \A c \in OptContents : EditsOf(c) \in Contents /\ (c # None => c \in Contents /\ EditsOf(c) = c)
  BY <1>1, <1>3 DEF OptContents, EditsOf
<1>5. \A c, d \in Contents : c \cup d \in Contents
  BY <1>3
<1> QED
  BY <1>1, <1>2, <1>3, <1>4, <1>5

TypeInv == FilesOK /\ CountsOK /\ CliOK

LEMMA TypeInvInit == Init => TypeInv
<1> SUFFICES ASSUME Init PROVE TypeInv
  OBVIOUS
<1>1. {} \in OptContents /\ None \in OptContents
  BY DEF OptContents, Contents
<1>2. FilesOK
  BY <1>1 DEF Init, FilesOK, RowType, Row
<1>3. CountsOK
  BY StampsDomain, ConflictsAssumption DEF Init, CountsOK
<1>4. CliOK
  <2>1. cli = IdleCli
    BY DEF Init
  <2> QED
    BY <1>1, <2>1 DEF IdleCli, CliOK, CliType, Resolving, Final, Cleaning
<1> QED
  BY <1>2, <1>3, <1>4 DEF TypeInv

-----------------------------------------------------------------------------
(* Which actions write which variables.                                    *)

RowWrites ==
  \/ Poll \/ SetCached
  \/ \E f \in Files : Upload(f) \/ UploadEqual(f) \/ KeepBoth(f) \/ Hydrate(f)
  \/ \E f \in Files, e \in Edits : Write(f, e)

LEMMA RowFrame == [Next]_vars => RowWrites \/ UNCHANGED row
<1> SUFFICES ASSUME [Next]_vars PROVE RowWrites \/ UNCHANGED row
  OBVIOUS
<1>1. CASE keep_local \/ keep_remote \/ merge \/ CliUpload \/ CliDownload
          \/ MergeFetch \/ TryMerge \/ MergeClean \/ MergeMarkers
          \/ RemoveCopy \/ RemoveRow \/ FinalStat
  BY <1>1 DEF keep_local, Start, keep_remote, merge, CliUpload, CliDownload,
         MergeFetch, TryMerge, MergeClean, MergeWrite, MergeMarkers,
         RemoveCopy, RemoveRow, FinalStat
<1>2. CASE Missing \/ CliFails \/ Collect \/ CleanupNext \/ StatCanonical
          \/ StatCopy \/ StatUnknown \/ CompareBytes \/ CompareFails
          \/ DropOrphan \/ DropCopy \/ DropRow
  BY <1>2 DEF Missing, Bail, CliFails, Collect, CleanupNext, StatCanonical,
         StatCopy, StatUnknown, CompareBytes, CompareFails, DropOrphan,
         DropCopy, DropRow
<1>3. CASE CleanupSkips
  BY <1>3 DEF CleanupSkips
<1>4. ASSUME NEW f \in Files,
             RemoteDelete(f)
      PROVE  UNCHANGED row
  BY <1>4 DEF RemoteDelete
<1>5. ASSUME NEW f \in Files, NEW e \in Edits,
             RemoteEdit(f, e)
      PROVE  UNCHANGED row
  BY <1>5 DEF RemoteEdit
<1>6. ASSUME NEW s \in Sids,
             RemoteRestore(s)
      PROVE  UNCHANGED row
  BY <1>6 DEF RemoteRestore
<1>7. CASE UNCHANGED vars
  BY <1>7 DEF vars
<1> QED
  BY <1>1, <1>2, <1>3, <1>4, <1>5, <1>6, <1>7
  DEF RowWrites, Next, Daemon, Resolution, Finalize, CleanupStep

CacheWrites ==
  \/ Poll \/ CliDownload \/ MergeClean \/ MergeMarkers
  \/ \E f \in Files : KeepBoth(f) \/ Hydrate(f)
  \/ \E f \in Files, e \in Edits : Write(f, e)

LEMMA CacheFrame == [Next]_vars => CacheWrites \/ UNCHANGED cache
<1> SUFFICES ASSUME [Next]_vars PROVE CacheWrites \/ UNCHANGED cache
  OBVIOUS
<1>1. CASE keep_local \/ keep_remote \/ merge \/ CliUpload \/ MergeFetch
          \/ TryMerge \/ RemoveCopy \/ RemoveRow \/ FinalStat \/ SetCached
          \/ Missing \/ CliFails
  BY <1>1 DEF keep_local, Start, keep_remote, merge, CliUpload, MergeFetch,
         TryMerge, RemoveCopy, RemoveRow, FinalStat, SetCached, Missing, Bail,
         CliFails
<1>2. CASE Collect \/ CleanupNext \/ StatCanonical \/ StatCopy \/ StatUnknown
          \/ CompareBytes \/ CompareFails \/ DropOrphan \/ DropCopy \/ DropRow
          \/ CleanupSkips
  BY <1>2 DEF Collect, CleanupNext, StatCanonical, StatCopy, StatUnknown,
         CompareBytes, CompareFails, DropOrphan, DropCopy, DropRow,
         CleanupSkips
<1>3. ASSUME NEW f \in Files,
             Upload(f) \/ UploadEqual(f) \/ RemoteDelete(f)
      PROVE  UNCHANGED cache
  BY <1>3 DEF Upload, UploadEqual, RemoteDelete
<1>4. ASSUME NEW f \in Files, NEW e \in Edits,
             RemoteEdit(f, e)
      PROVE  UNCHANGED cache
  BY <1>4 DEF RemoteEdit
<1>5. ASSUME NEW s \in Sids,
             RemoteRestore(s)
      PROVE  UNCHANGED cache
  BY <1>5 DEF RemoteRestore
<1>6. CASE UNCHANGED vars
  BY <1>6 DEF vars
<1> QED
  BY <1>1, <1>2, <1>3, <1>4, <1>5, <1>6
  DEF CacheWrites, Next, Daemon, Resolution, Finalize, CleanupStep

RemoteWrites ==
  \/ CliUpload
  \/ \E f \in Files : Upload(f) \/ RemoteDelete(f)
  \/ \E f \in Files, e \in Edits : RemoteEdit(f, e)
  \/ \E s \in Sids : RemoteRestore(s)

LEMMA RemoteFrame == [Next]_vars => RemoteWrites \/ UNCHANGED remote
<1> SUFFICES ASSUME [Next]_vars PROVE RemoteWrites \/ UNCHANGED remote
  OBVIOUS
<1>1. CASE Poll \/ keep_local \/ keep_remote \/ merge \/ CliDownload
          \/ MergeFetch \/ TryMerge \/ MergeClean \/ MergeMarkers
          \/ RemoveCopy \/ RemoveRow \/ FinalStat
  BY <1>1 DEF Poll, keep_local, Start, keep_remote, merge, CliDownload, MergeFetch,
         TryMerge, MergeClean, MergeWrite, MergeMarkers, RemoveCopy, RemoveRow,
         FinalStat
<1>2. CASE SetCached \/ Missing \/ CliFails \/ Collect \/ CleanupNext
          \/ StatCanonical \/ StatCopy \/ StatUnknown \/ CompareBytes
          \/ CompareFails \/ DropOrphan \/ DropCopy
  BY <1>2 DEF SetCached, Missing, Bail, CliFails, Collect, CleanupNext,
         StatCanonical, StatCopy, StatUnknown, CompareBytes, CompareFails,
         DropOrphan, DropCopy
<1>3. CASE DropRow \/ CleanupSkips
  BY <1>3 DEF DropRow, CleanupSkips
<1>4. ASSUME NEW f \in Files,
             UploadEqual(f) \/ KeepBoth(f) \/ Hydrate(f)
      PROVE  UNCHANGED remote
  BY <1>4 DEF UploadEqual, KeepBoth, Hydrate
<1>5. ASSUME NEW f \in Files, NEW e \in Edits,
             Write(f, e)
      PROVE  UNCHANGED remote
  BY <1>5 DEF Write
<1>6. CASE UNCHANGED vars
  BY <1>6 DEF vars
<1> QED
  BY <1>1, <1>2, <1>3, <1>4, <1>5, <1>6
  DEF RemoteWrites, Next, Daemon, Resolution, Finalize, CleanupStep

CopiesWrites ==
  \/ Poll \/ RemoveCopy \/ RemoveRow \/ DropOrphan \/ DropCopy \/ DropRow
  \/ \E f \in Files : KeepBoth(f)

LEMMA CopiesFrame == [Next]_vars => CopiesWrites \/ UNCHANGED <<copies, listed, stamp>>
<1> SUFFICES ASSUME [Next]_vars PROVE CopiesWrites \/ UNCHANGED <<copies, listed, stamp>>
  OBVIOUS
<1>1. CASE keep_local \/ keep_remote \/ merge \/ CliUpload \/ CliDownload
          \/ MergeFetch \/ TryMerge \/ MergeClean \/ MergeMarkers \/ FinalStat
          \/ SetCached \/ Missing
  BY <1>1 DEF keep_local, Start, keep_remote, merge, CliUpload, CliDownload,
         MergeFetch, TryMerge, MergeClean, MergeWrite, MergeMarkers, FinalStat,
         SetCached, Missing, Bail
<1>2. CASE CliFails \/ Collect \/ CleanupNext \/ StatCanonical \/ StatCopy
          \/ StatUnknown \/ CompareBytes \/ CompareFails \/ CleanupSkips
  BY <1>2 DEF CliFails, Bail, Collect, CleanupNext, StatCanonical, StatCopy,
         StatUnknown, CompareBytes, CompareFails, CleanupSkips
<1>3. ASSUME NEW f \in Files,
             Upload(f) \/ UploadEqual(f) \/ Hydrate(f) \/ RemoteDelete(f)
      PROVE  UNCHANGED <<copies, listed, stamp>>
  BY <1>3 DEF Upload, UploadEqual, Hydrate, RemoteDelete
<1>4. ASSUME NEW f \in Files, NEW e \in Edits,
             Write(f, e) \/ RemoteEdit(f, e)
      PROVE  UNCHANGED <<copies, listed, stamp>>
  BY <1>4 DEF Write, RemoteEdit
<1>5. ASSUME NEW s \in Sids,
             RemoteRestore(s)
      PROVE  UNCHANGED <<copies, listed, stamp>>
  BY <1>5 DEF RemoteRestore
<1>6. CASE UNCHANGED vars
  BY <1>6 DEF vars
<1> QED
  BY <1>1, <1>2, <1>3, <1>4, <1>5, <1>6
  DEF CopiesWrites, Next, Daemon, Resolution, Finalize, CleanupStep

HistoryWrites ==
  \/ Poll \/ CliUpload \/ CliDownload \/ MergeClean \/ MergeMarkers
     \/ RemoveCopy \/ SetCached
  \/ \E f \in Files : RemoteDelete(f)
  \/ \E f \in Files, e \in Edits : Write(f, e) \/ RemoteEdit(f, e)
  \/ \E s \in Sids : RemoteRestore(s)

LEMMA HistoryFrame == [Next]_vars => HistoryWrites \/ UNCHANGED <<made, excused>>
<1> SUFFICES ASSUME [Next]_vars PROVE HistoryWrites \/ UNCHANGED <<made, excused>>
  OBVIOUS
<1>1. CASE keep_local \/ keep_remote \/ merge \/ MergeFetch \/ TryMerge
          \/ RemoveRow \/ FinalStat \/ Missing \/ CliFails \/ Collect
          \/ CleanupNext \/ StatCanonical
  BY <1>1 DEF keep_local, Start, keep_remote, merge, MergeFetch, TryMerge,
         RemoveRow, FinalStat, Missing, Bail, CliFails, Collect, CleanupNext,
         StatCanonical
<1>2. CASE StatCopy \/ StatUnknown \/ CompareBytes \/ CompareFails
          \/ DropOrphan \/ DropCopy \/ DropRow \/ CleanupSkips
  BY <1>2 DEF StatCopy, StatUnknown, CompareBytes, CompareFails, DropOrphan,
         DropCopy, DropRow, CleanupSkips
<1>3. ASSUME NEW f \in Files,
             Upload(f) \/ UploadEqual(f) \/ KeepBoth(f) \/ Hydrate(f)
      PROVE  UNCHANGED <<made, excused>>
  BY <1>3 DEF Upload, UploadEqual, KeepBoth, Hydrate
<1>4. CASE UNCHANGED vars
  BY <1>4 DEF vars
<1> QED
  BY <1>1, <1>2, <1>3, <1>4
  DEF HistoryWrites, Next, Daemon, Resolution, Finalize, CleanupStep

CliWrites ==
  \/ Poll \/ keep_local \/ keep_remote \/ merge \/ CliUpload \/ CliDownload
     \/ MergeFetch \/ TryMerge \/ MergeClean \/ MergeMarkers \/ RemoveCopy
     \/ RemoveRow \/ FinalStat \/ SetCached \/ Missing \/ CliFails \/ Collect
     \/ CleanupNext \/ StatCanonical \/ StatCopy \/ StatUnknown
     \/ CompareBytes \/ CompareFails \/ DropOrphan \/ DropCopy \/ DropRow
     \/ CleanupSkips
  \/ \E f \in Files, e \in Edits : Write(f, e) \/ RemoteEdit(f, e)
  \/ \E s \in Sids : RemoteRestore(s)

LEMMA CliFrame == [Next]_vars => CliWrites \/ UNCHANGED cli
<1> SUFFICES ASSUME [Next]_vars PROVE CliWrites \/ UNCHANGED cli
  OBVIOUS
<1>1. ASSUME NEW f \in Files,
             Upload(f) \/ UploadEqual(f) \/ KeepBoth(f) \/ Hydrate(f)
             \/ RemoteDelete(f)
      PROVE  UNCHANGED cli
  BY <1>1 DEF Upload, UploadEqual, KeepBoth, Hydrate, RemoteDelete
<1>2. CASE UNCHANGED vars
  BY <1>2 DEF vars
<1> QED
  BY <1>1, <1>2
  DEF CliWrites, Next, Daemon, Resolution, Finalize, CleanupStep

CountsWrites ==
  \/ keep_local \/ keep_remote \/ merge \/ CliFails \/ Collect \/ CleanupSkips

LEMMA CountsFrame == [Next]_vars => CountsWrites \/ UNCHANGED <<faults, runs>>
<1> SUFFICES ASSUME [Next]_vars PROVE CountsWrites \/ UNCHANGED <<faults, runs>>
  OBVIOUS
<1>1. CASE Poll \/ CliUpload \/ CliDownload \/ MergeFetch \/ TryMerge
          \/ MergeClean \/ MergeMarkers \/ RemoveCopy \/ RemoveRow
          \/ FinalStat \/ SetCached \/ Missing
  BY <1>1 DEF Poll, CliUpload, CliDownload, MergeFetch, TryMerge, MergeClean,
         MergeWrite, MergeMarkers, RemoveCopy, RemoveRow, FinalStat, SetCached,
         Missing, Bail
<1>2. CASE CleanupNext \/ StatCanonical \/ StatCopy \/ StatUnknown
          \/ CompareBytes \/ CompareFails \/ DropOrphan \/ DropCopy \/ DropRow
  BY <1>2 DEF CleanupNext, StatCanonical, StatCopy, StatUnknown, CompareBytes,
         CompareFails, DropOrphan, DropCopy, DropRow
<1>3. ASSUME NEW f \in Files,
             Upload(f) \/ UploadEqual(f) \/ KeepBoth(f) \/ Hydrate(f)
             \/ RemoteDelete(f)
      PROVE  UNCHANGED <<faults, runs>>
  BY <1>3 DEF Upload, UploadEqual, KeepBoth, Hydrate, RemoteDelete
<1>4. ASSUME NEW f \in Files, NEW e \in Edits,
             Write(f, e) \/ RemoteEdit(f, e)
      PROVE  UNCHANGED <<faults, runs>>
  BY <1>4 DEF Write, RemoteEdit
<1>5. ASSUME NEW s \in Sids,
             RemoteRestore(s)
      PROVE  UNCHANGED <<faults, runs>>
  BY <1>5 DEF RemoteRestore
<1>6. CASE UNCHANGED vars
  BY <1>6 DEF vars
<1> QED
  BY <1>1, <1>2, <1>3, <1>4, <1>5, <1>6
  DEF CountsWrites, Next, Daemon, Resolution, Finalize, CleanupStep

-----------------------------------------------------------------------------
(* The types are kept.                                                     *)

LEMMA RowTypeStep == ASSUME TypeInv, [Next]_vars PROVE row' \in [Files -> RowType]
<1>0. /\ row \in [Files -> RowType]
      /\ cache \in [Files -> OptContents] /\ remote \in [Files -> OptContents]
      /\ None \in OptContents /\ cli.got \in OptContents
  BY DEF TypeInv, FilesOK, CliOK, CliType, OptContents
<1>1. \A c \in OptContents, s \in {"none", "remote", "cached", "stale", "dirty"} :
        Row(s, c) \in RowType
  BY DEF Row, RowType
<1>2. ASSUME NEW f \in Files, NEW e \in Edits, Write(f, e) PROVE row' \in [Files -> RowType]
  BY <1>0, <1>2 DEF Write, RowType
<1>3. ASSUME NEW f \in Files, Upload(f) \/ UploadEqual(f) \/ KeepBoth(f)
      PROVE  row' \in [Files -> RowType]
  BY <1>0, <1>1, <1>3 DEF Upload, UploadEqual, KeepBoth
<1>4. ASSUME NEW f \in Files, Hydrate(f) PROVE row' \in [Files -> RowType]
  BY <1>0, <1>4 DEF Hydrate, RowType
<1>5. CASE Poll
  <2>1. ASSUME NEW f \in Files PROVE Polled(f) \in RowType
    <3>1. row[f] \in RowType /\ remote[f] \in OptContents
      BY <1>0
    <3>2. NoRow \in RowType /\ Row("remote", remote[f]) \in RowType
          /\ Row("dirty", remote[f]) \in RowType /\ Row("stale", remote[f]) \in RowType
      BY <1>0, <1>1, <3>1 DEF NoRow
    <3> QED
      BY <3>1, <3>2 DEF Polled
  <2>2. row' = [f \in Files |-> Polled(f)]
    BY <1>5 DEF Poll
  <2> QED
    BY <2>1, <2>2
<1>6. CASE SetCached
  BY <1>0, <1>1, <1>6 DEF SetCached
<1>7. CASE UNCHANGED row
  BY <1>0, <1>7
<1> QED
  BY <1>2, <1>3, <1>4, <1>5, <1>6, <1>7, RowFrame DEF RowWrites

LEMMA ContentTypeStep ==
  ASSUME TypeInv, [Next]_vars
  PROVE  /\ cache' \in [Files -> OptContents] /\ remote' \in [Files -> OptContents]
         /\ copies' \in [Sids -> OptContents]
<1>0. /\ cache \in [Files -> OptContents] /\ remote \in [Files -> OptContents]
      /\ copies \in [Sids -> OptContents]
      /\ None \in OptContents /\ cli.got \in OptContents
      /\ \A c \in OptContents : c # None => c \in Contents
      /\ \A c \in OptContents : EditsOf(c) \in Contents
      /\ \A c \in Contents, e \in Edits : c \cup {e} \in OptContents
  BY ContentsFacts DEF TypeInv, FilesOK, CliOK, CliType, OptContents, Contents
<1>1. cache' \in [Files -> OptContents]
  <2>1. ASSUME NEW f \in Files, NEW e \in Edits, Write(f, e)
        PROVE  cache' \in [Files -> OptContents]
    <3>1. cache[f] \cup {e} \in OptContents
      BY <1>0, <2>1 DEF Write
    <3> QED
      BY <1>0, <2>1, <3>1 DEF Write
  <2>2. ASSUME NEW f \in Files, KeepBoth(f) \/ Hydrate(f)
        PROVE  cache' \in [Files -> OptContents]
    BY <1>0, <2>2 DEF KeepBoth, Hydrate
  <2>3. CASE Poll
    BY <1>0, <2>3 DEF Poll
  <2>4. CASE CliDownload
    <3>1. cli.file \in Files
      BY <2>4 DEF TypeInv, CliOK, Resolving, CliDownload, At
    <3> QED
      BY <1>0, <2>4, <3>1 DEF CliDownload
  <2>5. CASE MergeClean \/ MergeMarkers
    BY <1>0, <2>5 DEF MergeClean, MergeMarkers, MergeWrite
  <2> QED
    BY <1>0, <2>1, <2>2, <2>3, <2>4, <2>5, CacheFrame DEF CacheWrites
<1>2. remote' \in [Files -> OptContents]
  <2>1. ASSUME NEW f \in Files, NEW e \in Edits, RemoteEdit(f, e)
        PROVE  remote' \in [Files -> OptContents]
    <3>1. EditsOf(remote[f]) \cup {e} \in OptContents
      BY <1>0
    <3> QED
      BY <1>0, <2>1, <3>1 DEF RemoteEdit
  <2>2. ASSUME NEW f \in Files, Upload(f) \/ RemoteDelete(f)
        PROVE  remote' \in [Files -> OptContents]
    BY <1>0, <2>2 DEF Upload, RemoteDelete
  <2>3. ASSUME NEW s \in Sids, RemoteRestore(s) PROVE remote' \in [Files -> OptContents]
    BY <1>0, <2>3 DEF RemoteRestore
  <2>4. CASE CliUpload
    <3>1. cli.file \in Files
      BY <2>4 DEF TypeInv, CliOK, Resolving, CliUpload, At
    <3> QED
      BY <1>0, <2>4, <3>1 DEF CliUpload
  <2> QED
    BY <1>0, <2>1, <2>2, <2>3, <2>4, RemoteFrame DEF RemoteWrites
<1>3. copies' \in [Sids -> OptContents]
  <2>1. ASSUME NEW f \in Files, KeepBoth(f) PROVE copies' \in [Sids -> OptContents]
    BY <1>0, <2>1 DEF KeepBoth
  <2>2. CASE RemoveCopy \/ DropCopy
    BY <1>0, <2>2 DEF RemoveCopy, DropCopy
  <2>3. CASE RemoveRow \/ DropOrphan \/ DropRow \/ Poll
    BY <1>0, <2>3 DEF RemoveRow, DropOrphan, DropRow, Poll
  <2> QED
    BY <1>0, <2>1, <2>2, <2>3, CopiesFrame DEF CopiesWrites
<1> QED
  BY <1>1, <1>2, <1>3

LEMMA ListedStep ==
  ASSUME TypeInv, [Next]_vars PROVE listed' \in SUBSET Sids /\ CountsOK'
<1>0. /\ listed \in SUBSET Sids /\ CountsOK /\ Len(Stamps) \in Nat
      /\ MaxFaults \in Nat /\ MaxRuns \in Nat
  BY StampsDomain, ConflictsAssumption DEF TypeInv, FilesOK
<1>1. listed' \in SUBSET Sids /\ stamp' \in 0 .. Len(Stamps)
  <2>1. ASSUME NEW f \in Files, KeepBoth(f)
        PROVE  listed' \in SUBSET Sids /\ stamp' \in 0 .. Len(Stamps)
    <3>1. stamp' \in 1 .. Len(Stamps)
      BY <1>0, <2>1 DEF KeepBoth, CountsOK
    <3>2. <<f, stamp'>> \in Sids
      BY <3>1, StampsDomain DEF Sids
    <3> QED
      BY <1>0, <2>1, <3>1, <3>2 DEF KeepBoth
  <2>2. CASE RemoveCopy \/ DropCopy \/ RemoveRow \/ DropOrphan \/ DropRow \/ Poll
    BY <1>0, <2>2 DEF RemoveCopy, DropCopy, RemoveRow, DropOrphan, DropRow, Poll, CountsOK
  <2> QED
    BY <1>0, <2>1, <2>2, CopiesFrame DEF CopiesWrites, CountsOK
<1>2. faults' \in 0 .. MaxFaults /\ runs' \in 0 .. MaxRuns
  <2>1. CASE keep_local \/ keep_remote \/ merge \/ Collect
    <3>1. runs < MaxRuns /\ runs' = runs + 1 /\ UNCHANGED faults
      BY <2>1 DEF keep_local, keep_remote, merge, Start, Collect
    <3> QED
      BY <1>0, <3>1 DEF CountsOK
  <2>2. CASE CliFails \/ CleanupSkips
    BY <1>0, <2>2 DEF CliFails, CleanupSkips, Fault, Bail, CountsOK
  <2> QED
    BY <1>0, <2>1, <2>2, CountsFrame DEF CountsWrites, CountsOK
<1> QED
  BY <1>1, <1>2 DEF CountsOK

LEMMA HistoryTypeStep ==
  ASSUME TypeInv, [Next]_vars
  PROVE  made' \in SUBSET Edits /\ excused' \in SUBSET Edits /\ excused \subseteq excused'
<1>0. /\ made \in SUBSET Edits /\ excused \in SUBSET Edits
      /\ cache \in [Files -> OptContents] /\ remote \in [Files -> OptContents]
      /\ copies \in [Sids -> OptContents] /\ cli.since \in SUBSET Edits
      /\ cli.got \in OptContents
      /\ \A c \in OptContents : EditsOf(c) \in SUBSET Edits
  BY ContentsFacts DEF TypeInv, FilesOK, CliOK, CliType
<1> DEFINE Goal == made' \in SUBSET Edits /\ excused' \in SUBSET Edits /\ excused \subseteq excused'
<1>1. ASSUME NEW S \in SUBSET Edits, Excuse(S), UNCHANGED made PROVE Goal
  BY <1>0, <1>1 DEF Excuse
<1>2. ASSUME NEW f \in Files, NEW e \in Edits, Write(f, e) \/ RemoteEdit(f, e) PROVE Goal
  BY <1>0, <1>2 DEF Write, RemoteEdit, Make
<1>3. ASSUME NEW f \in Files, RemoteDelete(f) PROVE Goal
  <2>1. remote[f] \in SUBSET Edits
    BY <1>0, <1>3, ContentsFacts DEF RemoteDelete
  <2> QED
    BY <1>1, <1>3, <2>1 DEF RemoteDelete
<1>4. ASSUME NEW s \in Sids, RemoteRestore(s) PROVE Goal
  <2>1. s[1] \in Files
    BY DEF Sids
  <2>2. EditsOf(remote[s[1]]) \ copies[s] \in SUBSET Edits
    BY <1>0, <2>1
  <2> QED
    BY <1>1, <1>4, <2>2 DEF RemoteRestore
<1>5. CASE Poll
  <2> DEFINE G == {g \in Files : row[g].status = "dirty" /\ row'[g].etag # row[g].etag}
             U == UNION {EditsOf(remote[f]) \ EditsOf(cache[f]) : f \in G}
  <2>1. U \in SUBSET Edits
    BY <1>0
  <2>2. Excuse(U) /\ UNCHANGED made
    BY <1>5 DEF Poll
  <2> HIDE DEF U
  <2> QED
    BY <1>1, <2>1, <2>2
<1>6. CASE CliUpload
  <2>1. cli.file \in Files
    BY <1>6 DEF TypeInv, CliOK, Resolving, CliUpload, At
  <2>2. Overwritten(cli.file) \in SUBSET Edits
    BY <1>0, <2>1 DEF Overwritten
  <2> QED
    BY <1>1, <1>6, <2>2 DEF CliUpload
<1>7. CASE CliDownload
  <2>1. cli.file \in Files
    BY <1>7 DEF TypeInv, CliOK, Resolving, CliDownload, At
  <2>2. EditsOf(cache[cli.file]) \ remote[cli.file] \in SUBSET Edits
    BY <1>0, <2>1
  <2> QED
    BY <1>1, <1>7, <2>2 DEF CliDownload
<1>8. CASE MergeClean \/ MergeMarkers
  <2>1. cli.got \in SUBSET Edits
    BY <1>8, ContentsFacts DEF TypeInv, CliOK, MergeClean, MergeMarkers, At
  <2> DEFINE S == ((EditsOf(cache[cli.file]) \ cli.got) \cap cli.since)
                    \cup (IF row[cli.file].status = "dirty" THEN {}
                          ELSE cli.got \ EditsOf(remote[cli.file]))
  <2>2. S \in SUBSET Edits
    BY <1>0, <2>1
  <2>3. Excuse(S) /\ UNCHANGED made
    BY <1>8 DEF MergeClean, MergeMarkers, MergeWrite
  <2> HIDE DEF S
  <2> QED
    BY <1>1, <2>2, <2>3
<1>9. CASE RemoveCopy
  <2>1. cli.sib \in Sids
    BY <1>9 DEF TypeInv, CliOK, RemoveCopy, At
  <2> QED
    BY <1>0, <1>1, <1>9, <2>1 DEF RemoveCopy
<1>10. CASE SetCached
  <2> DEFINE D == (EditsOf(cache[cli.file]) \ EditsOf(cli.got))
                    \cup (EditsOf(cli.got) \ EditsOf(cache[cli.file]))
             S == IF cli.gone THEN {} ELSE cli.since \cap D
  <2>1. S \in SUBSET Edits
    <3> HIDE DEF D
    <3> QED
      BY <1>0
  <2>2. Excuse(S) /\ UNCHANGED made
    BY <1>10 DEF SetCached
  <2> HIDE DEF S
  <2> QED
    BY <1>1, <2>1, <2>2
<1>11. CASE UNCHANGED <<made, excused>>
  BY <1>0, <1>11
<1> QED
  BY <1>2, <1>3, <1>4, <1>5, <1>6, <1>7, <1>8, <1>9, <1>10, <1>11, HistoryFrame
  DEF HistoryWrites

\* Who moves the command, and what a move keeps.
LEMMA CliFacts ==
  ASSUME cli \in CliType
  PROVE  /\ \A pc : LET c == [cli EXCEPT !.pc = pc]
                    IN  c = [pc |-> pc, cmd |-> cli.cmd, file |-> cli.file, sib |-> cli.sib,
                             got |-> cli.got, todo |-> cli.todo, since |-> cli.since,
                             gone |-> cli.gone]
         /\ \A S : LET c == [cli EXCEPT !.since = S]
                   IN  c = [pc |-> cli.pc, cmd |-> cli.cmd, file |-> cli.file,
                            sib |-> cli.sib, got |-> cli.got, todo |-> cli.todo,
                            since |-> S, gone |-> cli.gone]
         /\ \A g : LET c == [cli EXCEPT !.gone = g]
                   IN  c = [pc |-> cli.pc, cmd |-> cli.cmd, file |-> cli.file,
                            sib |-> cli.sib, got |-> cli.got, todo |-> cli.todo,
                            since |-> cli.since, gone |-> g]
BY DEF CliType

LEMMA GotFacts ==
  ASSUME cli \in CliType, NEW pc, NEW got, NEW c, c = [cli EXCEPT !.pc = pc, !.got = got]
  PROVE  c = [pc |-> pc, cmd |-> cli.cmd, file |-> cli.file, sib |-> cli.sib, got |-> got,
              todo |-> cli.todo, since |-> cli.since, gone |-> cli.gone]
BY DEF CliType

LEMMA CleanupFacts ==
  ASSUME cli \in CliType, NEW pc, NEW s, NEW f, NEW got, Cleanup(pc, s, f, got)
  PROVE  cli' = [pc |-> pc, cmd |-> cli.cmd, file |-> f, sib |-> s, got |-> got,
                 todo |-> cli.todo \ {s}, since |-> cli.since, gone |-> cli.gone]
BY DEF CliType, Cleanup

LEMMA StartFacts ==
  ASSUME NEW cmd, NEW pc, NEW ctx, Start(cmd, pc, ctx)
  PROVE  cli' = [pc |-> pc, cmd |-> cmd, file |-> ctx[1], sib |-> ctx[2], got |-> None,
                 todo |-> {}, since |-> {}, gone |-> FALSE]
BY DEF Start, IdleCli

\* The copy a path leads to is one that is listed.
LEMMA PathsLead ==
  ASSUME TypeInv, NEW ctx \in Paths, ctx[1] # None
  PROVE  ctx[1] \in Files /\ (ctx[2] = None \/ ctx[2] \in listed)
<1>0. listed \in SUBSET Sids
  BY DEF TypeInv, FilesOK
<1>1. ASSUME NEW f \in Files, ctx = ResolveFile(f)
      PROVE  ctx[1] \in Files /\ (ctx[2] = None \/ ctx[2] \in listed)
  <2>1. Siblings(f) \in SUBSET listed /\ Siblings(f) \in SUBSET Sids
    BY <1>0 DEF Siblings
  <2>2. FindSibling(f) = None \/ FindSibling(f) \in listed
    BY <2>1, NewestIn DEF FindSibling
  <2> QED
    BY <1>1, <2>2 DEF ResolveFile
<1>2. ASSUME NEW s \in listed, ctx = ResolveCopy(s)
      PROVE  ctx[1] \in Files /\ (ctx[2] = None \/ ctx[2] \in listed)
  BY <1>2 DEF ResolveCopy, FindCanonical
<1> QED
  BY <1>1, <1>2 DEF Paths

LEMMA CliStepOK == ASSUME TypeInv, [Next]_vars PROVE CliOK'
<1>0. /\ cli \in CliType /\ CliOK /\ listed \in SUBSET Sids
      /\ remote \in [Files -> OptContents] /\ cache \in [Files -> OptContents]
      /\ copies \in [Sids -> OptContents]
      /\ None \in OptContents /\ {} \in SUBSET Sids /\ {} \in SUBSET Edits
      /\ \A c \in OptContents : c # None => c \in Contents
      /\ \A c \in Contents : c \in OptContents
      /\ \A c, d \in Contents : c \cup d \in Contents
      /\ None \notin Sids
  BY ContentsFacts DEF TypeInv, FilesOK, CliOK, OptContents
<1> USE <1>0 DEF CliOK, CliType, Resolving, Final, Cleaning
<1>1. ASSUME cli' = IdleCli PROVE CliOK'
  BY <1>1 DEF IdleCli
<1>2. ASSUME NEW S \in SUBSET Edits, Meanwhile(S) PROVE CliOK'
  <2>1. CASE cli.pc = "idle"
    BY <1>2, <2>1 DEF Meanwhile
  <2>2. CASE cli.pc # "idle"
    <3>1. cli' = [cli EXCEPT !.since = cli.since \cup S] /\ cli.since \cup S \in SUBSET Edits
      BY <1>2, <2>2 DEF Meanwhile
    <3> QED
      BY <3>1, CliFacts
  <2> QED
    BY <2>1, <2>2
<1>3. ASSUME NEW f \in Files, NEW e \in Edits, Write(f, e) \/ RemoteEdit(f, e) PROVE CliOK'
  BY <1>2, <1>3 DEF Write, RemoteEdit, Make
<1>4. ASSUME NEW s \in Sids, RemoteRestore(s) PROVE CliOK'
  <2>1. copies[s] \in SUBSET Edits
    BY <1>4 DEF RemoteRestore, Contents
  <2> QED
    BY <1>2, <1>4, <2>1 DEF RemoteRestore
<1>5. CASE Poll
  <2>1. \E g : cli' = [cli EXCEPT !.gone = cli.gone \/ g]
    BY <1>5 DEF Poll
  <2>2. PICK g : cli' = [cli EXCEPT !.gone = cli.gone \/ g]
    BY <2>1
  <2>3. PICK h \in BOOLEAN : h = (cli.gone \/ g)
    OBVIOUS
  <2>4. cli' = [cli EXCEPT !.gone = h]
    BY <2>2, <2>3
  <2> QED
    BY <2>3, <2>4, CliFacts
<1>6. ASSUME NEW ctx \in Paths, NEW cmd, NEW pc, Start(cmd, pc, ctx),
             cmd \in {"keep_local", "keep_remote", "merge"}, pc \in {"upload", "download", "fetch"},
             pc = "upload" => cmd = "keep_local", pc = "fetch" => cmd = "merge"
      PROVE  CliOK'
  <2>1. ctx[1] \in Files /\ (ctx[2] = None \/ ctx[2] \in Sids)
    BY <1>6, PathsLead DEF Start
  <2>2. cli' = [pc |-> pc, cmd |-> cmd, file |-> ctx[1], sib |-> ctx[2], got |-> None,
                todo |-> {}, since |-> {}, gone |-> FALSE]
    BY <1>6, StartFacts
  <2> QED
    BY <1>6, <2>1, <2>2
<1>7. CASE keep_local \/ keep_remote \/ merge
  <2>1. CASE keep_local
    <3>1. PICK ctx \in Paths : Start("keep_local", "upload", ctx)
      BY <2>1 DEF keep_local
    <3> QED
      BY <1>6, <3>1
  <2>2. CASE keep_remote
    <3>1. PICK ctx \in Paths : Start("keep_remote", "download", ctx)
      BY <2>2 DEF keep_remote
    <3> QED
      BY <1>6, <3>1
  <2>3. CASE merge
    <3>1. PICK ctx \in Paths : Start("merge", "fetch", ctx)
      BY <2>3 DEF merge
    <3> QED
      BY <1>6, <3>1
  <2> QED
    BY <1>7, <2>1, <2>2, <2>3
<1>8. ASSUME NEW pc \in {"next", "rmrow", "stat", "bytes", "drop", "droprow", "rmcopy"}, Go(pc),
             pc \in {"rmrow", "rmcopy", "stat"} => cli.file \in Files,
             pc \in {"rmrow", "rmcopy"} => cli.sib \in Sids,
             pc \in {"bytes", "drop", "droprow"} => cli.file \in Files /\ cli.sib \in Sids
      PROVE  CliOK'
  BY <1>8, CliFacts DEF Go
<1>9. ASSUME CliUpload \/ CliDownload PROVE CliOK'
  BY <1>8, <1>9 DEF CliUpload, CliDownload, AfterTransfer, At
<1>10. ASSUME NEW pc, NEW got \in Contents, cli' = [cli EXCEPT !.pc = pc, !.got = got],
              pc \in {"merge", "clean", "markers", "set", "eqcopy"},
              cli.file \in Files, pc = "eqcopy" => cli.sib \in Sids,
              pc \in {"merge", "clean", "markers"} => cli.cmd = "merge"
       PROVE  CliOK'
  BY <1>10, GotFacts
<1>11. CASE MergeFetch
  BY <1>10, <1>11 DEF MergeFetch, At
<1>12. CASE TryMerge
  <2>1. /\ cli.file \in Files /\ cache[cli.file] \in Contents /\ cli.got \in Contents
        /\ cli.cmd = "merge"
    BY <1>12 DEF TryMerge, At
  <2>2. cli.got \cup cache[cli.file] \in Contents
    BY <2>1
  <2>3. PICK pc \in {"clean", "markers"} :
             cli' = [cli EXCEPT !.pc = pc, !.got = cli.got \cup cache[cli.file]]
    BY <1>12 DEF TryMerge
  <2> QED
    BY <1>10, <2>1, <2>2, <2>3
<1>13. CASE MergeClean
  <2>1. cli' = [cli EXCEPT !.pc = "upload", !.got = None] /\ cli.file \in Files
    BY <1>13 DEF MergeClean, MergeWrite, At
  <2>2. cli.cmd \in {"keep_local", "merge"}
    BY <1>13 DEF MergeClean, At
  <2> QED
    BY <2>1, <2>2, GotFacts
<1>14. CASE MergeMarkers \/ SetCached \/ Missing \/ CliFails
  BY <1>1, <1>14 DEF MergeMarkers, MergeWrite, SetCached, Missing, CliFails, Bail
<1>15. CASE RemoveCopy \/ RemoveRow
  BY <1>8, <1>15 DEF RemoveCopy, RemoveRow, At
<1>16. CASE FinalStat
  BY <1>10, <1>16 DEF FinalStat, At
<1>17. CASE Collect
  BY <1>17 DEF Collect, IdleCli
<1>18. CASE CleanupNext
  <2>1. CASE cli.todo = {}
    BY <1>1, <1>18, <2>1 DEF CleanupNext
  <2>2. CASE cli.todo # {}
    <3> DEFINE s == Newest(cli.todo)
               f == FindCanonical(s)
               pc == IF f = None THEN "next" ELSE "eq"
    <3>1. s \in Sids
      BY <2>2, NewestIn
    <3>2. f = None \/ f \in Files
      BY DEF FindCanonical
    <3>3. Cleanup(pc, s, f, None)
      BY <1>18, <2>2 DEF CleanupNext
    <3> HIDE DEF s, f
    <3>4. cli' = [pc |-> pc, cmd |-> cli.cmd, file |-> f, sib |-> s, got |-> None,
                  todo |-> cli.todo \ {s}, since |-> cli.since, gone |-> cli.gone]
      BY <3>3, CleanupFacts
    <3>5. cli.todo \ {s} \in SUBSET Sids
      OBVIOUS
    <3> QED
      BY <3>1, <3>2, <3>4, <3>5
  <2> QED
    BY <2>1, <2>2
<1>19. CASE StatCanonical
  BY <1>10, <1>19 DEF StatCanonical, At
<1>20. CASE StatCopy \/ StatUnknown \/ CompareBytes \/ CompareFails
  BY <1>8, <1>20 DEF StatCopy, StatUnknown, CompareBytes, CompareFails, At
<1>21. CASE DropOrphan \/ DropCopy \/ DropRow \/ CleanupSkips
  BY <1>8, <1>21 DEF DropOrphan, DropCopy, DropRow, CleanupSkips, At
<1>22. CASE UNCHANGED cli
  BY <1>22
<1> QED
  BY <1>3, <1>4, <1>5, <1>7, <1>9, <1>11, <1>12, <1>13, <1>14, <1>15, <1>16, <1>17,
     <1>18, <1>19, <1>20, <1>21, <1>22, CliFrame
  DEF CliWrites

LEMMA TypeInvStep == ASSUME TypeInv, [Next]_vars PROVE TypeInv'
<1>1. FilesOK'
  BY RowTypeStep, ContentTypeStep, ListedStep, HistoryTypeStep DEF FilesOK
<1> QED
  BY <1>1, ListedStep, CliStepOK DEF TypeInv
-----------------------------------------------------------------------------
(* The invariant.  C, R and T are the edits in the cache file, in the      *)
(* remote file and in the content the row's ETag stands for.               *)

C(f) == EditsOf(cache[f])
R(f) == EditsOf(remote[f])
T(f) == EditsOf(row[f].etag)

\* Of a file: a clean cache file is contained in the remote; the ETag is of
\* a content that the remote still has, and that the cache file contains.
FileInv(f) ==
  /\ HasRow(f) => row[f].etag # None
  /\ row[f].status \in {"cached", "dirty"} => cache[f] # None
  /\ row[f].status # "dirty" => C(f) \subseteq R(f) \cup excused
  /\ T(f) \subseteq R(f) \cup excused
  /\ row[f].status \in {"cached", "dirty"} => T(f) \subseteq C(f) \cup excused

\* Of the command at work on a file, at each of its points.
CliAt(f) ==
  LET New == excused \cup cli.since
  IN  /\ (cli.pc \in Resolving /\ ~cli.gone) => HasRow(f)
      /\ (cli.pc \in Final /\ ~cli.gone) => cache[f] # None
      /\ cli.pc = "merge" => R(f) \subseteq cli.got \cup C(f) \cup New
      /\ cli.pc \in {"clean", "markers"} =>
           R(f) \subseteq cli.got \cup New /\ C(f) \subseteq cli.got \cup New
      /\ (cli.pc = "upload" /\ cli.cmd = "merge") => R(f) \subseteq C(f) \cup New
      /\ cli.pc \in Final => C(f) \subseteq R(f) \cup New /\ R(f) \subseteq C(f) \cup New
      /\ cli.pc \in {"set", "eqcopy"} => cli.got \subseteq R(f) \cup excused
      /\ cli.pc = "set" => cli.got \subseteq C(f) \cup New

CliInv == \A f \in Files : f = cli.file => CliAt(f)

\* The stamps not used yet have no copy.
Fresh ==
  /\ \A s \in Sids : stamp < s[2] => copies[s] = None
  /\ \A s \in listed \cup cli.todo : s[2] <= stamp
  /\ cli.sib # None => cli.sib[2] <= stamp

\* An edit is in a file of either side, or in a copy other than s.
HeldBeside(e, s) ==
  \/ \E f \in Files : e \in C(f) \/ e \in R(f)
  \/ \E t \in Sids : t # s /\ e \in EditsOf(copies[t])

\* A copy about to be dropped as equal holds nothing of its own.
Equal ==
  cli.pc = "drop" => \A e \in EditsOf(copies[cli.sib]) \ excused : HeldBeside(e, cli.sib)

Kept == \A e \in made \ excused : HeldBeside(e, None)

AllMade ==
  /\ \A f \in Files : C(f) \cup R(f) \cup T(f) \subseteq made
  /\ \A s \in Sids : EditsOf(copies[s]) \subseteq made
  /\ EditsOf(cli.got) \cup cli.since \cup excused \subseteq made

IInv ==
  /\ TypeInv /\ CliInv /\ Fresh /\ Equal /\ Kept /\ AllMade
  /\ \A f \in Files : FileInv(f)
-----------------------------------------------------------------------------
(* What a step may take away.                                              *)

LEMMA Typed ==
  ASSUME TypeInv
  PROVE  /\ row \in [Files -> RowType]
         /\ cache \in [Files -> OptContents] /\ remote \in [Files -> OptContents]
         /\ copies \in [Sids -> OptContents] /\ listed \in SUBSET Sids
         /\ cli \in CliType
         /\ \A c \in OptContents : EditsOf(c) \in SUBSET Edits /\ (c # None => EditsOf(c) = c)
BY ContentsFacts DEF TypeInv, FilesOK, CliOK

\* The remote file of a path loses only edits that are excused: an upload
\* replaces a content that the cache file contains.
LEMMA RemoteKeeps ==
  ASSUME IInv, [Next]_vars, NEW g \in Files PROVE R(g) \subseteq R(g)' \cup excused'
<1>0. /\ cache \in [Files -> OptContents] /\ remote \in [Files -> OptContents]
      /\ copies \in [Sids -> OptContents] /\ cli \in CliType /\ FileInv(g)
      /\ \A c \in OptContents : c # None => EditsOf(c) = c
      /\ excused \subseteq excused'
  BY Typed, HistoryTypeStep DEF IInv
<1>1. ASSUME NEW f \in Files, NEW e \in Edits, RemoteEdit(f, e)
      PROVE  R(g) \subseteq R(g)' \cup excused'
  <2>1. f = g => remote'[g] = EditsOf(remote[g]) \cup {e}
    BY <1>0, <1>1 DEF RemoteEdit
  <2>2. f # g => remote'[g] = remote[g]
    BY <1>0, <1>1 DEF RemoteEdit
  <2>3. EditsOf(remote[g]) \cup {e} # None
    BY <1>0, ContentsFacts DEF Contents
  <2> QED
    BY <2>1, <2>2, <2>3 DEF R, EditsOf
<1>2. ASSUME NEW f \in Files, Upload(f) PROVE R(g) \subseteq R(g)' \cup excused'
  <2>1. CASE f = g
    <3>1. remote'[g] = cache[g] /\ cache[g] # None /\ row[g].status = "dirty"
          /\ (remote[g] = None \/ remote[g] = row[g].etag)
      BY <1>0, <1>2, <2>1 DEF Upload, Matches
    <3>2. R(g)' = C(g)
      BY <3>1 DEF R, C
    <3>3. R(g) = {} \/ R(g) = T(g)
      BY <3>1 DEF R, T, EditsOf
    <3> QED
      BY <1>0, <3>1, <3>2, <3>3 DEF FileInv
  <2>2. CASE f # g
    BY <1>0, <1>2, <2>2 DEF Upload, R
  <2> QED
    BY <2>1, <2>2
<1>3. ASSUME NEW f \in Files, RemoteDelete(f) PROVE R(g) \subseteq R(g)' \cup excused'
  <2>1. CASE f = g
    BY <1>0, <1>3, <2>1 DEF RemoteDelete, Excuse, R
  <2>2. CASE f # g
    BY <1>0, <1>3, <2>2 DEF RemoteDelete, R
  <2> QED
    BY <2>1, <2>2
<1>4. ASSUME NEW s \in Sids, RemoteRestore(s) PROVE R(g) \subseteq R(g)' \cup excused'
  <2>0. s[1] \in Files
    BY DEF Sids
  <2>1. CASE s[1] = g
    <3>1. remote'[g] = copies[s] /\ copies[s] # None /\ Excuse(EditsOf(remote[g]) \ copies[s])
      BY <1>0, <1>4, <2>1 DEF RemoteRestore
    <3> QED
      BY <1>0, <3>1 DEF R, Excuse
  <2>2. CASE s[1] # g
    BY <1>0, <1>4, <2>0, <2>2 DEF RemoteRestore, R
  <2> QED
    BY <2>1, <2>2
<1>5. CASE CliUpload
  <2>0. cli.pc = "upload" /\ cli.file \in Files /\ cli.cmd \in {"keep_local", "merge"}
    BY <1>5 DEF CliUpload, At, IInv, TypeInv, CliOK, Resolving
  <2>1. CASE cli.file = g
    <3>1. /\ remote'[g] = cache[g] /\ cache[g] # None /\ Excuse(Overwritten(g))
      BY <1>0, <1>5, <2>0, <2>1 DEF CliUpload
    <3>2. R(g)' = C(g) /\ C(g) = cache[g]
      BY <1>0, <3>1 DEF R, C
    <3>3. cli.cmd = "merge" => R(g) \subseteq C(g) \cup excused \cup cli.since
      BY <2>0, <2>1 DEF IInv, CliInv, CliAt
    <3> QED
      BY <1>0, <2>0, <3>1, <3>2, <3>3 DEF Overwritten, Excuse, R
  <2>2. CASE cli.file # g
    BY <1>0, <1>5, <2>0, <2>2 DEF CliUpload, R
  <2> QED
    BY <2>1, <2>2
<1>6. CASE UNCHANGED remote
  BY <1>6 DEF R
<1> QED
  BY <1>1, <1>2, <1>3, <1>4, <1>5, <1>6, RemoteFrame DEF RemoteWrites

\* Keep-both moves the cache file to a copy that was not there.
LEMMA KeepBothMoves ==
  ASSUME IInv, NEW f \in Files, KeepBoth(f)
  PROVE  /\ stamp' = stamp + 1 /\ stamp' \in Nat /\ stamp \in Nat
         /\ <<f, stamp'>> \in Sids /\ copies[<<f, stamp'>>] = None
         /\ EditsOf(copies'[<<f, stamp'>>]) = C(f)
         /\ \A s \in Sids : s # <<f, stamp'>> => copies'[s] = copies[s]
<1>1. /\ copies \in [Sids -> OptContents] /\ stamp \in 0 .. Len(Stamps)
      /\ \A s \in Sids : stamp < s[2] => copies[s] = None
  BY DEF IInv, TypeInv, FilesOK, CountsOK, Fresh
<1>2. stamp' = stamp + 1 /\ stamp < Len(Stamps)
      /\ copies' = [copies EXCEPT ![<<f, stamp'>>] = cache[f]]
  BY DEF KeepBoth
<1>3. <<f, stamp'>> \in Sids /\ stamp < stamp' /\ stamp' \in Nat /\ stamp \in Nat
  BY <1>1, <1>2, StampsDomain DEF Sids
<1>4. copies[<<f, stamp'>>] = None
  BY <1>1, <1>3
<1>5. copies'[<<f, stamp'>>] = cache[f]
  BY <1>1, <1>2, <1>3
<1>6. \A s \in Sids : s # <<f, stamp'>> => copies'[s] = copies[s]
  BY <1>1, <1>2
<1> QED
  BY <1>2, <1>3, <1>4, <1>5, <1>6 DEF C

\* The poll removes the cache file of a row it sweeps, and no other.
LEMMA PollSweeps ==
  ASSUME IInv, Poll, NEW g \in Files
  PROVE  \/ cache'[g] = cache[g]
         \/ cache'[g] = None /\ row'[g] = NoRow /\ row[g].status # "dirty" /\ HasRow(g)
            /\ remote[g] = None
<1>0. row \in [Files -> RowType]
  BY Typed DEF IInv
<1> DEFINE swept == {f \in Files : HasRow(f) /\ row'[f] = NoRow}
<1>1. cache' = [f \in Files |-> IF f \in swept THEN None ELSE cache[f]]
      /\ row' = [f \in Files |-> Polled(f)]
  BY DEF Poll
<1>2. cache'[g] = IF g \in swept THEN None ELSE cache[g]
  BY <1>1
<1>3. row'[g] = Polled(g) /\ NoRow.status = "none"
  BY <1>1 DEF NoRow, Row
<1>4. HasRow(g) /\ row'[g] = NoRow => row[g].status # "dirty" /\ remote[g] = None
  <2>1. CASE remote[g] = None /\ row[g].status = "dirty"
    BY <1>3, <2>1 DEF Polled
  <2>2. CASE remote[g] # None /\ HasRow(g)
    BY <1>3, <2>2 DEF Polled, HasRow, Row
  <2> QED
    BY <2>1, <2>2
<1> QED
  BY <1>2, <1>3, <1>4

\* What merge writes: the result of the merge, with what is excused by it.
LEMMA MergeWrites ==
  ASSUME IInv, MergeClean \/ MergeMarkers, NEW f \in Files, f = cli.file
  PROVE  /\ cli.pc \in {"clean", "markers"} /\ cli.got \in Contents
         /\ C(f)' = cli.got /\ cache'[f] # None
         /\ \A g \in Files : g # f => cache'[g] = cache[g]
         /\ C(f) \subseteq cli.got \cup excused'
         /\ row[f].status # "dirty" => cli.got \subseteq R(f) \cup excused'
         /\ row' = row /\ remote' = remote /\ excused \subseteq excused'
         /\ MergeClean => cli' = [cli EXCEPT !.pc = "upload", !.got = None]
         /\ MergeMarkers => cli' = IdleCli
<1>0. cache \in [Files -> OptContents] /\ cli \in CliType
  BY Typed DEF IInv
<1>1. cli.pc \in {"clean", "markers"} /\ cli.got \in Contents
      /\ C(f) \subseteq cli.got \cup excused \cup cli.since
  BY DEF IInv, TypeInv, CliOK, CliInv, CliAt, Resolving, MergeClean, MergeMarkers, At
<1>2. /\ cache' = [cache EXCEPT ![f] = cli.got]
      /\ excused' = excused \cup (((C(f) \ cli.got) \cap cli.since)
              \cup (IF row[f].status = "dirty" THEN {} ELSE cli.got \ R(f)))
      /\ row' = row /\ remote' = remote
      /\ MergeClean => cli' = [cli EXCEPT !.pc = "upload", !.got = None]
      /\ MergeMarkers => cli' = IdleCli
  BY DEF MergeClean, MergeMarkers, MergeWrite, Excuse, C, R
<1>3. cache'[f] = cli.got /\ (\A g \in Files : g # f => cache'[g] = cache[g])
  BY <1>0, <1>1, <1>2
<1>4. cli.got # None /\ EditsOf(cli.got) = cli.got
  BY <1>1, ContentsFacts DEF OptContents
<1>5. C(f)' = cli.got
  BY <1>3, <1>4 DEF C
<1>6. C(f) \subseteq cli.got \cup excused'
  BY <1>1, <1>2
<1>7. row[f].status # "dirty" => cli.got \subseteq R(f) \cup excused'
  BY <1>2
<1> QED
  BY <1>1, <1>2, <1>3, <1>4, <1>5, <1>6, <1>7

\* The cache file of a path loses only edits that its remote file has or that
\* are excused, except to keep-both.
LEMMA CacheKeeps ==
  ASSUME IInv, [Next]_vars, NEW g \in Files
  PROVE  C(g) \subseteq C(g)' \cup R(g)' \cup excused' \/ KeepBoth(g)
<1> DEFINE Goal == C(g) \subseteq C(g)' \cup R(g)' \cup excused'
<1>0. /\ cache \in [Files -> OptContents] /\ remote \in [Files -> OptContents]
      /\ row \in [Files -> RowType] /\ cli \in CliType /\ FileInv(g)
      /\ \A c \in OptContents : c # None => EditsOf(c) = c
      /\ excused \subseteq excused'
  BY Typed, HistoryTypeStep DEF IInv
<1>1. R(g) \subseteq R(g)' \cup excused'
  BY RemoteKeeps
<1>2. ASSUME NEW f \in Files, NEW e \in Edits, Write(f, e) PROVE Goal
  <2>1. f = g => cache'[g] = cache[g] \cup {e} /\ cache[g] # None
    BY <1>0, <1>2 DEF Write
  <2>2. f # g => cache'[g] = cache[g]
    BY <1>0, <1>2 DEF Write
  <2>3. cache[g] # None => cache[g] \cup {e} # None
    BY <1>0, ContentsFacts DEF Contents
  <2> QED
    BY <2>1, <2>2, <2>3 DEF C, EditsOf
<1>3. ASSUME NEW f \in Files, Hydrate(f) PROVE Goal
  <2>1. CASE f = g
    <3>1. row[g].status # "dirty"
      BY <1>3, <2>1 DEF Hydrate
    <3> QED
      BY <1>0, <1>1, <3>1 DEF FileInv
  <2>2. CASE f # g
    BY <1>0, <1>3, <2>2 DEF Hydrate, C
  <2> QED
    BY <2>1, <2>2
<1>4. ASSUME NEW f \in Files, KeepBoth(f), f # g PROVE Goal
  BY <1>0, <1>4 DEF KeepBoth, C
<1>5. CASE Poll
  <2>1. CASE cache'[g] = cache[g]
    BY <2>1 DEF C
  <2>2. CASE row[g].status # "dirty"
    BY <1>0, <1>1, <2>2 DEF FileInv
  <2> QED
    BY <1>5, <2>1, <2>2, PollSweeps
<1>6. CASE CliDownload
  <2>1. CASE g = cli.file
    <3>1. remote[g] # None /\ Excuse(EditsOf(cache[g]) \ remote[g])
      BY <1>6, <2>1 DEF CliDownload
    <3> QED
      BY <1>0, <1>1, <3>1 DEF C, R, Excuse
  <2>2. CASE g # cli.file
    BY <1>0, <1>6, <2>2 DEF CliDownload, C
  <2> QED
    BY <2>1, <2>2
<1>7. CASE MergeClean \/ MergeMarkers
  <2>1. PICK f \in Files : f = cli.file
    BY <1>7 DEF IInv, TypeInv, CliOK, Resolving, MergeClean, MergeMarkers, At
  <2>2. CASE g = f
    BY <1>7, <2>1, <2>2, MergeWrites
  <2>3. CASE g # f
    <3>1. cache'[g] = cache[g]
      BY <1>7, <2>1, <2>3, MergeWrites
    <3> QED
      BY <3>1 DEF C
  <2> QED
    BY <2>2, <2>3
<1>8. CASE UNCHANGED cache
  BY <1>8 DEF C
<1> QED
  BY <1>2, <1>3, <1>4, <1>5, <1>6, <1>7, <1>8, CacheFrame DEF CacheWrites
-----------------------------------------------------------------------------
(* The parts of the invariant are kept.                                    *)

\* A file whose row and cache file stay as they are.
LEMMA FileStays ==
  ASSUME IInv, [Next]_vars, NEW g \in Files, row'[g] = row[g], cache'[g] = cache[g]
  PROVE  FileInv(g)'
<1>1. FileInv(g) /\ excused \subseteq excused' /\ R(g) \subseteq R(g)' \cup excused'
  BY RemoteKeeps, HistoryTypeStep DEF IInv
<1>2. C(g)' = C(g) /\ T(g)' = T(g) /\ (HasRow(g)' <=> HasRow(g))
  BY DEF C, T, HasRow
<1> QED
  BY <1>1, <1>2 DEF FileInv

LEMMA PollFile == ASSUME IInv, Poll, NEW g \in Files PROVE FileInv(g)'
<1>0. /\ cache \in [Files -> OptContents] /\ remote \in [Files -> OptContents]
      /\ row \in [Files -> RowType] /\ FileInv(g)
      /\ \A c \in OptContents : c # None => EditsOf(c) = c
      /\ remote' = remote /\ excused \subseteq excused'
  BY Typed DEF IInv, Poll, Excuse
<1>1. row'[g] = Polled(g)
  BY DEF Poll
<1>2. R(g)' = R(g)
  BY <1>0 DEF R
<1>3. CASE row'[g] = row[g] /\ cache'[g] = cache[g]
  <2>1. [Next]_vars
    BY DEF Next
  <2> QED
    BY <1>3, <2>1, FileStays
<1>4. CASE row'[g] = NoRow
  <2>1. row'[g].status = "none" /\ row'[g].etag = None
    BY <1>4 DEF NoRow, Row
  <2>2. T(g)' = {}
    BY <2>1 DEF T, EditsOf
  <2>3. C(g)' = {} \/ (C(g)' = C(g) /\ row[g].status # "dirty")
    <3>1. CASE cache'[g] = None
      BY <3>1 DEF C, EditsOf
    <3>2. CASE cache'[g] = cache[g] /\ ~HasRow(g)
      BY <3>2 DEF C, HasRow
    <3>3. CASE HasRow(g)
      <4>1. cache' = [f \in Files |-> IF HasRow(f) /\ row'[f] = NoRow THEN None ELSE cache[f]]
        BY DEF Poll
      <4> QED
        BY <1>4, <3>1, <3>3, <4>1
    <3> QED
      BY <3>1, <3>2, <3>3, PollSweeps
  <2> QED
    BY <1>0, <1>2, <2>1, <2>2, <2>3 DEF FileInv, HasRow
<1>5. ASSUME NEW st \in {"remote", "stale", "dirty"}, row'[g] = Row(st, remote[g]), remote[g] # None,
             st = "dirty" => row[g].status = "dirty" /\ row[g].etag # remote[g],
             st # "dirty" => row[g].status # "dirty"
      PROVE  FileInv(g)'
  <2>1. row'[g].status = st /\ row'[g].etag = remote[g] /\ row'[g] # NoRow
    BY <1>5 DEF Row, NoRow
  <2>2. T(g)' = R(g)
    BY <2>1 DEF T, R
  <2>3. cache'[g] = cache[g]
    BY <2>1, PollSweeps
  <2>4. C(g)' = C(g)
    BY <2>3 DEF C
  <2>5. CASE st = "dirty"
    <3>1. R(g) \ C(g) \subseteq excused'
      <4>1. g \in {h \in Files : row[h].status = "dirty" /\ row'[h].etag # row[h].etag}
        BY <1>5, <2>1, <2>5
      <4>2. Excuse(UNION {EditsOf(remote[f]) \ EditsOf(cache[f]) :
                     f \in {h \in Files : row[h].status = "dirty"
                                            /\ row'[h].etag # row[h].etag}})
        BY DEF Poll
      <4> QED
        BY <4>1, <4>2 DEF Excuse, C, R
    <3>2. cache[g] # None
      BY <1>0, <1>5, <2>5 DEF FileInv
    <3> QED
      BY <1>0, <1>2, <1>5, <2>1, <2>2, <2>3, <2>4, <2>5, <3>1, <3>2 DEF FileInv, HasRow
  <2>6. CASE st # "dirty"
    <3>1. C(g) \subseteq R(g) \cup excused
      BY <1>0, <1>5, <2>6 DEF FileInv
    <3> QED
      BY <1>0, <1>2, <1>5, <2>1, <2>2, <2>4, <2>6, <3>1 DEF FileInv, HasRow
  <2> QED
    BY <2>5, <2>6
<1>6. CASE remote[g] = None /\ row[g].status = "dirty"
  <2>1. row'[g] = row[g] /\ row'[g] # NoRow
    BY <1>1, <1>6 DEF Polled, NoRow, Row
  <2> QED
    BY <1>3, <2>1, PollSweeps
<1>7. CASE remote[g] = None /\ row[g].status # "dirty"
  BY <1>1, <1>4, <1>7 DEF Polled
<1>8. CASE remote[g] # None /\ ~HasRow(g)
  <2>1. row'[g] = Row("remote", remote[g]) /\ row[g].status # "dirty"
    BY <1>1, <1>8 DEF Polled, HasRow
  <2> QED
    BY <1>5, <1>8, <2>1
<1>9. CASE remote[g] # None /\ HasRow(g) /\ row[g].etag = remote[g]
  <2>1. row'[g] = row[g] /\ row'[g] # NoRow
    BY <1>1, <1>9 DEF Polled, HasRow, NoRow, Row
  <2> QED
    BY <1>3, <2>1, PollSweeps
<1>10. CASE remote[g] # None /\ HasRow(g) /\ row[g].etag # remote[g]
  <2>1. row'[g] = Row(IF row[g].status = "dirty" THEN "dirty" ELSE "stale", remote[g])
    BY <1>1, <1>10 DEF Polled
  <2>2. CASE row[g].status = "dirty"
    BY <1>5, <1>10, <2>1, <2>2
  <2>3. CASE row[g].status # "dirty"
    BY <1>5, <1>10, <2>1, <2>3
  <2> QED
    BY <2>2, <2>3
<1> QED
  BY <1>6, <1>7, <1>8, <1>9, <1>10

LEMMA FileInvStep == ASSUME IInv, [Next]_vars, NEW g \in Files PROVE FileInv(g)'
<1>0. /\ cache \in [Files -> OptContents] /\ remote \in [Files -> OptContents]
      /\ row \in [Files -> RowType] /\ cli \in CliType /\ FileInv(g)
      /\ \A c \in OptContents : c # None => EditsOf(c) = c
      /\ excused \subseteq excused'
  BY Typed, HistoryTypeStep DEF IInv
<1>1. R(g) \subseteq R(g)' \cup excused'
  BY RemoteKeeps
<1>2. ASSUME NEW f \in Files, NEW e \in Edits, Write(f, e) PROVE FileInv(g)'
  <2>1. CASE f = g
    <3>1. /\ cache'[g] = cache[g] \cup {e} /\ cache[g] # None /\ remote' = remote
          /\ row[g].status \in {"cached", "dirty"}
          /\ row'[g].status = "dirty" /\ row'[g].etag = row[g].etag
      BY <1>0, <1>2, <2>1 DEF Write, RowType
    <3>2. cache[g] \cup {e} # None
      BY <1>0, <3>1, ContentsFacts DEF Contents
    <3>3. C(g)' = C(g) \cup {e} /\ T(g)' = T(g)
      BY <3>1, <3>2 DEF C, T, EditsOf
    <3>4. T(g) \subseteq R(g) \cup excused /\ T(g) \subseteq C(g) \cup excused /\ row[g].etag # None
      BY <1>0, <3>1 DEF FileInv, HasRow
    <3> QED
      BY <1>0, <1>1, <3>1, <3>2, <3>3, <3>4 DEF FileInv, HasRow
  <2>2. CASE f # g
    BY <1>0, <1>2, <2>2, FileStays DEF Write
  <2> QED
    BY <2>1, <2>2
<1>3. ASSUME NEW f \in Files, Upload(f) PROVE FileInv(g)'
  <2>1. CASE f = g
    <3>1. /\ cache'[g] = cache[g] /\ cache[g] # None /\ remote'[g] = cache[g]
          /\ row'[g].status = "cached" /\ row'[g].etag = cache[g]
      BY <1>0, <1>3, <2>1 DEF Upload, Row
    <3>2. C(g)' = C(g) /\ T(g)' = C(g) /\ R(g)' = C(g)
      BY <3>1 DEF C, T, R
    <3> QED
      BY <3>1, <3>2 DEF FileInv
  <2>2. CASE f # g
    BY <1>0, <1>3, <2>2, FileStays DEF Upload
  <2> QED
    BY <2>1, <2>2
<1>4. ASSUME NEW f \in Files, UploadEqual(f) \/ KeepBoth(f) PROVE FileInv(g)'
  <2>1. CASE f = g
    <3>1. /\ cache'[g] = remote[g] /\ remote[g] # None /\ remote'[g] = remote[g]
          /\ row'[g].status = "cached" /\ row'[g].etag = remote[g]
      BY <1>0, <1>4, <2>1 DEF UploadEqual, KeepBoth, Row, Matches
    <3>2. C(g)' = R(g) /\ T(g)' = R(g) /\ R(g)' = R(g)
      BY <3>1 DEF C, T, R
    <3> QED
      BY <3>1, <3>2 DEF FileInv
  <2>2. CASE f # g
    BY <1>0, <1>4, <2>2, FileStays DEF UploadEqual, KeepBoth
  <2> QED
    BY <2>1, <2>2
<1>5. ASSUME NEW f \in Files, Hydrate(f) PROVE FileInv(g)'
  <2>1. CASE f = g
    <3>1. /\ cache'[g] = remote[g] /\ remote[g] # None /\ remote'[g] = remote[g]
          /\ row'[g].status = "cached" /\ row'[g].etag = row[g].etag
          /\ row[g].status \in {"remote", "stale"}
      BY <1>0, <1>5, <2>1 DEF Hydrate, RowType
    <3>2. C(g)' = R(g) /\ T(g)' = T(g) /\ R(g)' = R(g)
      BY <3>1 DEF C, T, R
    <3> QED
      BY <1>0, <3>1, <3>2 DEF FileInv, HasRow
  <2>2. CASE f # g
    BY <1>0, <1>5, <2>2, FileStays DEF Hydrate
  <2> QED
    BY <2>1, <2>2
<1>6. CASE SetCached
  <2>1. CASE cli.gone \/ cli.file # g
    <3>1. row'[g] = row[g] /\ cache' = cache
      BY <1>0, <1>6, <2>1 DEF SetCached
    <3> QED
      BY <3>1, FileStays
  <2>2. CASE ~cli.gone /\ cli.file = g
    <3>1. /\ cli.got \in Contents /\ cache[g] # None
          /\ C(g) \subseteq R(g) \cup (excused \cup cli.since)
          /\ cli.got \subseteq R(g) \cup excused
          /\ cli.got \subseteq C(g) \cup (excused \cup cli.since)
      BY <1>6, <2>2 DEF SetCached, At, IInv, TypeInv, CliOK, CliInv, CliAt, Final
    <3>2. row' = [row EXCEPT ![g] = Row("cached", cli.got)] /\ cache' = cache /\ remote' = remote
          /\ Excuse(cli.since \cap ((EditsOf(cache[g]) \ EditsOf(cli.got))
                                       \cup (EditsOf(cli.got) \ EditsOf(cache[g]))))
      BY <1>6, <2>2 DEF SetCached
    <3>3. row'[g].status = "cached" /\ row'[g].etag = cli.got
      BY <1>0, <3>2 DEF Row
    <3>4. cli.got # None /\ EditsOf(cli.got) = cli.got
      BY <3>1, ContentsFacts DEF OptContents
    <3>5. C(g)' = C(g) /\ R(g)' = R(g) /\ T(g)' = cli.got
      BY <3>2, <3>3, <3>4 DEF C, R, T
    <3>6. excused' = excused \cup (cli.since \cap ((C(g) \ cli.got) \cup (cli.got \ C(g))))
      BY <3>2, <3>4 DEF Excuse, C
    <3>7. C(g) \subseteq R(g) \cup excused' /\ cli.got \subseteq C(g) \cup excused'
      BY <3>1, <3>6
    <3> QED
      BY <1>0, <3>1, <3>2, <3>3, <3>4, <3>5, <3>7 DEF FileInv
  <2> QED
    BY <2>1, <2>2
<1>7. CASE UNCHANGED row
  <2>1. CASE UNCHANGED cache
    BY <1>7, <2>1, FileStays
  <2>2. CASE CliDownload
    <3>1. CASE cli.file = g
      <4>1. cache'[g] = remote[g] /\ remote[g] # None /\ remote' = remote
        BY <1>0, <2>2, <3>1 DEF CliDownload
      <4>2. C(g)' = R(g) /\ R(g)' = R(g) /\ T(g)' = T(g)
        BY <1>7, <4>1 DEF C, R, T
      <4> QED
        BY <1>0, <1>7, <4>1, <4>2 DEF FileInv, HasRow
    <3>2. CASE cli.file # g
      BY <1>0, <1>7, <2>2, <3>2, FileStays DEF CliDownload
    <3> QED
      BY <3>1, <3>2
  <2>3. CASE MergeClean \/ MergeMarkers
    <3>1. PICK f \in Files : f = cli.file
      BY <2>3 DEF IInv, TypeInv, CliOK, Resolving, MergeClean, MergeMarkers, At
    <3>2. CASE g = f
      <4>1. /\ C(g)' = cli.got /\ cache'[g] # None
            /\ C(g) \subseteq cli.got \cup excused'
            /\ row[g].status # "dirty" => cli.got \subseteq R(g) \cup excused'
            /\ remote' = remote
        BY <2>3, <3>1, <3>2, MergeWrites
      <4>2. T(g)' = T(g) /\ R(g)' = R(g)
        BY <1>7, <4>1 DEF T, R
      <4>3. row[g].status \in {"cached", "dirty"} => T(g) \subseteq C(g)' \cup excused'
        BY <1>0, <4>1 DEF FileInv
      <4> QED
        BY <1>0, <1>7, <4>1, <4>2, <4>3 DEF FileInv, HasRow
    <3>3. CASE g # f
      <4>1. cache'[g] = cache[g]
        BY <2>3, <3>1, <3>3, MergeWrites
      <4> QED
        BY <1>7, <4>1, FileStays
    <3> QED
      BY <3>2, <3>3
  <2> QED
    BY <1>2, <1>4, <1>5, <2>1, <2>2, <2>3, PollFile, CacheFrame DEF CacheWrites
<1> QED
  BY <1>2, <1>3, <1>4, <1>5, <1>6, <1>7, PollFile, RowFrame DEF RowWrites

\* A program point that says nothing of a file.
LEMMA CliElsewhere ==
  ASSUME cli'.pc \in {"idle", "next", "download", "eq", "bytes", "drop", "droprow"},
         cli'.pc = "download" => \A f \in Files : f = cli'.file => (cli'.gone \/ HasRow(f)')
  PROVE  CliInv'
BY DEF CliInv, CliAt, Resolving, Final

\* What the daemon and the others do to the file of a command that stays where
\* it is: either both sides lose and gain only edits that are excused or made
\* since, or both become one of the two.
LEMMA CliStays ==
  ASSUME IInv, [Next]_vars, NEW f \in Files, f = cli.file,
         cli'.pc = cli.pc, cli'.file = cli.file, cli'.cmd = cli.cmd, cli'.got = cli.got,
         cli.since \subseteq cli'.since, cli.gone => cli'.gone,
         cli.pc \in Resolving /\ HasRow(f) /\ ~cli'.gone => HasRow(f)',
         cache[f] # None /\ ~cli'.gone => cache'[f] # None,
         \/ /\ C(f)' \subseteq C(f) \cup excused' \cup cli'.since
            /\ C(f) \subseteq C(f)' \cup excused' \cup cli'.since
            /\ R(f)' \subseteq R(f) \cup excused' \cup cli'.since
         \/ C(f)' = R(f)' /\ (C(f)' \subseteq C(f) \/ C(f)' \subseteq R(f))
  PROVE  CliInv'
<1>1. CliAt(f) /\ excused \subseteq excused' /\ R(f) \subseteq R(f)' \cup excused'
  BY RemoteKeeps, HistoryTypeStep DEF IInv, CliInv
<1>2. SUFFICES CliAt(f)'
  BY DEF CliInv
<1> DEFINE New == excused \cup cli.since
           Newer == excused' \cup cli'.since
<1>3. New \subseteq Newer
  BY <1>1
<1>4. /\ cli.pc \in Resolving /\ ~cli'.gone => HasRow(f)'
      /\ cli.pc \in Final /\ ~cli'.gone => cache'[f] # None
  BY <1>1 DEF CliAt, Resolving, Final
<1>5. cli.pc = "merge" => R(f)' \subseteq cli.got \cup C(f)' \cup Newer
  <2> SUFFICES ASSUME cli.pc = "merge" PROVE R(f)' \subseteq cli.got \cup C(f)' \cup Newer
    OBVIOUS
  <2>1. R(f) \subseteq cli.got \cup C(f) \cup New
    BY <1>1 DEF CliAt
  <2> QED
    BY <1>3, <2>1
<1>6. cli.pc \in {"clean", "markers"} =>
           R(f)' \subseteq cli.got \cup Newer /\ C(f)' \subseteq cli.got \cup Newer
  <2> SUFFICES ASSUME cli.pc \in {"clean", "markers"}
               PROVE  R(f)' \subseteq cli.got \cup Newer /\ C(f)' \subseteq cli.got \cup Newer
    OBVIOUS
  <2>1. R(f) \subseteq cli.got \cup New /\ C(f) \subseteq cli.got \cup New
    BY <1>1 DEF CliAt
  <2> QED
    BY <1>3, <2>1
<1>7. (cli.pc = "upload" /\ cli.cmd = "merge") \/ cli.pc \in Final => R(f)' \subseteq C(f)' \cup Newer
  <2> SUFFICES ASSUME (cli.pc = "upload" /\ cli.cmd = "merge") \/ cli.pc \in Final
               PROVE  R(f)' \subseteq C(f)' \cup Newer
    OBVIOUS
  <2>1. R(f) \subseteq C(f) \cup New
    BY <1>1 DEF CliAt
  <2> QED
    BY <1>3, <2>1
<1>8. cli.pc \in Final => C(f)' \subseteq R(f)' \cup Newer
  <2> SUFFICES ASSUME cli.pc \in Final PROVE C(f)' \subseteq R(f)' \cup Newer
    OBVIOUS
  <2>1. C(f) \subseteq R(f) \cup New
    BY <1>1 DEF CliAt
  <2> QED
    BY <1>1, <1>3, <2>1
<1>9. cli.pc \in {"set", "eqcopy"} => cli.got \subseteq R(f)' \cup excused'
  BY <1>1 DEF CliAt
<1>10. cli.pc = "set" => cli.got \subseteq C(f)' \cup Newer
  <2> SUFFICES ASSUME cli.pc = "set" PROVE cli.got \subseteq C(f)' \cup Newer
    OBVIOUS
  <2>1. cli.got \subseteq C(f) \cup New
    BY <1>1 DEF CliAt
  <2>2. cli.got \subseteq R(f)' \cup excused'
    BY <1>9
  <2> QED
    BY <1>3, <2>1, <2>2
<1> QED
  BY <1>4, <1>5, <1>6, <1>7, <1>8, <1>9, <1>10 DEF CliAt

\* A step elsewhere does nothing to the file of the command.
LEMMA CliUntouched ==
  ASSUME IInv, [Next]_vars, NEW f \in Files, f = cli.file,
         cli'.pc = cli.pc, cli'.file = cli.file, cli'.cmd = cli.cmd, cli'.got = cli.got,
         cli.since \subseteq cli'.since, cli.gone => cli'.gone,
         row'[f] = row[f], cache'[f] = cache[f], remote'[f] = remote[f]
  PROVE  CliInv'
<1>1. C(f)' = C(f) /\ R(f)' = R(f) /\ (HasRow(f)' <=> HasRow(f))
  BY DEF C, R, HasRow
<1> QED
  BY <1>1, CliStays

\* The daemon, the applications and the other clients, while a command runs.
LEMMA CliAmidOthers ==
  ASSUME IInv, [Next]_vars, NEW f \in Files, f = cli.file,
         \/ Poll
         \/ \E h \in Files : Daemon(h) \/ RemoteDelete(h)
         \/ \E h \in Files, e \in Edits : Write(h, e) \/ RemoteEdit(h, e)
         \/ \E s \in Sids : RemoteRestore(s)
  PROVE  CliInv'
<1>0. /\ cache \in [Files -> OptContents] /\ remote \in [Files -> OptContents]
      /\ copies \in [Sids -> OptContents]
      /\ row \in [Files -> RowType] /\ cli \in CliType
      /\ \A c \in OptContents : c # None => EditsOf(c) = c
      /\ excused \subseteq excused'
  BY Typed, HistoryTypeStep DEF IInv
<1>1. R(f) \subseteq R(f)' \cup excused'
  BY RemoteKeeps
<1>2. ASSUME NEW S, Meanwhile(S), cli.pc # "idle"
      PROVE  /\ cli'.pc = cli.pc /\ cli'.file = cli.file /\ cli'.cmd = cli.cmd
             /\ cli'.got = cli.got /\ cli'.gone = cli.gone /\ cli'.since = cli.since \cup S
  BY <1>0, <1>2, CliFacts DEF Meanwhile
<1>3. ASSUME NEW h \in Files, NEW e \in Edits, Write(h, e) \/ RemoteEdit(h, e), cli.pc # "idle"
      PROVE  CliInv'
  <2>1. /\ cli'.pc = cli.pc /\ cli'.file = cli.file /\ cli'.cmd = cli.cmd
        /\ cli'.got = cli.got /\ cli'.gone = cli.gone /\ cli'.since = cli.since \cup {e}
    BY <1>2, <1>3 DEF Write, RemoteEdit, Make
  <2>2. CASE h # f
    <3>1. row'[f] = row[f] /\ cache'[f] = cache[f] /\ remote'[f] = remote[f]
      BY <1>0, <1>3, <2>2 DEF Write, RemoteEdit
    <3> QED
      BY <2>1, <3>1, CliUntouched
  <2>3. CASE h = f /\ Write(h, e)
    <3>1. /\ cache'[f] = cache[f] \cup {e} /\ cache[f] # None /\ remote' = remote
          /\ row'[f].status = "dirty"
      BY <1>0, <2>3 DEF Write, RowType
    <3>2. cache[f] \cup {e} # None
      BY <1>0, <3>1, ContentsFacts DEF Contents
    <3>3. C(f)' = C(f) \cup {e} /\ R(f)' = R(f) /\ HasRow(f)'
      BY <3>1, <3>2 DEF C, R, EditsOf, HasRow
    <3> QED
      BY <2>1, <3>1, <3>2, <3>3, CliStays
  <2>4. CASE h = f /\ RemoteEdit(h, e)
    <3>1. remote'[f] = EditsOf(remote[f]) \cup {e} /\ cache' = cache /\ row' = row
      BY <1>0, <2>4 DEF RemoteEdit
    <3>2. EditsOf(remote[f]) \cup {e} # None
      BY <1>0, ContentsFacts DEF Contents
    <3>3. C(f)' = C(f) /\ R(f)' = R(f) \cup {e} /\ (HasRow(f)' <=> HasRow(f))
      BY <3>1, <3>2 DEF C, R, EditsOf, HasRow
    <3> QED
      BY <2>1, <3>1, <3>3, CliStays
  <2> QED
    BY <1>3, <2>2, <2>3, <2>4
<1>4. ASSUME NEW s \in Sids, RemoteRestore(s), cli.pc # "idle" PROVE CliInv'
  <2>0. s[1] \in Files
    BY DEF Sids
  <2>1. /\ cli'.pc = cli.pc /\ cli'.file = cli.file /\ cli'.cmd = cli.cmd
        /\ cli'.got = cli.got /\ cli'.gone = cli.gone /\ cli'.since = cli.since \cup copies[s]
    BY <1>2, <1>4 DEF RemoteRestore
  <2>2. CASE s[1] # f
    <3>1. row'[f] = row[f] /\ cache'[f] = cache[f] /\ remote'[f] = remote[f]
      BY <1>0, <1>4, <2>0, <2>2 DEF RemoteRestore
    <3> QED
      BY <2>1, <3>1, CliUntouched
  <2>3. CASE s[1] = f
    <3>1. remote'[f] = copies[s] /\ copies[s] # None /\ cache' = cache /\ row' = row
      BY <1>0, <1>4, <2>3 DEF RemoteRestore
    <3>2. C(f)' = C(f) /\ R(f)' = copies[s] /\ (HasRow(f)' <=> HasRow(f))
      BY <1>0, <3>1 DEF C, R, HasRow
    <3> QED
      BY <2>1, <3>1, <3>2, CliStays
  <2> QED
    BY <2>2, <2>3
<1>5. ASSUME NEW h \in Files, RemoteDelete(h) PROVE CliInv'
  <2>1. cli' = cli /\ row' = row /\ cache' = cache
    BY <1>5 DEF RemoteDelete
  <2>2. R(f)' \subseteq R(f)
    <3>1. remote'[f] = remote[f] \/ remote'[f] = None
      BY <1>0, <1>5 DEF RemoteDelete
    <3> QED
      BY <3>1 DEF R, EditsOf
  <2>3. C(f)' = C(f) /\ (HasRow(f)' <=> HasRow(f))
    BY <2>1 DEF C, HasRow
  <2> QED
    BY <2>1, <2>2, <2>3, CliStays
<1>6. ASSUME NEW h \in Files, Daemon(h) PROVE CliInv'
  <2>1. cli' = cli
    BY <1>6 DEF Daemon, Upload, UploadEqual, KeepBoth, Hydrate
  <2>2. CASE h # f
    <3>1. row'[f] = row[f] /\ cache'[f] = cache[f] /\ remote'[f] = remote[f]
      BY <1>0, <1>6, <2>2 DEF Daemon, Upload, UploadEqual, KeepBoth, Hydrate
    <3> QED
      BY <2>1, <3>1, CliUntouched
  <2>3. CASE h = f
    <3>1. cache'[f] = remote'[f] /\ (cache'[f] = cache[f] \/ cache'[f] = remote[f])
          /\ cache'[f] # None /\ row'[f].status = "cached"
      <4>1. CASE Upload(f)
        BY <1>0, <4>1 DEF Upload, Row
      <4>2. CASE UploadEqual(f)
        BY <1>0, <4>2 DEF UploadEqual, Row, Matches
      <4>3. CASE KeepBoth(f)
        BY <1>0, <4>3 DEF KeepBoth, Row, Matches
      <4>4. CASE Hydrate(f)
        BY <1>0, <4>4 DEF Hydrate, RowType
      <4> QED
        BY <1>6, <2>3, <4>1, <4>2, <4>3, <4>4 DEF Daemon
    <3>2. C(f)' = R(f)' /\ (C(f)' = C(f) \/ C(f)' = R(f)) /\ HasRow(f)'
      BY <3>1 DEF C, R, HasRow
    <3> QED
      BY <2>1, <3>1, <3>2, CliStays
  <2> QED
    BY <2>2, <2>3
<1>7. CASE Poll
  <2> DEFINE swept == {g \in Files : HasRow(g) /\ row'[g] = NoRow}
  <2>1. cli' = [cli EXCEPT !.gone = cli.gone \/ cli.file \in swept] /\ remote' = remote
        /\ row' = [g \in Files |-> Polled(g)]
    BY <1>7 DEF Poll
  <2> HIDE DEF swept
  <2> DEFINE b == cli.gone \/ cli.file \in swept
  <2>2. /\ cli'.pc = cli.pc /\ cli'.file = cli.file /\ cli'.cmd = cli.cmd
        /\ cli'.got = cli.got /\ cli'.since = cli.since
        /\ cli'.gone <=> (cli.gone \/ f \in swept)
    <3> HIDE DEF b
    <3>1. cli' = [cli EXCEPT !.gone = b]
      BY <2>1 DEF b
    <3>2. /\ cli'.pc = cli.pc /\ cli'.file = cli.file /\ cli'.cmd = cli.cmd
          /\ cli'.got = cli.got /\ cli'.since = cli.since /\ cli'.gone = b
      BY <1>0, <3>1, CliFacts
    <3>3. b <=> (cli.gone \/ f \in swept)
      BY DEF b
    <3> QED
      BY <3>2, <3>3
  <2>3. CASE f \in swept
    <3>1. cache'[f] = None /\ remote[f] = None
      <4>1. cache' = [g \in Files |-> IF g \in swept THEN None ELSE cache[g]]
        BY <1>7 DEF Poll, swept
      <4>2. HasRow(f) /\ row'[f] = NoRow
        BY <2>3 DEF swept
      <4>3. cache'[f] = None
        BY <2>3, <4>1
      <4>4. row[f].status \in {"cached", "dirty"} => cache[f] # None
        BY DEF IInv, FileInv
      <4>5. remote[f] = None
        <5>1. NoRow.status = "none" /\ row'[f] = Polled(f)
          BY <2>1 DEF NoRow, Row
        <5>2. remote[f] # None => Polled(f).status # "none"
          BY <4>2 DEF Polled, HasRow, Row
        <5> QED
          BY <4>2, <5>1, <5>2
      <4> QED
        BY <4>3, <4>5
    <3>2. C(f)' = {} /\ R(f)' = {}
      BY <2>1, <3>1 DEF C, R, EditsOf
    <3> QED
      BY <2>2, <2>3, <3>2, CliStays
  <2>4. CASE f \notin swept
    <3>1. cache'[f] = cache[f]
      <4>1. cache' = [g \in Files |-> IF g \in swept THEN None ELSE cache[g]]
        BY <1>7 DEF Poll, swept
      <4> QED
        BY <2>4, <4>1
    <3>2. HasRow(f) => HasRow(f)'
      <4>1. HasRow(f) => row'[f] # NoRow
        BY <2>4 DEF swept
      <4>2. row'[f] = Polled(f)
        BY <2>1
      <4> QED
        BY <4>1, <4>2 DEF Polled, HasRow, Row
    <3>3. C(f)' = C(f) /\ R(f)' = R(f)
      BY <2>1, <3>1 DEF C, R
    <3> QED
      BY <2>2, <3>1, <3>2, <3>3, CliStays
  <2> QED
    BY <2>3, <2>4
<1>8. CASE cli.pc = "idle"
  <2>1. cli'.pc = "idle"
    <3>1. ASSUME NEW S, Meanwhile(S) PROVE cli' = cli
      BY <1>8, <3>1 DEF Meanwhile
    <3>2. CASE Poll
      <4>1. \E b : cli' = [cli EXCEPT !.gone = b]
        BY <3>2 DEF Poll
      <4>2. PICK b : cli' = [cli EXCEPT !.gone = b]
        BY <4>1
      <4> QED
        BY <1>0, <1>8, <4>2, CliFacts
    <3>3. ASSUME NEW h \in Files, Daemon(h) \/ RemoteDelete(h) PROVE cli' = cli
      BY <3>3 DEF Daemon, Upload, UploadEqual, KeepBoth, Hydrate, RemoteDelete
    <3>4. ASSUME NEW h \in Files, NEW e \in Edits, Write(h, e) \/ RemoteEdit(h, e) PROVE cli' = cli
      BY <3>1, <3>4 DEF Write, RemoteEdit, Make
    <3>5. ASSUME NEW s \in Sids, RemoteRestore(s) PROVE cli' = cli
      BY <3>1, <3>5 DEF RemoteRestore
    <3> QED
      BY <1>8, <3>2, <3>3, <3>4, <3>5
  <2> QED
    BY <2>1, CliElsewhere
<1> QED
  BY <1>3, <1>4, <1>5, <1>6, <1>7, <1>8

LEMMA GotMoves ==
  ASSUME cli \in CliType, NEW pc, NEW got, cli' = [cli EXCEPT !.pc = pc, !.got = got]
  PROVE  /\ cli'.pc = pc /\ cli'.got = got /\ cli'.file = cli.file /\ cli'.sib = cli.sib
         /\ cli'.gone = cli.gone /\ cli'.since = cli.since /\ cli'.todo = cli.todo
         /\ cli'.cmd = cli.cmd
BY DEF CliType

LEMMA CliInvStep == ASSUME IInv, [Next]_vars PROVE CliInv'
<1>0. /\ cache \in [Files -> OptContents] /\ remote \in [Files -> OptContents]
      /\ copies \in [Sids -> OptContents]
      /\ row \in [Files -> RowType] /\ cli \in CliType /\ CliOK
      /\ \A c \in OptContents : c # None => EditsOf(c) = c
      /\ excused \subseteq excused'
  BY Typed, HistoryTypeStep DEF IInv, TypeInv
<1>1. ASSUME \/ Poll
             \/ \E h \in Files : Daemon(h) \/ RemoteDelete(h)
             \/ \E h \in Files, e \in Edits : Write(h, e) \/ RemoteEdit(h, e)
             \/ \E s \in Sids : RemoteRestore(s)
      PROVE  CliInv'
  <2>1. CASE cli.file \in Files
    BY <1>1, <2>1, CliAmidOthers
  <2>2. CASE cli.file \notin Files
    <3>1. ASSUME NEW S, Meanwhile(S) PROVE cli'.file = cli.file
      BY <1>0, <3>1, CliFacts DEF Meanwhile
    <3>2. ASSUME Poll PROVE cli'.file = cli.file
      <4>1. \E b : cli' = [cli EXCEPT !.gone = b]
        BY <3>2 DEF Poll
      <4> QED
        BY <1>0, <4>1, CliFacts
    <3>3. ASSUME NEW h \in Files, Daemon(h) \/ RemoteDelete(h) PROVE cli'.file = cli.file
      BY <3>3 DEF Daemon, Upload, UploadEqual, KeepBoth, Hydrate, RemoteDelete
    <3>4. ASSUME NEW h \in Files, NEW e \in Edits, Write(h, e) \/ RemoteEdit(h, e)
          PROVE  cli'.file = cli.file
      BY <3>1, <3>4 DEF Write, RemoteEdit, Make
    <3>5. ASSUME NEW s \in Sids, RemoteRestore(s) PROVE cli'.file = cli.file
      BY <3>1, <3>5 DEF RemoteRestore
    <3>6. cli'.file = cli.file
      BY <1>1, <3>2, <3>3, <3>4, <3>5
    <3> QED
      BY <2>2, <3>6 DEF CliInv
  <2> QED
    BY <2>1, <2>2
<1>2. ASSUME NEW ctx, NEW cmd, NEW pc, Start(cmd, pc, ctx),
             pc \in {"upload", "download", "fetch"}, pc = "upload" => cmd = "keep_local"
      PROVE  CliInv'
  <2>1. cli' = [pc |-> pc, cmd |-> cmd, file |-> ctx[1], sib |-> ctx[2], got |-> None,
                todo |-> {}, since |-> {}, gone |-> FALSE]
    BY <1>2, StartFacts
  <2>2. HasRow(ctx[1]) /\ row' = row
    BY <1>2 DEF Start
  <2>3. ASSUME NEW f \in Files, f = cli'.file PROVE CliAt(f)'
    <3>1. HasRow(f)'
      BY <2>1, <2>2, <2>3 DEF HasRow
    <3> QED
      BY <1>2, <2>1, <3>1 DEF CliAt, Final
  <2> QED
    BY <2>3 DEF CliInv
<1>3. CASE keep_local \/ keep_remote \/ merge
  BY <1>2, <1>3 DEF keep_local, keep_remote, merge
<1>4. CASE CliUpload \/ CliDownload
  <2>1. PICK f \in Files : f = cli.file
    BY <1>0, <1>4 DEF CliOK, Resolving, CliUpload, CliDownload, At
  <2>2. CliAt(f)
    BY <2>1 DEF IInv, CliInv
  <2>3. Go(AfterTransfer) /\ AfterTransfer \in {"stat", "rmcopy"} /\ row' = row
        /\ cli.pc \in Resolving
    BY <1>4 DEF CliUpload, CliDownload, AfterTransfer, At, Resolving
  <2>4. /\ cli'.pc \in {"stat", "rmcopy"} /\ cli'.file = f /\ cli'.gone = cli.gone
    BY <1>0, <2>1, <2>3, CliFacts DEF Go
  <2>5. cache'[f] = remote'[f] /\ cache'[f] # None
    BY <1>0, <1>4, <2>1 DEF CliUpload, CliDownload
  <2>6. C(f)' = R(f)' /\ (HasRow(f)' <=> HasRow(f))
    BY <2>3, <2>5 DEF C, R, HasRow
  <2>7. CliAt(f)'
    BY <2>2, <2>3, <2>4, <2>5, <2>6 DEF CliAt, Final
  <2> QED
    BY <2>4, <2>7 DEF CliInv
<1>5. ASSUME MergeFetch \/ TryMerge \/ MergeClean \/ RemoveCopy \/ RemoveRow \/ FinalStat
      PROVE  CliInv'
  <2>1. PICK f \in Files : f = cli.file
    BY <1>0, <1>5 DEF CliOK, Resolving, Final, MergeFetch, TryMerge, MergeClean, RemoveCopy,
                      RemoveRow, FinalStat, At
  <2>2. CliAt(f)
    BY <2>1 DEF IInv, CliInv
  <2>3. row' = row /\ remote' = remote /\ cli.pc \in Resolving
    BY <1>5 DEF MergeFetch, TryMerge, MergeClean, MergeWrite, RemoveCopy, RemoveRow, FinalStat,
                At, Resolving, Final
  <2>4. R(f)' = R(f) /\ (HasRow(f)' <=> HasRow(f))
    BY <2>3 DEF R, HasRow
  <2>5. CASE MergeFetch
    <3>1. cli' = [cli EXCEPT !.pc = "merge", !.got = remote[f]] /\ remote[f] # None
      BY <2>1, <2>5 DEF MergeFetch
    <3>2. cli'.pc = "merge" /\ cli'.got = R(f) /\ cli'.file = f /\ cli'.gone = cli.gone
      BY <1>0, <2>1, <3>1, GotMoves DEF R
    <3>3. CliAt(f)'
      BY <2>2, <2>3, <2>4, <3>2 DEF CliAt, Final
    <3> QED
      BY <3>2, <3>3 DEF CliInv
  <2>6. CASE TryMerge
    <3>1. PICK pc \in {"clean", "markers"} :
             cli' = [cli EXCEPT !.pc = pc, !.got = cli.got \cup cache[f]]
      BY <2>1, <2>6 DEF TryMerge
    <3>2. cli'.pc = pc /\ cli'.got = cli.got \cup cache[f] /\ cli'.file = f
          /\ cli'.gone = cli.gone /\ cli'.since = cli.since
      BY <1>0, <2>1, <3>1, GotMoves
    <3>3. cache' = cache /\ cache[f] # None /\ cli.pc = "merge" /\ excused' = excused
      BY <2>1, <2>6 DEF TryMerge, At
    <3>4. C(f)' = C(f) /\ C(f) = cache[f]
      BY <1>0, <3>3 DEF C
    <3>5. R(f) \subseteq cli.got \cup C(f) \cup (excused \cup cli.since)
      BY <2>2, <3>3 DEF CliAt
    <3>6. R(f)' \subseteq cli'.got \cup (excused' \cup cli'.since)
          /\ C(f)' \subseteq cli'.got \cup (excused' \cup cli'.since)
      BY <2>4, <3>2, <3>3, <3>4, <3>5
    <3>7. CliAt(f)'
      BY <2>2, <2>3, <2>4, <3>2, <3>6 DEF CliAt, Final
    <3> QED
      BY <3>2, <3>7 DEF CliInv
  <2>7. CASE MergeClean
    <3>1. C(f)' = cli.got /\ cli' = [cli EXCEPT !.pc = "upload", !.got = None]
          /\ cli.pc \in {"clean", "markers"}
      BY <2>1, <2>7, MergeWrites
    <3>2. cli'.pc = "upload" /\ cli'.file = f /\ cli'.gone = cli.gone /\ cli'.since = cli.since
      BY <1>0, <2>1, <3>1, GotMoves
    <3>3. R(f) \subseteq cli.got \cup (excused \cup cli.since)
      BY <2>2, <3>1 DEF CliAt
    <3>4. R(f)' \subseteq C(f)' \cup (excused' \cup cli'.since)
      BY <1>0, <2>4, <3>1, <3>2, <3>3
    <3>5. CliAt(f)'
      BY <2>2, <2>3, <2>4, <3>2, <3>4 DEF CliAt, Final
    <3> QED
      BY <3>2, <3>5 DEF CliInv
  <2>8. CASE RemoveCopy \/ RemoveRow
    <3>1. PICK pc \in {"rmrow", "stat"} : Go(pc) /\ cache' = cache /\ cli.pc \in Final
      BY <2>8 DEF RemoveCopy, RemoveRow, At, Final
    <3>2. cli'.pc = pc /\ cli'.file = f /\ cli'.gone = cli.gone /\ cli'.since = cli.since
      BY <1>0, <2>1, <3>1, CliFacts DEF Go
    <3>3. C(f)' = C(f) /\ cache'[f] = cache[f]
      BY <3>1 DEF C
    <3>4. C(f)' \subseteq R(f)' \cup (excused' \cup cli'.since)
          /\ R(f)' \subseteq C(f)' \cup (excused' \cup cli'.since)
      BY <1>0, <2>2, <2>4, <3>1, <3>2, <3>3 DEF CliAt
    <3>5. CliAt(f)'
      BY <2>2, <2>3, <2>4, <3>1, <3>2, <3>3, <3>4 DEF CliAt
    <3> QED
      BY <3>2, <3>5 DEF CliInv
  <2>9. CASE FinalStat
    <3>1. cli' = [cli EXCEPT !.pc = "set", !.got = remote[f]] /\ remote[f] # None
          /\ cache' = cache /\ cli.pc \in Final /\ excused' = excused
      BY <2>1, <2>9 DEF FinalStat, At, Final
    <3>2. cli'.pc = "set" /\ cli'.got = R(f) /\ cli'.file = f /\ cli'.gone = cli.gone
          /\ cli'.since = cli.since
      BY <1>0, <2>1, <3>1, GotMoves DEF R
    <3>3. C(f)' = C(f) /\ cache'[f] = cache[f]
      BY <3>1 DEF C
    <3>4. C(f) \subseteq R(f) \cup (excused \cup cli.since)
          /\ R(f) \subseteq C(f) \cup (excused \cup cli.since)
      BY <2>2, <3>1 DEF CliAt
    <3>5. CliAt(f)'
      BY <2>2, <2>3, <2>4, <3>1, <3>2, <3>3, <3>4 DEF CliAt
    <3> QED
      BY <3>2, <3>5 DEF CliInv
  <2> QED
    BY <1>5, <2>5, <2>6, <2>7, <2>8, <2>9
<1>6. CASE StatCanonical
  <2>1. PICK f \in Files : f = cli.file
    BY <1>0, <1>6 DEF CliOK, Cleaning, StatCanonical, At
  <2>2. cli' = [cli EXCEPT !.pc = "eqcopy", !.got = remote[f]] /\ remote[f] # None
        /\ remote' = remote
    BY <1>6, <2>1 DEF StatCanonical
  <2>3. cli'.pc = "eqcopy" /\ cli'.got = R(f) /\ cli'.file = f
    BY <1>0, <2>1, <2>2, GotMoves DEF R
  <2>4. R(f)' = R(f)
    BY <2>2 DEF R
  <2>5. CliAt(f)'
    BY <2>3, <2>4 DEF CliAt, Resolving, Final
  <2> QED
    BY <2>3, <2>5 DEF CliInv
<1>7. ASSUME cli' = IdleCli PROVE CliInv'
  BY <1>7, CliElsewhere DEF IdleCli
<1>8. CASE MergeMarkers \/ SetCached \/ Missing \/ CliFails
  BY <1>7, <1>8 DEF MergeMarkers, MergeWrite, SetCached, Missing, CliFails, Bail
<1>9. CASE Collect
  BY <1>9, CliElsewhere DEF Collect, IdleCli
<1>10. CASE CleanupNext
  <2>1. CASE cli.todo = {}
    BY <1>7, <1>10, <2>1 DEF CleanupNext
  <2>2. CASE cli.todo # {}
    <3>1. PICK pc, s, f : pc \in {"next", "eq"} /\ Cleanup(pc, s, f, None)
      BY <1>10, <2>2 DEF CleanupNext
    <3>2. cli'.pc = pc
      BY <1>0, <3>1, CleanupFacts
    <3> QED
      BY <3>1, <3>2, CliElsewhere
  <2> QED
    BY <2>1, <2>2
<1>11. CASE StatCopy \/ StatUnknown \/ CompareBytes \/ CompareFails \/ DropOrphan \/ DropCopy
            \/ DropRow \/ CleanupSkips
  <2>1. \E pc \in {"next", "bytes", "drop", "droprow"} : Go(pc)
    BY <1>11 DEF StatCopy, StatUnknown, CompareBytes, CompareFails, DropOrphan, DropCopy,
                 DropRow, CleanupSkips
  <2>2. cli'.pc \in {"next", "bytes", "drop", "droprow"}
    BY <1>0, <2>1, CliFacts DEF Go
  <2> QED
    BY <2>2, CliElsewhere
<1>12. CASE UNCHANGED vars
  <2>1. CASE cli.file \in Files
    BY <1>12, <2>1, CliUntouched DEF vars
  <2>2. CASE cli.file \notin Files
    BY <1>12, <2>2 DEF CliInv, vars
  <2> QED
    BY <2>1, <2>2
<1> QED
  BY <1>1, <1>3, <1>4, <1>5, <1>6, <1>8, <1>9, <1>10, <1>11, <1>12
  DEF Next, Resolution, Finalize, CleanupStep

\* The copies a command has in hand were listed.
LEMMA CliCopies ==
  ASSUME TypeInv, [Next]_vars
  PROVE  /\ cli'.sib = None \/ cli'.sib = cli.sib \/ cli'.sib \in listed \cup cli.todo
         /\ cli'.todo \subseteq listed \cup cli.todo
         /\ cli'.pc = "drop" => (cli.pc = "drop" /\ cli'.sib = cli.sib) \/ StatCopy \/ CompareBytes
<1> DEFINE Goal == /\ cli'.sib = None \/ cli'.sib = cli.sib \/ cli'.sib \in listed \cup cli.todo
                   /\ cli'.todo \subseteq listed \cup cli.todo
                   /\ cli'.pc = "drop" => (cli.pc = "drop" /\ cli'.sib = cli.sib) \/ StatCopy \/ CompareBytes
<1>0. cli \in CliType /\ listed \in SUBSET Sids
  BY Typed
<1>1. ASSUME cli' = IdleCli PROVE Goal
  BY <1>1 DEF IdleCli
<1>2. ASSUME NEW S, Meanwhile(S) PROVE Goal
  BY <1>0, <1>2, CliFacts DEF Meanwhile
<1>3. ASSUME NEW f \in Files, NEW e \in Edits, Write(f, e) \/ RemoteEdit(f, e) PROVE Goal
  BY <1>2, <1>3 DEF Write, RemoteEdit, Make
<1>4. ASSUME NEW s \in Sids, RemoteRestore(s) PROVE Goal
  BY <1>2, <1>4 DEF RemoteRestore
<1>5. CASE Poll
  <2>1. \E g : cli' = [cli EXCEPT !.gone = g]
    BY <1>5 DEF Poll
  <2>2. PICK g : cli' = [cli EXCEPT !.gone = g]
    BY <2>1
  <2> QED
    BY <1>0, <2>2, CliFacts
<1>6. ASSUME NEW ctx \in Paths, NEW cmd, NEW pc, Start(cmd, pc, ctx),
             pc \in {"upload", "download", "fetch"}
      PROVE  Goal
  <2>1. ctx[2] = None \/ ctx[2] \in listed
    BY <1>6, PathsLead DEF Start
  <2>2. cli' = [pc |-> pc, cmd |-> cmd, file |-> ctx[1], sib |-> ctx[2], got |-> None,
                todo |-> {}, since |-> {}, gone |-> FALSE]
    BY <1>6, StartFacts
  <2> QED
    BY <1>6, <2>1, <2>2
<1>7. CASE keep_local \/ keep_remote \/ merge
  BY <1>6, <1>7 DEF keep_local, keep_remote, merge
<1>8. ASSUME NEW pc, Go(pc), pc = "drop" => StatCopy \/ CompareBytes PROVE Goal
  BY <1>0, <1>8, CliFacts DEF Go
<1>9. CASE CliUpload \/ CliDownload \/ RemoveCopy \/ RemoveRow \/ StatCopy \/ StatUnknown
  BY <1>8, <1>9 DEF CliUpload, CliDownload, AfterTransfer, RemoveCopy, RemoveRow, StatCopy,
                    StatUnknown
<1>10. CASE CompareBytes \/ CompareFails \/ DropOrphan \/ DropCopy \/ DropRow \/ CleanupSkips
  BY <1>8, <1>10 DEF CompareBytes, CompareFails, DropOrphan, DropCopy, DropRow, CleanupSkips
<1>11. ASSUME NEW pc, NEW got, cli' = [cli EXCEPT !.pc = pc, !.got = got], pc # "drop" PROVE Goal
  BY <1>0, <1>11, GotMoves
<1>12. CASE MergeFetch \/ FinalStat \/ StatCanonical
  BY <1>11, <1>12 DEF MergeFetch, FinalStat, StatCanonical
<1>13. CASE TryMerge \/ MergeClean
  BY <1>11, <1>13 DEF TryMerge, MergeClean, MergeWrite
<1>14. CASE MergeMarkers \/ SetCached \/ Missing \/ CliFails
  BY <1>1, <1>14 DEF MergeMarkers, MergeWrite, SetCached, Missing, CliFails, Bail
<1>15. CASE Collect
  BY <1>15 DEF Collect, IdleCli
<1>16. CASE CleanupNext
  <2>1. CASE cli.todo = {}
    BY <1>1, <1>16, <2>1 DEF CleanupNext
  <2>2. CASE cli.todo # {}
    <3>1. Newest(cli.todo) \in cli.todo
      BY <1>0, <2>2, NewestIn DEF CliType
    <3>2. PICK pc, s, f : pc \in {"next", "eq"} /\ Cleanup(pc, s, f, None) /\ s = Newest(cli.todo)
      BY <1>16, <2>2 DEF CleanupNext
    <3>3. cli'.pc = pc /\ cli'.sib = s /\ cli'.todo = cli.todo \ {s}
      BY <1>0, <3>2, CleanupFacts
    <3> QED
      BY <3>1, <3>2, <3>3
  <2> QED
    BY <2>1, <2>2
<1>17. CASE UNCHANGED cli
  BY <1>17
<1> QED
  BY <1>3, <1>4, <1>5, <1>7, <1>9, <1>10, <1>12, <1>13, <1>14, <1>15, <1>16, <1>17, CliFrame
  DEF CliWrites

LEMMA FreshStep == ASSUME IInv, [Next]_vars PROVE Fresh'
<1>0. /\ copies \in [Sids -> OptContents] /\ stamp \in Nat /\ Fresh /\ TypeInv
      /\ listed \in SUBSET Sids /\ cli \in CliType
      /\ \A s \in Sids : s[2] \in Nat
  BY Typed, StampsDomain DEF IInv, TypeInv, CountsOK, Sids
<1>1. /\ stamp <= stamp' /\ stamp' \in Nat
      /\ \A s \in listed' : s[2] <= stamp'
      /\ \A s \in Sids : stamp' < s[2] => copies'[s] = None
  <2>1. ASSUME NEW f \in Files, KeepBoth(f)
        PROVE  /\ stamp <= stamp' /\ stamp' \in Nat
               /\ \A s \in listed' : s[2] <= stamp'
               /\ \A s \in Sids : stamp' < s[2] => copies'[s] = None
    <3>1. /\ stamp' = stamp + 1 /\ <<f, stamp'>> \in Sids
          /\ \A s \in Sids : s # <<f, stamp'>> => copies'[s] = copies[s]
      BY <2>1, KeepBothMoves
    <3>2. listed' = listed \cup {<<f, stamp'>>}
      BY <2>1 DEF KeepBoth
    <3>3. \A s \in listed' : s[2] <= stamp'
      BY <1>0, <3>1, <3>2 DEF Fresh
    <3>4. ASSUME NEW s \in Sids, stamp' < s[2] PROVE copies'[s] = None
      BY <1>0, <3>1, <3>4 DEF Fresh
    <3> QED
      BY <1>0, <3>1, <3>3, <3>4
  <2>2. ASSUME stamp' = stamp, listed' \subseteq listed,
               \A s \in Sids : copies'[s] = None \/ copies'[s] = copies[s]
        PROVE  /\ stamp <= stamp' /\ stamp' \in Nat
               /\ \A s \in listed' : s[2] <= stamp'
               /\ \A s \in Sids : stamp' < s[2] => copies'[s] = None
    BY <1>0, <2>2 DEF Fresh
  <2>3. CASE Poll \/ RemoveRow \/ DropOrphan \/ DropRow
    BY <2>2, <2>3 DEF Poll, RemoveRow, DropOrphan, DropRow
  <2>4. CASE RemoveCopy \/ DropCopy
    <3>1. copies' = [copies EXCEPT ![cli.sib] = None] /\ listed' = listed /\ stamp' = stamp
      BY <2>4 DEF RemoveCopy, DropCopy
    <3> QED
      BY <1>0, <2>2, <3>1
  <2>5. CASE UNCHANGED <<copies, listed, stamp>>
    BY <2>2, <2>5
  <2> QED
    BY <2>1, <2>3, <2>4, <2>5, CopiesFrame DEF CopiesWrites
<1>2. \A s \in listed \cup cli.todo : s \in Sids /\ s[2] <= stamp
  BY <1>0 DEF Fresh, CliType
<1>3. \A s \in cli'.todo : s[2] <= stamp'
  BY <1>0, <1>1, <1>2, CliCopies
<1>4. cli'.sib # None => cli'.sib[2] <= stamp'
  <2>1. cli.sib # None => cli.sib \in Sids /\ cli.sib[2] <= stamp
    BY <1>0 DEF Fresh, CliType
  <2> QED
    BY <1>0, <1>1, <1>2, <2>1, CliCopies
<1> QED
  BY <1>1, <1>3, <1>4 DEF Fresh

\* An edit that is somewhere stays somewhere, unless it is excused or its copy
\* is dropped as equal.
LEMMA HeldStays ==
  ASSUME IInv, [Next]_vars, ~DropCopy, NEW e, e \notin excused',
         NEW s, s \in Sids => s[2] <= stamp, HeldBeside(e, s)
  PROVE  HeldBeside(e, s)'
<1>1. ASSUME NEW f \in Files, e \in R(f) PROVE HeldBeside(e, s)'
  BY <1>1, RemoteKeeps DEF HeldBeside
<1>2. ASSUME NEW f \in Files, e \in C(f) PROVE HeldBeside(e, s)'
  <2>1. CASE KeepBoth(f)
    <3>1. /\ <<f, stamp'>> \in Sids /\ stamp' = stamp + 1 /\ stamp \in Nat
          /\ EditsOf(copies'[<<f, stamp'>>]) = C(f)
      BY <2>1, KeepBothMoves
    <3>2. <<f, stamp'>> # s
      BY <3>1
    <3> QED
      BY <1>2, <3>1, <3>2 DEF HeldBeside
  <2>2. CASE e \in C(f)' \cup R(f)'
    BY <2>2 DEF HeldBeside
  <2> QED
    BY <1>2, <2>1, <2>2, CacheKeeps
<1>3. ASSUME NEW t \in Sids, t # s, e \in EditsOf(copies[t]) PROVE HeldBeside(e, s)'
  <2>0. copies \in [Sids -> OptContents]
    BY Typed DEF IInv
  <2>1. e \in EditsOf(copies'[t])
    <3>1. ASSUME NEW f \in Files, KeepBoth(f) PROVE e \in EditsOf(copies'[t])
      <4>1. t # <<f, stamp'>>
        BY <1>3, <3>1, KeepBothMoves DEF EditsOf
      <4> QED
        BY <1>3, <3>1, <4>1, KeepBothMoves
    <3>2. CASE RemoveCopy
      <4>1. t # cli.sib
        BY <1>3, <3>2 DEF RemoveCopy, Excuse
      <4>2. copies'[t] = copies[t]
        BY <2>0, <3>2, <4>1 DEF RemoveCopy
      <4> QED
        BY <1>3, <4>2
    <3>3. CASE UNCHANGED copies
      BY <1>3, <3>3
    <3>4. CASE Poll \/ RemoveRow \/ DropOrphan \/ DropRow
      BY <3>3, <3>4 DEF Poll, RemoveRow, DropOrphan, DropRow
    <3> QED
      BY <3>1, <3>2, <3>3, <3>4, CopiesFrame DEF CopiesWrites
  <2> QED
    BY <1>3, <2>1 DEF HeldBeside
<1> QED
  BY <1>1, <1>2, <1>3 DEF HeldBeside

LEMMA EqualStep == ASSUME IInv, [Next]_vars PROVE Equal'
<1>0. /\ cache \in [Files -> OptContents] /\ remote \in [Files -> OptContents]
      /\ copies \in [Sids -> OptContents] /\ CliOK /\ TypeInv /\ cli \in CliType
      /\ \A c \in OptContents : c # None => EditsOf(c) = c
      /\ excused \subseteq excused' /\ Fresh /\ Equal
  BY Typed, HistoryTypeStep DEF IInv, TypeInv
<1> SUFFICES ASSUME cli'.pc = "drop", NEW e \in EditsOf(copies'[cli'.sib]) \ excused'
             PROVE  HeldBeside(e, cli.sib)'
  BY DEF Equal
<1>1. CASE cli.pc = "drop" /\ cli'.sib = cli.sib
  <2>1. PICK s \in Sids : s = cli.sib
    BY <1>0, <1>1 DEF CliOK, Cleaning
  <2>2. ~DropCopy
    <3>1. DropCopy => cli'.pc = "droprow"
      BY <1>0, CliFacts DEF DropCopy, Go
    <3> QED
      BY <3>1
  <2>3. s[2] <= stamp
    BY <1>0, <2>1, ContentsFacts DEF Fresh
  <2>4. e \in EditsOf(copies[s])
    <3>1. ASSUME NEW f \in Files, KeepBoth(f) PROVE copies'[s] = copies[s]
      <4>1. stamp' = stamp + 1 /\ stamp \in Nat
        BY <3>1, KeepBothMoves
      <4>2. s # <<f, stamp'>>
        BY <2>3, <4>1
      <4> QED
        BY <3>1, <4>2, KeepBothMoves
    <3>2. ~RemoveCopy
      BY <1>1 DEF RemoveCopy, At
    <3>3. ASSUME UNCHANGED copies PROVE copies'[s] = copies[s]
      BY <3>3
    <3>4. ASSUME Poll \/ RemoveRow \/ DropOrphan \/ DropRow PROVE copies'[s] = copies[s]
      BY <3>3, <3>4 DEF Poll, RemoveRow, DropOrphan, DropRow
    <3>5. copies'[s] = copies[s]
      BY <2>2, <3>1, <3>2, <3>3, <3>4, CopiesFrame DEF CopiesWrites
    <3> QED
      BY <1>1, <2>1, <3>5
  <2>5. HeldBeside(e, s)
    BY <1>0, <1>1, <2>1, <2>4 DEF Equal
  <2>6. HeldBeside(e, s)'
    BY <2>2, <2>3, <2>5, HeldStays
  <2> QED
    BY <1>1, <2>1, <2>6 DEF HeldBeside
<1>2. CASE StatCopy \/ CompareBytes
  <2>1. PICK f \in Files : f = cli.file
    BY <1>0, <1>2 DEF StatCopy, CompareBytes, At, CliOK, Cleaning
  <2>2. PICK pc : Go(pc) /\ cache' = cache /\ remote' = remote /\ copies' = copies /\ excused' = excused
                  /\ copies[cli.sib] # None
    BY <1>2 DEF StatCopy, CompareBytes
  <2>3. cli'.sib = cli.sib /\ cli'.pc = pc
    BY <1>0, <2>2, CliFacts DEF Go
  <2>4. cli.sib \in Sids
    BY <1>0, <1>2 DEF StatCopy, CompareBytes, At, CliOK, Cleaning
  <2>5. EditsOf(copies[cli.sib]) = copies[cli.sib]
    BY <1>0, <2>2, <2>4
  <2>6. e \in copies[cli.sib] /\ e \notin excused
    BY <2>2, <2>3, <2>5
  <2>7. e \in R(f) \/ e \in C(f)
    <3>1. CASE StatCopy
      <4>1. cli.got \subseteq R(f) \cup excused
        BY <2>1, <3>1 DEF StatCopy, At, IInv, CliInv, CliAt
      <4>2. Go("next") \/ cli.got = copies[cli.sib]
        BY <3>1 DEF StatCopy
      <4>3. cli.got = copies[cli.sib]
        BY <1>0, <4>2, CliFacts DEF Go
      <4> QED
        BY <2>6, <4>1, <4>3
    <3>2. CASE CompareBytes
      <4>1. Go("next") \/ Canonical = copies[cli.sib]
        BY <3>2 DEF CompareBytes
      <4>2. Canonical = copies[cli.sib]
        BY <1>0, <4>1, CliFacts DEF Go
      <4>3. copies[cli.sib] = cache[f] \/ copies[cli.sib] = remote[f]
        BY <2>1, <4>2 DEF Canonical
      <4> QED
        BY <1>0, <2>2, <2>6, <4>3 DEF C, R
    <3> QED
      BY <1>2, <3>1, <3>2
  <2>8. R(f)' = R(f) /\ C(f)' = C(f)
    BY <2>2 DEF R, C
  <2> QED
    BY <2>7, <2>8 DEF HeldBeside
<1> QED
  BY <1>0, <1>1, <1>2, CliCopies

LEMMA KeptStep == ASSUME IInv, [Next]_vars PROVE Kept'
<1>0. /\ cache \in [Files -> OptContents] /\ remote \in [Files -> OptContents]
      /\ copies \in [Sids -> OptContents] /\ CliOK /\ TypeInv /\ cli \in CliType
      /\ excused \subseteq excused' /\ Kept /\ Equal
      /\ \A c \in OptContents : EditsOf(c) \in SUBSET Edits
  BY Typed, HistoryTypeStep DEF IInv, TypeInv
<1> SUFFICES ASSUME NEW e \in made' \ excused' PROVE HeldBeside(e, None)'
  BY DEF Kept
<1>1. CASE e \notin made
  <2>1. ASSUME NEW f \in Files, NEW d \in Edits, Write(f, d) \/ RemoteEdit(f, d)
        PROVE  HeldBeside(e, None)'
    <3>1. d = e
      BY <1>1, <2>1 DEF Write, RemoteEdit, Make
    <3>2. CASE Write(f, d)
      <4>1. cache'[f] = cache[f] \cup {e} /\ cache[f] # None
        BY <1>0, <3>1, <3>2 DEF Write
      <4>2. cache[f] \cup {e} # None
        BY <1>0, <2>1, <3>1, <4>1, ContentsFacts DEF Contents
      <4>3. e \in C(f)'
        BY <4>1, <4>2 DEF C, EditsOf
      <4> QED
        BY <4>3 DEF HeldBeside
    <3>3. CASE RemoteEdit(f, d)
      <4>1. remote'[f] = EditsOf(remote[f]) \cup {e}
        BY <1>0, <3>1, <3>3 DEF RemoteEdit
      <4>2. EditsOf(remote[f]) \cup {e} # None
        BY <1>0, <2>1, <3>1, ContentsFacts DEF Contents
      <4>3. e \in R(f)'
        BY <4>1, <4>2 DEF R, EditsOf
      <4> QED
        BY <4>3 DEF HeldBeside
    <3> QED
      BY <2>1, <3>2, <3>3
  <2>2. CASE UNCHANGED made
    BY <1>1, <2>2
  <2>3. CASE Poll \/ CliUpload \/ CliDownload \/ MergeClean \/ MergeMarkers \/ RemoveCopy
             \/ SetCached
    BY <2>2, <2>3 DEF Poll, CliUpload, CliDownload, MergeClean, MergeMarkers, MergeWrite,
                      RemoveCopy, SetCached
  <2>4. ASSUME NEW f \in Files, RemoteDelete(f) PROVE HeldBeside(e, None)'
    BY <2>2, <2>4 DEF RemoteDelete
  <2>5. ASSUME NEW s \in Sids, RemoteRestore(s) PROVE HeldBeside(e, None)'
    BY <2>2, <2>5 DEF RemoteRestore
  <2> QED
    BY <2>1, <2>2, <2>3, <2>4, <2>5, HistoryFrame DEF HistoryWrites
<1>2. CASE e \in made
  <2>1. HeldBeside(e, None)
    BY <1>0, <1>2 DEF Kept
  <2>2. None \notin Sids
    BY ContentsFacts
  <2>3. CASE ~DropCopy
    BY <2>1, <2>2, <2>3, HeldStays
  <2>4. CASE DropCopy
    <3>1. cli.pc = "drop" /\ copies' = [copies EXCEPT ![cli.sib] = None] /\ cli.sib \in Sids
          /\ cache' = cache /\ remote' = remote /\ excused' = excused
      BY <1>0, <2>4 DEF DropCopy, At, CliOK, Cleaning
    <3>2. HeldBeside(e, cli.sib)
      BY <1>0, <2>1, <3>1 DEF HeldBeside, Equal
    <3>3. CASE \E f \in Files : e \in C(f) \/ e \in R(f)
      BY <3>1, <3>3 DEF HeldBeside, C, R
    <3>4. CASE \E t \in Sids : t # cli.sib /\ e \in EditsOf(copies[t])
      <4>1. PICK t \in Sids : t # cli.sib /\ e \in EditsOf(copies[t])
        BY <3>4
      <4>2. copies'[t] = copies[t]
        BY <1>0, <3>1, <4>1
      <4> QED
        BY <2>2, <4>1, <4>2 DEF HeldBeside
    <3> QED
      BY <3>2, <3>3, <3>4 DEF HeldBeside
  <2> QED
    BY <2>3, <2>4
<1> QED
  BY <1>1, <1>2

\* Only edits that were made are anywhere.
LEMMA AllMadeStep == ASSUME IInv, [Next]_vars PROVE AllMade'
<1>0. /\ cache \in [Files -> OptContents] /\ remote \in [Files -> OptContents]
      /\ copies \in [Sids -> OptContents] /\ row \in [Files -> RowType]
      /\ cli \in CliType /\ CliOK /\ TypeInv /\ AllMade
      /\ \A c \in OptContents : c # None => EditsOf(c) = c
      /\ EditsOf(None) = {}
  BY Typed DEF IInv, TypeInv, EditsOf
<1>1. made \subseteq made'
  <2>1. ASSUME NEW f \in Files, NEW d \in Edits, Write(f, d) \/ RemoteEdit(f, d)
        PROVE  made \subseteq made'
    BY <2>1 DEF Write, RemoteEdit, Make
  <2>2. ASSUME NEW f \in Files, RemoteDelete(f) PROVE made \subseteq made'
    BY <2>2 DEF RemoteDelete
  <2>3. ASSUME NEW s \in Sids, RemoteRestore(s) PROVE made \subseteq made'
    BY <2>3 DEF RemoteRestore
  <2>4. CASE Poll \/ CliUpload \/ CliDownload \/ MergeClean \/ MergeMarkers \/ RemoveCopy
             \/ SetCached
    BY <2>4 DEF Poll, CliUpload, CliDownload, MergeClean, MergeMarkers, MergeWrite,
                RemoveCopy, SetCached
  <2>5. CASE UNCHANGED <<made, excused>>
    BY <2>5
  <2> QED
    BY <2>1, <2>2, <2>3, <2>4, <2>5, HistoryFrame DEF HistoryWrites
<1>2. /\ \A f \in Files : EditsOf(cache[f]) \subseteq made /\ EditsOf(remote[f]) \subseteq made
                          /\ EditsOf(row[f].etag) \subseteq made
      /\ \A s \in Sids : EditsOf(copies[s]) \subseteq made
      /\ EditsOf(cli.got) \subseteq made /\ cli.since \subseteq made /\ excused \subseteq made
  BY <1>0 DEF AllMade, C, R, T
<1>3. cli.pc \in {"merge", "clean", "markers", "set", "eqcopy"} => cli.got = EditsOf(cli.got)
  BY <1>0, ContentsFacts DEF CliOK, OptContents
<1>4. ASSUME NEW f \in Files PROVE EditsOf(cache'[f]) \subseteq made'
  <2>1. ASSUME NEW h \in Files, NEW d \in Edits, Write(h, d) PROVE EditsOf(cache'[f]) \subseteq made'
    <3>1. d \in made' /\ cache[h] # None
      BY <2>1 DEF Write, Make
    <3>2. CASE f = h
      <4>1. cache'[f] = cache[f] \cup {d}
        BY <1>0, <2>1, <3>2 DEF Write
      <4>2. cache[f] \subseteq made
        BY <1>0, <1>2, <3>1, <3>2
      <4> QED
        BY <1>1, <3>1, <4>1, <4>2 DEF EditsOf
    <3>3. CASE f # h
      <4>1. cache'[f] = cache[f]
        BY <1>0, <2>1, <3>3 DEF Write
      <4> QED
        BY <1>1, <1>2, <4>1
    <3> QED
      BY <3>2, <3>3
  <2>2. ASSUME NEW h \in Files, KeepBoth(h) \/ Hydrate(h) PROVE EditsOf(cache'[f]) \subseteq made'
    <3>1. cache'[f] = cache[f] \/ cache'[f] = remote[f]
      BY <1>0, <2>2 DEF KeepBoth, Hydrate
    <3> QED
      BY <1>1, <1>2, <3>1
  <2>3. CASE Poll
    <3>1. cache'[f] = cache[f] \/ cache'[f] = None
      BY <2>3, PollSweeps
    <3> QED
      BY <1>0, <1>1, <1>2, <3>1
  <2>4. CASE CliDownload
    <3>1. cache'[f] = cache[f] \/ cache'[f] = remote[f]
      BY <1>0, <2>4 DEF CliDownload
    <3> QED
      BY <1>1, <1>2, <3>1
  <2>5. CASE MergeClean \/ MergeMarkers
    <3>1. cache'[f] = cache[f] \/ cache'[f] = cli.got
      BY <1>0, <2>5 DEF MergeClean, MergeMarkers, MergeWrite
    <3> QED
      BY <1>1, <1>2, <3>1
  <2>6. CASE UNCHANGED cache
    BY <1>1, <1>2, <2>6
  <2> QED
    BY <2>1, <2>2, <2>3, <2>4, <2>5, <2>6, CacheFrame DEF CacheWrites
<1>5. ASSUME NEW f \in Files PROVE EditsOf(remote'[f]) \subseteq made'
  <2>1. ASSUME NEW h \in Files, NEW d \in Edits, RemoteEdit(h, d) PROVE EditsOf(remote'[f]) \subseteq made'
    <3>1. d \in made'
      BY <2>1 DEF RemoteEdit, Make
    <3>2. remote'[f] = remote[f] \/ remote'[f] = EditsOf(remote[f]) \cup {d}
      BY <1>0, <2>1 DEF RemoteEdit
    <3>3. EditsOf(remote[f]) \subseteq made /\ EditsOf(remote'[f]) \subseteq EditsOf(remote[f]) \cup {d}
      BY <1>2, <3>2 DEF EditsOf
    <3> QED
      BY <1>1, <3>1, <3>3
  <2>2. ASSUME NEW h \in Files, Upload(h) PROVE EditsOf(remote'[f]) \subseteq made'
    <3>1. remote'[f] = remote[f] \/ remote'[f] = cache[f]
      BY <1>0, <2>2 DEF Upload
    <3> QED
      BY <1>1, <1>2, <3>1
  <2>3. ASSUME NEW h \in Files, RemoteDelete(h) PROVE EditsOf(remote'[f]) \subseteq made'
    <3>1. remote'[f] = remote[f] \/ remote'[f] = None
      BY <1>0, <2>3 DEF RemoteDelete
    <3> QED
      BY <1>0, <1>1, <1>2, <3>1
  <2>4. ASSUME NEW s \in Sids, RemoteRestore(s) PROVE EditsOf(remote'[f]) \subseteq made'
    <3>1. remote'[f] = remote[f] \/ remote'[f] = copies[s]
      BY <1>0, <2>4 DEF RemoteRestore
    <3> QED
      BY <1>1, <1>2, <3>1
  <2>5. CASE CliUpload
    <3>1. remote'[f] = remote[f] \/ remote'[f] = cache[f]
      BY <1>0, <2>5 DEF CliUpload
    <3> QED
      BY <1>1, <1>2, <3>1
  <2>6. CASE UNCHANGED remote
    BY <1>1, <1>2, <2>6
  <2> QED
    BY <2>1, <2>2, <2>3, <2>4, <2>5, <2>6, RemoteFrame DEF RemoteWrites
<1>6. ASSUME NEW f \in Files PROVE EditsOf(row'[f].etag) \subseteq made'
  <2>0. \A s, c : Row(s, c).etag = c
    BY DEF Row
  <2>1. ASSUME \/ row'[f].etag = row[f].etag \/ row'[f].etag = cache[f]
               \/ row'[f].etag = remote[f] \/ row'[f].etag = None \/ row'[f].etag = cli.got
        PROVE  EditsOf(row'[f].etag) \subseteq made'
    BY <1>0, <1>1, <1>2, <2>1
  <2>2. ASSUME NEW h \in Files, NEW d \in Edits, Write(h, d) PROVE EditsOf(row'[f].etag) \subseteq made'
    <3>1. row'[f].etag = row[f].etag
      BY <1>0, <2>2 DEF Write, RowType
    <3> QED
      BY <2>1, <3>1
  <2>3. ASSUME NEW h \in Files, Upload(h) \/ UploadEqual(h) \/ KeepBoth(h)
        PROVE  EditsOf(row'[f].etag) \subseteq made'
    <3>1. row'[f] = row[f] \/ row'[f] = Row("cached", cache[f]) \/ row'[f] = Row("cached", remote[f])
      BY <1>0, <2>3 DEF Upload, UploadEqual, KeepBoth
    <3> QED
      BY <2>0, <2>1, <3>1
  <2>4. ASSUME NEW h \in Files, Hydrate(h) PROVE EditsOf(row'[f].etag) \subseteq made'
    <3>1. row'[f].etag = row[f].etag
      BY <1>0, <2>4 DEF Hydrate, RowType
    <3> QED
      BY <2>1, <3>1
  <2>5. CASE Poll
    <3>1. row'[f] = Polled(f)
      BY <2>5 DEF Poll
    <3>2. \/ row'[f].etag = row[f].etag \/ row'[f].etag = remote[f] \/ row'[f].etag = None
      BY <2>0, <3>1 DEF Polled, NoRow
    <3> QED
      BY <2>1, <3>2
  <2>6. CASE SetCached
    <3>1. row'[f] = row[f] \/ row'[f] = Row("cached", cli.got)
      BY <1>0, <2>6 DEF SetCached
    <3> QED
      BY <2>0, <2>1, <3>1
  <2>7. CASE UNCHANGED row
    BY <2>1, <2>7
  <2> QED
    BY <2>2, <2>3, <2>4, <2>5, <2>6, <2>7, RowFrame DEF RowWrites
<1>7. ASSUME NEW s \in Sids PROVE EditsOf(copies'[s]) \subseteq made'
  <2>1. ASSUME NEW h \in Files, KeepBoth(h) PROVE EditsOf(copies'[s]) \subseteq made'
    <3>1. EditsOf(copies'[s]) = EditsOf(copies[s]) \/ EditsOf(copies'[s]) = EditsOf(cache[h])
      BY <2>1, KeepBothMoves DEF C
    <3> QED
      BY <1>1, <1>2, <3>1
  <2>2. CASE RemoveCopy \/ DropCopy
    <3>1. copies'[s] = copies[s] \/ copies'[s] = None
      BY <1>0, <2>2 DEF RemoveCopy, DropCopy
    <3> QED
      BY <1>0, <1>1, <1>2, <3>1
  <2>3. CASE UNCHANGED copies
    BY <1>1, <1>2, <2>3
  <2>4. CASE Poll \/ RemoveRow \/ DropOrphan \/ DropRow
    BY <2>3, <2>4 DEF Poll, RemoveRow, DropOrphan, DropRow
  <2> QED
    BY <2>1, <2>2, <2>3, <2>4, CopiesFrame DEF CopiesWrites
<1>8. excused' \subseteq made'
  <2>1. ASSUME NEW S, Excuse(S), S \subseteq made PROVE excused' \subseteq made'
    BY <1>1, <1>2, <2>1 DEF Excuse
  <2>2. ASSUME NEW h \in Files, NEW d \in Edits, Write(h, d) \/ RemoteEdit(h, d)
        PROVE  excused' \subseteq made'
    BY <1>1, <1>2, <2>2 DEF Write, RemoteEdit
  <2>3. ASSUME NEW h \in Files, RemoteDelete(h) PROVE excused' \subseteq made'
    <3>1. remote[h] = EditsOf(remote[h]) /\ Excuse(remote[h])
      BY <1>0, <2>3 DEF RemoteDelete
    <3> QED
      BY <1>2, <2>1, <3>1
  <2>4. ASSUME NEW s \in Sids, RemoteRestore(s) PROVE excused' \subseteq made'
    <3>1. s[1] \in Files
      BY DEF Sids
    <3> QED
      BY <1>2, <2>1, <2>4, <3>1 DEF RemoteRestore
  <2>5. CASE Poll
    <3> DEFINE G == {g \in Files : row[g].status = "dirty" /\ row'[g].etag # row[g].etag}
               U == UNION {EditsOf(remote[f]) \ EditsOf(cache[f]) : f \in G}
    <3>1. U \subseteq made
      BY <1>2
    <3>2. Excuse(U)
      BY <2>5 DEF Poll
    <3> HIDE DEF U
    <3> QED
      BY <2>1, <3>1, <3>2
  <2>6. ASSUME cli.file \in Files, CliUpload \/ CliDownload \/ MergeClean \/ MergeMarkers \/ SetCached
        PROVE  excused' \subseteq made'
    <3>1. CASE CliUpload
      BY <1>2, <2>1, <2>6, <3>1 DEF CliUpload, Overwritten
    <3>2. CASE CliDownload
      BY <1>2, <2>1, <2>6, <3>2 DEF CliDownload
    <3>3. CASE MergeClean \/ MergeMarkers
      <4> DEFINE S == ((EditsOf(cache[cli.file]) \ cli.got) \cap cli.since)
                        \cup (IF row[cli.file].status = "dirty" THEN {}
                              ELSE cli.got \ EditsOf(remote[cli.file]))
      <4>1. cli.got \subseteq made
        BY <1>2, <1>3, <3>3 DEF MergeClean, MergeMarkers, At
      <4>2. S \subseteq made
        BY <1>2, <2>6, <4>1
      <4>3. Excuse(S)
        BY <3>3 DEF MergeClean, MergeMarkers, MergeWrite
      <4> HIDE DEF S
      <4> QED
        BY <2>1, <4>2, <4>3
    <3>4. CASE SetCached
      <4> DEFINE S == IF cli.gone THEN {}
                      ELSE cli.since \cap ((EditsOf(cache[cli.file]) \ EditsOf(cli.got))
                                             \cup (EditsOf(cli.got) \ EditsOf(cache[cli.file])))
      <4>1. S \subseteq made
        BY <1>2
      <4>2. Excuse(S)
        BY <3>4 DEF SetCached
      <4> HIDE DEF S
      <4> QED
        BY <2>1, <4>1, <4>2
    <3> QED
      BY <2>6, <3>1, <3>2, <3>3, <3>4
  <2>7. CliUpload \/ CliDownload \/ MergeClean \/ MergeMarkers \/ SetCached => cli.file \in Files
    BY <1>0 DEF CliUpload, CliDownload, MergeClean, MergeMarkers, SetCached, At, CliOK, Resolving,
                Final
  <2>8. CASE RemoveCopy
    <3>1. cli.sib \in Sids
      BY <1>0, <2>8 DEF RemoveCopy, At, CliOK
    <3> QED
      BY <1>2, <2>1, <2>8, <3>1 DEF RemoveCopy
  <2>9. CASE UNCHANGED <<made, excused>>
    BY <1>1, <1>2, <2>9
  <2> QED
    BY <2>2, <2>3, <2>4, <2>5, <2>6, <2>7, <2>8, <2>9, HistoryFrame DEF HistoryWrites
<1>9. EditsOf(cli'.got) \subseteq made' /\ cli'.since \subseteq made'
  <2>0. ASSUME \/ cli'.got = cli.got \/ cli'.got = None
               \/ \E f \in Files : cli'.got = remote[f]
               \/ \E f \in Files : cli.got # None /\ cli.pc = "merge" /\ cli'.got = cli.got \cup cache[f] /\ cache[f] # None,
               \/ cli'.since \subseteq cli.since
               \/ \E e \in made' : cli'.since = cli.since \cup {e}
               \/ \E s \in Sids : copies[s] # None /\ cli'.since = cli.since \cup copies[s]
        PROVE  EditsOf(cli'.got) \subseteq made' /\ cli'.since \subseteq made'
    <3>1. EditsOf(cli'.got) \subseteq made'
      <4>1. CASE \E f \in Files : cli.got # None /\ cli.pc = "merge" /\ cli'.got = cli.got \cup cache[f] /\ cache[f] # None
        <5>1. PICK f \in Files : cli.got # None /\ cli.pc = "merge" /\ cli'.got = cli.got \cup cache[f] /\ cache[f] # None
          BY <4>1
        <5>2. cli.got \subseteq made /\ cache[f] \subseteq made
          BY <1>0, <1>2, <1>3, <5>1
        <5>3. cli'.got \subseteq made
          BY <5>1, <5>2
        <5> QED
          BY <1>1, <5>3 DEF EditsOf
      <4> QED
        BY <1>0, <1>1, <1>2, <2>0, <4>1
    <3>2. \A s \in Sids : copies[s] # None => copies[s] \subseteq made
      BY <1>0, <1>2
    <3>3. cli'.since \subseteq made'
      BY <1>1, <1>2, <2>0, <3>2
    <3> QED
      BY <3>1, <3>3
  <2> DEFINE Goal == EditsOf(cli'.got) \subseteq made' /\ cli'.since \subseteq made'
  <2>1. ASSUME cli' = IdleCli PROVE Goal
    BY <2>0, <2>1 DEF IdleCli
  <2>2. ASSUME NEW S, Meanwhile(S)
        PROVE  cli'.got = cli.got /\ (cli'.since = cli.since \/ cli'.since = cli.since \cup S)
    BY <1>0, <2>2, CliFacts DEF Meanwhile
  <2>3. ASSUME NEW f \in Files, NEW e \in Edits, Write(f, e) \/ RemoteEdit(f, e) PROVE Goal
    <3>1. Meanwhile({e}) /\ e \in made'
      BY <2>3 DEF Write, RemoteEdit, Make
    <3>2. cli'.got = cli.got /\ (cli'.since = cli.since \/ cli'.since = cli.since \cup {e})
      BY <2>2, <3>1
    <3> QED
      BY <2>0, <3>1, <3>2
  <2>4. ASSUME NEW s \in Sids, RemoteRestore(s) PROVE Goal
    <3>1. Meanwhile(copies[s]) /\ copies[s] # None
      BY <2>4 DEF RemoteRestore
    <3>2. cli'.got = cli.got /\ (cli'.since = cli.since \/ cli'.since = cli.since \cup copies[s])
      BY <2>2, <3>1
    <3> QED
      BY <2>0, <3>1, <3>2
  <2>5. CASE Poll
    <3>1. \E g : cli' = [cli EXCEPT !.gone = g]
      BY <2>5 DEF Poll
    <3>2. cli'.got = cli.got /\ cli'.since = cli.since
      BY <1>0, <3>1, CliFacts
    <3> QED
      BY <2>0, <3>2
  <2>6. CASE keep_local \/ keep_remote \/ merge
    <3>1. \E cmd, pc, ctx : Start(cmd, pc, ctx)
      BY <2>6 DEF keep_local, keep_remote, merge
    <3>2. cli'.got = None /\ cli'.since = {}
      BY <3>1, StartFacts
    <3> QED
      BY <2>0, <3>2
  <2>7. ASSUME NEW pc, Go(pc) PROVE Goal
    <3>1. cli'.got = cli.got /\ cli'.since = cli.since
      BY <1>0, <2>7, CliFacts DEF Go
    <3> QED
      BY <2>0, <3>1
  <2>8. CASE CliUpload \/ CliDownload \/ RemoveCopy \/ RemoveRow \/ StatCopy \/ StatUnknown
    BY <2>7, <2>8 DEF CliUpload, CliDownload, RemoveCopy, RemoveRow, StatCopy, StatUnknown
  <2>9. CASE CompareBytes \/ CompareFails \/ DropOrphan \/ DropCopy \/ DropRow \/ CleanupSkips
    BY <2>7, <2>9 DEF CompareBytes, CompareFails, DropOrphan, DropCopy, DropRow, CleanupSkips
  <2>10. CASE MergeFetch \/ FinalStat \/ StatCanonical
    <3>1. cli.file \in Files
      BY <1>0, <2>10 DEF MergeFetch, FinalStat, StatCanonical, At, CliOK, Resolving, Final, Cleaning
    <3>2. PICK pc : cli' = [cli EXCEPT !.pc = pc, !.got = remote[cli.file]]
      BY <2>10 DEF MergeFetch, FinalStat, StatCanonical
    <3>3. cli'.got = remote[cli.file] /\ cli'.since = cli.since
      BY <1>0, <3>2, GotMoves
    <3> QED
      BY <2>0, <3>1, <3>3
  <2>11. CASE TryMerge
    <3>1. cli.file \in Files /\ cache[cli.file] # None /\ cli.pc = "merge" /\ cli.got # None
      BY <1>0, <2>11, ContentsFacts DEF TryMerge, At, CliOK, Resolving
    <3>2. PICK pc : cli' = [cli EXCEPT !.pc = pc, !.got = cli.got \cup cache[cli.file]]
      BY <2>11 DEF TryMerge
    <3>3. cli'.got = cli.got \cup cache[cli.file] /\ cli'.since = cli.since
      BY <1>0, <3>2, GotMoves
    <3> QED
      BY <2>0, <3>1, <3>3
  <2>12. CASE MergeClean
    <3>1. cli' = [cli EXCEPT !.pc = "upload", !.got = None]
      BY <2>12 DEF MergeClean, MergeWrite
    <3>2. cli'.got = None /\ cli'.since = cli.since
      BY <1>0, <3>1, GotMoves
    <3> QED
      BY <2>0, <3>2
  <2>13. CASE MergeMarkers \/ SetCached \/ Missing \/ CliFails
    BY <2>1, <2>13 DEF MergeMarkers, MergeWrite, SetCached, Missing, CliFails, Bail
  <2>14. CASE Collect
    <3>1. cli'.got = None /\ cli'.since = {}
      BY <2>14 DEF Collect, IdleCli
    <3> QED
      BY <2>0, <3>1
  <2>15. CASE CleanupNext
    <3>1. CASE cli.todo = {}
      BY <2>1, <2>15, <3>1 DEF CleanupNext
    <3>2. CASE cli.todo # {}
      <4>1. PICK pc, s, f : Cleanup(pc, s, f, None)
        BY <2>15, <3>2 DEF CleanupNext
      <4>2. cli'.got = None /\ cli'.since = cli.since
        BY <1>0, <4>1, CleanupFacts
      <4> QED
        BY <2>0, <4>2
    <3> QED
      BY <3>1, <3>2
  <2>16. CASE UNCHANGED cli
    BY <2>0, <2>16
  <2> QED
    BY <2>3, <2>4, <2>5, <2>6, <2>8, <2>9, <2>10, <2>11, <2>12, <2>13, <2>14, <2>15, <2>16,
       CliFrame
    DEF CliWrites
<1> QED
  BY <1>4, <1>5, <1>6, <1>7, <1>8, <1>9 DEF AllMade, C, R, T
-----------------------------------------------------------------------------
(* The invariant holds.                                                    *)

LEMMA IInvInit == Init => IInv
<1> SUFFICES ASSUME Init PROVE IInv
  OBVIOUS
<1>1. TypeInv
  BY TypeInvInit
<1>2. {} # None /\ EditsOf({}) = {} /\ EditsOf(None) = {}
  BY ContentsFacts DEF EditsOf
<1>3. ASSUME NEW f \in Files
      PROVE  /\ row[f].status = "cached" /\ row[f].etag = {} /\ cache[f] = {} /\ remote[f] = {}
             /\ C(f) = {} /\ R(f) = {} /\ T(f) = {}
  BY <1>2 DEF Init, Row, C, R, T
<1>4. \A f \in Files : FileInv(f)
  BY <1>2, <1>3 DEF FileInv
<1>5. cli.pc = "idle" /\ cli.sib = None /\ cli.todo = {} /\ cli.got = None /\ cli.since = {}
  BY DEF Init, IdleCli
<1>6. CliInv
  BY <1>5 DEF CliInv, CliAt, Resolving, Final
<1>7. Fresh
  BY <1>5 DEF Fresh, Init
<1>8. Equal /\ Kept
  BY <1>5 DEF Equal, Kept, Init
<1>9. AllMade
  BY <1>2, <1>3, <1>5 DEF AllMade, Init
<1> QED
  BY <1>1, <1>4, <1>6, <1>7, <1>8, <1>9 DEF IInv

LEMMA IInvStep == ASSUME IInv, [Next]_vars PROVE IInv'
<1>1. TypeInv'
  BY TypeInvStep DEF IInv
<1>2. \A f \in Files : FileInv(f)'
  BY FileInvStep
<1> QED
  BY <1>1, <1>2, CliInvStep, FreshStep, EqualStep, KeptStep, AllMadeStep DEF IInv

\* The inductive invariant holds in every behaviour of the daemon, the other
\* clients and the command.
THEOREM Inductive == Spec => []IInv
<1>1. Init => IInv
  BY IInvInit
<1>2. IInv /\ [Next]_vars => IInv'
  BY IInvStep
<1> QED
  BY <1>1, <1>2, PTL DEF Spec

\* Type correctness: the rows, the files of both sides, the copies and the
\* command's locals, and that a row which says so has a cache file.
THEOREM TypeCorrect == Spec => []TypeOK
<1>1. IInv => TypeOK
  <2> SUFFICES ASSUME IInv PROVE TypeOK
    OBVIOUS
  <2>1. FilesOK /\ CountsOK /\ cli \in CliType
    BY DEF IInv, TypeInv, CliOK
  <2>2. \A f \in Files : /\ HasRow(f) => row[f].etag # None
                         /\ row[f].status \in {"cached", "dirty"} => cache[f] # None
    BY DEF IInv, FileInv
  <2>3. cli.since \subseteq made /\ excused \subseteq made
    BY DEF IInv, AllMade
  <2>4. \A s \in listed : s[2] <= stamp
    BY DEF IInv, Fresh
  <2>5. /\ cli.file \in Files \cup {None} /\ cli.sib \in Sids \cup {None}
        /\ cli.got \in OptContents /\ cli.todo \subseteq Sids /\ cli.gone \in BOOLEAN
    BY <2>1 DEF CliType
  <2> QED
    BY <2>1, <2>2, <2>3, <2>4, <2>5 DEF TypeOK, FilesOK, CountsOK, RowType
<1> QED
  BY <1>1, Inductive, PTL

\* What is held somewhere, by the names NothingLost uses.
LEMMA HeldIn ==
  ASSUME TypeInv
  PROVE  /\ \A f \in Files : C(f) \subseteq Held(cache) /\ R(f) \subseteq Held(remote)
         /\ \A s \in Sids : EditsOf(copies[s]) \subseteq Held(copies)
<1>1. DOMAIN cache = Files /\ DOMAIN remote = Files /\ DOMAIN copies = Sids
  BY Typed
<1> QED
  BY <1>1 DEF Held, C, R

\* No edit disappears: every edit that was made and is not excused is in a
\* remote file, a cache file or a conflict copy, for any number of files,
\* edits, stamps, faults and commands.
THEOREM NothingIsLost == Spec => []NothingLost
<1>1. IInv => NothingLost
  <2> SUFFICES ASSUME IInv PROVE NothingLost
    OBVIOUS
  <2>1. TypeInv /\ Kept
    BY DEF IInv
  <2>2. \A e \in made \ excused : e \in Held(remote) \cup Held(cache) \cup Held(copies)
    BY <2>1, HeldIn DEF Kept, HeldBeside
  <2> QED
    BY <2>2 DEF NothingLost
<1> QED
  BY <1>1, Inductive, PTL

\* The row of a file with an edit in its cache file only, and not excused, is
\* dirty: the daemon will upload it.
THEOREM DirtyIsKept == Spec => []DirtyKept
<1>1. IInv => DirtyKept
  <2> SUFFICES ASSUME IInv, NEW f \in Files,
                      EditsOf(cache[f]) \ (excused \cup Held(remote) \cup Held(copies)) # {},
                      row[f].status # "dirty"
               PROVE  FALSE
    BY DEF DirtyKept
  <2>1. C(f) \subseteq R(f) \cup excused
    BY DEF IInv, FileInv
  <2>2. R(f) \subseteq Held(remote)
    BY HeldIn DEF IInv
  <2> QED
    BY <2>1, <2>2 DEF C
<1> QED
  BY <1>1, Inductive, PTL
=============================================================================
