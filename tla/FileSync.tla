------------------------------ MODULE FileSync ------------------------------
(***************************************************************************)
(* The life of one file that an application holds open on the mount:       *)
(* FUSE writes (fuse/write_ops.rs), the upload of its cache file            *)
(* (sync/upload_queue.rs, run_upload and the completion arm), the remote   *)
(* steps of an upload (backend/mod.rs), the conflict resolver              *)
(* (sync/conflict.rs), another client of the same cloud account, and a     *)
(* crash of the daemon followed by its startup recovery (main.rs).         *)
(*                                                                         *)
(* Every DB call, file operation and rclone run is a step of its own.      *)
(*                                                                         *)
(* A file's content is the set of edits it holds.  An ETag is a content    *)
(* hash, so the ETag of a content is that content.  When uploads start is  *)
(* the subject of UploadScheduler; here a queued upload may start at any   *)
(* time.  version_retention = 0: version capture (sync/versioning.rs) is   *)
(* then a no-op.                                                           *)
(***************************************************************************)
EXTENDS Naturals, FiniteSets

CONSTANTS
  LocalEdits,    \* edits made through the mount
  RemoteEdits,   \* edits another client makes in the cloud
  Uploads,       \* the upload tasks that may run at once
  None,          \* no content, no ETag, no base
  MergeEnabled,  \* text_conflict_strategy = merge, git found, text file
  FaultKinds,    \* what may fail: an upload in a retryable way, in a fatal one or
                 \* for a conflict, an operation of the resolver, a status
                 \* update that is only logged when it fails:
                 \* {"retry", "fatal", "conflict", "resolve", "db"}
  MaxFaults, MaxCrashes,  \* bounds
  MaxCaptures    \* bound: base snapshots waiting at once

Edits    == LocalEdits \cup RemoteEdits
Contents == SUBSET Edits

ASSUME FileSyncAssumption ==
  /\ LocalEdits \cap RemoteEdits = {}
  /\ \A c \in Contents : c # None
  /\ MergeEnabled \in BOOLEAN
  /\ MaxFaults \in Nat /\ MaxCrashes \in Nat /\ MaxCaptures \in Nat \ {0}

VARIABLES
  row,       \* the file's row in file_index: status and etag
  cache,     \* the cache file
  base,      \* the content of the 3-way-merge base, or None
  remote,    \* the file in the cloud, or None
  siblings,  \* the edits that conflict copies in the cloud hold
  queued,    \* an upload trigger is in the channel or in the pending map
  up,        \* the upload tasks
  res,       \* the resolver, run by the upload loop itself
  captures,  \* base snapshots spawned by finished uploads, not yet taken
  wr,        \* the FUSE write in progress
  written, acked, made, deleted, raced, overlapped,  \* history
  faults, crashes                                    \* counters for the bounds

disk    == <<row, cache, base>>
cloud   == <<remote, siblings>>
memory  == <<queued, up, res, captures, wr>>
history == <<written, acked, made, deleted, raced, overlapped>>
bounds  == <<faults, crashes>>
vars    == <<row, cache, base, remote, siblings, queued, up, res, captures,
             wr, written, acked, made, deleted, raced, overlapped, faults, crashes>>

EditsOf(c) == IF c = None THEN {} ELSE c

\* An upload task: its program counter, the ETag read from the row, what rclone
\* read of the cache file, the closing stat.  Locals that are dead are None.
UploadAt(pc, etag, snap, meta) ==
  [pc |-> pc, etag |-> etag, snap |-> snap, meta |-> meta]

\* The resolver: a stat's ETag, what it read earlier (the cache file at the size
\* check, the remote version for a merge), the merged bytes.
ResolverAt(pc, meta, read, merged) ==
  [pc |-> pc, meta |-> meta, read |-> read, merged |-> merged]

AtPc(pc) == UploadAt(pc, None, None, None)
To(pc)   == ResolverAt(pc, None, None, None)

IdleUpload   == AtPc("idle")
IdleResolver == To("idle")
IdleWrite    == [pc |-> "idle", edit |-> None]

-----------------------------------------------------------------------------
(* The races the code does not close: an edit that lands in one of these   *)
(* windows is put in raced.                                                *)

\* A write after an upload has read the cache file and before the upload's
\* bookkeeping is over, or after the resolver has compared, merged or sent the
\* cache file and before it is done with what it read.
LocalRace ==
  \/ \E t \in Uploads : up[t].pc \in {"commit", "stat", "record"}
  \/ captures > 0
  \/ res.pc \in {"eqcmp", "eqset", "mwrite", "mmark", "mcommit", "mstat", "mset",
                 "kbdl", "kbstat", "kbset"}

\* A remote edit after check_if_match and before the stat that ends the
\* upload, while there is no ETag to check, or between the resolver's
\* download and its stat.
RemoteRace ==
  \/ \E t \in Uploads : up[t].pc \in {"send", "commit", "stat"}
  \/ \E t \in Uploads : up[t].pc = "mark" /\ up[t].etag = None
  \/ row.etag = None
  \/ res.pc \in {"merge", "mwrite", "msend", "mcommit", "mstat", "kbstat"}
  \/ res.pc = "kbset" /\ res.meta = None

(* upload_loop does not look whether an upload of the inode is in flight:  *)
(* a write, close or fsync whose debounce expires meanwhile starts a       *)
(* second one, which may commit before the first, be told of a conflict    *)
(* that is the first one's commit, or fail and have its row marked cached  *)
(* by the first.  The edits made before or while this happens are put in   *)
(* overlapped.                                                             *)
Busy(t) == up[t].pc # "idle"
Overlapping ==
  \E t \in Uploads : Busy(t) /\ (res.pc # "idle" \/ \E s \in Uploads \ {t} : Busy(s))
Overlap(edits) == IF Overlapping THEN edits ELSE {}

-----------------------------------------------------------------------------
\* A file in sync since the last poll, or one that was just created.
Init ==
  /\ \/ /\ row = [status |-> "cached", etag |-> {}]
        /\ remote = {}
        /\ base \in {None, {}}
     \/ /\ row = [status |-> "dirty", etag |-> None]
        /\ remote = None
        /\ base = None
  /\ cache = {}
  /\ siblings = {}
  /\ queued = FALSE
  /\ up = [t \in Uploads |-> IdleUpload]
  /\ res = IdleResolver
  /\ captures = 0
  /\ wr = IdleWrite
  /\ written = {} /\ acked = {} /\ made = {} /\ deleted = {} /\ raced = {}
  /\ overlapped = {}
  /\ faults = 0 /\ crashes = 0

Fault(kind) ==
  /\ kind \in FaultKinds
  /\ faults < MaxFaults
  /\ faults' = faults + 1

(* The updates of a row (state/mod.rs) that set its ETag.                  *)
set_uploaded(etag) == [status |-> "cached", etag |-> etag]
set_cached(etag)   == [status |-> "cached", etag |-> etag]

\* set_status and the like where the code logs a failure and goes on.
TrySetStatus(status) ==
  \/ row' = [row EXCEPT !.status = status] /\ faults' = faults
  \/ row' = row /\ Fault("db")

-----------------------------------------------------------------------------
(* FUSE requests: one session thread, so one write at a time.              *)

\* handle_write, first part: the bytes are in the cache file.
WriteFile(e) ==
  /\ wr.pc = "idle"
  /\ e \notin written
  /\ cache' = cache \cup {e}
  /\ written' = written \cup {e}
  /\ raced' = IF LocalRace THEN raced \cup {e} ELSE raced
  /\ overlapped' = overlapped \cup Overlap({e})
  /\ wr' = [pc |-> "mark", edit |-> e]
  /\ UNCHANGED <<row, base, cloud, queued, up, res, captures, acked, made,
                 deleted, bounds>>

\* Fault variant: only the size is recorded.
WriteMark_SizeOnly ==
  /\ wr.pc = "mark"
  /\ wr' = [wr EXCEPT !.pc = "enqueue"]
  /\ UNCHANGED <<disk, cloud, queued, up, res, captures, history, bounds>>

\* ... second part: set_dirty_size.
WriteMark ==
  /\ wr.pc = "mark"
  /\ TrySetStatus("dirty")
  /\ wr' = [wr EXCEPT !.pc = "enqueue"]
  /\ UNCHANGED <<cache, base, cloud, queued, up, res, captures, history, crashes>>

\* ... third part: the trigger is sent and the write(2) returns.
WriteEnqueue ==
  /\ wr.pc = "enqueue"
  /\ queued' = TRUE
  /\ acked' = acked \cup {wr.edit}
  /\ wr' = IdleWrite
  /\ UNCHANGED <<disk, cloud, up, res, captures, written, made, deleted, raced,
                 overlapped, bounds>>

\* handle_fsync triggers an upload whatever the status of the row.
Fsync ==
  /\ wr.pc = "idle"
  /\ queued' = TRUE
  /\ UNCHANGED <<disk, cloud, up, res, captures, wr, history, bounds>>

\* stratosync push: classify_for_push lets a file through that has something to
\* upload, which is then opened on the mount and synced.
classify_for_push == row.status \in {"dirty", "uploading"}
Push == classify_for_push /\ Fsync

\* handle_release triggers one for a dirty row only ...
Release ==
  /\ wr.pc = "idle"
  /\ row.status = "dirty"
  /\ queued' = TRUE
  /\ UNCHANGED <<disk, cloud, up, res, captures, wr, history, bounds>>

\* ... and so does the watcher (handle_event), some time after a change of the
\* cache file.
WatcherEvent ==
  /\ row.status = "dirty"
  /\ queued' = TRUE
  /\ UNCHANGED <<disk, cloud, up, res, captures, wr, history, bounds>>

-----------------------------------------------------------------------------
(* An upload task: run_upload.                                             *)

UploadStep(t, from, new) ==
  /\ up[t].pc = from
  /\ up' = [up EXCEPT ![t] = new]

\* The deadline arm of upload_loop.  It does not look at what is in flight.
Dispatch(t) ==
  /\ queued
  /\ res.pc = "idle"
  /\ UploadStep(t, "idle", AtPc("read"))
  /\ queued' = FALSE
  /\ overlapped' = overlapped \cup (IF \E s \in Uploads : Busy(s) THEN written \cup made ELSE {})
  /\ UNCHANGED <<disk, cloud, res, captures, wr, written, acked, made, deleted,
                 raced, bounds>>

\* get_by_inode: the ETag of the coming check is the row's ETag now.
ReadRow(t) ==
  /\ UploadStep(t, "read", UploadAt("mark", row.etag, None, None))
  /\ UNCHANGED <<disk, cloud, queued, res, captures, wr, history, bounds>>

\* set_status(Uploading).
MarkUploading(t) ==
  /\ UploadStep(t, "mark",
       [up[t] EXCEPT !.pc = IF up[t].etag = None THEN "send" ELSE "check"])
  /\ row' = [row EXCEPT !.status = "uploading"]
  /\ UNCHANGED <<cache, base, cloud, queued, res, captures, wr, history, bounds>>

\* Fault variant: the remote version is not looked at.
CheckIfMatch_Skipped(t) ==
  /\ UploadStep(t, "check", AtPc("send"))
  /\ UNCHANGED <<disk, cloud, queued, res, captures, wr, history, bounds>>

\* check_if_match: a file that is not there may be uploaded.
CheckIfMatch(t) ==
  /\ UploadStep(t, "check",
       AtPc(IF remote \in {None, up[t].etag} THEN "send" ELSE "conflict"))
  /\ UNCHANGED <<disk, cloud, queued, res, captures, wr, history, bounds>>

\* rclone copyto reads the cache file ...
Send(t) ==
  /\ UploadStep(t, "send", UploadAt("commit", None, cache, None))
  /\ UNCHANGED <<disk, cloud, queued, res, captures, wr, history, bounds>>

\* ... and the remote file is replaced.
Commit(t) ==
  /\ UploadStep(t, "commit", AtPc("stat"))
  /\ remote' = up[t].snap
  /\ UNCHANGED <<disk, siblings, queued, res, captures, wr, history, bounds>>

\* The closing stat; NotFound is not retryable.
StatUpload(t) ==
  /\ UploadStep(t, "stat", IF remote = None THEN AtPc("fatal")
                          ELSE UploadAt("record", None, None, remote))
  /\ UNCHANGED <<disk, cloud, queued, res, captures, wr, history, bounds>>

\* set_uploaded, and the base snapshot is spawned.
SetUploaded(t) ==
  /\ UploadStep(t, "record", AtPc("ok"))
  /\ row' = set_uploaded(up[t].meta)
  /\ captures < MaxCaptures /\ captures' = captures + 1
  /\ UNCHANGED <<cache, base, cloud, queued, res, wr, history, bounds>>

\* store_base and set_base_hash, on a blocking thread of their own; best effort.
CaptureBase ==
  /\ captures > 0
  /\ captures' = captures - 1
  /\ \/ base' = cache /\ faults' = faults
     \/ base' = base /\ Fault("db")
  /\ UNCHANGED <<row, cache, cloud, queued, up, res, wr, history, crashes>>

UploadFaults == {"retry", "fatal", "conflict"}

\* An rclone run of the upload fails (timeouts, stalls and rate limits may be
\* retried, "didn't match" is taken for a conflict), or a DB call, which is always
\* fatal.
UploadFault(t, kind) ==
  /\ \/ kind \in UploadFaults /\ up[t].pc \in {"check", "send", "commit", "stat"}
     \/ kind = "fatal" /\ up[t].pc \in {"read", "mark", "record"}
  /\ Fault(kind)
  /\ up' = [up EXCEPT ![t] = AtPc(kind)]
  /\ UNCHANGED <<disk, cloud, queued, res, captures, wr, history, crashes>>

(* The completion arm of upload_loop.                                      *)

\* Fault variant: success also drops the pending entry of the inode.
JoinOk_DropsPending(t) ==
  /\ res.pc = "idle"
  /\ UploadStep(t, "ok", IdleUpload)
  /\ queued' = FALSE
  /\ UNCHANGED <<disk, cloud, res, captures, wr, history, bounds>>

JoinOk(t) ==
  /\ res.pc = "idle"
  /\ UploadStep(t, "ok", IdleUpload)
  /\ UNCHANGED <<disk, cloud, queued, res, captures, wr, history, bounds>>

\* Fault variant: the retry is recorded but not scheduled.
JoinRetry_NotQueued(t) ==
  /\ res.pc = "idle"
  /\ UploadStep(t, "retry", IdleUpload)
  /\ TrySetStatus("dirty")
  /\ UNCHANGED <<cache, base, cloud, queued, res, captures, wr, history, crashes>>

\* fail_queue_job_by_inode, and back into the pending map.
JoinRetry(t) ==
  /\ res.pc = "idle"
  /\ UploadStep(t, "retry", IdleUpload)
  /\ TrySetStatus("dirty")
  /\ queued' = TRUE
  /\ UNCHANGED <<cache, base, cloud, res, captures, wr, history, crashes>>

JoinFatal(t) ==
  /\ res.pc = "idle"
  /\ UploadStep(t, "fatal", IdleUpload)
  /\ TrySetStatus("dirty")
  /\ UNCHANGED <<cache, base, cloud, queued, res, captures, wr, history, crashes>>

JoinConflict(t) ==
  /\ res.pc = "idle"
  /\ UploadStep(t, "conflict", IdleUpload)
  /\ res' = To("eqstat")
  /\ UNCHANGED <<disk, cloud, queued, captures, wr, history, bounds>>

-----------------------------------------------------------------------------
(* The conflict resolver: conflict::resolve.  The loop awaits it, so no    *)
(* upload starts or is joined meanwhile, but tasks already running go on.  *)

ResolverStep(from, new) ==
  /\ res.pc = from
  /\ res' = new
  /\ UNCHANGED <<queued, up, wr, crashes>>

\* Where the resolver goes when the bytes differ.
Merging == MergeEnabled /\ base # None
AfterCompare == IF Merging THEN "mdl" ELSE "sib"

\* An error propagates with `?`: the resolution ends, the row is left as it is.  It
\* has not begun when get_by_inode fails, and a merge result is not written when the
\* cache file cannot be opened.
GiveUp ==
  /\ res.pc \in {"eqstat", "eqset", "mdl", "mwrite", "mmark", "msend", "mcommit",
                 "mstat", "mset", "sib", "kbdl", "kbset"}
  /\ \/ res.pc = "kbdl" /\ remote = None /\ faults' = faults
     \/ Fault("resolve")
  /\ ResolverStep(res.pc, IdleResolver)
  /\ UNCHANGED <<disk, cloud, captures, history>>

\* content::local_eq_remote: stat and compare the sizes, then download and
\* compare as many bytes as the stat said.  A file that changes between the two
\* may go either way: what is appended to it is not looked at.
EqStat ==
  /\ \/ /\ remote # None /\ faults' = faults
        /\ ResolverStep("eqstat", ResolverAt("eqcmp", remote, cache, None))
     \/ /\ remote = None /\ faults' = faults
        /\ ResolverStep("eqstat", To(AfterCompare))
     \/ /\ Fault("resolve")
        /\ ResolverStep("eqstat", To(AfterCompare))
  /\ UNCHANGED <<disk, cloud, captures, history>>

EqSame ==
  /\ remote # None /\ {res.read, cache} \cap {res.meta, remote} # {}
  /\ ResolverStep("eqcmp", [res EXCEPT !.pc = "eqset"])
  /\ UNCHANGED <<disk, cloud, captures, history, faults>>

EqDiffers ==
  /\ \/ {res.read, cache, remote} # {res.meta} /\ faults' = faults
     \/ Fault("resolve")
  /\ ResolverStep("eqcmp", To(AfterCompare))
  /\ UNCHANGED <<disk, cloud, captures, history>>

\* set_cached with the ETag of the stat.
EqSet ==
  /\ ResolverStep("eqset", IdleResolver)
  /\ row' = set_cached(res.meta)
  /\ UNCHANGED <<cache, base, cloud, captures, history, faults>>

\* The remote version, for the merge; a failed download falls through.
MergeDownload ==
  /\ \/ /\ remote # None /\ faults' = faults
        /\ ResolverStep("mdl", ResolverAt("merge", None, remote, None))
     \/ /\ remote = None /\ faults' = faults
        /\ ResolverStep("mdl", To("sib"))
     \/ /\ Fault("resolve")
        /\ ResolverStep("mdl", To("sib"))
  /\ UNCHANGED <<disk, cloud, captures, history>>

\* git merge-file on sets of edits: what both sides have, and what either
\* side added since the base.
Merge3(b, l, r) == (l \cap r) \cup ((l \cup r) \ b)

\* A clean merge, conflict markers (both versions side by side), or a failure.
MergeClean ==
  /\ ResolverStep("merge", ResolverAt("mwrite", None, None,
                                   Merge3(base, cache, res.read)))
  /\ UNCHANGED <<disk, cloud, captures, history, faults>>

MergeMarkers ==
  /\ ResolverStep("merge", ResolverAt("mmark", None, None, cache \cup res.read))
  /\ UNCHANGED <<disk, cloud, captures, history, faults>>

MergeFailed ==
  /\ ResolverStep("merge", To("sib"))
  /\ UNCHANGED <<disk, cloud, captures, history, faults>>

\* fs::write of the merged bytes over the cache file, then upload without
\* an ETag, or on to keep-both.
MergeWrite ==
  /\ \/ ResolverStep("mwrite", To("msend"))
     \/ ResolverStep("mmark", To("sib"))
  /\ cache' = res.merged
  /\ UNCHANGED <<row, base, cloud, captures, history, faults>>

\* fs::write truncates the file before it writes: when it fails half-way a part of
\* the merged bytes is there, and what the file held before is gone.
MergeTorn ==
  /\ res.pc \in {"mwrite", "mmark"}
  /\ Fault("resolve")
  /\ ResolverStep(res.pc, IdleResolver)
  /\ cache' \in SUBSET res.merged
  /\ raced' = raced \cup (cache \ cache')
  /\ UNCHANGED <<row, base, cloud, captures, written, acked, made, deleted,
                 overlapped>>

MergeSend ==
  /\ ResolverStep("msend", ResolverAt("mcommit", None, None, cache))
  /\ UNCHANGED <<disk, cloud, captures, history, faults>>

MergeCommit ==
  /\ ResolverStep("mcommit", To("mstat"))
  /\ remote' = res.merged
  /\ UNCHANGED <<disk, siblings, captures, history, faults>>

MergeStat ==
  /\ \/ /\ remote # None
        /\ ResolverStep("mstat", ResolverAt("mset", remote, None, None))
     \/ /\ remote = None
        /\ ResolverStep("mstat", IdleResolver)
  /\ UNCHANGED <<disk, cloud, captures, history, faults>>

MergeSet ==
  /\ ResolverStep("mset", IdleResolver)
  /\ row' = set_cached(res.meta)
  /\ captures < MaxCaptures /\ captures' = captures + 1
  /\ UNCHANGED <<cache, base, cloud, history, faults>>

\* Fault variant: the sibling's upload is taken for granted.
KeepBothUpload_Skipped ==
  /\ ResolverStep("sib", To("kbdl"))
  /\ UNCHANGED <<disk, cloud, captures, history, faults>>

\* Keep both: the local version goes to a sibling in the cloud ...
KeepBothUpload ==
  /\ ResolverStep("sib", To("kbdl"))
  /\ siblings' = siblings \cup cache
  /\ UNCHANGED <<disk, remote, captures, history, faults>>

\* ... the remote version replaces the cache file ...
KeepBothDownload ==
  /\ remote # None
  /\ ResolverStep("kbdl", To("kbstat"))
  /\ cache' = remote
  /\ UNCHANGED <<row, base, cloud, captures, history, faults>>

\* ... and the row gets the ETag of a fresh stat, or none if that fails.
KeepBothStat ==
  /\ \/ /\ faults' = faults
        /\ ResolverStep("kbstat", ResolverAt("kbset", remote, None, None))
     \/ /\ Fault("resolve")
        /\ ResolverStep("kbstat", To("kbset"))
  /\ UNCHANGED <<disk, cloud, captures, history>>

\* Fault variant: the canonical row, not the sibling's, is marked Conflict.
KeepBothSet_Conflict ==
  /\ ResolverStep("kbset", IdleResolver)
  /\ row' = [status |-> "conflict", etag |-> res.meta]
  /\ UNCHANGED <<cache, base, cloud, captures, history, faults>>

KeepBothSet ==
  /\ ResolverStep("kbset", IdleResolver)
  /\ row' = set_cached(res.meta)
  /\ UNCHANGED <<cache, base, cloud, captures, history, faults>>

Resolve ==
  \/ GiveUp \/ EqStat \/ EqSame \/ EqDiffers \/ EqSet
  \/ MergeDownload \/ MergeClean \/ MergeMarkers \/ MergeFailed
  \/ MergeWrite \/ MergeTorn \/ MergeSend \/ MergeCommit \/ MergeStat \/ MergeSet
  \/ KeepBothUpload \/ KeepBothDownload \/ KeepBothStat \/ KeepBothSet

-----------------------------------------------------------------------------
(* Another client of the same account.                                     *)

RemoteEdit(r) ==
  /\ r \notin made
  /\ remote' = EditsOf(remote) \cup {r}
  /\ made' = made \cup {r}
  /\ raced' = IF RemoteRace THEN raced \cup {r} ELSE raced
  /\ overlapped' = overlapped \cup Overlap({r})
  /\ UNCHANGED <<disk, siblings, memory, written, acked, deleted, bounds>>

\* Deleting the file deletes the edits in it, on purpose.
RemoteDelete ==
  /\ remote # None
  /\ remote' = None
  /\ deleted' = deleted \cup remote
  /\ UNCHANGED <<disk, siblings, memory, written, acked, made, raced, overlapped,
                 bounds>>

-----------------------------------------------------------------------------
(* The daemon dies and starts again: what was in memory is gone, and       *)
(* get_pending_uploads re-queues the dirty and the uploading rows.         *)

get_pending_uploads == row.status \in {"dirty", "uploading"}

CrashRestart ==
  /\ crashes < MaxCrashes
  /\ crashes' = crashes + 1
  /\ queued' = get_pending_uploads
  /\ up' = [t \in Uploads |-> IdleUpload]
  /\ res' = IdleResolver
  /\ captures' = 0
  /\ wr' = IdleWrite
  /\ UNCHANGED <<disk, cloud, history, faults>>

-----------------------------------------------------------------------------
Upload(t) ==
  \/ Dispatch(t) \/ ReadRow(t) \/ MarkUploading(t) \/ CheckIfMatch(t)
  \/ Send(t) \/ Commit(t) \/ StatUpload(t) \/ SetUploaded(t)
  \/ JoinOk(t) \/ JoinRetry(t) \/ JoinFatal(t) \/ JoinConflict(t)

WriteStep == WriteMark \/ WriteEnqueue

Next ==
  \/ \E e \in LocalEdits : WriteFile(e)
  \/ WriteStep \/ Fsync \/ Push \/ Release \/ WatcherEvent
  \/ \E t \in Uploads : Upload(t)
  \/ \E t \in Uploads, kind \in UploadFaults : UploadFault(t, kind)
  \/ CaptureBase
  \/ Resolve
  \/ \E r \in RemoteEdits : RemoteEdit(r)
  \/ RemoteDelete
  \/ CrashRestart

\* The tasks of the daemon run; applications and the cloud do as they like.
Fairness ==
  /\ WF_vars(WriteStep) /\ WF_vars(CaptureBase) /\ WF_vars(Resolve)
  /\ \A t \in Uploads : WF_vars(Upload(t))

Spec == Init /\ [][Next]_vars /\ Fairness

-----------------------------------------------------------------------------
UploadPcs == {"idle", "read", "mark", "check", "send", "commit", "stat",
              "record", "ok", "conflict", "retry", "fatal"}
ResolverPcs == {"idle", "eqstat", "eqcmp", "eqset", "mdl", "merge", "mwrite",
                "mmark", "msend", "mcommit", "mstat", "mset", "sib", "kbdl",
                "kbstat", "kbset"}
OptContents == {None} \cup Contents

TypeOK ==
  /\ row \in [status : {"cached", "dirty", "uploading"}, etag : OptContents]
  /\ cache \in Contents
  /\ base \in OptContents
  /\ remote \in OptContents
  /\ siblings \subseteq Edits
  /\ queued \in BOOLEAN
  /\ up \in [Uploads -> [pc : UploadPcs, etag : OptContents,
                         snap : OptContents, meta : OptContents]]
  /\ res \in [pc : ResolverPcs, meta : OptContents,
              read : OptContents, merged : OptContents]
  /\ captures \in Nat
  /\ wr \in [pc : {"idle", "mark", "enqueue"}, edit : LocalEdits \cup {None}]
  /\ written \subseteq LocalEdits /\ acked \subseteq LocalEdits
  /\ made \subseteq RemoteEdits
  /\ deleted \subseteq Edits /\ raced \subseteq Edits /\ overlapped \subseteq Edits
  /\ faults \in Nat /\ crashes \in Nat

\* Where an edit can still be found.
Held == EditsOf(remote) \cup cache \cup siblings

\* The edits that nothing is claimed of.
Excepted == raced \cup deleted \cup overlapped

\* Crash safety of a write: an acknowledged edit that is in the cache file and
\* not in the cloud is in a row that startup recovery re-queues, unless it was
\* written while an upload or a resolution of the same file was running
\* (set_uploaded and set_cached then mark the row clean over it) or before two
\* uploads of the file ran at once.
DurablyDirty ==
  \A e \in (acked \cap cache) \ (Excepted \cup EditsOf(remote)) :
    row.status \in {"dirty", "uploading"}

\* No edit disappears, neither an acknowledged one nor another client's,
\* through uploads, retries, merges, keep-both and crashes, unless it landed
\* in one of the windows of LocalRace and RemoteRace, was torn by a merge result
\* that could not be written, was deleted, or was there when the queue ran two
\* uploads of the file at once.
NothingLost == (acked \cup made) \ Excepted \subseteq Held

\* Nothing is under way for this file in the daemon.
Quiet ==
  /\ ~queued
  /\ \A t \in Uploads : up[t].pc = "idle"
  /\ res.pc = "idle"
  /\ wr.pc = "idle"

\* While the daemon runs, a row that says cached with no upload coming has
\* nothing left to upload: a write that set_uploaded or set_cached marked
\* clean still has its trigger in the queue.  Not so for the edits that were there
\* when the queue ran two uploads of the file at once: the older content may be
\* committed last, and the row be cached with no trigger left.
QuietMeansUploaded ==
  Quiet /\ row.status = "cached" =>
    acked \cap cache \subseteq EditsOf(remote) \cup deleted \cup overlapped

\* Every acknowledged write reaches the cloud, in the file or in a conflict
\* copy, as long as operations fail with retryable errors only: upload_loop
\* queues a failed upload again, and main queues after a crash what the row
\* still calls dirty or uploading.
WritesReachCloud ==
  \A e \in LocalEdits :
    e \in acked ~> e \in EditsOf(remote) \cup siblings \cup Excepted
=============================================================================
