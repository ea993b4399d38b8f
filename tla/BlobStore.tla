------------------------------ MODULE BlobStore -----------------------------
(***************************************************************************)
(* The blobs under .bases/objects (base_store.rs), shared by the merge     *)
(* bases (table base_versions) and by the version history (table           *)
(* version_history): snapshots after an upload, before a poll replaces a   *)
(* file and after a hydration (sync/versioning.rs, upload_queue.rs,        *)
(* fuse/mod.rs), pruning, and the eviction of stale bases (cache/mod.rs).  *)
(*                                                                         *)
(* Snapshots run on threads of their own, the evictor on a timer; a DB     *)
(* call or a file operation is one step.  The hash of a content is that    *)
(* content; objects maps a hash to what the blob of that name holds.       *)
(***************************************************************************)
EXTENDS Naturals, FiniteSets, Sequences

CONSTANTS
  Inodes, Contents,
  None,          \* no file, no blob, no base
  Mergeable,     \* the inodes of text files: only they have merge bases
  Retention,     \* version_retention
  Tasks,         \* snapshots that may run at once
  MaxWrites,     \* bound: changes of cache files
  MaxCuts,       \* bound: errors, and snapshots that a crash cuts short
  MaxEvents      \* bound: the two together

ASSUME BlobStoreAssumption ==
  /\ IsFiniteSet(Inodes) /\ IsFiniteSet(Tasks)
  /\ None \notin Inodes /\ None \notin Contents
  /\ Mergeable \subseteq Inodes
  /\ Retention \in Nat /\ MaxWrites \in Nat
  /\ MaxCuts \in Nat /\ MaxEvents \in Nat

VARIABLES
  file,      \* the cache file of an inode; None once its row is deleted
  dirty,     \* the inodes with a dirty or uploading row
  objects,   \* the blobs
  bases,     \* base_versions
  aged,      \* the inodes whose base is older than base_retention_days
  history,   \* version_history, newest first
  task,      \* the snapshots under way
  gc,        \* evict_stale_bases
  raced,     \* history: hashes stored and collected at the same time
  outdated,  \* history: hashes on the evictor's list for a file whose base has changed
  evicted,   \* history: blobs that evict_stale_bases took from the version history
  writes, cuts  \* counters for the bounds

rows == <<bases, aged, history>>
marks == <<raced, outdated, evicted>>
vars == <<file, dirty, objects, bases, aged, history, task, gc, raced, outdated,
          evicted, writes, cuts>>

\* A snapshot: which kind, of which inode, the hash, the blobs it has to remove.
Job(pc, kind, i, h, orphans) ==
  [pc |-> pc, kind |-> kind, inode |-> i, hash |-> h, orphans |-> orphans]
IdleJob == Job("idle", "base", None, None, {})
At(t, pc, h, orphans) == Job(pc, task[t].kind, task[t].inode, h, orphans)

\* The evictor: what is left of its list, the entry it is at, the count it read.
Evictor(pc, todo, at, refs) == [pc |-> pc, todo |-> todo, at |-> at, refs |-> refs]
IdleGc == Evictor("idle", {}, <<None, None>>, 0)

Rng(s) == {s[k] : k \in 1 .. Len(s)}
InHistory(h) == \E i \in Inodes : h \in Rng(history[i])
InBases(h)   == \E i \in Inodes : bases[i] = h

\* Blobs about to be removed on the strength of an earlier look at the rows.
Doomed == (UNION {task[t].orphans : t \in Tasks})
            \cup (IF gc.pc \in {"row", "blob"} THEN {gc.at[2]} ELSE {})

\* Hashes a snapshot found or put in place and has not recorded yet.
Found == {task[t].hash : t \in {s \in Tasks : task[s].pc \in {"insert", "base"}}}

\* Hashes the evictor listed for an inode whose base has changed since.
Listed(i) == {e[2] : e \in {x \in gc.todo \cup {gc.at} : x[1] = i}}

-----------------------------------------------------------------------------
Init ==
  /\ file \in [Inodes -> Contents]
  /\ dirty = {}
  /\ objects = [h \in Contents |-> None]
  /\ bases = [i \in Inodes |-> None] /\ aged = {}
  /\ history = [i \in Inodes |-> << >>]
  /\ task = [t \in Tasks |-> IdleJob]
  /\ gc = IdleGc
  /\ raced = {} /\ outdated = {} /\ evicted = {}
  /\ writes = 0 /\ cuts = 0

MoreEvents == writes + cuts < MaxEvents

\* An application writes the file.
Write(i, c) ==
  /\ writes < MaxWrites /\ MoreEvents /\ writes' = writes + 1
  /\ file[i] # None
  /\ file' = [file EXCEPT ![i] = c]
  /\ dirty' = dirty \cup {i}
  /\ UNCHANGED <<objects, rows, task, gc, marks, cuts>>

Start(t, kind, i) ==
  /\ task[t].pc = "idle"
  /\ file[i] # None
  /\ task' = [task EXCEPT ![t] = Job("hash", kind, i, None, {})]

\* run_upload after set_uploaded: a version, then the merge base.
Uploaded(t, i) ==
  /\ i \in dirty
  /\ Retention > 0 \/ i \in Mergeable
  /\ Start(t, IF Retention > 0 THEN "upload" ELSE "base", i)
  /\ dirty' = dirty \ {i}
  /\ UNCHANGED <<file, objects, rows, gc, marks, writes, cuts>>

\* The poller, one at a time, before it replaces a file that its snapshot of the
\* DB has as in sync.
BeforePoll(t, i) ==
  /\ Retention > 0
  /\ i \notin dirty
  /\ \A s \in Tasks : task[s].kind # "poll"
  /\ Start(t, "poll", i)
  /\ UNCHANGED <<file, dirty, objects, rows, gc, marks, writes, cuts>>

\* do_hydrate: a download is in place; a text file gets its merge base.
Hydrated(t, i, c) ==
  /\ writes < MaxWrites /\ MoreEvents /\ writes' = writes + 1
  /\ file[i] # None /\ i \notin dirty
  /\ IF i \in Mergeable THEN Start(t, "base", i) ELSE UNCHANGED task
  /\ file' = [file EXCEPT ![i] = c]
  /\ UNCHANGED <<dirty, objects, rows, gc, marks, cuts>>

-----------------------------------------------------------------------------
(* store_base.                                                             *)

TaskStep(t, from, new) ==
  /\ task[t].pc = from
  /\ task' = [task EXCEPT ![t] = new]
  /\ UNCHANGED <<file, dirty, gc, writes, cuts>>

\* Where store_base returns to.
Stored(kind) == IF kind = "base" THEN "base" ELSE "insert"

\* Read the file for its hash ...
StoreHash(t) ==
  /\ TaskStep(t, "hash", At(t, "exists", file[task[t].inode], {}))
  /\ file[task[t].inode] # None
  /\ UNCHANGED <<objects, rows, marks>>

\* ... look whether that blob exists ...
StoreExists(t) ==
  /\ TaskStep(t, "exists",
       At(t, IF objects[task[t].hash] = None THEN "copy" ELSE Stored(task[t].kind),
          task[t].hash, {}))
  /\ UNCHANGED <<objects, rows, marks>>

\* ... and copy the file, as it is now, to a temporary that is renamed.
StoreCopy(t) ==
  /\ TaskStep(t, "copy", At(t, Stored(task[t].kind), task[t].hash, {}))
  /\ file[task[t].inode] # None
  /\ objects' = [objects EXCEPT ![task[t].hash] = file[task[t].inode]]
  /\ evicted' = evicted \ {task[t].hash}
  /\ UNCHANGED <<rows, raced, outdated>>

-----------------------------------------------------------------------------
(* versioning::capture, and the merge base.                                *)

\* insert_version_history; the foreign key refuses a deleted row.
InsertVersion(t) ==
  LET i == task[t].inode  h == task[t].hash
  IN  /\ TaskStep(t, "insert", At(t, "prune", None, {}))
      /\ file[i] # None
      /\ history' = [history EXCEPT ![i] = <<h>> \o @]
      /\ raced' = raced \cup (Doomed \cap {h})
      /\ UNCHANGED <<objects, bases, aged, outdated, evicted>>

\* Fault variant: one row too many is kept.
Newest_OneMore(s) == IF Len(s) > Retention + 1 THEN SubSeq(s, 1, Retention + 1) ELSE s

Newest(s) == IF Len(s) > Retention THEN SubSeq(s, 1, Retention) ELSE s
Oldest(s) == IF Len(s) > Retention THEN SubSeq(s, Retention + 1, Len(s)) ELSE << >>

\* Fault variant: only the merge bases are consulted.
Unreferenced_BasesOnly(h) == ~InBases(h)

\* No row of either table names h any more, once the history is pruned.
Unreferenced(h) == ~InHistory(h)' /\ ~InBases(h)

\* prune_version_history: one critical section of the DB.
Prune(t) ==
  LET i == task[t].inode
  IN  /\ task[t].pc = "prune"
      /\ history' = [history EXCEPT ![i] = Newest(@)]
      /\ TaskStep(t, "prune",
           At(t, "remove", None, {h \in Rng(Oldest(history[i])) : Unreferenced(h)}))
      /\ UNCHANGED <<objects, bases, aged, marks>>

\* remove_object for the orphans, one after the other ...
RemoveOrphan(t, h) ==
  /\ h \in task[t].orphans
  /\ TaskStep(t, "remove", At(t, "remove", None, task[t].orphans \ {h}))
  /\ objects' = [objects EXCEPT ![h] = None]
  /\ raced' = raced \cup (Found \cap {h})
  /\ UNCHANGED <<rows, outdated, evicted>>

\* ... of which one may fail, with a warning ...
RemoveFails(t, h) ==
  /\ cuts < MaxCuts /\ MoreEvents /\ cuts' = cuts + 1
  /\ task[t].pc = "remove" /\ h \in task[t].orphans
  /\ task' = [task EXCEPT ![t] = At(t, "remove", None, task[t].orphans \ {h})]
  /\ UNCHANGED <<file, dirty, objects, rows, gc, marks, writes>>

\* After an upload the merge base is next, whether or not the capture succeeded.
AfterCapture(t) ==
  IF task[t].kind = "upload" /\ task[t].inode \in Mergeable
  THEN Job("hash", "base", task[t].inode, None, {}) ELSE IdleJob

\* ... and the capture returns.
Captured(t) ==
  /\ task[t].orphans = {}
  /\ TaskStep(t, "remove", AfterCapture(t))
  /\ UNCHANGED <<objects, rows, marks>>

\* set_base_hash.
SetBase(t) ==
  LET i == task[t].inode  h == task[t].hash
  IN  /\ TaskStep(t, "base", IdleJob)
      /\ file[i] # None
      /\ bases' = [bases EXCEPT ![i] = h]
      /\ aged' = aged \ {i}
      /\ raced' = raced \cup (Doomed \cap {h})
      /\ outdated' = outdated \cup Listed(i)
      /\ UNCHANGED <<objects, history, evicted>>

\* The file or its row is gone: an open, a copy or an insert fails.
FileGone(t) ==
  /\ task[t].pc \in {"hash", "copy", "insert", "base"}
  /\ file[task[t].inode] = None
  /\ task' = [task EXCEPT ![t] = AfterCapture(t)]
  /\ UNCHANGED <<file, dirty, objects, rows, gc, marks, writes, cuts>>

\* An operation fails for another reason, and the snapshot with it.
Abort(t) ==
  /\ cuts < MaxCuts /\ MoreEvents /\ cuts' = cuts + 1
  /\ task[t].pc \in {"hash", "copy", "insert", "prune", "base"}
  /\ task' = [task EXCEPT ![t] = AfterCapture(t)]
  /\ UNCHANGED <<file, dirty, objects, rows, gc, marks, writes>>

-----------------------------------------------------------------------------
(* evict_stale_bases.                                                      *)

\* base_retention_days pass for the base of i.
Age(i) ==
  /\ bases[i] # None
  /\ aged' = aged \cup {i}
  /\ UNCHANGED <<file, dirty, objects, bases, history, task, gc, marks, writes, cuts>>

GcStep(from, new) ==
  /\ gc.pc = from
  /\ gc' = new
  /\ UNCHANGED <<file, dirty, task, writes, cuts>>

Stale == {<<i, bases[i]>> : i \in aged \ dirty}

\* stale_base_entries.
EvictList ==
  /\ Stale # {}
  /\ GcStep("idle", Evictor("count", Stale, <<None, None>>, 0))
  /\ UNCHANGED <<objects, rows, marks>>

\* Fault variant: the blob is taken for unshared.
base_hash_ref_count_One(h) == 1

base_hash_ref_count(h) == Cardinality({i \in Inodes : bases[i] = h})

EvictCount(e) ==
  /\ e \in gc.todo
  /\ GcStep("count", Evictor("row", gc.todo \ {e}, e, base_hash_ref_count(e[2])))
  /\ UNCHANGED <<objects, rows, marks>>

\* Where the loop goes after an entry.
NextEntry(todo) == IF todo = {} THEN IdleGc ELSE Evictor("count", todo, <<None, None>>, 0)

\* remove_base_hash, whatever base the row has by now.
EvictRow ==
  /\ GcStep("row", IF gc.refs <= 1 THEN Evictor("blob", gc.todo, gc.at, 0)
                                   ELSE NextEntry(gc.todo))
  /\ bases' = [bases EXCEPT ![gc.at[1]] = None]
  /\ aged' = aged \ {gc.at[1]}
  /\ UNCHANGED <<objects, history, marks>>

EvictBlob ==
  /\ GcStep("blob", NextEntry(gc.todo))
  /\ objects' = [objects EXCEPT ![gc.at[2]] = None]
  /\ raced' = raced \cup (Found \cap {gc.at[2]})
  /\ evicted' = evicted \cup {h \in {gc.at[2]} : InHistory(h)}
  /\ UNCHANGED <<rows, outdated>>

\* A DB call or remove_object fails: the rest of the list waits for the next round.
EvictAbort ==
  /\ cuts < MaxCuts /\ MoreEvents /\ cuts' = cuts + 1
  /\ gc.pc # "idle"
  /\ gc' = IdleGc
  /\ UNCHANGED <<file, dirty, objects, rows, task, marks, writes>>

-----------------------------------------------------------------------------
\* Fault variant: the rows that refer to the inode stay.
Delete_NoCascade(i) ==
  /\ file[i] # None
  /\ file' = [file EXCEPT ![i] = None]
  /\ dirty' = dirty \ {i}
  /\ outdated' = outdated \cup Listed(i)
  /\ UNCHANGED <<objects, rows, task, gc, raced, evicted, writes, cuts>>

\* The row is deleted (unlink, or a poll that misses the file): the foreign keys
\* take the base and the history with it, the blobs stay.
Delete(i) ==
  /\ file[i] # None
  /\ file' = [file EXCEPT ![i] = None]
  /\ dirty' = dirty \ {i}
  /\ bases' = [bases EXCEPT ![i] = None] /\ aged' = aged \ {i}
  /\ history' = [history EXCEPT ![i] = << >>]
  /\ outdated' = outdated \cup Listed(i)
  /\ UNCHANGED <<objects, task, gc, raced, evicted, writes, cuts>>

\* The daemon dies and starts again.
Crash ==
  /\ cuts' = cuts + Cardinality({t \in Tasks : task[t].pc # "idle"})
  /\ cuts' <= MaxCuts /\ writes + cuts' <= MaxEvents
  /\ task' = [t \in Tasks |-> IdleJob]
  /\ gc' = IdleGc
  /\ UNCHANGED <<file, dirty, objects, rows, marks, writes>>

\* versions restore: a version goes back into the cache file, marked dirty.
Restore(i, k) ==
  /\ writes < MaxWrites /\ MoreEvents /\ writes' = writes + 1
  /\ objects[history[i][k]] # None
  /\ file' = [file EXCEPT ![i] = objects[history[i][k]]]
  /\ dirty' = dirty \cup {i}
  /\ UNCHANGED <<objects, rows, task, gc, marks, cuts>>

Snapshot(t) ==
  \/ StoreHash(t) \/ StoreExists(t) \/ StoreCopy(t)
  \/ InsertVersion(t) \/ Prune(t) \/ (\E h \in Contents : RemoveOrphan(t, h))
  \/ Captured(t) \/ SetBase(t) \/ FileGone(t)

Evict ==
  \/ EvictList \/ (\E e \in Inodes \X Contents : EvictCount(e))
  \/ EvictRow \/ EvictBlob

Next ==
  \/ \E i \in Inodes, c \in Contents : Write(i, c)
  \/ \E t \in Tasks, i \in Inodes : Uploaded(t, i) \/ BeforePoll(t, i)
  \/ \E t \in Tasks, i \in Inodes, c \in Contents : Hydrated(t, i, c)
  \/ \E t \in Tasks : Snapshot(t) \/ Abort(t)
  \/ \E t \in Tasks, h \in Contents : RemoveFails(t, h)
  \/ \E i \in Inodes : Age(i) \/ Delete(i)
  \/ Evict \/ EvictAbort
  \/ Crash
  \/ \E i \in Inodes : \E k \in DOMAIN history[i] : Restore(i, k)

Spec == Init /\ [][Next]_vars

-----------------------------------------------------------------------------
OptContents == Contents \cup {None}
Entries     == Inodes \X Contents
Pcs         == {"idle", "hash", "exists", "copy", "insert", "prune", "remove", "base"}
Jobs        == [pc : Pcs, kind : {"upload", "poll", "base"}, inode : Inodes \cup {None},
                hash : OptContents, orphans : SUBSET Contents]
Evictors    == [pc : {"idle", "count", "row", "blob"}, todo : SUBSET Entries,
                at : Entries \cup {<<None, None>>}, refs : Nat]

TypeOK ==
  /\ file \in [Inodes -> OptContents]
  /\ dirty \subseteq Inodes
  /\ objects \in [Contents -> OptContents]
  /\ bases \in [Inodes -> OptContents]
  /\ aged \subseteq {i \in Inodes : bases[i] # None}
  /\ history \in [Inodes -> Seq(Contents)]
  /\ \A i \in Inodes : file[i] = None => bases[i] = None /\ history[i] = << >>
  /\ task \in [Tasks -> Jobs]
  /\ gc \in Evictors
  /\ raced \subseteq Contents /\ outdated \subseteq Contents /\ evicted \subseteq Contents
  /\ writes \in Nat /\ cuts \in Nat

\* Every version in the history can be restored: its blob is on disk, unless that
\* blob was collected while another snapshot was storing the same content
\* (prune_version_history and remove_object are two steps, and so are store_base and
\* the insert of the row), or was taken by evict_stale_bases, which counts the rows of
\* base_versions only.  Nothing else - no prune, failure or crash - takes one.
VersionsOnDisk ==
  \A i \in Inodes : \A h \in Rng(history[i]) \ (raced \cup evicted) : objects[h] # None

\* What 07-cache.md, 08-config.md and 0005_version_history.sql say of the evictor
\* too: a blob goes only when no row of either table names it, so that outside the
\* races every version can be restored.
HistoryRestorable ==
  \A i \in Inodes : \A h \in Rng(history[i]) \ raced : objects[h] # None

\* The merge base of a file is on disk, unless it was stored while it was being
\* collected or its content was listed by the evictor for a file whose base has
\* changed since: pruning and eviction respect the bases of other files.
BasesOnDisk ==
  \A i \in Inodes :
    bases[i] \in Contents \ (raced \cup outdated) => objects[bases[i]] # None

\* version_retention bounds the history of a file, whatever snapshots of it
\* overlap: one row more for each that has yet to prune or was cut short.
HistoryBounded ==
  \A i \in Inodes :
    Len(history[i]) <=
      Retention + cuts
        + Cardinality({t \in Tasks : task[t].pc = "prune" /\ task[t].inode = i})
=============================================================================
