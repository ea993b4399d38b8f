------------------------------ MODULE Hydration ------------------------------
(***************************************************************************)
(* One file of a mount, and everything that fills, reads, empties or       *)
(* rewrites its cache file: the downloads of do_hydrate (started by open,  *)
(* read, hydrate_if_needed and the small-file prefetch), the FUSE reads    *)
(* and writes, the header cache, the eviction loop, the pin, unpin and     *)
(* cache clear commands (processes of their own that share the database    *)
(* and the cache directory), the crash of the daemon and its start-up.     *)
(*                                                                         *)
(* Content is abstracted to the remote version it derives from and whether *)
(* it holds a local edit; an ETag is the version it was read for.  A poll  *)
(* and an upload are one step each: modules Poller and FileSync take them  *)
(* apart.                                                                  *)
(***************************************************************************)
EXTENDS Naturals

CONSTANTS
  Tasks,        \* slots for concurrent runs of do_hydrate
  MaxAttempts,  \* MAX_RETRIES of hydrate_if_needed
  MaxVersions,  \* bound: versions the remote file goes through
  MaxEvents,    \* bound: operations of users, pollers and background loops
  MaxFaults,    \* bound: failing transfers
  MaxCrashes    \* bound: crashes of the daemon

VARIABLES
  remote,   \* version at the remote, 0 when the path is gone
  top,      \* newest version there ever was
  row,      \* the file_index and cache_lru rows of the inode
  disk,     \* the cache file
  partial,  \* a temp file under .meta/partial that no download owns
  header,   \* version of .meta/headers/<inode>, 0 when there is none
  fetch,    \* the header download in prefetch_inflight
  task,     \* the runs of do_hydrate
  handle,   \* an open file of open_files: its hydrating flag
  reader,   \* a read request on that handle
  fuse,     \* what the (serial) FUSE session loop is in the middle of
  evictor,  \* maybe_evict
  cli,      \* a command of another process
  boot,     \* start-up stage of the daemon
  known,    \* all_cache_paths, as the reconciler read it
  edit,     \* history: the newest acknowledged write not yet uploaded
  blind,    \* history: how the ETag may have got ahead of the content
  dropped,  \* history: a spawned download gave up before it began
  meddled,  \* history: a command was at work during the start-up
  events, faults, crashes

dbVars    == <<row, disk>>
srvVars   == <<remote, top>>
headVars  == <<header, fetch>>
bootVars  == <<boot, known, partial>>
ghosts    == <<edit, blind, dropped, meddled>>
budgets   == <<events, faults, crashes>>
vars == <<remote, top, row, disk, partial, header, fetch, task, handle, reader,
          fuse, evictor, cli, boot, known, edit, blind, dropped, meddled, events,
          faults, crashes>>

ASSUME BoundsAssumption ==
  /\ MaxAttempts \in Nat \ {0}
  /\ MaxVersions \in Nat \ {0, 1}   \* the third initial state has two versions
  /\ {MaxEvents, MaxFaults, MaxCrashes} \subseteq Nat
-----------------------------------------------------------------------------
(* The rows and the file.                                                  *)

Versions == 0 .. MaxVersions
Statuses == {"remote", "stale", "hydrating", "cached", "dirty"}

\* lru: no row of cache_lru, an unpinned one, a pinned one.
Row(status, etag, cpath, lru) ==
  [status |-> status, etag |-> etag, cpath |-> cpath, lru |-> lru]
NoRow == Row("gone", 0, FALSE, "none")

File(base, edited) == [base |-> base, edited |-> edited]
NoFile == File(0, FALSE)

Exists == row # NoRow
NeedsHydration == row.status \in {"remote", "stale"}
HasLocalData   == row.status \in {"cached", "dirty"}

Touched(l) == IF l = "none" THEN "unpinned" ELSE l

\* Fault variant: the write brings a deleted row back.
Update_Inserts(r) == row' = r

\* UPDATE ... WHERE inode = ? changes nothing once the row is deleted.
Update(r) == row' = IF Exists THEN r ELSE row

set_status(s) == Update([row EXCEPT !.status = s])
set_cached(etag) == Update(Row("cached", etag, TRUE, Touched(row.lru)))
set_evicted == Update(Row("remote", row.etag, FALSE, "none"))
touch_lru == Update([row EXCEPT !.lru = Touched(@)])

\* set_dirty_size; the trigger of migration 0010 aborts it without a path.
set_dirty_size == Update(IF row.cpath THEN [row EXCEPT !.status = "dirty"] ELSE row)
set_dirty_with_cache_path == Update([row EXCEPT !.status = "dirty", !.cpath = TRUE])
set_pinned(l) == Update([row EXCEPT !.lru = l])

Idle == [pc |-> "idle", etag |-> 0, got |-> 0]
Running(pc, etag) == [pc |-> pc, etag |-> etag, got |-> 0]
Quiet == [pc |-> "idle", attempt |-> 0, slot |-> 0, etag |-> 0]
NoCli == [pc |-> "idle", got |-> 0, ver |-> 0]
NoFetch == [pc |-> "none", got |-> 0]

Up == boot = "up"
Spend == events < MaxEvents /\ events' = events + 1
Blinds(how, when) == blind' = blind \cup {h \in {how} : when}
Fault == faults < MaxFaults /\ faults' = faults + 1

\* Something that began earlier may still replace or remove the cache file.
Filling == \E t \in Tasks : task[t].pc # "idle"
InFlight ==
  \/ Filling
  \/ reader.pc \in {"kick", "claim", "register", "wait"}
  \/ fuse = "opening"
  \/ evictor \in {"remove", "set"}
  \/ cli.pc \in {"download", "stat", "commit", "unlink"}

Init ==
  /\ \/ top = 1 /\ row = Row("remote", 1, FALSE, "none") /\ disk = NoFile
     \/ top = 1 /\ row = Row("cached", 1, TRUE, "unpinned") /\ disk = File(1, FALSE)
     \/ top = 2 /\ row = Row("stale", 2, TRUE, "unpinned") /\ disk = File(1, FALSE)
  /\ remote = top
  /\ partial = FALSE
  /\ header = 0 /\ fetch = NoFetch
  /\ task = [t \in Tasks |-> Idle]
  /\ handle = "closed"
  /\ reader = Quiet
  /\ fuse = "idle"
  /\ evictor = "idle"
  /\ cli = NoCli
  /\ boot = "up" /\ known = FALSE
  /\ edit = "none" /\ blind = {} /\ dropped = FALSE /\ meddled = FALSE
  /\ events = 0 /\ faults = 0 /\ crashes = 0
-----------------------------------------------------------------------------
(* The remote, the poller and the upload queue, seen from here.            *)

RemoteEdit ==
  /\ Spend
  /\ top < MaxVersions
  /\ top' = top + 1 /\ remote' = top + 1
  /\ UNCHANGED <<dbVars, headVars, task, handle, reader, fuse, evictor, cli,
                 bootVars, ghosts, faults, crashes>>

RemoteDelete ==
  /\ Spend
  /\ remote # 0
  /\ remote' = 0
  /\ UNCHANGED <<top, dbVars, headVars, task, handle, reader, fuse, evictor, cli,
                 bootVars, ghosts, faults, crashes>>

\* The upsert of a poll, then invalidate_header.
Poll ==
  /\ Up /\ remote # 0 /\ remote # row.etag
  /\ row' = IF Exists
            THEN [row EXCEPT !.etag = remote,
                             !.status = IF @ = "dirty" THEN @ ELSE "stale"]
            ELSE Row("remote", remote, FALSE, "none")
  /\ header' = 0
  /\ Blinds("poll", row.status = "dirty")
  /\ UNCHANGED <<srvVars, disk, fetch, task, handle, reader, fuse, evictor, cli,
                 bootVars, edit, dropped, meddled, budgets>>

\* The sweep of a poll: the row, its cache file and its header.
PollGone ==
  /\ Up /\ remote = 0 /\ Exists /\ row.status # "dirty"
  /\ row' = NoRow
  /\ disk' = IF row.cpath THEN NoFile ELSE disk
  /\ header' = 0
  /\ UNCHANGED <<srvVars, fetch, task, handle, reader, fuse, evictor, cli,
                 bootVars, ghosts, budgets>>

\* run_upload: the if-match check passes and the cache file goes up.
Upload ==
  /\ Up /\ fuse = "idle"
  /\ row.status = "dirty" /\ disk # NoFile
  /\ remote \in {0, row.etag} /\ top < MaxVersions
  /\ top' = top + 1 /\ remote' = top + 1
  /\ row' = Row("cached", top + 1, TRUE, Touched(row.lru))
  /\ disk' = File(top + 1, FALSE)
  /\ edit' = "none"
  /\ UNCHANGED <<headVars, task, handle, reader, fuse, evictor, cli, bootVars,
                 blind, dropped, meddled, budgets>>

\* The if-match check fails: the resolver keeps both versions.
UploadConflict ==
  /\ Up /\ fuse = "idle"
  /\ row.status = "dirty" /\ disk # NoFile
  /\ remote \notin {0, row.etag}
  /\ row' = Row("cached", remote, TRUE, Touched(row.lru))
  /\ disk' = File(remote, FALSE)
  /\ edit' = "none"
  /\ UNCHANGED <<srvVars, headVars, task, handle, reader, fuse, evictor, cli,
                 bootVars, blind, dropped, meddled, budgets>>

\* revert_dirty_with_missing_cache.
UploadMissing ==
  /\ Up
  /\ row.status = "dirty" /\ disk = NoFile
  /\ row' = Row("remote", row.etag, FALSE, "none")
  /\ UNCHANGED <<srvVars, disk, headVars, task, handle, reader, fuse, evictor,
                 cli, bootVars, ghosts, budgets>>
-----------------------------------------------------------------------------
(* do_hydrate.                                                             *)

\* The task open and read spawn re-reads the row.
SpawnedStarts(t) ==
  /\ task[t].pc = "spawned"
  /\ task' = [task EXCEPT ![t] = IF Exists THEN Running("download", row.etag) ELSE Idle]
  /\ UNCHANGED <<srvVars, dbVars, headVars, handle, reader, fuse, evictor, cli,
                 bootVars, ghosts, budgets>>

\* The database answers with an error: the task returns without a word.
SpawnedDies(t) ==
  /\ Fault
  /\ task[t].pc = "spawned"
  /\ task' = [task EXCEPT ![t] = Idle]
  /\ dropped' = TRUE
  /\ UNCHANGED <<srvVars, dbVars, headVars, handle, reader, fuse, evictor, cli,
                 bootVars, edit, blind, meddled, events, crashes>>

\* The prefetch gets its permit: it marks the row it listed earlier.
PrefetchStarts(t) ==
  /\ task[t].pc = "queued"
  /\ set_status("hydrating")
  /\ task' = [task EXCEPT ![t].pc = "download"]
  /\ UNCHANGED <<srvVars, disk, headVars, handle, reader, fuse, evictor, cli,
                 bootVars, ghosts, budgets>>

Download(t) ==
  /\ task[t].pc = "download"
  /\ task' = [task EXCEPT ![t] =
                [@ EXCEPT !.pc = IF remote = 0 THEN "verify" ELSE "rename",
                          !.got = remote]]
  /\ UNCHANGED <<srvVars, dbVars, headVars, handle, reader, fuse, evictor, cli,
                 bootVars, ghosts, budgets>>

DownloadFails(t) ==
  /\ Fault
  /\ task[t].pc \in {"download", "verify"}
  /\ task' = [task EXCEPT ![t].pc = "rollback"]
  /\ UNCHANGED <<srvVars, dbVars, headVars, handle, reader, fuse, evictor, cli,
                 bootVars, ghosts, events, crashes>>

\* Self-healing: a path that stat does not know either loses its row.
Verify(t) ==
  /\ task[t].pc = "verify"
  /\ row' = IF remote = 0 THEN NoRow ELSE row
  /\ task' = [task EXCEPT ![t].pc = IF remote = 0 THEN "failed" ELSE "rollback"]
  /\ UNCHANGED <<srvVars, disk, headVars, handle, reader, fuse, evictor, cli,
                 bootVars, ghosts, budgets>>

Rename(t) ==
  /\ task[t].pc = "rename"
  /\ disk' = File(task[t].got, FALSE)
  /\ task' = [task EXCEPT ![t].pc = "commit"]
  /\ UNCHANGED <<srvVars, row, headVars, handle, reader, fuse, evictor, cli,
                 bootVars, ghosts, budgets>>

\* set_cached with the ETag the task read before the download, unless the
\* file went away again before its metadata were read.
Committed(t, etag) ==
  /\ task[t].pc = "commit"
  /\ IF disk = NoFile
     THEN UNCHANGED row /\ task' = [task EXCEPT ![t].pc = "rollback"]
     ELSE set_cached(etag) /\ task' = [task EXCEPT ![t].pc = "done"]
  /\ Blinds("race", disk.base # task[t].got)
  /\ UNCHANGED <<srvVars, disk, headVars, handle, reader, fuse, evictor, cli,
                 bootVars, edit, dropped, meddled, budgets>>

\* Fault variant: the ETag is read after the download.
Commit_RowEtag(t) == Committed(t, row.etag)
Commit(t) == Committed(t, task[t].etag)

\* Fault variant: a failed download leaves the status alone.
Rollback_Keeps(t) ==
  /\ task[t].pc = "rollback"
  /\ task' = [task EXCEPT ![t].pc = "failed"]
  /\ UNCHANGED <<srvVars, dbVars, headVars, handle, reader, fuse, evictor, cli,
                 bootVars, ghosts, budgets>>

Rollback(t) ==
  /\ task[t].pc = "rollback"
  /\ set_status("remote")
  /\ task' = [task EXCEPT ![t].pc = "failed"]
  /\ UNCHANGED <<srvVars, disk, headVars, handle, reader, fuse, evictor, cli,
                 bootVars, ghosts, budgets>>

\* Waiters registered by now get the result; so does the read that runs it.
Drain(t) ==
  /\ task[t].pc \in {"done", "failed"}
  /\ task' = [task EXCEPT ![t] = Idle]
  /\ IF reader.pc = "wait" \/ (reader.pc = "run" /\ reader.slot = t)
     THEN IF task[t].pc = "done"
          THEN reader' = [Quiet EXCEPT !.pc = "hydrated"]
          ELSE reader' = Quiet
     ELSE UNCHANGED reader
  /\ UNCHANGED <<srvVars, dbVars, headVars, handle, fuse, evictor, cli, bootVars,
                 ghosts, budgets>>

\* spawn_prefetch_small_files lists the directory.
PrefetchQueued(t) ==
  /\ Spend /\ Up
  /\ task[t] = Idle
  /\ NeedsHydration
  /\ task' = [task EXCEPT ![t] = Running("queued", row.etag)]
  /\ UNCHANGED <<srvVars, dbVars, headVars, handle, reader, fuse, evictor, cli,
                 bootVars, ghosts, faults, crashes>>
-----------------------------------------------------------------------------
(* spawn_prefetch_headers and the header cache.                            *)

HeaderQueued ==
  /\ Spend /\ Up
  /\ NeedsHydration /\ header = 0 /\ fetch = NoFetch
  /\ fetch' = [pc |-> "queued", got |-> 0]
  /\ UNCHANGED <<srvVars, dbVars, header, task, handle, reader, fuse, evictor,
                 cli, bootVars, ghosts, faults, crashes>>

\* Another directory has the focus, a header is there by now, or the range
\* download fails.
HeaderDropped ==
  /\ fetch.pc = "queued"
  /\ fetch' = NoFetch
  /\ UNCHANGED <<srvVars, dbVars, header, task, handle, reader, fuse, evictor,
                 cli, bootVars, ghosts, budgets>>

HeaderFetched ==
  /\ fetch.pc = "queued" /\ header = 0 /\ remote # 0
  /\ fetch' = [pc |-> "write", got |-> remote]
  /\ UNCHANGED <<srvVars, dbVars, header, task, handle, reader, fuse, evictor,
                 cli, bootVars, ghosts, budgets>>

HeaderWritten ==
  /\ fetch.pc = "write"
  /\ header' = fetch.got /\ fetch' = NoFetch
  /\ UNCHANGED <<srvVars, dbVars, task, handle, reader, fuse, evictor, cli,
                 bootVars, ghosts, budgets>>
-----------------------------------------------------------------------------
(* open, setattr, write and release run on the session loop, one by one.   *)

Open ==
  /\ Spend /\ Up /\ fuse = "idle"
  /\ handle = "closed" /\ Exists
  /\ \/ NeedsHydration /\ fuse' = "opening" /\ UNCHANGED <<row, handle>>
     \/ \* over auto_hydrate_max_size, or nothing to download
        /\ UNCHANGED fuse
        /\ IF row.status = "hydrating" THEN UNCHANGED row ELSE touch_lru
        /\ handle' = IF HasLocalData THEN "ready" ELSE "hydrating"
  /\ UNCHANGED <<srvVars, disk, headVars, task, reader, evictor, cli, bootVars,
                 ghosts, faults, crashes>>

OpenHydrates(t) ==
  /\ fuse = "opening" /\ task[t] = Idle
  /\ set_status("hydrating")
  /\ task' = [task EXCEPT ![t] = Running("spawned", 0)]
  /\ handle' = "hydrating" /\ fuse' = "idle"
  /\ UNCHANGED <<srvVars, disk, headVars, reader, evictor, cli, bootVars, ghosts,
                 budgets>>

Release ==
  /\ handle # "closed" /\ fuse = "idle" /\ reader = Quiet
  /\ handle' = "closed"
  /\ UNCHANGED <<srvVars, dbVars, headVars, task, reader, fuse, evictor, cli,
                 bootVars, ghosts, budgets>>

\* handle_write: the bytes first; without a cache file the write fails.
Write ==
  /\ Spend /\ fuse = "idle"
  /\ handle # "closed" /\ disk # NoFile
  /\ disk' = File(disk.base, TRUE)
  /\ fuse' = IF InFlight THEN "marking late" ELSE "marking"
  /\ UNCHANGED <<srvVars, row, headVars, task, handle, reader, evictor, cli,
                 bootVars, ghosts, faults, crashes>>

\* setattr with a size: truncate the cache file, or make one.
Truncate ==
  /\ Spend /\ Up /\ fuse = "idle" /\ Exists
  /\ IF row.cpath
     THEN /\ disk # NoFile
          /\ disk' = File(disk.base, TRUE)
          /\ fuse' = IF InFlight THEN "marking late" ELSE "marking"
     ELSE /\ disk' = File(row.etag, TRUE)
          /\ fuse' = IF InFlight THEN "linking late" ELSE "linking"
  /\ UNCHANGED <<srvVars, row, headVars, task, handle, reader, evictor, cli,
                 bootVars, ghosts, faults, crashes>>

Linking == fuse \in {"linking", "linking late"}

\* Then the row.  The history variables record whether the write overlapped
\* an operation already on its way (or hit a file that no row names, where
\* set_dirty_size is refused), and whether the row has an ETag newer than
\* the bytes that were edited.
Overlapped ==
  \/ fuse \in {"marking late", "linking late"} \/ InFlight
  \/ ~Exists \/ ~disk.edited \/ (~Linking /\ ~row.cpath)

Mark ==
  /\ fuse \notin {"idle", "opening"}
  /\ IF Linking THEN set_dirty_with_cache_path ELSE set_dirty_size
  /\ fuse' = "idle"
  /\ edit' = IF Overlapped \/ edit = "overlapped" THEN "overlapped" ELSE "kept"
  /\ Blinds("write", IF Linking THEN row.etag # disk.base ELSE ~HasLocalData)
  /\ UNCHANGED <<srvVars, disk, headVars, task, handle, reader, evictor, cli,
                 bootVars, dropped, meddled, budgets>>
-----------------------------------------------------------------------------
(* read runs as a task of its own; hydrate_if_needed is its fallback.      *)

ReaderAt(pc) == reader' = [reader EXCEPT !.pc = pc]

\* needs_wait and a header that covers the range.
ReadHeader ==
  /\ Spend /\ Up
  /\ reader = Quiet /\ handle = "hydrating" /\ header # 0
  /\ UNCHANGED <<srvVars, dbVars, headVars, task, handle, reader, fuse, evictor,
                 cli, bootVars, ghosts, faults, crashes>>

Read ==
  /\ Spend /\ Up
  /\ reader = Quiet /\ handle # "closed"
  /\ ReaderAt(IF handle = "ready" THEN "file" ELSE "status")
  /\ UNCHANGED <<srvVars, dbVars, headVars, task, handle, fuse, evictor, cli,
                 bootVars, ghosts, faults, crashes>>

\* Has the download finished since open?  A read past the header starts one.
ReadStatus ==
  /\ reader.pc = "status"
  /\ IF HasLocalData
     THEN handle' = "ready" /\ touch_lru /\ ReaderAt("file")
     ELSE /\ UNCHANGED <<handle, row>>
          /\ \/ Exists /\ ReaderAt("range")
             \/ row.status = "remote" /\ ReaderAt("kick")
             \/ ~Exists /\ ReaderAt("file")
  /\ UNCHANGED <<srvVars, disk, headVars, task, fuse, evictor, cli, bootVars,
                 ghosts, budgets>>

ReadKicks(t) ==
  /\ reader.pc = "kick" /\ task[t] = Idle
  /\ set_status("hydrating")
  /\ task' = [task EXCEPT ![t] = Running("spawned", 0)]
  /\ ReaderAt("range")
  /\ UNCHANGED <<srvVars, disk, headVars, handle, fuse, evictor, cli, bootVars,
                 ghosts, budgets>>

\* The range download answers; its bytes may become the header.
ReadRange ==
  /\ reader.pc = "range" /\ remote # 0
  /\ reader' = Quiet
  /\ \/ UNCHANGED fetch
     \/ /\ header = 0 /\ fetch = NoFetch
        /\ fetch' = [pc |-> "write", got |-> remote]
  /\ UNCHANGED <<srvVars, dbVars, header, task, handle, fuse, evictor, cli,
                 bootVars, ghosts, budgets>>

\* It is not supported, or fails.
RangeFails ==
  /\ reader.pc = "range"
  /\ ReaderAt("check")
  /\ UNCHANGED <<srvVars, dbVars, headVars, task, handle, fuse, evictor, cli,
                 bootVars, ghosts, budgets>>

\* One attempt of hydrate_if_needed.
Check ==
  /\ reader.pc = "check"
  /\ reader' = IF ~Exists THEN Quiet
               ELSE IF HasLocalData THEN [reader EXCEPT !.pc = "hydrated"]
               ELSE IF NeedsHydration THEN [reader EXCEPT !.pc = "claim", !.etag = row.etag]
               ELSE [reader EXCEPT !.pc = "register"]
  /\ UNCHANGED <<srvVars, dbVars, headVars, task, handle, fuse, evictor, cli,
                 bootVars, ghosts, budgets>>

Claim(t) ==
  /\ reader.pc = "claim" /\ task[t] = Idle
  /\ set_status("hydrating")
  /\ task' = [task EXCEPT ![t] = Running("download", reader.etag)]
  /\ reader' = [reader EXCEPT !.pc = "run", !.slot = t, !.etag = 0]
  /\ UNCHANGED <<srvVars, disk, headVars, handle, fuse, evictor, cli, bootVars,
                 ghosts, budgets>>

Register ==
  /\ reader.pc = "register"
  /\ ReaderAt("wait")
  /\ UNCHANGED <<srvVars, dbVars, headVars, task, handle, fuse, evictor, cli,
                 bootVars, ghosts, budgets>>

\* Fault variant: the wait for the other download has no limit.
WaitTimesOut_Never == FALSE /\ UNCHANGED vars

\* WAIT_TIMEOUT: reset the row and try again, MaxAttempts times.
WaitTimesOut ==
  /\ reader.pc = "wait"
  /\ set_status("remote")
  /\ reader' = IF reader.attempt + 1 < MaxAttempts
               THEN [reader EXCEPT !.pc = "check", !.attempt = @ + 1] ELSE Quiet
  /\ UNCHANGED <<srvVars, disk, headVars, task, handle, fuse, evictor, cli,
                 bootVars, ghosts, budgets>>

ReadHydrated ==
  /\ reader.pc = "hydrated"
  /\ handle' = "ready"
  /\ touch_lru
  /\ ReaderAt("file")
  /\ UNCHANGED <<srvVars, disk, headVars, task, fuse, evictor, cli, bootVars,
                 ghosts, budgets>>

\* The bytes of the cache file, or the error of opening it.
ReadFile ==
  /\ reader.pc = "file"
  /\ reader' = Quiet
  /\ UNCHANGED <<srvVars, dbVars, headVars, task, handle, fuse, evictor, cli,
                 bootVars, ghosts, budgets>>
-----------------------------------------------------------------------------
(* maybe_evict, over the high mark: query, check, remove, detach.          *)

Evictable == row.status = "cached" /\ row.lru = "unpinned"

EvictQuery ==
  /\ Spend /\ Up
  /\ evictor = "idle" /\ Evictable
  /\ evictor' = "check"
  /\ UNCHANGED <<srvVars, dbVars, headVars, task, handle, reader, fuse, cli,
                 bootVars, ghosts, faults, crashes>>

\* Fault variant: what the query said is still good enough.
EvictCheck_Trusts ==
  /\ evictor = "check"
  /\ evictor' = "remove"
  /\ UNCHANGED <<srvVars, dbVars, headVars, task, handle, reader, fuse, cli,
                 bootVars, ghosts, budgets>>

EvictCheck ==
  /\ evictor = "check"
  /\ evictor' = IF row.status = "cached" THEN "remove" ELSE "idle"
  /\ UNCHANGED <<srvVars, dbVars, headVars, task, handle, reader, fuse, cli,
                 bootVars, ghosts, budgets>>

\* A file that is missing counts as evicted too.
EvictRemove ==
  /\ evictor = "remove"
  /\ disk' = NoFile /\ evictor' = "set"
  /\ UNCHANGED <<srvVars, row, headVars, task, handle, reader, fuse, cli,
                 bootVars, ghosts, budgets>>

EvictSet ==
  /\ evictor = "set"
  /\ set_evicted
  /\ evictor' = "idle"
  /\ UNCHANGED <<srvVars, disk, headVars, task, handle, reader, fuse, cli,
                 bootVars, ghosts, budgets>>
-----------------------------------------------------------------------------
(* stratosync pin, unpin and cache clear.                                  *)

Pin ==
  /\ Spend
  /\ cli = NoCli /\ Exists
  /\ cli' = [NoCli EXCEPT !.pc = IF NeedsHydration THEN "download" ELSE "pin"]
  /\ meddled' = ~Up
  /\ UNCHANGED <<srvVars, dbVars, headVars, task, handle, reader, fuse, evictor,
                 bootVars, edit, blind, dropped, faults, crashes>>

PinDownload ==
  /\ cli.pc = "download" /\ remote # 0
  /\ disk' = File(remote, FALSE)
  /\ cli' = [cli EXCEPT !.pc = "stat", !.got = remote]
  /\ UNCHANGED <<srvVars, row, headVars, task, handle, reader, fuse, evictor,
                 bootVars, ghosts, budgets>>

PinStat ==
  /\ cli.pc = "stat" /\ remote # 0
  /\ cli' = [cli EXCEPT !.pc = "commit", !.ver = remote]
  /\ UNCHANGED <<srvVars, dbVars, headVars, task, handle, reader, fuse, evictor,
                 bootVars, ghosts, budgets>>

PinFails ==
  /\ cli.pc \in {"download", "stat"} /\ remote = 0
  /\ cli' = NoCli
  /\ UNCHANGED <<srvVars, dbVars, headVars, task, handle, reader, fuse, evictor,
                 bootVars, ghosts, budgets>>

PinCommit ==
  /\ cli.pc = "commit"
  /\ set_cached(cli.ver)
  /\ Blinds("pin", cli.ver # cli.got \/ disk.base # cli.got)
  /\ cli' = [NoCli EXCEPT !.pc = "pin"]
  /\ UNCHANGED <<srvVars, disk, headVars, task, handle, reader, fuse, evictor,
                 bootVars, edit, dropped, meddled, budgets>>

PinSet ==
  /\ cli.pc = "pin"
  /\ set_pinned("pinned")
  /\ cli' = NoCli
  /\ UNCHANGED <<srvVars, disk, headVars, task, handle, reader, fuse, evictor,
                 bootVars, ghosts, budgets>>

Unpin ==
  /\ Spend
  /\ cli = NoCli /\ Exists
  /\ set_pinned("unpinned")
  /\ UNCHANGED <<srvVars, disk, headVars, task, handle, reader, fuse, evictor,
                 cli, bootVars, ghosts, faults, crashes>>

Clearable(includePinned) ==
  /\ row.status \in {"cached", "stale"} /\ row.cpath
  /\ includePinned \/ row.lru # "pinned"

\* With the daemon stopped, or --force: first the rows, then the files.
Clear(includePinned) ==
  /\ Spend
  /\ cli = NoCli /\ Clearable(includePinned)
  /\ set_evicted
  /\ cli' = [NoCli EXCEPT !.pc = "unlink"]
  /\ meddled' = ~Up
  /\ UNCHANGED <<srvVars, disk, headVars, task, handle, reader, fuse, evictor,
                 bootVars, edit, blind, dropped, faults, crashes>>

ClearUnlink ==
  /\ cli.pc = "unlink"
  /\ disk' = NoFile /\ cli' = NoCli
  /\ UNCHANGED <<srvVars, row, headVars, task, handle, reader, fuse, evictor,
                 bootVars, ghosts, budgets>>
-----------------------------------------------------------------------------
(* A crash and the next start.  Commands run on.                           *)

Crash ==
  /\ crashes < MaxCrashes /\ crashes' = crashes + 1
  /\ boot' = "reset" /\ known' = FALSE
  /\ partial' = (partial \/ \E t \in Tasks : task[t].pc = "rename")
  /\ task' = [t \in Tasks |-> Idle]
  /\ fetch' = NoFetch
  /\ handle' = "closed" /\ reader' = Quiet /\ fuse' = "idle" /\ evictor' = "idle"
  /\ Blinds("crash", \E t \in Tasks : task[t].pc = "commit")
  /\ meddled' = (cli # NoCli)
  /\ UNCHANGED <<srvVars, dbVars, header, cli, edit, dropped, events, faults>>

\* reset_hydrating.
BootReset ==
  /\ boot = "reset"
  /\ row' = IF row.status = "hydrating"
            THEN [row EXCEPT !.status = "remote", !.cpath = FALSE] ELSE row
  /\ boot' = "paths"
  /\ UNCHANGED <<srvVars, disk, headVars, task, handle, reader, fuse, evictor,
                 cli, known, partial, ghosts, budgets>>

\* reconcile_orphans: the paths of the database, then the walk.
ReconcilePaths ==
  /\ boot = "paths"
  /\ known' = row.cpath /\ boot' = "walk"
  /\ UNCHANGED <<srvVars, dbVars, headVars, task, handle, reader, fuse, evictor,
                 cli, partial, ghosts, budgets>>

\* Fault variant: only the tree, not .meta/partial.
ReconcileWalk_Tree ==
  /\ boot = "walk"
  /\ disk' = IF known THEN disk ELSE NoFile
  /\ boot' = "requeue"
  /\ UNCHANGED <<srvVars, row, headVars, task, handle, reader, fuse, evictor, cli,
                 known, partial, ghosts, budgets>>

ReconcileWalk ==
  /\ boot = "walk"
  /\ disk' = IF known THEN disk ELSE NoFile
  /\ partial' = FALSE
  /\ boot' = "requeue"
  /\ UNCHANGED <<srvVars, row, headVars, task, handle, reader, fuse, evictor, cli,
                 known, ghosts, budgets>>

\* reset_stuck_dirty_files_without_cache_path; the pending rows are queued.
BootRequeue ==
  /\ boot = "requeue"
  /\ row' = IF row.status = "dirty" /\ ~row.cpath
            THEN [row EXCEPT !.status = "remote"] ELSE row
  /\ boot' = "up" /\ known' = FALSE /\ meddled' = FALSE
  /\ UNCHANGED <<srvVars, disk, headVars, task, handle, reader, fuse, evictor,
                 cli, partial, edit, blind, dropped, budgets>>
-----------------------------------------------------------------------------
TaskStep(t) ==
  \/ SpawnedStarts(t) \/ PrefetchStarts(t) \/ Download(t) \/ Verify(t) \/ Rename(t)
  \/ Commit(t) \/ Rollback(t) \/ Drain(t)

ReadStep ==
  \/ ReadStatus \/ ReadRange \/ RangeFails \/ Check \/ Register \/ WaitTimesOut
  \/ ReadHydrated \/ ReadFile
  \/ \E t \in Tasks : ReadKicks(t) \/ Claim(t)

FuseStep == Mark \/ \E t \in Tasks : OpenHydrates(t)

EvictStep == EvictCheck \/ EvictRemove \/ EvictSet
PinStep == PinDownload \/ PinStat \/ PinFails \/ PinCommit \/ PinSet \/ ClearUnlink
BootStep == BootReset \/ ReconcilePaths \/ ReconcileWalk \/ BootRequeue

Next ==
  \/ RemoteEdit \/ RemoteDelete \/ Poll \/ PollGone
  \/ Upload \/ UploadConflict \/ UploadMissing
  \/ \E t \in Tasks : \/ TaskStep(t) \/ SpawnedDies(t) \/ DownloadFails(t)
                      \/ PrefetchQueued(t)
  \/ HeaderQueued \/ HeaderDropped \/ HeaderFetched \/ HeaderWritten
  \/ Open \/ Release \/ Write \/ Truncate \/ FuseStep
  \/ ReadHeader \/ Read \/ ReadStep
  \/ EvictQuery \/ EvictStep
  \/ Pin \/ PinStep \/ Unpin \/ \E p \in BOOLEAN : Clear(p)
  \/ Crash \/ BootStep

Spec == Init /\ [][Next]_vars

\* The runtime polls every spawned task and every request it has accepted;
\* users, polls, commands and faults need not go on.
Fairness ==
  /\ \A t \in Tasks : WF_vars(TaskStep(t))
  /\ WF_vars(ReadStep) /\ WF_vars(FuseStep) /\ WF_vars(BootStep)

FairSpec == Spec /\ Fairness
-----------------------------------------------------------------------------
(* Properties.                                                             *)

\* The values the variables take.
TypeOK ==
  /\ remote \in Versions /\ top \in Versions /\ remote <= top
  /\ row \in [status : Statuses \cup {"gone"}, etag : Versions, cpath : BOOLEAN,
              lru : {"none", "unpinned", "pinned"}]
  /\ row.etag = 0 <=> row = NoRow
  /\ disk \in [base : Versions, edited : BOOLEAN]
  /\ partial \in BOOLEAN /\ {known, dropped, meddled} \subseteq BOOLEAN
  /\ blind \subseteq {"poll", "write", "pin", "race", "crash"}
  /\ header \in Versions
  /\ fetch \in [pc : {"none", "queued", "write"}, got : Versions]
  /\ task \in [Tasks ->
       [pc : {"idle", "spawned", "queued", "download", "verify", "rename",
              "commit", "rollback", "done", "failed"},
        etag : Versions, got : Versions]]
  /\ handle \in {"closed", "hydrating", "ready"}
  /\ reader \in
       [pc : {"idle", "status", "kick", "range", "check", "claim", "register",
              "wait", "run", "hydrated", "file"},
        attempt : 0 .. MaxAttempts - 1, slot : Tasks \cup {0}, etag : Versions]
  /\ fuse \in {"idle", "opening", "marking", "marking late", "linking", "linking late"}
  /\ evictor \in {"idle", "check", "remove", "set"}
  /\ cli \in [pc : {"idle", "download", "stat", "commit", "pin", "unlink"},
              got : Versions, ver : Versions]
  /\ boot \in {"up", "reset", "paths", "walk", "requeue"}
  /\ edit \in {"none", "kept", "overlapped"}
  /\ events \in 0 .. MaxEvents /\ faults \in 0 .. MaxFaults /\ crashes \in 0 .. MaxCrashes

\* A row says hydrating only while a download that will change it is alive:
\* whichever of several concurrent downloads ends last has overwritten the
\* status (set_cached or the rollback), so that no open or read is left
\* waiting for nobody.  The exception is the spawned task that drops its
\* claim when the database does not answer (fuse/mod.rs, open).
HydratingHasTask ==
  (row.status = "hydrating" /\ Up /\ ~dropped) =>
     \E t \in Tasks : task[t].pc \notin {"idle", "queued", "done", "failed"}

\* A write that overlapped nothing keeps its bytes and its dirty mark
\* until an upload takes them: nothing that starts afterwards (an open, a
\* prefetch, an eviction, a poll, a pin, a cache clear, a crash and the
\* start-up that follows it) touches them.
WritesKept ==
  edit = "kept" => /\ disk.edited /\ row.status = "dirty" /\ row.cpath

\* The recorded ETag is never newer than the content, so that the if-match
\* check of the next upload can notice a remote edit the local file does not
\* contain.  The exceptions that the history variable blind names: a write
\* to a file the poll has just marked stale, a poll of a dirty row, a remote
\* edit between pin's download and its stat, a file replaced between the
\* rename and the commit of a download, and a crash between these two.  Between
\* these two steps themselves the row is behind the file.
Committing == \E t \in Tasks : task[t].pc = "commit"
EtagHonest ==
  (blind = {} /\ ~Committing /\ HasLocalData /\ disk # NoFile) => row.etag <= disk.base

\* A start-up that no command interferes with ends without temp files and
\* without a cache file that no row names: eviction could never reach those
\* bytes.  It takes the reset of the hydrating rows, the reading of the paths
\* and the walk in this order.
ReconcileComplete ==
  [][ (~Up /\ boot' = "up" /\ ~meddled) =>
        ~partial' /\ (disk' # NoFile => row'.cpath) ]_vars

\* Every read gets an answer: data or an error.  A reader that registers
\* after the download has drained its waiters is only saved by the timeout.
ReadsReturn == reader.pc # "idle" ~> reader.pc = "idle"

\* "When the poller sees a changed ETag on a file we have marked DIRTY or
\* UPLOADING, a conflict is pre-emptively detected before the upload even
\* starts": an upload of such a file does not replace a remote version that
\* its content does not contain.
RemoteEditsKept == [][ (Upload /\ blind = {"poll"}) => remote <= disk.base ]_vars
=============================================================================
