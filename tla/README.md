# A TLA+ model of stratosync

Stratosync mounts a cloud account as a local directory.  A daemon
(`stratosyncd`, crate `stratosync-daemon`) serves the mount through FUSE from a
cache directory, uploads what applications write, polls the cloud for what other
clients change, and resolves conflicts; `stratosync-core` holds its database,
backends and configuration; a CLI and a tray icon sit beside it.  This directory
holds TLA+ models of the parts where data can be lost or stuck, the TLC
configurations that check them, and TLAPS proofs of the main results.

## The system: inventory

| Component | State it keeps | Operations | Talks to |
|---|---|---|---|
| Upload queue (`sync/upload_queue.rs`) | trigger channel, pending map (deadline, immediate flag), in-flight set | enqueue, receive, deadline, completion | FUSE, watcher, startup (triggers); backend, DB, resolver |
| Bandwidth window (`config/mod.rs`) | none: a daily interval of minutes | `contains_minute`, `seconds_until_open` | read by the upload queue and by prefetch |
| Upload execution (`run_upload`, `backend/mod.rs`) | locals of a task: row ETag, result of the stat | read row, mark, check ETag, transfer, stat, record, snapshot base | DB, cache file, cloud |
| Conflict resolver (`sync/conflict.rs`, `content.rs`, `merge.rs`) | locals of one resolution | equality check, 3-way merge, keep-both | cache file, base store, cloud, DB |
| FUSE writes (`fuse/write_ops.rs`) | open-file table | write, fsync, release, create, unlink, rename, mkdir, rmdir, setattr | cache file, DB, upload queue, backend |
| Hydration and reads (`fuse/mod.rs`, `header_cache.rs`) | waiters per inode, partial files, header cache | open, read, hydrate, prefetch | DB, backend, base store |
| Directory listing (`fuse/mod.rs`) | `dir_listed` of a row | lookup, readdir, populate, prefetch of child directories | DB, backend |
| Remote poller (`sync/poller.rs`) | poll generation or change token, back-off | full poll, delta poll | backend, DB, cache files, version history |
| Delta providers (`backend/delta.rs`) | access token | start token, changes since a token | the provider's HTTP API, `rclone config` |
| State database (`state/mod.rs`) | `file_index`, `base_versions`, `version_history`, tombstones, LRU, tokens | one method per update, each under the connection mutex | everybody |
| Cache eviction (`cache/mod.rs`) | none beyond the DB | evict by LRU down to the low mark, evict stale bases | DB, cache files, base store |
| Orphan reconciler, startup (`cache/reconcile.rs`, `main.rs`) | none | reset hydrating rows, remove orphans, re-queue uploads | DB, cache directory |
| Base store, versions (`base_store.rs`, `sync/versioning.rs`) | blobs named by content hash | store, remove, capture, prune | DB |
| Watcher (`watcher/mod.rs`) | none | file event -> trigger | DB, upload queue |
| CLI (`stratosync-cli`) | none | conflicts, versions, pin, push, cache, dashboard | DB and cache files, from another process |
| IPC, metrics, tray, WebDAV sidecar, config | counters, settings | read-only views and plumbing | - |

What is hard in it:

* **Interleaving.** Writes, up to `max_upload_concurrent` uploads, the resolver,
  base snapshots on blocking threads, the poller, hydrations and evictions share
  one row and one cache file per inode.  The database mutex protects single
  statements only; every `await` between two of them is a window.
* **The cloud is shared and not transactional.** "Check the ETag, transfer,
  stat" are three rclone processes.
* **Failure in the middle.** Each rclone run and each DB call may fail after the
  previous ones took effect.  Some failures are retried, some abandon the file,
  some are only logged.
* **Crash.** Everything in memory (pending map, tasks, spawned snapshots) is
  gone; only the status column says what has to be done again.
* **Time.** The upload loop sleeps on one deadline computed from a wall-clock
  window that may be hours away.

What makes each component correct: no edit of any client disappears silently;
an acknowledged write is eventually in the cloud; a row never says `cached` over
content that nobody will upload; the queue neither oversleeps nor exceeds its
limit, and drains; the poller never hides a remote change from the conflict
check nor resurrects what was deleted; eviction and hydration never touch
unsynced bytes; a blob that a row refers to is on disk.

`PROJECT.json` lists the hazards line by line, with the properties that would
catch each.

## Modules

| Module | Models |
|---|---|
| `TransferWindow` | the bandwidth window, over a day of any number of minutes of any number of seconds |
| `UploadScheduler` | `upload_loop`: which upload starts when |
| `FileSync` | one file: writes, push, upload steps, resolver, another client, crash and recovery |
| `BlobStore` | blobs shared by merge bases and version history: snapshots, pruning, base eviction, restore |
| `Poller` | full and delta polls over the whole index |
| `ChangeFeed` | abstract: what the poller takes a change feed to be |
| `DeltaFeed` | the Google Drive and OneDrive providers, request by request; implements `ChangeFeed` |
| `Hydration` | one file: downloads, reads, writes, prefetch, eviction, pin and cache commands, crash and start-up |
| `Namespace` | a directory tree: create, mkdir, unlink, rmdir, rename, listings, with upload and poll |
| `Conflicts` | the `conflicts` command beside the daemon |
| `UploadScheduler_proofs`, `FileSync_proofs`, `BlobStore_proofs`, `Hydration_proofs`, `Conflicts_proofs`, `DeltaFeed_proofs`, `Poller_proofs`, `Namespace_proofs` | the theorems |
| `MC...` | symmetry and example constants for TLC |

How they fit together: each module takes one shared object (the queue, a file, the blob
store, the index, the feed, a cache file, the tree, a set of conflict copies) and
splits every actor that is *interesting for that object* into its steps; the
other actors appear as single steps there and are split in a module of their
own.  An upload is steps in `FileSync` and one step in `Poller`, `Hydration` and
`Conflicts`; a poll is steps in `Poller`; the feed it reads is one step in `Poller`
and many in `DeltaFeed`, joined by `ChangeFeed`.

Definitions whose name ends in `_Something` and whose comment says *Fault variant* are
plausible mistakes, used to see that a property notices them; no specification
uses them.

### UploadScheduler

`rx` is the mpsc channel, `pending`/`due`/`immediate` the pending map,
`in_flight` the JoinSet (a count per inode, `Tasks` the tasks it stands for: the code
does start a second upload of an inode that is in flight), `deadline` what the `select!` sleeps on,
`resolving` the inode whose conflict the loop awaits.  Each arm of the `select!`
is an action (`Receive`, `Launch`, `Complete`, `CompleteRetry`,
`CompleteConflict`/`Resolved`) that ends with `Loop`, the deadline computation at
the top of the next iteration; while `resolving` no arm runs.  Instants are kept
relative to now, so `Tick` counts `due` and `deadline` down and moves the wall
clock, and time never runs out.  Debounces and window are parameters.  In the code
the write debounce is whatever interval `main.rs` passes and `Receive`
recognises a write by comparing durations; so does the model.

Left out: the `Snapshot` trigger of the dashboard (reads only), a panicking task,
and the statistics kept per attempt.

### FileSync

A file's content is the set of edits it holds; an ETag is a content hash, hence
the content itself.  `row` is the status and ETag of the `file_index` row, `cache`
the cache file, `base` the merge base, `remote` the file in the cloud,
`siblings` what the conflict copies hold, `queued` whether a trigger is on its way
(when it is served is `UploadScheduler`'s business).  `up` and `res` hold the
program counters and live locals of upload tasks and of the resolver: every
await of `run_upload`, `upload_with_progress`, `local_eq_remote` and `resolve` is a
step.  `WriteFile`, `WriteMark`, `WriteEnqueue` are the three parts of `handle_write`.
`CrashRestart` drops everything in memory and re-queues what
`get_pending_uploads` returns.  Failures (`Fault`) are bounded by `MaxFaults` and
come in five kinds: retryable and fatal errors of an upload, rclone messages taken
for a conflict, errors in the resolver (`GiveUp` at every `?` of `resolve`, and
`MergeTorn`, the write of the merge result that fails half-way), and DB updates that
the code only logs.  `Push` is
the `push` command: an fsync through the mount for a row that `classify_for_push`
lets through.

`written`, `acked`, `made`, `deleted` are history: edits written, acknowledged,
made by another client, deleted by it.  `raced` collects the edits that land in
one of the windows named by `LocalRace` and `RemoteRace`: between the moment the
code reads a version and the moment it acts on it.  The positive results say
that these windows are the *only* ones.  They are: a write between the upload of the
conflict copy and the download over the cache file (`conflict.rs:193-199`) is in
neither; an upload without an ETag, or a remote edit between the ETag check and
the transfer, replaces that edit (`RemoteRace`); and keep-both also replaces a file
with conflict markers by the remote version (`KeepBothDownload` after `MergeMarkers`).

`overlapped` is the third exception.  The deadline arm (`upload_queue.rs:275`) starts an
upload of an inode that has one in flight.  Then the transfer of the older content may
end last, and the row is marked cached with no trigger left: the newer edit is in
the cache file only and nobody will upload it.  The model runs such uploads
(`Uploads` has two members), and `overlapped` takes the edits that are there when
the second one is dispatched or come while both, or one and the resolver, run; the properties say nothing of
those, and everything of the others, the ones written after the overlap included.

Abstractions: `git merge-file` merges sets (`Merge3`), and may at any time report
markers or fail, so nothing depends on what a text merge does.  A content
comparison whose file changes under it may go either way.  A transfer reads the
cache file at one moment and replaces the remote file at a later one.
Version capture is off (`version_retention = 0`).  The row exists and has a
cache path throughout: rename, unlink, eviction and the poller are other modules.

### BlobStore

`objects` maps a hash to what the blob of that name holds; the hash of a content is
that content, so `objects[h] # h` is a blob stored under a wrong name.  `bases`
and `history` are the tables `base_versions` and `version_history`, `file` the cache
files (`None` once the row is deleted, which cascades), `dirty` the rows the
evictor skips, `aged` the bases older than `base_retention_days`.  A `task` is a
snapshot under way on its thread: after an upload (`versioning::capture`, then
the merge base whether or not the capture succeeded), before a poll
replaces a file, or after a hydration.  `store_base` is three steps (`StoreHash`,
`StoreExists`, `StoreCopy`), the DB calls one each (they hold the connection mutex,
`prune_version_history` included), and every `remove_object` another.  `gc` is
`evict_stale_bases`: list, and per entry count, delete the row, remove the
blob.  Failures (`Abort`, `RemoveFails`, `EvictAbort`) follow the code: a capture
returns its error, a failed removal is logged, the evictor gives up its round.

Three histories: `raced` are hashes that one actor stored while another was about to
remove them, `outdated` hashes the evictor listed for a file whose base changed
afterwards, `evicted` hashes the evictor removed while the version history named
them (`evict_stale_bases` counts rows of `base_versions` only; `HistoryRestorable`
states what the docs say instead, and is violated).  As in `FileSync` the positive
results say that nothing else goes wrong; what does go wrong in them can be read off the actions: a snapshot
that finds a blob in place (`StoreExists`) records a row for it after another
snapshot's `RemoveOrphan` took it.

Abstractions: files over the size limit take no snapshots and are left out; the
evictor takes its list in any order and without the limit of 500; two copies to
the same temporary file do not mix; `versions restore` is one step; deleting a
row takes its cache file with it.

### Poller

`rows` is `file_index` by inode (path, parent, item id, ETag, status, generation),
`remote` the cloud by item, `clock` the number of changes so far, which orders
the change feed and is the ETag of the last one.  `token` is the one column that
holds a poll generation or a change token: the code keeps both in `change_tokens`, and
so does the model.  `poll` is the program counter of `poll_once` or
`poll_once_delta` with its locals (listing, snapshot, map of inodes, remaining
work).  `List`, `Snapshot`, `Generation`, `Diff`, `UpsertOne`, `MarkUnchanged`,
`Sweep`, `SetGeneration` are the calls of a full poll in order, `BeginDelta`,
`StartToken`, `Fetch`, `DeltaTombstones`, `DeltaSnapshot`, `ApplyUpsert`,
`ApplyDelete`, `Applied`, `SetToken` those of a delta poll, which starts a full one
where the code does (`FetchExpired`, an empty index).  `Upserted` is
`upsert_remote_file_by_id_or_path`: by item id first, with the removal of a row in the
way, by path otherwise.  It fails (`UpsertFails`) on the foreign key and on
`UNIQUE(mount_id, parent_inode, name)` (migration 0006); its `DELETE` and `UPDATE` are
no transaction, so a row dropped before the failure stays dropped
(`HalfUpserted`), and the `?` at `poller.rs:303` ends the poll before its sweep.
`ParentInode` falls back to the root for a directory that is not in the index.  Other
clients create, edit, move and delete files, and create, move and delete
directories (`RemoteMoveDir` takes what the directory holds along; the feed reports
the directory alone).  `PollFault` fails a call and takes `run`'s back-off.
`Hydrate`, `LocalWrite`, `Upload`, `UploadNew`, `Conflict`, `Unlink...` are what
the local side does to rows meanwhile; `TombstoneExpires` and `Restart` are
always possible.

History: `apart` are the items for which index and feed may disagree because a
change fell between a listing and the start token that follows it, was hidden
by a tombstone, or was the move of a directory above them, which in delta mode leaves
their rows with the old `remote_path` until they change themselves.  `mixed` are the items that share a row: one has its id there and
another its path.  `upsert_remote_file_by_id_or_path` finds by path a row that
already has an id and keeps that id (the `COALESCE` at `state/mod.rs:1032`); the
uploads and keep-both of the local side give a row the content of another item
in the same way.  The row then follows the old id: a deletion of the old item
takes the new one's row, and the new item may be left without one.  Three
remote operations are enough for that (an item is deleted or moves away, and
another moves to its path before the poll has applied the first change).
`IndexCurrent` therefore asks for the row under the item's own id and excepts both
sets.  The exceptions in `Converges` are states the code does not leave by itself:
`Wedged`, a directory that was deleted remotely and whose row still has children
(the foreign key fails the sweep or the delete, and with it every later poll);
`Blocked`, an item whose upsert the index of names refuses in every poll (a file in an
ignored directory is put under the root, where a file of its name is; a child of a
renamed directory is inserted beside its old row); and a
generation where a token should be (a full poll in delta mode stores one over
the other; the provider then gets a number for a token).

`BaseInterval` is any positive number, as in the configuration.  Above ten minutes
`.min(600)` (`poller.rs:116`) makes the third failure *shorten* the interval;
`PollBackoff` says so.

Abstractions: mtime and size are part of the content; a listing is a snapshot
of the cloud; an upload into a directory that is gone or moved does not make the
directory again (rclone would; a directory with no row and no change of its own
would be the result); version capture before a poll is in `BlobStore`, header invalidation in `Hydration`.

### ChangeFeed and DeltaFeed

`ChangeFeed` is the contract: a log, a token, and answers that tell, at once, of
every change between two tokens that the feed does not keep `silent`.
`DeltaFeed` has the two implementations: `BeginStart`/`Start` and
`BeginChanges`/`Page`.../`Return`, one HTTP request a step, with
`EnsureValidToken` before it, `Unauthorized` (refresh once, then give up) and
the error mapping after it, and for Drive the parent lookups (`Parents`).
`Resolve` turns a raw change into a path (`GooglePath`,
`OneDrivePath` with `strip_onedrive_root_prefix`).  The lookups are one step that
learns nothing: `get_file_metadata` asks for `fields=name,parents` (`delta.rs:193`) and
parses the answer into a struct with a mandatory `id` (`453`), so every lookup is an
error, which line 338 skips; a change below a directory that is not among the
changes of the same call (`Strange`) gets no path.

Around the requests are the poller's: `stored` is the column of `change_tokens`, which
holds nothing, a change token or a poll generation.  `BeginFirst` is a poll without a
token, which lists everything (`Listing`) unless the index has entries, and goes on
when that fails (`ListingFails`); after an expired token (`Abort`) the listing must
succeed.  `Listing` stores its generation in the column.  If the request for a start
token then fails, the next poll sends that number as a token: the provider
may say it is unknown (`ChangesExpired`: the poller lists again) or refuse it
(`ChangesRejected`), and then every later poll fails the same way.  `CatchesUp`
excepts this wedge.  A provider that honours a small number as an old token of
its own is left out, and a listing that fails is taken to have told nothing.
Other clients move, trash and erase items between any two steps; `Odd` are entries of the log the code skips,
`Forget` an expired change token, `Age` a revoked or ageing access token.

The refinement maps `told` to the reported changes and `silent` to those outside
`Promised`.  Outside it, because the code loses them: Drive changes that say
`removed` (no file, hence no path, despite the comment at `delta.rs:355`), items
in a directory that is not among the changes of the call, items whose parents move while
the answer is put together; for both providers changes between a listing and
the start token, or made while there was neither listing nor token, and items moved
out of the root, which are never reported as deleted.  Drive changes two
directories below the root are reported too when both directories are among the changes;
they are left out of the promise because longer chains need an induction.  A name is an ID here, so a root whose name is a
prefix of a neighbour's (`delta.rs:640` strips the prefix without looking for a
separator) does not occur.

### Hydration

One inode.  `row`, `disk` (which remote version the cache file derives from, and
whether it has a local edit), `partial` and `header` are on disk; `task` are the
runs of `do_hydrate` in progress, `handle`, `reader` and `fuse` an open file, a read and
the session loop, `evictor` and `cli` the eviction loop and a command of another
process, `boot` the stages of start-up.  `set_status`, `set_cached`, `set_evicted`,
... are the DB calls, each an `UPDATE` that does nothing once the row is gone
(`Update`).  A download reads the remote at one step, is renamed over
the cache file at the next, and commits at a third.  A failed one checks the
remote (`Verify`) and then rolls back or deletes the row.  Readers go through
`Check`, `Claim`, `Register` and wait; `WaitTimesOut` is the five-minute timeout.

History: `edit` says whether the newest acknowledged write overlapped a download,
an eviction or a command already under way (then nothing is promised: `do_hydrate`
renames over it, `set_cached` hides it) or not (`WritesKept`).  `blind` collects
how the row's ETag may have got ahead of the content: `"poll"` is the case of the
finding, the others are listed at `EtagHonest`.  Between the rename of a finished download and
its `set_cached` (`Committing`) the file is newer than the row.

An upload is one step here: a remote edit between its transfer and its closing stat is
`FileSync`'s.  The early return for a cache path outside the cache directory
(`fuse/mod.rs:281`) is left out: paths come from rows the daemon wrote.

### Namespace

A tree of two levels; `rows`, `cache`, `files`, `dirs`, `tombs` are index, cache directory,
remote and tombstones.  The handlers of `write_ops.rs` are actions (`Create`,
`Write`, `handle_mkdir`, `handle_unlink`, `handle_rmdir`, `handle_rename`), each of which may
leave a job: the background call to the remote that nobody awaits and nobody
orders (`JobMkdir`, `JobDelete`, `JobRmdir`, `JobReplace`, `JobMove`, `JobFails`).  Beside them
one upload, one full poll (listing, then application), `populate_directory` and
the prefetch of child directories, each split at its remote call.  What a poll does
after its listing is one step here and one call a step in `Poller`.  The two UNIQUE
constraints of `file_index`, on the path and (migration 0006) on parent and name, refuse
writes: a create, mkdir or rename gets `EIO`, a listing is rolled back
(`PopulateFails`, `PrefetchApply`), a poll ends at the entry, with no sweep
and with the upserts before it in place (`PollRefused`).  `refused` is history: some
operation was.  `PathOrder`
fixes the order in which a listing names siblings, which decides inode numbers.

`causes` is history: which of the sequences that the code does not keep apart has
occurred.  `"order"`: two remote calls on one path at a time, uploads and downloads included (`03-sync-engine.md`
describes a per-directory serializer that is not in the code); `"purge"`: `rmdir`
runs `rclone purge` on a directory whose remote content the index does not know;
`"dir"`: a renamed directory, whose children keep their old `remote_path`; `"cross"`: a
rename across directories, which leaves the cache file in the old one;
`"unsent"`: a rename of a row for which `handle_rename` sends none; `"failed"`: a failed
background call; `"vanished"`: a row that a poll with an older listing, or a failed
download, dropped.  As above, the positive results say that nothing else loses
content, is refused or shares a cache file.  `"order"` and `"purge"` are wide: what the
code does after them is not examined.

### Conflicts

Names are sequences of dot-separated components so that the search of the
command (`FindCanonical`, `FindSibling`) is the code's own: by stem, newest first.
`cli` is the command with its locals, one remote or DB call a step, any of which
may fail (`CliFails`, `Missing`).  `cleanup` lists the conflict rows and compares
each copy with its file by stat and then by content (`StatCanonical`,
`StatCopy`, `CompareBytes`).  The daemon's upload with keep-both, poll and
hydration are one step each.  `excused` collects what a command gives up by
its meaning, and what was written or restored by another client while it ran
(`Meanwhile`: `set_cached` at the end hides it).

### What all of them leave out

An ETag stands for a content version.  `RemoteMetadata::try_from`
(`types/mod.rs:165-208`) falls back to the item id when rclone reports no
hash; such an ETag never changes and no check based on it notices an edit.  Time
stamps, permissions, extended attributes and sizes are left out, several mounts
are independent, and the database does not fail except where a fault says so.

## What TLC checks

| Run | Instance | Result |
|---|---|---|
| `UploadScheduler_loop` | 2 inodes, a day of 4 minutes of 2 seconds, window 3:00-1:00 (wraps, closed half the day), debounces 3 and 1, limit 2, channel 1, 4 triggers, 2 failures | `TypeOK`, `NoOversleep`, `UploadsBounded`, `Drains` hold |
| `FileSync_faults` | 1 write, 2 uploads of the file at once, deletions, 1 failure of any kind | `TypeOK`, `NothingLost`, `QuietMeansUploaded` hold |
| `FileSync_recovery` | 1 write, 1 upload at a time, 1 remote edit, deletions, 1 crash, 1 retryable failure | `DurablyDirty`, `NothingLost`, `WritesReachCloud` hold |
| `BlobStore` | 2 text files, 2 contents, 2 snapshots at once and the evictor, `version_retention` 1, 2 writes, 1 failure or crash | `TypeOK`, `VersionsOnDisk`, `HistoryBounded`, `BasesOnDisk` hold |
| `BlobStore_evicted` | the same with 1 snapshot at a time, 1 write, no failure | `HistoryRestorable` violated: the evictor removes a blob that a version names |
| `Poller` | a directory with a file, a second name for it, a file, a free path, an ignored directory that may get a file of the same name, a free item and a name in the conflict namespace; 2 remote or local operations, expired tokens, failures or restarts (1 of each of the last two kinds); full and delta mode | `TypeOK`, `PollBackoff`, `IndexCurrent`, `DirtyRowsKept`, `SweepSpares`, `Converges` hold |
| `DeltaFeed` | 2 directories, 1 file, both providers, 3 changes on pages of 1, 1 failure, 2 refused access or change tokens | `TypeOK`, `FeedComplete`, `ImplementsFeed`, `CatchesUp` hold |
| `Hydration` | 2 downloads at once, 3 attempts, 3 remote versions, 3 operations, 1 failing transfer, 1 crash | `TypeOK`, `HydratingHasTask`, `WritesKept`, `EtagHonest`, `ReconcileComplete`, `ReadsReturn` hold |
| `Hydration_blind` | 1 download at a time, no fault | `RemoteEditsKept` violated: poll of a dirty row, then an upload that replaces the remote edit |
| `Namespace` | two directory names and two file names on two levels, 2 operations of the user, 1 failing call or restart | `TypeOK`, `NothingLost`, `NeverRefused`, `CacheUnshared` hold |
| `Conflicts` | 2 files with one stem, 2 edits, 2 conflict copies, 2 commands, 1 failing call | `TypeOK`, `NothingLost`, `DirtyKept` hold |
| `Conflicts_keeplocal` | 1 file, no fault | `KeepsYourVersion` violated: keep-local uploads the remote version and deletes the local one |

Each violated property quotes a document; see `findings` in `PROJECT.json`.

**Bounds.**  A file may start out dirty, so one write can land during the upload of
earlier content; one remote edit makes a conflict, and deletion adds the absent
file; one failure or crash at any step covers every partial execution of one
upload or one resolution, and the retry that follows runs without one.  The two runs of
`FileSync` divide the work: two uploads at once without edits of another client (a
deletion still makes a conflict), and one upload with them and with crashes.  Both
at once, and more writes, are left to the theorems.  Blobs are shared when two files have the same
content, so two of each are the smallest interesting store; `version_retention` 1
makes the second snapshot prune.  The scheduler's clock has to be small but must
contain an opening, a closing and a midnight; two inodes compete for slots.
`MaxCaptures` bounds base snapshots waiting at once.  In `Poller` two remote
changes suffice for a rename onto a path that another change frees, or for the move of
a directory and a change of what it holds, and one remote and one local
operation for a write or an unlink between any two calls of a
poll.  In `DeltaFeed` pages of one change make every answer paged, and a listing, a
failing start token and a poll that sends the generation fit in the budget.  In `Hydration` two
downloads overlap each other and a write; three versions make a stale row, a download
of the middle one and a newer remote.  In `Namespace` two operations are the
smallest pair that collides (unlink and create, rename over, mkdir and create in
it), with everything in the background interleaved.  In `Conflicts` two
files with a common stem are what the search of a copy can confuse.

**Fairness.**  `UploadScheduler`: time passes; the `select!` serves its arms (tokio's
`select!` polls them in random order, so a ready arm is not starved: weak
fairness of each); uploads and resolutions end, since rclone runs under a
timeout or a stall watchdog; and the launch of a ready entry is strongly fair,
because a window that closes before the timer's wake-up disables it: the code
is not guaranteed to be scheduled inside a given window, only not to miss every
one.  Applications owe nothing.  `FileSync`: the daemon's own steps (the rest of a
write, upload tasks, captures, the resolver) are weakly fair, failures, other
clients and applications are not.  `Poller`: the poll loop goes on, the spawned
task of an unlink ends, tombstones expire.  `DeltaFeed`: the client's steps; errors
need not stop, but each kind is bounded.  `Hydration`: the runtime polls every
task and every request it has accepted, `WaitTimesOut` included, which is a
timer.  The others have none.

Deadlock is checked except where the instance may come to rest with its budget
spent (`Hydration`, `Namespace`, `Conflicts`).

## What the models show about the code

Beside the three runs that violate a documented promise, the exceptions that the
properties name are the places where the code does not keep what a reader
would expect.  Apart from the ones described above:

* `upload_queue.rs:376-399`: a retry overwrites the pending entry of the inode, and
  with it the immediate flag of an fsync that arrived during the upload.
* `upload_queue.rs:594`: `set_uploaded` marks a row cached over a write that landed
  during the upload; until the next trigger only memory knows, and a crash forgets.
* `base_store.rs:37-68`: a write between hashing and copying stores a blob under a
  wrong name.
* `poller.rs:194-196`: rows of conflict copies are neither upserted nor marked, so
  that the next full poll sweeps them.
* `state/mod.rs:980-991`: a remote rename onto the path of a dirty row deletes the row,
  also when the `UPDATE` that follows fails.
* `poller.rs:303`: an upsert that the index of names refuses ends the poll, and every
  later one.  A local or remote rename of a directory with an indexed child leads there in
  full mode (the child's row stays under the directory with its old path, the poll inserts
  the new path beside it), and so does an ignored directory that holds a file named
  like one in the root (`poller.rs:284-290` puts it under the root).
* `poller.rs:402-407` and `413-419`: when the start token cannot be had after a full
  listing, the generation that the listing stored stays in the token column.
* `delta.rs:193,453`: no parent lookup of Drive ever succeeds.
* `fuse/mod.rs:249`: a reader that registers after the waiters were drained waits
  five minutes and then sets the row to remote, whatever it says.
* `conflicts.rs:251-263`: the copy of `report.txt` may be taken for one of
  `report.pdf`; copies of files without an extension never find their file
  (`231-240`); `cleanup` takes a missing file for a missing copy (`519-552`).

## What is proved

`tlapm` checks every proof to the last leaf.

**`UploadScheduler_proofs`** (constants: `ClockAssumption`, `SchedulerAssumption`
only)

* `TypeCorrect`: `Spec => []TypeOK`.
* `LoopNeverOversleeps`: `Spec => []NoOversleep`.  The invariant is inductive with
  `TypeOK`.  Every arm ends with a fresh minimum (`DeadlineSoonest`,
  `LoopComputes`); that a minimum exists is the well-foundedness of the naturals
  (`LeastExists`).  What takes work is `Tick`: while a second passes, a sleeping
  deadline falls by one, and no entry's effective due time falls by more, in
  every position of the clock and for windows that wrap (`Countdown`:
  `seconds_until_open` falls by exactly one while the window is closed and can
  only jump up when it closes).
* `ConcurrencyBounded`: `Spec => []UploadsBounded`.  A launch adds one task per inode
  (`Spawned`, a bijection), a join removes one (`Joined`).  `Inodes` is a finite
  set.

**`FileSync_proofs`** (`FileSyncAssumption`; any number of uploads of the file at once)

* `TypeCorrect`: `Spec => []TypeOK`, with `LocalsSet` (a task at a step has the
  locals that step uses).
* `NoEditIsLost`: `Spec => []NothingLost`, for any number of edits, failures and
  crashes.
* `DirtyIsDurable`: `Spec => []DurablyDirty`, without failed status updates.
* `RestMeansUploaded`: `Spec => []QuietMeansUploaded`, without crashes or failed
  status updates.

`NothingLost` is far from inductive: whether an upload may replace the remote file
depends on what its task believes.  The inductive invariant `IInv` says, for
every place in the code, which edits must be where: `KnownEdits` (nothing holds
edits nobody made), `DiskInv` (the ETag and the base stand for contents the local
side still has, the base for one the cloud still has),
`UploadInv` (per program counter of an upload: the expected ETag and the
content read), `ResolverInv` (per program counter of the resolver: the versions
it read, and what the next write will put where) and `DirtyInv` (crash
durability).  There is one lemma per group of actions (`ResolveKeeps`,
`UploadKeeps`, `WriteKeeps`, `CloudKeeps`, ...).  `RestMeansUploaded` needs
`QuietInv` on top: an acknowledged edit not in the cloud is covered by a trigger,
a task or the row's status.  All of them speak of the edits outside `Excepted`.
`OverlapInv` is what makes that enough: while two uploads run, or one beside the
resolver, every edit so far is in `overlapped`, so nothing is claimed of their
order; any other step finds itself alone.

**`BlobStore_proofs`** (`BlobStoreAssumption`)

* `TypeCorrect`: `Spec => []TypeOK`; in particular no base and no version outlives
  the row of its file.
* `VersionsKept`: `Spec => []VersionsOnDisk`, with the evictor, for any number of files,
  contents, snapshots, failures and crashes.
* `BasesKept`: `Spec => []BasesOnDisk`, with the evictor.

Neither is inductive: removing a blob is safe because of a look at the rows that
lies some steps back.  Both need `FoundOnDisk` (what a snapshot found in place
is there until it is recorded); the first also `OrphansUnversioned`, the second
`OrphansNoBase`, `ListCurrent` (an entry of the evictor's list still names the
base of its file) and `CountCurrent` (a count of one still means no other file
has that base, and a finite set with one element is a singleton).  Most steps
touch none of it (`QuietSteps`); the others are one step each of `VersionsStep`,
`BasesStep` and `BasesEvict`.

* `HistoryIsBounded`: `Spec => []HistoryBounded`.  The property is inductive because it
  counts: the excess over `version_retention` is at most one row for each
  snapshot between its insert and its prune (`Pruners`, a finite set that grows and
  shrinks by one) and one for each that was cut short there.

**`Hydration_proofs`** (`BoundsAssumption`)

* `TypeCorrect`, `HydratingRowsHaveTasks`, `WritesAreKept`, `EtagIsHonest`:
  `Spec => []TypeOK`, `[]HydratingHasTask`, `[]WritesKept`, `[]EtagHonest`;
  `StartupReconciles`: `Spec => ReconcileComplete`.  All for any number of downloads
  at once, versions, attempts, failures and crashes.

The inductive invariant adds `Down` (while the daemon is down or starting none of its
tasks exists), `NotHydrating` (after `reset_hydrating` no row says so until the
mount is up), `Calm` in `Kept` (when a write is marked with nothing under way, nothing
that could touch the file starts while the row is dirty) and `Reconciled` (what
the reconciler has read stays true until the mount is up, unless a command of
another process interferes).  Proving `EtagHonest` named the one step at which
row and file may differ without a cause: `Committing`.

**`Conflicts_proofs`** (`ConflictsAssumption`)

* `TypeCorrect`, `NothingIsLost`, `DirtyIsKept`: `Spec => []TypeOK`, `[]NothingLost`,
  `[]DirtyKept`, for any number of files, names, edits, copies, commands and
  failures.

`CliInv` says for each step of the command which edits the local file (`C`), the
remote file (`R`) and the command's own copy must hold, up to those that came
`Meanwhile`; `FileInv` relates row, cache and remote of every file; `Fresh`
keeps the stamps not yet used without copies; `Equal` says that a copy
about to be dropped as equal holds nothing of its own; `Kept` strengthens
`NothingLost` to name the place.  The proof showed that a restored copy of
another client has to count as something that came meanwhile, like a write.

**`DeltaFeed_proofs`** (`DeltaFeedAssumption`)

* `TypeCorrect`, `FeedIsComplete`: `Spec => []TypeOK`, `[]FeedComplete`, for any tree,
  page size and log.
* `RequestsImplementFeed`: `Spec => ImplementsFeed`.  A change of the account is
  `Log`, the `Return` of a call is `Answer`, a listing is `Relist`, the `Start` that
  stores a fresh token is `Restart`; every other request is a stutter, or widens `silent`.

`LogInv` relates the log to the tree it is about (`Continuous`: an item that is
elsewhere later was changed in between).  `CallInv` says what a call knows while
it reads pages (`Seen`: the last change read of an item, or that it has none) and when
it puts paths together (`Found`: the parent of a steady change that is not
`Strange` is known), `Unheard` that nothing beyond a stored token was reported, `Heard`
that every promised change up to the token was, and before a start token every one up to
the end of the listing (`Told`), `Truly` that what was reported is the path.  The recursive
path of an item is unfolded two levels (`NearPath`), which is where the promise
ends.  `Items` is a finite set: an account has finitely many.

**`Poller_proofs`** (`PollerAssumption`)

* `TypeCorrect`, `BackoffHolds`, `IndexIsCurrent`: `Spec => []TypeOK`,
  `[]PollBackoff`, `[]IndexCurrent`; `LocalChangesKept`, `ListedFilesKept`:
  `Spec => DirtyRowsKept`, `Spec => SweepSpares`.  All for any tree of items and paths, both
  modes, any number of remote and local operations, failures, expired tokens and
  restarts.

The inductive invariant has four parts.  `CloudInv`: one item at a path at a
time, and the one there came last; a content belongs to one item.  `IndexInv`: paths
and ids are keys, and no inode or parent is still to be given out.  `OwnRows`: a
row with an item's id has no other item's content, unless both are `mixed`.  And
`KnowInv`, what the poller's locals mean at each program counter: `PhaseInv`
(which poll runs, and what the stored token is), `PageInv` (changes still to apply are newer than
what was applied, and true of the items that have not changed again), `ListInv` (the
same of a listing), `CurInv` (every item that a poll has dealt with is current in
the index: `IndexCurrent` is its value when the poller is idle) and `SweepInv`
(a row at a listed path is in the snapshot, then marked or to be upserted, then
of this generation).  A step outside the poller leaves its locals alone and changes
items whose number is then newer than any the poller has, or moves what a directory
holds, which is then `apart`, so one lemma (`OutsideKeeps`) covers all of them; each call of the poller has a lemma of its
own, `UpsertIndex`, `UpsertOthers`, `UpsertItself` and `UpsertDirty` serve both polls, and
`HalfKeeps` is for the upsert that fails after its `DELETE`.  `Home` and
`HomeInode` describe an index that an earlier run left; `PollerAssumption` says that
it is one (distinct paths and inodes, parents present).

**`Namespace_proofs`** (`NamesAssumption`, `OrderAssumption`, `BoundsAssumption`: names
of directories and of files differ, a listing names a directory before what is
in it, and the bounds have room for the tree of `Init`)

* `TypeCorrect`, `NothingIsRefused`, `CacheIsUnshared`, `NothingIsLost`:
  `Spec => []TypeOK`, `[]NeverRefused`, `[]CacheUnshared`, `[]NothingLost`, for any names on
  the two levels, any number of operations, background calls, failures and restarts.

Four invariants, each inductive with those before it.  `SInv` is `TypeOK` with the
constraints of `file_index` (`RowsInv`) and what every actor refers to: a job's paths,
the row of an upload, the inode and path of a listing.  What makes it hard is that a
poll and a listing insert a whole batch of rows, whose inodes come from the position in
the listing: `Rank` numbers a finite set without gaps, and the lemmas on `Upserts` describe
the index after a poll, also after one that was refused half-way.  `TreeInv` says that a row's path is its parent's path and its name
(`Placed`), also for rows that a listing on its way is going to insert
(`ListsPlaced`); with one row for a path it follows that two paths never meet under one
parent and name, neither in the index nor in what a poll or a listing writes, and so
that no constraint is violated (`RefusedStep`).  `CacheInv`
says that a row's cache path is its own path and that the file is there.  `OkInv` says of
a state without causes:

* `Apart`: no two remote calls, uploads included, concern one path;
* `JobOk`: what a delete, a purge or a move is about to destroy, the user has given up,
  and what a move is about to bring has a row that is not going to be uploaded over it;
* `TombOk`: every tombstone belongs to a call on its way (so what a poll leaves out on its
  account is what a call is about to remove);
* `KnownOk`: a remote file without a row is in a directory that is not listed yet, and
  every listing on its way has it (so that a listing that is applied late cannot hide it);
* `SyncOk`: a row with changes of its own has nothing of the user's at the remote to
  overwrite, and the cache file of any other row is a copy that may go;
* `UpOk`: an upload's row is still the one it started from.

`AllSafe` follows step by step: an action that takes a content from one of its places
is shown to leave or put it in another.  As long as nothing has gone wrong, an upload always
finds its file: `UploadReverts` and `UploadFails` need a cause.

The proof corrected the model.  In an instance larger than the run's, an unhydrated stale
file renamed onto another one and opened while its move was still pending was
downloaded under the new name, from the file about to be replaced; with the write or the
sweep that followed, the content the move should have brought was gone with no cause
recorded.  That download is now an `"order"` cause like any other two calls on one path,
and a rename that is still on its way counts as content the row holds (`ContentsOf`).

## Only model-checked

Liveness everywhere (`Drains`, `WritesReachCloud`, `ReadsReturn`, `CatchesUp`,
`Converges`), which is out of the prover's reach.  Every invariant and every action
property of a passing run is also a theorem.  The three violated promises
(`RemoteEditsKept`, `KeepsYourVersion`, `HistoryRestorable`) are runs.

## Not modelled, and the plan

Left to do, in order:

1. An abstract synchronised file that `FileSync` implements outside the races.
2. A crash in the middle of the write of the merge result (`conflict.rs:114`; a write
   that fails half-way is `MergeTorn`).
3. What happens after the exceptions that are real losses: two uploads at once, calls
   out of order, a generation in the token column.
4. The quota marks and the LRU order of the evictor over several files.

Not planned: parsing of rclone output, HTTP responses and configuration (pure
functions with unit tests); IPC, metrics, dashboard and tray (they read); the
WebDAV backend and sidecar (request plumbing behind the same backend trait);
symlinks, extended attributes, file-manager extensions.
