------------------------------ MODULE Namespace ------------------------------
(***************************************************************************)
(* The directory tree of one mount: the rows of file_index, the files of   *)
(* the cache directory, the tombstones, and the calls to the remote that   *)
(* handle_mkdir, handle_unlink, handle_rmdir and handle_rename leave to    *)
(* tasks nobody waits for.  Beside them run the upload of a file, the full *)
(* poll, and the listing of a directory on its first visit, with the       *)
(* prefetch of its subdirectories.                                         *)
(*                                                                         *)
(* A path is a sequence of names; the tree is two levels deep.  A file's   *)
(* content is a number, and so is its ETag.  The backend reports no item   *)
(* IDs, and nobody else writes to the remote: Poller has both.             *)
(***************************************************************************)
EXTENDS Naturals, FiniteSets, SequencesExt

CONSTANTS
  DirNames, FileNames,   \* names of directories and of files
  PathOrder,    \* the paths as a listing orders them, directories before files
  MaxInode,     \* bound: rows ever inserted
  MaxContents,  \* bound: contents ever written
  MaxEvents,    \* bound: operations of the user
  MaxFaults     \* bound: failing background calls, and restarts

VARIABLES
  rows,     \* file_index, by inode
  next,     \* the inode the next row gets
  listed,   \* the root directory has been listed (dir_listed)
  cache,    \* the cache directory: content by path, 0 where there is no file
  files,    \* remote files: content by path, 0 where there is none
  dirs,     \* remote directories
  siblings, \* contents kept as conflict files
  tombs,    \* delete_tombstones
  jobs,     \* the background task of each operation so far
  up,       \* an upload
  poll,     \* a full poll: what it listed
  pop,      \* populate_directory, which the FUSE session loop waits for
  pre,      \* the prefetch tasks of subdirectories, by inode
  last,     \* newest content
  live,     \* history: contents the user still has
  causes,   \* history: sequences the code is known not to keep apart
  refused,  \* history: a UNIQUE constraint of file_index made an operation fail
  events, faults

local   == <<rows, next, listed>>
remote  == <<files, dirs, siblings>>
history == <<last, live, causes, refused>>
tasks   == <<up, poll, pop, pre>>
vars == <<rows, next, listed, cache, files, dirs, siblings, tombs, jobs, up, poll,
          pop, pre, last, live, causes, refused, events, faults>>

-----------------------------------------------------------------------------
(* Paths.                                                                  *)

Root      == <<>>
DirPaths  == {<<d>> : d \in DirNames}
FilePaths == {<<f>> : f \in FileNames} \cup {<<d, f>> : d \in DirNames, f \in FileNames}
Paths     == DirPaths \cup FilePaths

join_remote(dir, name) == Append(dir, name)
ParentPath(p) == Front(p)

\* Equal, or one below the other.
Overlap(p, q) == IsPrefix(p, q) \/ IsPrefix(q, p)
IsTombstoned(p, T) == \E t \in T : IsPrefix(t, p)

\* A name is a directory's or a file's, never both.
ASSUME NamesAssumption ==
  /\ DirNames # {} /\ \E f, g \in FileNames : f # g
  /\ DirNames \cap FileNames = {}
ASSUME OrderAssumption ==
  /\ PathOrder \in Seq(Paths)
  /\ \A p \in Paths : \E i \in DOMAIN PathOrder : PathOrder[i] = p
  /\ \A i, j \in DOMAIN PathOrder : PathOrder[i] = PathOrder[j] => i = j
  /\ \A i, j \in DOMAIN PathOrder :
       PathOrder[i] \in DirPaths /\ PathOrder[j] \in FilePaths => i < j
\* Init has four rows and three contents.
ASSUME BoundsAssumption ==
  /\ MaxInode \in Nat /\ MaxInode >= 4
  /\ MaxContents \in Nat /\ MaxContents >= 3
  /\ MaxEvents \in Nat /\ MaxFaults \in Nat

-----------------------------------------------------------------------------
(* file_index.  The root directory is inode 0 here; a row's name is the    *)
(* last part of its path.                                                  *)

Inodes   == 1 .. MaxInode
Contents == 1 .. MaxContents
Statuses == {"remote", "stale", "cached", "dirty", "uploading"}
Unsynced == {"dirty", "uploading"}

\* polled: some full poll has set the row's poll_generation.
Row(path, parent, status, etag, cp) ==
  [path |-> path, parent |-> parent, status |-> status, etag |-> etag, cp |-> cp,
   listed |-> FALSE, polled |-> FALSE]
NoRow == Row(Root, 0, "remote", 0, Root)

Live      == {n \in Inodes : rows[n] # NoRow}
IsDir(n)  == rows[n].path \in DirPaths
DirInodes == {n \in Live : IsDir(n)}
Name(n)   == Last(rows[n].path)
Children(n) == {m \in Live : rows[m].parent = n}
PathOf(n)   == IF n = 0 THEN Root ELSE rows[n].path
IsListed(n) == IF n = 0 THEN listed ELSE rows[n].listed

ByPath(p) == {n \in Live : rows[n].path = p}

\* get_by_parent_name.
Named(parent, name) == {n \in Live : rows[n].parent = parent /\ Name(n) = name}
Lookup(parent, name) == CHOOSE n \in Named(parent, name) : TRUE

\* UNIQUE(mount_id, parent_inode, name): path p cannot have its row under the parent
\* when the row of another path has the name there.
Clashes(p, parent) == Named(parent, Last(p)) \ ByPath(p) # {}

\* parent_inode REFERENCES file_index, so a parent cannot be deleted.
CanDelete(n) == Children(n) = {}

NoJob == [op |-> "none", path |-> Root, to |-> Root, dest |-> Root]
Job(op, path) == [NoJob EXCEPT !.op = op, !.path = path]
Pending == {j \in DOMAIN jobs : jobs[j].op # "none"}
Touches(j, p) == \/ Overlap(jobs[j].path, p)
                 \/ jobs[j].to # Root /\ Overlap(jobs[j].to, p)
                 \/ jobs[j].dest # Root /\ Overlap(jobs[j].dest, p)

\* What goes when the user deletes or replaces the file; a rename may still have to
\* bring it.
ContentsOf(n) ==
  LET renamed == {jobs[j].path : j \in {j \in Pending : jobs[j].to = rows[n].path}}
  IN {rows[n].etag} \cup {files[p] : p \in ({rows[n].path} \cup renamed) \cap FilePaths}
     \cup {cache[p] : p \in {rows[n].cp} \ {Root}}

NoUpload == [inode |-> 0, path |-> Root, cp |-> Root, etag |-> 0]
\* A call to the remote that concerns the path is on its way.
Busy(p) == (\E j \in Pending : Touches(j, p)) \/ (up # NoUpload /\ Overlap(up.path, p))

NoPoll == [pc |-> "idle", files |-> [p \in FilePaths |-> 0], dirs |-> {}]
NoList == [inode |-> 0, pc |-> "idle", path |-> Root, files |-> {}, dirs |-> {}]

Cause(c, when) == {c} \cap {k \in {c} : when}

\* A mount that has never been visited; or one that was polled, with one file
\* hydrated, one not, and one just written.
Init ==
  LET d == CHOOSE d \in DirNames : TRUE
      f == CHOOSE f \in FileNames : TRUE
      g == CHOOSE g \in FileNames \ {f} : TRUE
      synced(r) == [r EXCEPT !.polled = TRUE, !.listed = (r.path \in DirPaths)]
  IN
  /\ files = [p \in FilePaths |-> IF p = <<f>> THEN 1 ELSE IF p = <<d, f>> THEN 2 ELSE 0]
  /\ dirs = {<<d>>}
  /\ \/ /\ rows = [n \in Inodes |-> NoRow] /\ next = 1 /\ listed = FALSE
        /\ cache = [p \in FilePaths |-> 0]
        /\ live = {1, 2} /\ last = 2
     \/ /\ rows = [n \in Inodes |->
             CASE n = 1 -> synced(Row(<<d>>, 0, "remote", 0, Root))
               [] n = 2 -> synced(Row(<<f>>, 0, "cached", 1, <<f>>))
               [] n = 3 -> synced(Row(<<d, f>>, 1, "remote", 2, Root))
               [] n = 4 -> Row(<<g>>, 0, "dirty", 0, <<g>>)
               [] OTHER -> NoRow]
        /\ next = 5 /\ listed = TRUE
        /\ cache = [p \in FilePaths |-> IF p = <<f>> THEN 1 ELSE IF p = <<g>> THEN 3 ELSE 0]
        /\ live = {1, 2, 3} /\ last = 3
  /\ siblings = {} /\ tombs = {}
  /\ jobs = [j \in 1 .. MaxEvents |-> NoJob]
  /\ up = NoUpload /\ poll = NoPoll /\ pop = NoList
  /\ pre = [n \in Inodes |-> NoList]
  /\ causes = {} /\ refused = FALSE
  /\ events = 0 /\ faults = 0
-----------------------------------------------------------------------------
(* The user's operations.  The session loop serves one at a time.  Before  *)
(* the kernel sends one it has looked the names up, so the directories are *)
(* listed.                                                                 *)

UserStep ==
  /\ pop = NoList
  /\ events < MaxEvents /\ events' = events + 1
  /\ UNCHANGED <<files, dirs, siblings, up, poll, pop, pre, faults, listed>>

Spawn(job) == jobs' = [jobs EXCEPT ![events + 1] = job]

\* insert_file.
Insert(row) == rows' = [rows EXCEPT ![next] = row] /\ next' = next + 1

\* handle_create, and the writes through the handle it returns.  The cache file
\* is truncated first; then insert_file fails if the path is taken.
Create(parent, name) ==
  LET p == join_remote(PathOf(parent), name)
  IN /\ UserStep
     /\ next \in Inodes /\ last < MaxContents
     /\ IsListed(parent) /\ Named(parent, name) = {}
     /\ IF ByPath(p) # {}
        THEN cache' = [cache EXCEPT ![p] = 0] /\ UNCHANGED <<rows, next, last, live>>
        ELSE /\ Insert(Row(p, parent, "dirty", 0, p))
             /\ last' = last + 1
             /\ cache' = [cache EXCEPT ![p] = last + 1]
             /\ live' = live \cup {last + 1}
     /\ causes' = causes \cup Cause("order", Busy(p))
     /\ refused' = (refused \/ ByPath(p) # {})
     /\ UNCHANGED <<tombs, jobs>>

\* A write to a hydrated file: open, handle_write, handle_release.  (FileSync has
\* the writes during an upload.)
Write(n) ==
  /\ UserStep
  /\ ~IsDir(n) /\ rows[n].status \in {"cached", "dirty"}
  /\ cache[rows[n].cp] # 0
  /\ last < MaxContents /\ last' = last + 1
  /\ cache' = [cache EXCEPT ![rows[n].cp] = last + 1]
  /\ rows' = [rows EXCEPT ![n].status = "dirty"]
  /\ live' = (live \ {cache[rows[n].cp]}) \cup {last + 1}
  /\ causes' = causes \cup Cause("order", Busy(rows[n].path))
  /\ UNCHANGED <<next, tombs, jobs, refused>>

handle_mkdir(name) ==
  LET p == <<name>>
  IN /\ UserStep
     /\ next \in Inodes /\ listed /\ Named(0, name) = {}
     /\ IF ByPath(p) # {}
        THEN UNCHANGED <<rows, next, jobs>>
        ELSE /\ Insert(Row(p, 0, "cached", 0, Root))
             /\ Spawn(Job("mkdir", p))
     /\ causes' = causes \cup Cause("order", Busy(p))
     /\ refused' = (refused \/ ByPath(p) # {})
     /\ UNCHANGED <<cache, tombs, last, live>>

\* remove_file, delete_entry, insert_tombstone, and the remote delete spawned.
handle_unlink(n) ==
  /\ UserStep
  /\ ~IsDir(n)
  /\ cache' = IF rows[n].cp = Root THEN cache ELSE [cache EXCEPT ![rows[n].cp] = 0]
  /\ rows' = [rows EXCEPT ![n] = NoRow]
  /\ tombs' = tombs \cup {rows[n].path}
  /\ Spawn(Job("delete", rows[n].path))
  /\ live' = live \ ContentsOf(n)
  /\ causes' = causes \cup Cause("order", Busy(rows[n].path))
  /\ UNCHANGED <<next, last, refused>>

\* Files at the remote that the index does not know of.
Unseen(p) == {q \in FilePaths : IsPrefix(p, q) /\ files[q] \in live}

\* Fault variant: the children are not looked at.
handle_rmdir_NonEmpty(n) ==
  /\ UserStep
  /\ IsDir(n)
  /\ rows' = [rows EXCEPT ![n] = NoRow]
  /\ tombs' = tombs \cup {rows[n].path}
  /\ Spawn(Job("rmdir", rows[n].path))
  /\ UNCHANGED <<next, cache, history>>

\* list_children must be empty; a directory that was never listed has none.
handle_rmdir(n) ==
  /\ UserStep
  /\ IsDir(n) /\ CanDelete(n)
  /\ rows' = [rows EXCEPT ![n] = NoRow]
  /\ tombs' = tombs \cup {rows[n].path}
  /\ Spawn(Job("rmdir", rows[n].path))
  /\ causes' = causes \cup Cause("order", Busy(rows[n].path))
                      \cup Cause("purge", Unseen(rows[n].path) # {})
  /\ UNCHANGED <<next, cache, last, live, refused>>

\* Fault variant: the row keeps the old cache path.
NewCachePath_Old(cp, name) == cp

\* The cache file stays in its directory.
NewCachePath(cp, name) == join_remote(ParentPath(cp), name)

NeedsRemoteRename(status) == status \in {"cached", "stale", "uploading"}

\* handle_rename.  The row at the destination goes first, unless it has children;
\* then the cache file moves, within its own directory; then the row, unless another
\* one has the path or the name.
handle_rename(n, parent, name) ==
  LET r    == rows[n]
      to   == join_remote(PathOf(parent), name)
      D    == Named(parent, name)
      dest == Lookup(parent, name)
      kept == IF D # {} /\ CanDelete(dest) THEN [rows EXCEPT ![dest] = NoRow] ELSE rows
      moves == r.cp # Root /\ cache[r.cp] # 0
      cp   == IF moves THEN NewCachePath(r.cp, name) ELSE r.cp
      taken == \E m \in Inodes \ {n} :
                 /\ kept[m] # NoRow
                 /\ kept[m].path = to \/ (kept[m].parent = parent /\ Last(kept[m].path) = name)
      sends == NeedsRemoteRename(r.status)
  IN /\ UserStep
     /\ n \notin D /\ n # parent
     /\ IsListed(parent) /\ to \in (IF IsDir(n) THEN DirPaths ELSE FilePaths)
     /\ cache' = IF moves /\ cp # r.cp THEN [cache EXCEPT ![cp] = cache[r.cp], ![r.cp] = 0]
                 ELSE cache
     /\ IF taken
        THEN rows' = kept /\ UNCHANGED <<tombs, jobs>>
        ELSE /\ rows' = [kept EXCEPT ![n].path = to, ![n].parent = parent, ![n].cp = cp]
             /\ tombs' = IF sends THEN tombs \cup {r.path} ELSE tombs
             /\ IF sends \/ D # {}
                THEN Spawn([op   |-> IF D # {} THEN "replace" ELSE "move",
                            path |-> IF sends THEN r.path ELSE Root,
                            to   |-> IF sends THEN to ELSE Root,
                            dest |-> IF D # {} THEN rows[dest].path ELSE Root])
                ELSE jobs' = jobs
     /\ live' = IF D # {} THEN live \ ContentsOf(dest) ELSE live
     /\ causes' = causes \cup Cause("order", Busy(r.path) \/ Busy(to))
                         \cup Cause("dir", IsDir(n))
                         \cup Cause("cross", parent # r.parent)
                         \cup Cause("unsent", ~sends)
     /\ refused' = (refused \/ taken)
     /\ UNCHANGED <<next, last>>
-----------------------------------------------------------------------------
(* The background tasks.                                                   *)

JobStep(j, to) ==
  /\ j \in Pending
  /\ jobs' = [jobs EXCEPT ![j] = to]
  /\ UNCHANGED <<local, cache, siblings, tasks, history, events>>

\* rclone mkdir, copyto and moveto make the directories they need.
WithParent(D, p) == D \cup ({ParentPath(p)} \ {Root})

JobMkdir(j) ==
  /\ jobs[j].op = "mkdir"
  /\ dirs' = dirs \cup {jobs[j].path}
  /\ UNCHANGED <<files, tombs, faults>>
  /\ JobStep(j, NoJob)

\* deletefile; a file that is not there is as good.
JobDelete(j) ==
  /\ jobs[j].op = "delete"
  /\ files' = [files EXCEPT ![jobs[j].path] = 0]
  /\ tombs' = tombs \ {jobs[j].path}
  /\ UNCHANGED <<dirs, faults>>
  /\ JobStep(j, NoJob)

\* purge: the directory with all it holds.
JobRmdir(j) ==
  /\ jobs[j].op = "rmdir"
  /\ files' = [p \in FilePaths |-> IF IsPrefix(jobs[j].path, p) THEN 0 ELSE files[p]]
  /\ dirs' = dirs \ {jobs[j].path}
  /\ tombs' = tombs \ {jobs[j].path}
  /\ UNCHANGED faults
  /\ JobStep(j, NoJob)

\* First the destination is deleted (deletefile fails on a directory) ...
JobReplace(j) ==
  /\ jobs[j].op = "replace"
  /\ files' = [p \in FilePaths |-> IF p = jobs[j].dest THEN 0 ELSE files[p]]
  /\ UNCHANGED <<dirs, tombs, faults>>
  /\ JobStep(j, IF jobs[j].path = Root THEN NoJob
                ELSE [jobs[j] EXCEPT !.op = "move", !.dest = Root])

\* Where moveto takes q when it moves a to b.
Moved(q, a, b) == b \o SubSeq(q, Len(a) + 1, Len(q))

\* ... then the old name is moved, whole, and its tombstone removed.
JobMove(j) ==
  LET a == jobs[j].path
      b == jobs[j].to
      from(p) == {q \in FilePaths : IsPrefix(a, q) /\ files[q] # 0 /\ Moved(q, a, b) = p}
  IN /\ jobs[j].op = "move"
     /\ files' = [p \in FilePaths |->
          IF from(p) # {} THEN files[CHOOSE q \in from(p) : TRUE]
          ELSE IF IsPrefix(a, p) THEN 0 ELSE files[p]]
     /\ dirs' = IF a \in DirPaths
                THEN IF a \in dirs THEN (dirs \ {a}) \cup {b} ELSE dirs
                ELSE IF files[a] # 0 THEN WithParent(dirs, b) ELSE dirs
     /\ tombs' = tombs \ {a}
     /\ UNCHANGED faults
     /\ JobStep(j, NoJob)

\* A call fails: it is logged.  Only the rename takes its tombstone along.
JobFails(j) ==
  /\ faults < MaxFaults /\ faults' = faults + 1
  /\ j \in Pending
  /\ jobs' = [jobs EXCEPT ![j] =
       IF @.op = "replace" /\ @.path # Root THEN [@ EXCEPT !.op = "move", !.dest = Root]
       ELSE NoJob]
  /\ tombs' = IF jobs[j].op = "move" THEN tombs \ {jobs[j].path} ELSE tombs
  /\ causes' = causes \cup {"failed"}
  /\ UNCHANGED <<local, cache, remote, tasks, last, live, refused, events>>

\* expires_at has passed for the tombstone of a call that failed or died.
TombstoneExpires(t) ==
  /\ t \in tombs /\ \A j \in Pending : jobs[j].path # t
  /\ tombs' = tombs \ {t}
  /\ UNCHANGED <<local, cache, remote, jobs, tasks, history, events, faults>>

\* The daemon is stopped and started: the tasks are gone; get_pending_uploads queues
\* the rows that were dirty or uploading again.  Bound: only while a remote call is
\* on its way.
Restart ==
  /\ Pending # {} \/ up # NoUpload
  /\ faults < MaxFaults /\ faults' = faults + 1
  /\ jobs' = [j \in DOMAIN jobs |-> NoJob]
  /\ up' = NoUpload /\ poll' = NoPoll /\ pop' = NoList /\ pre' = [n \in Inodes |-> NoList]
  /\ causes' = causes \cup Cause("failed", Pending # {})
  /\ UNCHANGED <<local, cache, remote, tombs, last, live, refused, events>>
-----------------------------------------------------------------------------
(* Transfers.                                                              *)

\* do_hydrate: into the cache path that belongs to the remote path; the ETag is the
\* one the row had.
Hydrate(n) ==
  LET p == rows[n].path
  IN /\ UserStep
     /\ ~IsDir(n) /\ rows[n].status \in {"remote", "stale"}
     /\ files[p] # 0
     /\ cache' = [cache EXCEPT ![p] = files[p]]
     /\ rows' = [rows EXCEPT ![n].status = "cached", ![n].cp = p]
     /\ causes' = causes \cup Cause("order", Busy(p))
     /\ UNCHANGED <<next, tombs, jobs, last, live, refused>>

\* The file is not there any more: the row is pruned.
HydratePrunes(n) ==
  /\ UserStep
  /\ ~IsDir(n) /\ rows[n].status \in {"remote", "stale"}
  /\ files[rows[n].path] = 0
  /\ rows' = [rows EXCEPT ![n] = NoRow]
  /\ causes' = causes \cup Cause("vanished", ContentsOf(n) \cap live # {})
  /\ UNCHANGED <<next, cache, tombs, jobs, last, live, refused>>

\* run_upload takes the row's path, cache path and ETag as they are now ...
UploadStart(n) ==
  /\ up = NoUpload
  /\ rows[n].status \in Unsynced /\ cache[rows[n].cp] # 0
  /\ up' = [inode |-> n, path |-> rows[n].path, cp |-> rows[n].cp, etag |-> rows[n].etag]
  /\ rows' = [rows EXCEPT ![n].status = "uploading"]
  /\ causes' = causes \cup Cause("order", Busy(rows[n].path))
  /\ UNCHANGED <<next, listed, cache, remote, tombs, jobs, poll, pop, pre, last, live,
                 refused, events, faults>>

\* ... and reverts a row whose cache file is gone.
UploadReverts(n) ==
  /\ rows[n].status \in Unsynced /\ up.inode # n /\ cache[rows[n].cp] = 0
  /\ rows' = [rows EXCEPT ![n].status = "remote", ![n].cp = Root]
  /\ UNCHANGED <<next, listed, cache, remote, tombs, jobs, tasks, history, events, faults>>

UploadEnds ==
  /\ up' = NoUpload
  /\ UNCHANGED <<next, listed, tombs, jobs, poll, pop, pre, history, events, faults>>

\* set_uploaded updates the row if there still is one.
SetUploaded(etag) ==
  rows' = IF rows[up.inode] = NoRow THEN rows
          ELSE [rows EXCEPT ![up.inode].status = "cached", ![up.inode].etag = etag]

Matches == up.etag = 0 \/ files[up.path] \in {0, up.etag}

\* copyto puts the file where the row was when the upload began.
UploadLands ==
  /\ up # NoUpload /\ Matches /\ cache[up.cp] # 0
  /\ files' = [files EXCEPT ![up.path] = cache[up.cp]]
  /\ dirs' = WithParent(dirs, up.path)
  /\ SetUploaded(cache[up.cp])
  /\ UNCHANGED <<cache, siblings>>
  /\ UploadEnds

\* check_if_match objects: resolve reads the row anew and keeps both versions, the
\* local one in a conflict file; it gives up half way when there is nothing to
\* download.  (The conflict file's own row is in Poller and Conflicts.)
UploadConflict ==
  /\ up # NoUpload /\ ~Matches /\ cache[up.cp] # 0
  /\ LET r == rows[up.inode]
     IN IF r = NoRow \/ r.cp = Root \/ cache[r.cp] = 0
        THEN UNCHANGED <<rows, cache, siblings>>
        ELSE /\ siblings' = siblings \cup ({cache[r.cp]} \ {files[r.path]})
             /\ IF files[r.path] = 0 THEN UNCHANGED <<rows, cache>>
                ELSE /\ rows' = [rows EXCEPT ![up.inode].status = "cached",
                                             ![up.inode].etag = files[r.path]]
                     /\ cache' = [cache EXCEPT ![r.cp] = files[r.path]]
  /\ UNCHANGED <<files, dirs>>
  /\ UploadEnds

\* The cache file has been moved or removed under the upload: it is retried.
UploadFails ==
  /\ up # NoUpload /\ cache[up.cp] = 0
  /\ rows' = IF rows[up.inode] = NoRow THEN rows
             ELSE [rows EXCEPT ![up.inode].status = "dirty"]
  /\ UNCHANGED <<cache, remote>>
  /\ UploadEnds
-----------------------------------------------------------------------------
(* poll_once, in two steps.                                                *)

PollList ==
  /\ poll.pc = "idle"
  /\ poll' = [pc |-> "apply", files |-> files, dirs |-> dirs]
  /\ UNCHANGED <<local, cache, remote, tombs, jobs, up, pop, pre, history, events, faults>>

\* The paths among S that have no row, in the order they get one.
Rowless(S) == {p \in S : ByPath(p) = {}}
Place == [p \in Paths |-> CHOOSE i \in DOMAIN PathOrder : PathOrder[i] = p]
Rank(p, N) == Cardinality({q \in N : Place[q] <= Place[p]})
NewPaths(S) == [i \in 1 .. Cardinality(Rowless(S)) |->
                  CHOOSE p \in Rowless(S) : Rank(p, Rowless(S)) = i]

\* Fault variant: the parent is taken to be the root.
InodeOf_Root(p, new) == 0

\* path_to_inode: the row of a directory, or the one it is about to get; the root
\* for one that is not known.
InodeOf(p, new) == IF p = Root THEN 0
                   ELSE IF ByPath(p) # {} THEN CHOOSE n \in ByPath(p) : TRUE
                   ELSE IF \E i \in DOMAIN new : new[i] = p
                   THEN next + (CHOOSE i \in DOMAIN new : new[i] = p) - 1
                   ELSE 0

Refreshed(status) == IF status \in Unsynced THEN status ELSE "stale"

\* Fault variant: a row in the middle of an upload can be swept.
Sweepable_Uploading(r) == r.status # "dirty"

Sweepable(r) == r.status \notin Unsynced

\* delete_stale_entries goes through the rows in Z: those no poll has marked
\* first, then by inode, up to the first that has a child left.
Before(m, n) == \/ ~rows[m].polled /\ rows[n].polled
                \/ rows[m].polled = rows[n].polled /\ m < n
Swept(Z, reparented) ==
  LET stuck(n) == \E c \in Children(n) \ reparented : c \notin Z \/ Before(n, c)
  IN {n \in Z : \A m \in Z : stuck(m) => Before(n, m)}

\* The listing minus the tombstones, against the index: what the poll has seen, the
\* rows it has seen, and those of them whose file has changed.
Seen == {p \in Paths : /\ ~IsTombstoned(p, tombs)
                       /\ p \in poll.dirs \/ (p \in FilePaths /\ poll.files[p] # 0)}
PollEtag(p) == IF p \in DirPaths THEN 0 ELSE poll.files[p]
Olds   == {n \in Live : rows[n].path \in Seen}
Stales == {n \in Olds : ~IsDir(n) /\ rows[n].etag # PollEtag(rows[n].path)}
Sweep  == Swept({n \in Live \ Olds : Sweepable(rows[n])}, Stales)

\* to_upsert; the paths of it before p; the parent p gets, new being the rowless ones.
Todo          == Rowless(Seen) \cup {rows[n].path : n \in Stales}
Earlier(p, T) == {q \in T : Place[q] < Place[p]}
At(p, new)    == InodeOf(ParentPath(p), new)

\* upsert_remote_file_by_id_or_path for the paths in P.
Upserts(P, new) ==
  [n \in Inodes |->
     IF n \in next .. next + Len(new) - 1
     THEN LET p == new[n - next + 1]
          IN [Row(p, At(p, new), "remote", PollEtag(p), Root) EXCEPT !.polled = TRUE]
     ELSE IF n \in Live /\ rows[n].path \in P
     THEN [rows[n] EXCEPT !.parent = At(rows[n].path, new), !.etag = PollEtag(rows[n].path),
                          !.status = Refreshed(@), !.polled = TRUE]
     ELSE rows[n]]

\* When p's turn comes, the row of another path has the name under the parent.
Refused(p, T, new) ==
  \E q \in Paths \ {p} :
    /\ Last(q) = Last(p)
    /\ IF q \in Earlier(p, T) THEN At(q, new) = At(p, new)
       ELSE \E n \in ByPath(q) : rows[n].parent = At(p, new)

\* A row the poll has seen is marked; every directory counts as listed.
Marked(r, seen) == [r EXCEPT !.polled = @ \/ seen, !.listed = (r.path \in DirPaths)]

\* The listing is written to the index; what is in the index only is swept, cache
\* files included.
PollApply ==
  /\ poll.pc = "apply"
  /\ \E T \in {Todo}, Z \in {Sweep}, old \in {Olds} : \E new \in {NewPaths(T)} :
     \E R \in {Upserts(T, new)} :
       /\ \A p \in T : ~Refused(p, T, new)
       /\ next + Len(new) <= MaxInode + 1 /\ next' = next + Len(new)
       /\ rows' = [n \in Inodes |->
            IF n \in Z \/ R[n] = NoRow THEN NoRow
            ELSE Marked(R[n], n \in old)]
       /\ cache' = [p \in FilePaths |-> IF \E n \in Z : rows[n].cp = p THEN 0 ELSE cache[p]]
       /\ causes' = causes \cup
            Cause("vanished", \E n \in Z : /\ rows[n].status \notin Unsynced
                                       /\ ContentsOf(n) \cap live # {})
  /\ listed' = TRUE
  /\ poll' = NoPoll
  /\ UNCHANGED <<remote, tombs, jobs, up, pop, pre, last, live, refused, events, faults>>

\* An upsert fails on the index of names: the poll ends there, with no sweep; the
\* upserts before it stay.
PollRefused ==
  /\ poll.pc = "apply"
  /\ \E T \in {Todo} : \E all \in {NewPaths(T)}, p \in T : \E P \in {Earlier(p, T)} :
     \E new \in {NewPaths(P)} :
       /\ Refused(p, T, all) /\ \A q \in P : ~Refused(q, T, all)
       /\ next + Len(new) <= MaxInode + 1 /\ next' = next + Len(new)
       /\ rows' = Upserts(P, new)
  /\ poll' = NoPoll
  /\ refused' = TRUE
  /\ UNCHANGED <<listed, cache, remote, tombs, jobs, up, pop, pre, last, live, causes, events,
                 faults>>
-----------------------------------------------------------------------------
(* populate_directory and spawn_prefetch_child_dirs.                       *)

Below(p) == {q \in Paths : Len(q) = Len(p) + 1 /\ IsPrefix(p, q)}
Listing(n, p) ==
  [inode |-> n, pc |-> "apply", path |-> p,
   files |-> {<<q, files[q]>> : q \in {q \in Below(p) \cap FilePaths : files[q] # 0}},
   dirs  |-> Below(p) \cap dirs]
CanList(p) == p = Root \/ p \in dirs

\* lookup and readdir visit a directory that is not listed.
Populate(n) ==
  /\ pop = NoList
  /\ ~IsListed(n)
  /\ CanList(PathOf(n))
  /\ pop' = Listing(n, PathOf(n))
  /\ UNCHANGED <<local, cache, remote, tombs, jobs, up, poll, pre, history, events, faults>>

\* A directory of our own that cannot be listed yet counts as empty.
PopulateLocal(n) ==
  /\ pop = NoList
  /\ ~IsListed(n) /\ rows[n].status \notin {"remote", "stale"}
  /\ ~CanList(PathOf(n))
  /\ rows' = [rows EXCEPT ![n].listed = TRUE]
  /\ UNCHANGED <<next, listed, cache, remote, tombs, jobs, tasks, history, events, faults>>

\* batch_upsert_remote_files under l's inode, for its entries at paths S, is one
\* transaction.
Refuses(l, S) == \E p \in S : Clashes(p, l.inode)
BatchUpsert(l, S) ==
  LET new == NewPaths(S)
      etag(p) == IF p \in DirPaths THEN 0
                 ELSE (CHOOSE e \in l.files : e[1] = p)[2]
  IN /\ next + Len(new) <= MaxInode + 1
     /\ next' = next + Len(new)
     /\ rows' = [n \in Inodes |->
          IF n \in next .. next + Len(new) - 1
          THEN LET p == new[n - next + 1] IN Row(p, l.inode, "remote", etag(p), Root)
          ELSE IF n \in Live /\ rows[n].path \in S
          THEN [rows[n] EXCEPT !.parent = l.inode, !.etag = etag(rows[n].path),
                               !.status = Refreshed(@), !.polled = FALSE]
          ELSE IF n = l.inode THEN [rows[n] EXCEPT !.listed = TRUE] ELSE rows[n]]
Entries(l) == {e[1] : e \in l.files} \cup l.dirs

Wanted(l) == {p \in Entries(l) : ~IsTombstoned(p, tombs)}

\* The tombstones are read after the listing; then the subdirectories that are
\* not listed are given to prefetch tasks.
PopulateApply ==
  /\ pop # NoList
  /\ pop' = NoList
  /\ pop.inode # 0 => rows[pop.inode] # NoRow
  /\ ~Refuses(pop, Wanted(pop))
  /\ BatchUpsert(pop, Wanted(pop))
  /\ listed' = (listed \/ pop.inode = 0)
  /\ pre' = [n \in Inodes |->
       IF pre[n] = NoList /\ rows'[n] # NoRow /\ rows'[n].path \in DirPaths
          /\ rows'[n].parent = pop.inode /\ ~rows'[n].listed
       THEN [NoList EXCEPT !.inode = n, !.pc = "list", !.path = rows'[n].path]
       ELSE pre[n]]
  /\ UNCHANGED <<cache, remote, tombs, jobs, up, poll, history, events, faults>>

\* The directory was swept meanwhile, and the upsert violates the foreign key; or an
\* entry has the name of another row.
PopulateFails ==
  /\ pop # NoList
  /\ (pop.inode # 0 => rows[pop.inode] # NoRow) => Refuses(pop, Wanted(pop))
  /\ pop' = NoList
  /\ refused' = (refused \/ Refuses(pop, Wanted(pop)))
  /\ UNCHANGED <<local, cache, remote, tombs, jobs, up, poll, pre, last, live, causes, events,
                 faults>>

PrefetchList(n) ==
  /\ pre[n].pc = "list"
  /\ pre' = [pre EXCEPT ![n] = IF CanList(@.path) THEN Listing(n, @.path) ELSE NoList]
  /\ UNCHANGED <<local, cache, remote, tombs, jobs, up, poll, pop, history, events, faults>>

\* No look at the tombstones here.
PrefetchApply(n) ==
  /\ pre[n].pc = "apply"
  /\ pre' = [pre EXCEPT ![n] = NoList]
  /\ IF rows[n] = NoRow \/ Refuses(pre[n], Entries(pre[n])) THEN UNCHANGED <<rows, next>>
     ELSE BatchUpsert(pre[n], Entries(pre[n]))
  /\ refused' = (refused \/ Refuses(pre[n], Entries(pre[n])))
  /\ UNCHANGED <<listed, cache, remote, tombs, jobs, up, poll, pop, last, live, causes, events,
                 faults>>
-----------------------------------------------------------------------------
Next ==
  \/ \E parent \in DirInodes \cup {0}, name \in FileNames : Create(parent, name)
  \/ \E n \in Live : Write(n)
  \/ \E name \in DirNames : handle_mkdir(name)
  \/ \E n \in Live : handle_unlink(n)
  \/ \E n \in Live : handle_rmdir(n)
  \/ \E n \in Live, parent \in DirInodes \cup {0}, name \in FileNames \cup DirNames :
       handle_rename(n, parent, name)
  \/ \E j \in Pending : JobMkdir(j)
  \/ \E j \in Pending : JobDelete(j)
  \/ \E j \in Pending : JobRmdir(j)
  \/ \E j \in Pending : JobReplace(j)
  \/ \E j \in Pending : JobMove(j)
  \/ \E j \in Pending : JobFails(j)
  \/ \E t \in tombs : TombstoneExpires(t)
  \/ Restart
  \/ \E n \in Live : Hydrate(n)
  \/ \E n \in Live : HydratePrunes(n)
  \/ \E n \in Live : UploadStart(n)
  \/ \E n \in Live : UploadReverts(n)
  \/ UploadLands
  \/ UploadConflict
  \/ UploadFails
  \/ PollList
  \/ PollApply
  \/ PollRefused
  \/ \E n \in DirInodes \cup {0} : Populate(n)
  \/ \E n \in DirInodes : PopulateLocal(n)
  \/ PopulateApply
  \/ PopulateFails
  \/ \E n \in Inodes : PrefetchList(n)
  \/ \E n \in Inodes : PrefetchApply(n)

Spec == Init /\ [][Next]_vars
-----------------------------------------------------------------------------
RowType  == [path : Paths \cup {Root}, parent : 0 .. MaxInode, status : Statuses,
             etag : 0 .. MaxContents, cp : FilePaths \cup {Root},
             listed : BOOLEAN, polled : BOOLEAN]
JobType  == [op : {"none", "mkdir", "delete", "rmdir", "replace", "move"},
             path : Paths \cup {Root}, to : Paths \cup {Root}, dest : Paths \cup {Root}]
UpType   == [inode : 0 .. MaxInode, path : FilePaths \cup {Root},
             cp : FilePaths \cup {Root}, etag : 0 .. MaxContents]
PollType == [pc : {"idle", "apply"}, files : [FilePaths -> 0 .. MaxContents],
             dirs : SUBSET DirPaths]
ListType == [inode : 0 .. MaxInode, pc : {"idle", "list", "apply"},
             path : DirPaths \cup {Root}, files : SUBSET (FilePaths \X Contents),
             dirs : SUBSET DirPaths]

\* Rows, cache, remote and tasks are well formed; the constraints of file_index hold:
\* a path has one row, a name one row under its parent, and a parent is a directory
\* of the index.
TypeOK ==
  /\ rows \in [Inodes -> RowType]
  /\ \A m, n \in Live : rows[m].path = rows[n].path => m = n
  /\ \A m, n \in Live : rows[m].parent = rows[n].parent /\ Name(m) = Name(n) => m = n
  /\ \A n \in Live : rows[n].parent \in DirInodes \cup {0}
  /\ next \in 1 .. MaxInode + 1 /\ listed \in BOOLEAN
  /\ cache \in [FilePaths -> 0 .. MaxContents]
  /\ files \in [FilePaths -> 0 .. MaxContents] /\ dirs \subseteq DirPaths
  /\ siblings \subseteq Contents /\ tombs \subseteq Paths
  /\ jobs \in [1 .. MaxEvents -> JobType]
  /\ up \in UpType /\ poll \in PollType
  /\ pop \in ListType /\ pre \in [Inodes -> ListType]
  /\ last \in Contents /\ live \subseteq Contents
  /\ causes \subseteq {"order", "purge", "dir", "cross", "unsent", "failed", "vanished"}
  /\ refused \in BOOLEAN
  /\ events \in 0 .. MaxEvents /\ faults \in 0 .. MaxFaults

\* Where content is safe: at the remote, or in the cache file of some row.
Safe == {files[p] : p \in FilePaths} \cup siblings
        \cup {cache[rows[n].cp] : n \in {n \in Live : rows[n].cp # Root}}

\* The content of every file the user has is at the remote or in the cache file of
\* a row, whatever uploads, polls, listings and background calls are doing.  Known
\* exceptions: two remote calls on one path at a time, an upload or a download
\* being one too (no MutationSerializer in the code); a purge of a directory the
\* index has not listed; a failed call; a rename that is not sent, or crosses
\* directories; a file that a poll or a failed download dropped from the index
\* while the user had it, its rename still on the way to the remote included.
NothingLost == causes = {} => live \subseteq Safe

\* No operation fails on a UNIQUE constraint: the parent the poller or a listing gives
\* a path, and the name a rename gives a row, never put it where another row is, which
\* would end the poll before its sweep, leave a directory unlisted, or give the user
\* EIO after the cache file has moved.  A renamed directory leaves its children with
\* their old remote_path and is excepted.
NeverRefused == refused => "dir" \in causes

\* No cache file belongs to two rows, so that no write, eviction or unlink of one
\* file reaches another.  A rename across directories leaves the cache file in the
\* old directory and is excepted.
CacheUnshared ==
  causes \cap {"dir", "cross"} = {} =>
    \A m, n \in Live : rows[m].cp = rows[n].cp /\ rows[m].cp # Root => m = n
=============================================================================
