------------------------------- MODULE Poller -------------------------------
(***************************************************************************)
(* The remote poller (sync/poller.rs) over the file index it maintains     *)
(* (state/mod.rs): full listings with a generation sweep, and delta polls  *)
(* with a change token.  Every DB call and every remote call is a step, so *)
(* that other clients of the cloud account and the local side (hydration,  *)
(* writes, uploads, conflicts, unlink) run in between.                     *)
(*                                                                         *)
(* An item of the cloud is known by its stable id.  Its content is the     *)
(* number of the change that made it, which is also its ETag.  A change    *)
(* feed reports, for each item changed since a token, the item's last      *)
(* state.  Inode 0 is the root, which is never deleted.  Version capture   *)
(* is in BlobStore, the retrieval of the feed's pages in DeltaFeed.        *)
(***************************************************************************)
EXTENDS Naturals, FiniteSets

CONSTANTS
  Items,        \* ids of the cloud's files and directories
  Paths,        \* remote paths
  Dirs,         \* those that are directories
  ParentOf,     \* the parent directory of a path, or None
  NameOf,       \* the last component of a path
  Above,        \* all the directories a path lies in
  Rebase,       \* a path when a directory above it is renamed to another, or None
  ConflictNs,   \* paths under CONFLICT_PREFIX
  Ignored,      \* paths matching ignore_patterns
  Home,         \* the cloud when the daemon starts: item -> path or None
  HomeInode,    \* and the inodes of an index that an earlier run left
  None,
  FullModeIds,  \* whether listings of a backend without delta carry item ids
  BaseInterval, \* poll_interval, in seconds
  FaultPoints,  \* the poller's steps that may fail
  MaxInode, MaxOps, MaxFaults, MaxExpiries, MaxEvents   \* bounds

Inodes == 1..MaxInode
Modes  == {"full", "delta"}
AtHome == {i \in Items : Home[i] # None}

ASSUME PollerAssumption ==
  /\ Dirs \subseteq Paths /\ ConflictNs \subseteq Paths /\ Ignored \subseteq Paths
  /\ ParentOf \in [Paths -> Dirs \cup {None}]
  /\ \A p \in Paths : /\ Above[p] \subseteq Dirs \ {p}
                      /\ ParentOf[p] \in Above[p] \cup {None}
                      /\ \A d, e \in Dirs : Rebase[p][d][e] \in Paths \cup {None}
  /\ \A p, q \in Paths, d, e \in Dirs : Rebase[p][d][e] # None =>
       /\ e \in Above[Rebase[p][d][e]] /\ (p \in Dirs <=> Rebase[p][d][e] \in Dirs)
       /\ Rebase[q][d][e] = Rebase[p][d][e] => p = q
  /\ IsFiniteSet(Items) /\ Home \in [Items -> Paths \cup {None}]
  /\ None \notin Paths \cup Items \cup Nat
  /\ FullModeIds \in BOOLEAN
  /\ BaseInterval \in Nat \ {0}
  /\ MaxInode \in Nat \ {0}
  /\ HomeInode \in [Items -> 0..Cardinality(AtHome)] /\ Cardinality(AtHome) <= MaxInode
  /\ \A i \in Items : HomeInode[i] = 0 <=> Home[i] = None
  /\ \A i, j \in AtHome : i # j => Home[i] # Home[j] /\ HomeInode[i] # HomeInode[j]
  /\ \A i \in AtHome : ParentOf[Home[i]] \in {Home[j] : j \in AtHome} \cup {None}
  /\ MaxOps \in Nat /\ MaxFaults \in Nat /\ MaxExpiries \in Nat /\ MaxEvents \in Nat

VARIABLES
  mode,     \* whether the backend supports_delta
  remote,   \* the cloud: (last) path, content and last change of each item
  clock,    \* changes made in the cloud so far
  horizon,  \* change tokens below it have expired
  rows,     \* file_index, by inode
  next,     \* the next inode of AUTOINCREMENT
  token,    \* change_tokens: a change token, a poll generation, or nothing
  tombs,    \* delete_tombstones
  poll,     \* the poller
  timer,    \* run: consecutive_failures and current_interval
  unl,      \* the unlink in progress
  apart,    \* history: items that changed, or were listed, and of which neither the
            \* listing nor a delta poll told the index
  mixed,    \* history: items of which a row has the id and another item the path
  ops, faults, expiries  \* counters for the bounds

cloud   == <<remote, clock, horizon>>
index   == <<rows, next>>
history == <<apart, mixed>>
bounds  == <<ops, faults, expiries>>
vars    == <<mode, remote, clock, horizon, rows, next, token, tombs, poll, timer,
             unl, apart, mixed, ops, faults, expiries>>

NoRow == [path |-> None, parent |-> 0, item |-> None, etag |-> None,
          status |-> "none", gen |-> 0]
Row(path, parent, item, etag, status, gen) ==
  [path |-> path, parent |-> parent, item |-> item, etag |-> etag,
   status |-> status, gen |-> gen]
Statuses == {"remote", "cached", "dirty", "stale", "conflict"}

Live     == {n \in Inodes : rows[n] # NoRow}
Unsynced == {"dirty"}          \* ('dirty', 'uploading')

\* change_tokens holds one string per mount for two purposes.
NoToken     == [kind |-> "none", n |-> 0]
Gen(n)      == [kind |-> "generation", n |-> n]
Token(n)    == [kind |-> "token", n |-> n]

\* What a listing or a feed says of an item.
ItemId(i) == IF mode = "delta" \/ FullModeIds THEN i ELSE None
Meta(i) == [item |-> ItemId(i), path |-> remote[i].path, ver |-> remote[i].ver]
Item(path, ver, seq, gone) == [path |-> path, ver |-> ver, seq |-> seq, gone |-> gone]
LiveItems == {i \in Items : ~remote[i].gone}
Taken(p)  == \E i \in LiveItems : remote[i].path = p
ItemAt(p) == CHOOSE i \in LiveItems : remote[i].path = p

Under(p, t) == p = t \/ t \in Above[p]
IsTombstoned(p, ts) == \E t \in ts : Under(p, t)

\* The poller's locals: why a full poll runs, the listing, the snapshot of the
\* index, work to do, inodes to mark, path_to_inode, the token to store.
Idle == [pc |-> "idle", call |-> "poll", listing |-> {}, snap |-> {}, todo |-> {},
         marks |-> {}, map |-> [p \in Dirs |-> 0], nxt |-> 0]
Goto(pc) == [poll EXCEPT !.pc = pc]

-----------------------------------------------------------------------------
\* A row of an earlier run: hydrated files, and the generation of the last full
\* poll.
HomeRow(i) ==
  Row(Home[i],
      IF ParentOf[Home[i]] = None THEN 0
      ELSE HomeInode[CHOOSE j \in AtHome : Home[j] = ParentOf[Home[i]]],
      ItemId(i), HomeInode[i], "cached", 1)

\* A first start, or a start over an index in line with the cloud.
Init ==
  /\ mode \in Modes
  /\ remote = [i \in Items |-> Item(Home[i], HomeInode[i], 0, Home[i] = None)]
  /\ clock = Cardinality(Items) /\ horizon = 0
  /\ \/ rows = [n \in Inodes |-> NoRow] /\ next = 1 /\ token = NoToken
     \/ /\ rows = [n \in Inodes |-> IF \E i \in Items : HomeInode[i] = n
                                    THEN HomeRow(CHOOSE i \in Items : HomeInode[i] = n)
                                    ELSE NoRow]
        /\ next = 1 + Cardinality(AtHome)
        /\ token = IF mode = "full" THEN Gen(1) ELSE Token(clock)
  /\ tombs = {}
  /\ poll = Idle
  /\ timer = [failures |-> 0, interval |-> BaseInterval]
  /\ unl = [pc |-> "idle", path |-> None]
  /\ apart = {} /\ mixed = {}
  /\ ops = 0 /\ faults = 0 /\ expiries = 0

-----------------------------------------------------------------------------
(* The cloud.                                                              *)

\* A change after a full listing and before the start token that follows it is
\* in neither.  Any other change of an item is reported by the next delta poll.
InGap == mode = "delta" /\ poll.call # "poll" /\ poll.pc # "list"
Known(S) == apart' = IF InGap THEN apart \cup S ELSE apart \ S

MoreEvents == ops + faults + expiries < MaxEvents

Change(S, new(_)) ==
  /\ clock' = clock + 1
  /\ remote' = [i \in Items |-> IF i \in S THEN new(i) ELSE remote[i]]
  /\ Known(S)

OtherClient ==
  /\ ops < MaxOps /\ MoreEvents
  /\ ops' = ops + 1
  /\ UNCHANGED <<mode, horizon, index, token, tombs, poll, timer, unl, mixed, faults,
                 expiries>>

RemoteEdit(i) ==
  /\ OtherClient
  /\ i \in LiveItems /\ remote[i].path \notin Dirs
  /\ Change({i}, LAMBDA j : Item(remote[j].path, clock + 1, clock + 1, FALSE))

Unused(i) == remote[i].path = None
Free(p) == p \notin ConflictNs /\ ~Taken(p) /\ (ParentOf[p] = None \/ Taken(ParentOf[p]))

RemoteCreate(i, p) ==
  /\ OtherClient
  /\ Unused(i) /\ Free(p)
  /\ Change({i}, LAMBDA j : Item(p, clock + 1, clock + 1, FALSE))

RemoteMove(i, p) ==
  /\ OtherClient
  /\ i \in LiveItems /\ remote[i].path \notin Dirs
  /\ p \notin Dirs /\ Free(p)
  /\ Change({i}, LAMBDA j : Item(p, remote[j].ver, clock + 1, FALSE))

\* A directory takes what it holds with it.  The feed reports the directory alone:
\* the others have new paths that no delta poll hears of until they change.
RemoteMoveDir(i, p) ==
  LET from == remote[i].path
      held == {j \in LiveItems : from \in Above[remote[j].path]}
      to(j) == Rebase[remote[j].path][from][p]
  IN /\ OtherClient
     /\ i \in LiveItems /\ from \in Dirs
     /\ p \in Dirs /\ from \notin Above[p] /\ Free(p)
     /\ \A j \in held : to(j) # None /\ ~Taken(to(j))
     /\ clock' = clock + 1
     /\ remote' = [j \in Items |-> CASE j = i -> Item(p, remote[j].ver, clock + 1, FALSE)
                                     [] j \in held -> [remote[j] EXCEPT !.path = to(j)]
                                     [] OTHER -> remote[j]]
     /\ apart' = (IF InGap THEN apart \cup {i} ELSE apart \ {i}) \cup held

Delete(S) == Change(S, LAMBDA j : Item(remote[j].path, remote[j].ver, clock + 1, TRUE))

\* A directory goes with what it holds.
RemoteDelete(i) ==
  /\ OtherClient
  /\ i \in LiveItems
  /\ Delete({j \in LiveItems : Under(remote[j].path, remote[i].path)})

\* The provider forgets its change log: earlier tokens are answered with 410.
ExpireTokens ==
  /\ mode = "delta"
  /\ expiries < MaxExpiries /\ MoreEvents
  /\ expiries' = expiries + 1
  /\ horizon' = clock + 1
  /\ clock' = clock + 1
  /\ UNCHANGED <<mode, remote, index, token, tombs, poll, timer, unl, history,
                 ops, faults>>

-----------------------------------------------------------------------------
(* The local side, each operation as one step.                             *)

LocalRest == UNCHANGED <<mode, horizon, poll, timer, token, faults, expiries>>
LocalStep == ops < MaxOps /\ MoreEvents /\ ops' = ops + 1 /\ LocalRest

IsFile(n) == rows[n] # NoRow /\ rows[n].path \notin Dirs
Matches(n) == Taken(rows[n].path) /\ remote[ItemAt(rows[n].path)].ver = rows[n].etag

\* The row has this place in the index: UNIQUE(mount_id, parent_inode, name).
Called(n, parent, name) == rows[n].parent = parent /\ NameOf[rows[n].path] = name

\* Item j is or comes to be where a row has the id of item i.
Mixed(i, j) == IF None \in {i, j} \/ i = j THEN {} ELSE {i, j}

\* do_hydrate: set_cached with the ETag the row had, whatever was downloaded.
Hydrate(n) ==
  /\ LocalStep
  /\ IsFile(n) /\ rows[n].status \in {"remote", "stale"} /\ Taken(rows[n].path)
  /\ rows' = [rows EXCEPT ![n].status = "cached"]
  /\ UNCHANGED <<remote, clock, next, tombs, unl, history>>

\* handle_write: set_dirty_size.
LocalWrite(n) ==
  /\ LocalStep
  /\ IsFile(n) /\ rows[n].status = "cached"
  /\ rows' = [rows EXCEPT ![n].status = "dirty"]
  /\ UNCHANGED <<remote, clock, next, tombs, unl, history>>

\* run_upload when check_if_match passes ...
Upload(n) ==
  /\ IsFile(n) /\ rows[n].status = "dirty" /\ Matches(n)
  /\ Change({ItemAt(rows[n].path)},
            LAMBDA j : Item(rows[n].path, clock + 1, clock + 1, FALSE))
  /\ rows' = [rows EXCEPT ![n].status = "cached", ![n].etag = clock + 1]
  /\ UNCHANGED <<next, tombs, unl, mixed>>
  /\ LocalRest /\ UNCHANGED ops

\* ... or the file is gone: it is made again, as a new item.  The row keeps the
\* id of the old one.
UploadNew(n, i) ==
  /\ IsFile(n) /\ rows[n].status = "dirty" /\ ~Taken(rows[n].path)
  /\ Unused(i)
  /\ clock' = clock + 1
  /\ remote' = [remote EXCEPT ![i] = Item(rows[n].path, clock + 1, clock + 1, FALSE)]
  /\ mixed' = mixed \cup ({rows[n].item, i} \ {None})
  /\ rows' = [rows EXCEPT ![n].status = "cached", ![n].etag = clock + 1]
  /\ UNCHANGED <<next, tombs, unl, apart>>
  /\ LocalRest /\ UNCHANGED ops

\* resolve_keep_both: the local version becomes a file of the conflict
\* namespace, the row goes back to the remote version.
Conflict(n, i, p) ==
  /\ IsFile(n) /\ rows[n].status = "dirty" /\ Taken(rows[n].path) /\ ~Matches(n)
  /\ Unused(i)
  /\ ~Taken(p)
  /\ \A m \in Live : rows[m].path # p /\ ~Called(m, rows[n].parent, NameOf[p])
  /\ next \in Inodes /\ next' = next + 1
  /\ Change({i}, LAMBDA j : Item(p, clock + 1, clock + 1, FALSE))
  /\ rows' = [rows EXCEPT
       ![n].status = "cached", ![n].etag = remote[ItemAt(rows[n].path)].ver,
       ![next] = Row(p, rows[n].parent, None, clock + 1, "conflict", 0)]
  /\ mixed' = mixed \cup Mixed(rows[n].item, ItemAt(rows[n].path))
  /\ UNCHANGED <<tombs, unl>>
  /\ LocalRest /\ UNCHANGED ops

(* handle_unlink and its background task.                                  *)

\* delete_entry ...
Unlink(n) ==
  /\ LocalStep
  /\ unl.pc = "idle"
  /\ IsFile(n)
  /\ rows' = [rows EXCEPT ![n] = NoRow]
  /\ unl' = [pc |-> "tomb", path |-> rows[n].path]
  /\ apart' = apart \cup {i \in LiveItems : remote[i].path = rows[n].path}
  /\ UNCHANGED <<remote, clock, next, tombs, mixed>>

Unlinking(from, to) ==
  /\ unl.pc = from
  /\ unl' = to
  /\ UNCHANGED <<mode, horizon, index, token, poll, timer, mixed, bounds>>

\* ... insert_tombstone ...
UnlinkTombstone ==
  /\ Unlinking("tomb", [unl EXCEPT !.pc = "remote"])
  /\ tombs' = tombs \cup {unl.path}
  /\ UNCHANGED <<remote, clock, apart>>

\* ... the remote delete (a file that is not there is as good) ...
UnlinkRemote ==
  /\ Unlinking("remote", [unl EXCEPT !.pc = "drop"])
  /\ IF Taken(unl.path) THEN Delete({ItemAt(unl.path)})
     ELSE UNCHANGED <<remote, clock, apart>>
  /\ tombs' = tombs

\* ... and remove_tombstone.
UnlinkDone ==
  /\ Unlinking("drop", [pc |-> "idle", path |-> None])
  /\ tombs' = tombs \ {unl.path}
  /\ UNCHANGED <<remote, clock, apart>>

-----------------------------------------------------------------------------
(* state/mod.rs: what the poller does to the index.                        *)

\* REFERENCES file_index(inode), without ON DELETE: a row that is some row's
\* parent cannot be deleted, and a parent must be there.
Children(n) == {m \in Live : rows[m].parent = n}
CanDelete(n) == Children(n) = {}

Clean(n) == rows[n].status \notin Unsynced

\* Fault variant: every row becomes stale.
Refreshed_Always(status) == "stale"

\* The CASE of the upserts.
Refreshed(status) == IF status \in Unsynced THEN status ELSE "stale"

ById(m)   == {n \in Live : m.item # None /\ rows[n].item = m.item}
ByPath(p) == {n \in Live : rows[n].path = p}

UpsertTarget(m) ==
  IF ById(m) # {} THEN CHOOSE n \in ById(m) : TRUE
  ELSE IF ByPath(m.path) # {} THEN CHOOSE n \in ByPath(m.path) : TRUE
  ELSE next

\* upsert_remote_file_by_id_or_path.
Upserted(m, parent, gen) ==
  LET n   == UpsertTarget(m)
      old == rows[n]
      new == IF n = next /\ old = NoRow
             THEN Row(m.path, parent, m.item, m.ver, "remote", gen)
             ELSE Row(m.path, parent, IF old.item = None THEN m.item ELSE old.item,
                      m.ver, Refreshed(old.status), gen)
  IN [k \in Inodes |-> IF k = n THEN new
                       ELSE IF rows[k].path = m.path THEN NoRow ELSE rows[k]]

\* A row renamed by its id first drops the row it finds at its new path ...
Colliding(m)   == {k \in ByPath(m.path) : k # UpsertTarget(m)}
DropFails(m)   == \E k \in Colliding(m) : ~CanDelete(k)

\* ... then the UPDATE or INSERT needs a parent, and a name that no row beside it
\* has: a child of a renamed directory keeps its old path there, and an item whose
\* directory is not in the index is put under the root.
WriteFails(m, parent) ==
  \/ parent # 0 /\ (rows[parent] = NoRow \/ parent \in Colliding(m))
  \/ \E k \in Live \ (Colliding(m) \cup {UpsertTarget(m)}) : Called(k, parent, NameOf[m.path])

UpsertFails(m, parent) == DropFails(m) \/ WriteFails(m, parent)

\* The two are no transaction: the row dropped is not restored.
HalfUpserted(m) ==
  [k \in Inodes |-> IF k \in Colliding(m) /\ ~DropFails(m) THEN NoRow ELSE rows[k]]

ParentInode(p) == IF ParentOf[p] = None THEN 0 ELSE poll.map[ParentOf[p]]

\* delete_stale_entries: in the order of the index on poll_generation; the
\* first row that cannot be deleted ends it.
Stale(gen) == {n \in Live : rows[n].gen < gen /\ Clean(n)}
Before(m, n) == rows[m].gen < rows[n].gen \/ (rows[m].gen = rows[n].gen /\ m < n)
Stuck(n, S) == \E c \in Children(n) : c \notin S \/ Before(n, c)
Swept(gen) ==
  LET S == Stale(gen)
  IN {n \in S : \A m \in S : Stuck(m, S) => Before(n, m)}
-----------------------------------------------------------------------------
(* run: the poll loop.                                                     *)

Smaller(a, b) == IF a < b THEN a ELSE b

\* Fault variant: a success does not reset the interval.
Succeeded_KeepsInterval(t) == [t EXCEPT !.failures = 0]

\* Failures beyond 10, or beyond the longest interval, make no difference.
Failed(t) ==
  LET f == IF t.failures >= 3 /\ t.interval = 600 THEN t.failures
           ELSE Smaller(t.failures + 1, 10)
  IN [failures |-> f,
      interval |-> IF f >= 3 /\ f < 10 THEN Smaller(2 * t.interval, 600)
                   ELSE t.interval]

Succeeded(t) ==
  IF t.failures > 0 THEN [failures |-> 0, interval |-> BaseInterval] ELSE t

PollStep(from) ==
  /\ poll.pc = from
  /\ UNCHANGED <<mode, cloud, tombs, unl, ops, expiries>>

Proceed(to) ==
  /\ poll' = to
  /\ UNCHANGED <<timer, faults>>

Succeed ==
  /\ poll' = Idle
  /\ timer' = Succeeded(timer)
  /\ UNCHANGED faults

\* A failed initial listing is only logged.
Fail ==
  IF poll.call = "first" /\ poll.pc \notin {"start", "settoken"}
  THEN /\ poll' = [Idle EXCEPT !.pc = "start", !.call = "first"]
       /\ apart' = Items
       /\ UNCHANGED timer
  ELSE /\ poll' = Idle
       /\ timer' = Failed(timer)
       /\ UNCHANGED apart

\* A call to rclone, the provider or the DB fails.
PollFault ==
  /\ poll.pc \in FaultPoints
  /\ faults < MaxFaults /\ MoreEvents /\ faults' = faults + 1
  /\ Fail
  /\ UNCHANGED <<mode, cloud, index, token, tombs, unl, mixed, ops, expiries>>

\* The daemon is stopped and started again; a pending remote delete is forgotten.
Restart ==
  /\ "restart" \in FaultPoints
  /\ faults < MaxFaults /\ MoreEvents /\ faults' = faults + 1
  /\ poll' = Idle
  /\ timer' = [failures |-> 0, interval |-> BaseInterval]
  /\ unl' = [pc |-> "idle", path |-> None]
  /\ UNCHANGED <<mode, cloud, index, token, tombs, history, ops, expiries>>

\* expires_at passes.
TombstoneExpires(t) ==
  /\ t \in tombs
  /\ tombs' = tombs \ {t}
  /\ UNCHANGED <<mode, cloud, index, token, poll, timer, unl, history, bounds>>

-----------------------------------------------------------------------------
(* poll_once: a full listing.                                              *)

BeginFull ==
  /\ mode = "full"
  /\ PollStep("idle")
  /\ Proceed(Goto("list"))
  /\ UNCHANGED <<index, token, history>>

\* Phase 1: list_recursive ...
List ==
  /\ PollStep("list")
  /\ Proceed([poll EXCEPT !.pc = "snapshot", !.listing = {Meta(i) : i \in LiveItems}])
  /\ UNCHANGED <<index, token, history>>

\* ... snapshot_remote_index, get_poll_generation ...
Snapshot ==
  /\ PollStep("snapshot")
  /\ Proceed([poll EXCEPT !.pc = "diff", !.snap = {[inode |-> n, row |-> rows[n]] : n \in Live}])
  /\ UNCHANGED <<index, token, history>>

Generation == (IF token.kind = "generation" THEN token.n ELSE 0) + 1
InSnap(p)  == {x \in poll.snap : x.row.path = p}
MapOf(snap) == [p \in Dirs |-> IF \E x \in snap : x.row.path = p
                                THEN (CHOOSE x \in snap : x.row.path = p).inode ELSE 0]

\* ... active_tombstones, and phase 2, the diff.
Considered(m) == m.path \notin ConflictNs /\ ~IsTombstoned(m.path, tombs)
Unchanged(m)  == \E x \in InSnap(m.path) : m.path \in Ignored \/ x.row.etag = m.ver
SkippedItems(S) == {m.item : m \in S} \ {None}

\* Fault variant: ignored entries are skipped altogether.
Diff_IgnoredUnmarked ==
  /\ PollStep("diff")
  /\ LET seen == {m \in poll.listing : Considered(m) /\ m.path \notin Ignored}
     IN Proceed([poll EXCEPT !.pc = "upsert", !.snap = {}, !.map = MapOf(poll.snap),
          !.listing = {m \in @ : ~IsTombstoned(m.path, tombs)},
          !.marks = UNION {{x.inode : x \in InSnap(m.path)} : m \in {m \in seen : Unchanged(m)}},
          !.todo = {m \in seen : ~Unchanged(m)}])
  /\ apart' = apart \cup SkippedItems({m \in poll.listing : ~Considered(m)})
  /\ UNCHANGED <<index, token, mixed>>

Diff ==
  /\ PollStep("diff")
  /\ LET seen == {m \in poll.listing : Considered(m)}
         same == {m \in seen : Unchanged(m)}
     IN Proceed([poll EXCEPT !.pc = "upsert", !.snap = {}, !.map = MapOf(poll.snap),
          !.listing = {m \in @ : ~IsTombstoned(m.path, tombs)},
          !.marks = UNION {{x.inode : x \in InSnap(m.path)} : m \in same},
          !.todo = {m \in seen \ same : m.path \notin Ignored}])
  /\ apart' = apart \cup SkippedItems({m \in poll.listing : ~Considered(m)})
  /\ UNCHANGED <<index, token, mixed>>

\* Phase 3: one upsert, parents first.
First(S) == {m \in S : \A k \in S : k.path # ParentOf[m.path]}

\* Fault variant: the new inode is not taken.
DoUpsert_InodeFree(m, gen, rest) ==
  /\ ~UpsertFails(m, ParentInode(m.path))
  /\ UpsertTarget(m) \in Inodes
  /\ rows' = Upserted(m, ParentInode(m.path), gen)
  /\ Proceed([poll EXCEPT !.map = [p \in Dirs |-> IF p = m.path THEN UpsertTarget(m) ELSE @[p]],
                          !.todo = rest])
  /\ UNCHANGED <<next, history>>

DoUpsert(m, gen, rest) ==
  IF UpsertFails(m, ParentInode(m.path))
  THEN Fail /\ rows' = HalfUpserted(m) /\ UNCHANGED <<next, faults, mixed>>
  ELSE /\ UpsertTarget(m) \in Inodes
       /\ rows' = Upserted(m, ParentInode(m.path), gen)
       /\ next' = IF UpsertTarget(m) = next THEN next + 1 ELSE next
       /\ Proceed([poll EXCEPT !.map = [p \in Dirs |-> IF p = m.path THEN UpsertTarget(m) ELSE @[p]],
                              !.todo = rest])
       /\ mixed' = mixed \cup UNION {Mixed(rows[n].item, m.item) : n \in Live \cap {UpsertTarget(m)}}
       /\ UNCHANGED apart

UpsertOne ==
  /\ PollStep("upsert")
  /\ \E m \in First(poll.todo) : DoUpsert(m, Generation, poll.todo \ {m})
  /\ UNCHANGED token

\* batch_mark_generation.
MarkUnchanged ==
  /\ PollStep("upsert") /\ poll.todo = {}
  /\ rows' = [n \in Inodes |-> IF n \in poll.marks /\ n \in Live
                               THEN [rows[n] EXCEPT !.gen = Generation] ELSE rows[n]]
  /\ Proceed([poll EXCEPT !.pc = "sweep", !.marks = {}])
  /\ UNCHANGED <<next, token, history>>

\* A full poll that follows the loss of a token counts its generation from 1
\* again: a row left by an earlier one is not swept.
Listed(n) == \E m \in poll.listing : m.path = rows[n].path /\ m.item = rows[n].item
Unswept   == {rows[n].item : n \in {n \in Live : ~Listed(n)}} \ {None}

\* Fault variant: nothing is swept.
Sweep_Nothing ==
  /\ PollStep("sweep")
  /\ Proceed(Goto("generation"))
  /\ apart' = apart \cup Unswept
  /\ UNCHANGED <<index, token, mixed>>

\* delete_stale_entries.
Sweep ==
  /\ PollStep("sweep")
  /\ rows' = [n \in Inodes |-> IF n \in Swept(Generation) THEN NoRow ELSE rows[n]]
  /\ IF Swept(Generation) = Stale(Generation)
     THEN Proceed(Goto("generation")) /\ apart' = apart \cup Unswept
     ELSE Fail /\ UNCHANGED faults
  /\ UNCHANGED <<next, token, mixed>>

\* set_poll_generation; then back to the caller.  To keep the numbers small, a
\* third generation is counted as the second, and the second as the first: what
\* is lost is the order of generations before the last.
SetGeneration ==
  /\ PollStep("generation")
  /\ token' = Gen(Smaller(Generation, 2))
  /\ rows' = [n \in Inodes |-> IF Generation = 3 /\ rows[n].gen >= 2
                               THEN [rows[n] EXCEPT !.gen = @ - 1] ELSE rows[n]]
  /\ IF poll.call = "poll" THEN Succeed
     ELSE Proceed([Idle EXCEPT !.pc = "start", !.call = poll.call])
  /\ UNCHANGED <<next, history>>

-----------------------------------------------------------------------------
(* poll_once_delta.                                                        *)

\* get_change_token; without one, a full listing unless there are rows.
BeginDelta ==
  /\ mode = "delta"
  /\ PollStep("idle")
  /\ IF token.kind # "none" THEN Proceed(Goto("fetch")) /\ UNCHANGED apart
     ELSE IF Live = {}
          THEN /\ Proceed([poll EXCEPT !.pc = "list", !.call = "first"])
               /\ UNCHANGED apart
          ELSE /\ Proceed([poll EXCEPT !.pc = "start", !.call = "first"])
               /\ apart' = Items
  /\ UNCHANGED <<index, token, mixed>>

\* get_start_token ...
StartToken ==
  /\ PollStep("start")
  /\ Proceed([poll EXCEPT !.pc = "settoken", !.nxt = clock])
  /\ UNCHANGED <<index, token, history>>

\* ... and set_change_token, which also ends a poll that has applied its changes.
SetToken ==
  /\ PollStep("settoken")
  /\ token' = Token(poll.nxt)
  /\ Succeed
  /\ UNCHANGED <<index, history>>

\* Fault variant: the token of the fetch is stored at once, before its changes
\* are applied.
Fetch_TokenFirst ==
  /\ PollStep("fetch")
  /\ token.kind = "token" /\ token.n >= horizon
  /\ LET S == {i \in Items : remote[i].seq > token.n}
     IN Proceed([poll EXCEPT !.pc = IF S = {} THEN "settoken" ELSE "tombstones",
                   !.todo = {[item |-> i, path |-> remote[i].path, ver |-> remote[i].ver,
                              seq |-> remote[i].seq, gone |-> remote[i].gone] : i \in S},
                   !.nxt = clock])
  /\ token' = Token(clock)
  /\ UNCHANGED <<index, history>>

\* changes_since: the changed items with their last state.
ChangedSince(t) == {i \in Items : remote[i].seq > t}
ChangeOf(i) == [item |-> i, path |-> remote[i].path, ver |-> remote[i].ver,
                seq |-> remote[i].seq, gone |-> remote[i].gone]

Fetch ==
  /\ PollStep("fetch")
  /\ token.kind = "token" /\ token.n >= horizon
  /\ LET S == ChangedSince(token.n)
     IN Proceed([poll EXCEPT !.pc = IF S = {} THEN "settoken" ELSE "tombstones",
                             !.todo = {ChangeOf(i) : i \in S}, !.nxt = clock])
  /\ UNCHANGED <<index, token, history>>

\* SyncError::TokenExpired: clear_change_token and a full listing.  A string the
\* provider never issued may be answered so ...
FetchExpired ==
  /\ PollStep("fetch")
  /\ token.kind = "generation" \/ token.n < horizon
  /\ token' = NoToken
  /\ Proceed([poll EXCEPT !.pc = "list", !.call = "expired"])
  /\ UNCHANGED <<index, history>>

\* ... or with any other error.
FetchRejected ==
  /\ PollStep("fetch")
  /\ token.kind = "generation"
  /\ Fail
  /\ UNCHANGED <<index, token, mixed, faults>>

\* active_tombstones decide which additions to skip ...
DeltaTombstones ==
  /\ PollStep("tombstones")
  /\ LET skip == {c \in poll.todo : ~c.gone /\ (~Considered(c) \/ c.path \in Ignored)}
     IN /\ Proceed([poll EXCEPT !.pc = "dsnapshot", !.todo = @ \ skip])
        /\ apart' = apart \cup SkippedItems(skip)
  /\ UNCHANGED <<index, token, mixed>>

\* ... and snapshot_remote_index gives the parents' inodes.
DeltaSnapshot ==
  /\ PollStep("dsnapshot")
  /\ Proceed([poll EXCEPT !.pc = "apply",
                !.map = MapOf({[inode |-> n, row |-> rows[n]] : n \in Live})])
  /\ UNCHANGED <<index, token, history>>

\* Changes come in the order they were made.
Oldest == {c \in poll.todo : \A d \in poll.todo : c.seq <= d.seq}

\* Added, Modified.
ApplyUpsert ==
  /\ PollStep("apply")
  /\ \E c \in Oldest : ~c.gone /\ DoUpsert(c, 0, poll.todo \ {c})
  /\ UNCHANGED token

\* delete_remote_entry_by_item_id, else delete_remote_entry_by_path.
DeleteTarget(c) ==
  LET byId == {n \in ById(c) : Clean(n)}
  IN IF byId # {} THEN byId ELSE {n \in ByPath(c.path) : Clean(n)}

ApplyDelete ==
  /\ PollStep("apply")
  /\ \E c \in Oldest :
       /\ c.gone
       /\ IF \A n \in DeleteTarget(c) : CanDelete(n)
          THEN /\ rows' = [n \in Inodes |-> IF n \in DeleteTarget(c) THEN NoRow ELSE rows[n]]
               /\ Proceed([poll EXCEPT !.todo = @ \ {c}])
               /\ UNCHANGED apart
          ELSE Fail /\ UNCHANGED <<rows, faults>>
  /\ UNCHANGED <<next, token, mixed>>

Applied ==
  /\ PollStep("apply") /\ poll.todo = {}
  /\ Proceed(Goto("settoken"))
  /\ UNCHANGED <<index, token, history>>

-----------------------------------------------------------------------------
PollNext ==
  \/ BeginFull \/ List \/ Snapshot \/ Diff \/ UpsertOne \/ MarkUnchanged
  \/ Sweep \/ SetGeneration
  \/ BeginDelta \/ StartToken \/ SetToken \/ Fetch \/ FetchExpired \/ FetchRejected
  \/ DeltaTombstones \/ DeltaSnapshot \/ ApplyUpsert \/ ApplyDelete \/ Applied
  \/ PollFault

LocalNext ==
  \/ \E n \in Inodes : Hydrate(n) \/ LocalWrite(n) \/ Upload(n) \/ Unlink(n)
  \/ \E n \in Inodes, i \in Items : UploadNew(n, i)
  \/ \E n \in Inodes, i \in Items, p \in ConflictNs : Conflict(n, i, p)
  \/ UnlinkTombstone \/ UnlinkRemote \/ UnlinkDone

CloudNext ==
  \/ \E i \in Items : RemoteEdit(i) \/ RemoteDelete(i)
  \/ \E i \in Items, p \in Paths :
       RemoteCreate(i, p) \/ RemoteMove(i, p) \/ RemoteMoveDir(i, p)
  \/ ExpireTokens

Next ==
  \/ PollNext
  \/ LocalNext
  \/ CloudNext
  \/ Restart
  \/ \E t \in Paths : TombstoneExpires(t)

Spec == Init /\ [][Next]_vars

\* The loop polls for ever (its sleeps end), the spawned task of an unlink ends,
\* tombstones expire.
Fairness ==
  /\ WF_vars(PollNext)
  /\ WF_vars(UnlinkTombstone \/ UnlinkRemote \/ UnlinkDone)
  /\ \A t \in Paths : WF_vars(TombstoneExpires(t))
FairSpec == Spec /\ Fairness

-----------------------------------------------------------------------------
RowType ==
  [path : Paths \cup {None}, parent : Nat, item : Items \cup {None},
   etag : Nat \cup {None}, status : Statuses \cup {"none"}, gen : Nat]

\* The index, the poller and its environment have their types; no row has an inode
\* that is still to be given out, nor a parent that is.
TypeOK ==
  /\ mode \in Modes
  /\ remote \in [Items -> [path : Paths \cup {None}, ver : Nat, seq : Nat, gone : BOOLEAN]]
  /\ clock \in Nat /\ horizon \in Nat
  /\ rows \in [Inodes -> RowType]
  /\ next \in 1..(MaxInode + 1)
  /\ \A n \in Live : n < next /\ rows[n].parent < next
  /\ token \in [kind : {"none", "generation", "token"}, n : Nat]
  /\ tombs \subseteq Paths
  /\ timer \in [failures : 0..10, interval : Nat]
  /\ unl \in [pc : {"idle", "tomb", "remote", "drop"}, path : Paths \cup {None}]
  /\ apart \subseteq Items /\ mixed \subseteq Items

\* Local changes that are not in the cloud yet survive every step of the poller
\* ("Preserves dirty/uploading entries"), unless another item has been renamed to
\* their path: upsert_remote_file_by_id_or_path drops the row it finds there, also
\* when it then fails.
DirtyRowsKept ==
  [][poll' # poll =>
       \A n \in Live : ~Clean(n) =>
         \/ rows'[n].status = rows[n].status
         \/ \E m \in Live \ {n}, c \in poll.todo :
              /\ rows[m].item = c.item /\ rows[m].path # rows[n].path /\ c.path = rows[n].path
              /\ rows'[m] = rows[m] => poll'.pc \in {"idle", "start"}]_vars

\* A full poll deletes the row of no file that its listing holds, outside the
\* conflict namespace: what the diff leaves out (ignored paths, unchanged files)
\* it has marked.
SweepSpares ==
  [][poll.pc = "sweep" /\ poll' # poll =>
       \A n \in Live : rows'[n] = NoRow =>
         \/ \A m \in poll.listing : m.path # rows[n].path
         \/ rows[n].path \in ConflictNs]_vars

\* run: a first or second failure does not delay the next poll, later ones do,
\* to ten minutes at most, and a success brings the configured interval back.  (An
\* interval of more than ten minutes is cut to ten: failures make it poll more often.)
PollBackoff ==
  /\ timer.failures < 3 => timer.interval = BaseInterval
  /\ timer.interval >= Smaller(BaseInterval, 600)
  /\ timer.interval <= IF timer.failures < 3 THEN BaseInterval ELSE 600

\* Where index and cloud agree: a live item has a row at its path with its ETag
\* (a dirty row keeps its own), and a clean row has a live item.
Skipped == ConflictNs \cup Ignored
HasRow(i) ==
  \E n \in Live : rows[n].path = remote[i].path /\ (rows[n].etag = remote[i].ver \/ ~Clean(n))
HasItem(n) == Taken(rows[n].path)

\* Between delta polls, every item whose last change is not newer than the stored
\* token is in the index as it is in the cloud, under its id: no delta poll skips a
\* change.  Known exceptions: a change between a full listing and the start token
\* that follows it, or hidden by a tombstone; what a moved directory holds, until it
\* changes itself; and an item that came to the path of a row with another item's id
\* (the upsert by path keeps the old one's).
IndexCurrent ==
  mode = "delta" /\ poll.pc = "idle" /\ token.kind = "token" =>
    \A i \in Items \ (apart \cup mixed) :
      remote[i].seq <= token.n /\ remote[i].path \notin Skipped \cup {None} =>
        IF remote[i].gone THEN \A n \in Live : rows[n].item = i => ~Clean(n)
        ELSE \E n \in Live : rows[n].item = i /\ rows[n].path = remote[i].path
                             /\ (rows[n].etag = remote[i].ver \/ ~Clean(n))

Agree ==
  /\ \A i \in LiveItems : HasRow(i) \/ remote[i].path \in Skipped
                           \/ (mode = "delta" /\ i \in apart \cup mixed)
  /\ \A n \in Live : Clean(n) => \/ HasItem(n)
                                 \/ mode = "delta" /\ rows[n].item \in apart \cup mixed \cup {None}

\* A directory that is gone has a row that cannot be deleted.
Wedged ==
  \E n \in Live : /\ rows[n].path \in Dirs
                  /\ \/ ~Taken(rows[n].path)
                     \/ rows[n].item # None /\ remote[rows[n].item].gone

\* An item whose upsert fails, as it did before: each poll ends there.
RowOf(p)   == IF p = None \/ ByPath(p) = {} THEN 0 ELSE CHOOSE n \in ByPath(p) : TRUE
Blocked(i) == /\ ~HasRow(i) /\ remote[i].path \notin Skipped
              /\ UpsertFails(Meta(i), RowOf(ParentOf[remote[i].path]))

\* Once the cloud and the local side are quiet, polling brings the index in line
\* with the cloud and keeps it so, whatever failed before.  Known exceptions: a
\* directory that cannot be deleted, an item whose name is taken in the index, a
\* poll generation where the provider's token should be.
Converges ==
  <>[]\/ Agree
      \/ Wedged
      \/ \E i \in LiveItems : Blocked(i)
      \/ mode = "delta" /\ token.kind = "generation"

=============================================================================
