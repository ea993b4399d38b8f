------------------------------ MODULE Conflicts ------------------------------
(***************************************************************************)
(* The conflicts command (keep-local, keep-remote, merge, cleanup), a      *)
(* process of its own that works on the database, the cache directory and  *)
(* the remote of a mount while the daemon writes, uploads, polls and makes *)
(* conflict copies.                                                        *)
(*                                                                         *)
(* The name of a file is the sequence of its dot-separated components, so  *)
(* that finding the file of a copy, and the copy of a file, is what the    *)
(* code does with names.  The content of a file is the set of edits in it, *)
(* and its ETag is that content.  An upload of the daemon (with keep-both),*)
(* a poll and a hydration are one step each: modules FileSync, Poller and  *)
(* Hydration take them apart.                                              *)
(***************************************************************************)
EXTENDS Naturals, Sequences, FiniteSets, SequencesExt

CONSTANTS
  Files,      \* names of the files of a directory
  Edits,      \* edits, each made once
  Stamps,     \* the "{ts}.{hash}" of conflict names, oldest first
  None,
  MaxFaults,  \* bound: remote calls that fail
  MaxRuns     \* bound: commands started

VARIABLES
  row,      \* file_index: status and ETag of each file
  cache,    \* cache file of each file
  remote,   \* remote file of each file
  copies,   \* remote file of each conflict copy
  listed,   \* rows of the conflict copies
  cli,      \* the running command
  made,     \* history: the edits made
  excused,  \* history: edits whose loss is explained
  stamp,    \* the stamps used so far
  faults, runs

vars == <<row, cache, remote, copies, listed, cli, made, excused, stamp, faults, runs>>

ASSUME ConflictsAssumption ==
  /\ \A f \in Files : Len(f) >= 1
  /\ Stamps \in Seq(Range(Stamps))
  /\ \A S \in SUBSET Edits : S # None
  /\ None \notin Files /\ None \notin Files \X DOMAIN Stamps
  /\ {MaxFaults, MaxRuns} \subseteq Nat
-----------------------------------------------------------------------------
(* Names.                                                                  *)

Stem(name) == IF Len(name) > 1 THEN Front(name) ELSE name
Ext(name)  == IF Len(name) > 1 THEN <<Last(name)>> ELSE << >>

\* A copy is the file it was made of and the position of its stamp; the order
\* of the stamps is the order of the rows' mtimes.
Sids == Files \X (DOMAIN Stamps)

\* make_conflict_name: {stem}.conflict.{ts}.{hash}.{ext}.
Name(s) == Stem(s[1]) \o <<"conflict", Stamps[s[2]]>> \o Ext(s[1])

Newest(S) == CHOOSE s \in S : \A t \in S : t[2] <= s[2]

\* The canonical name that find_conflict_sibling rebuilds from a copy's name:
\* what precedes ".conflict.", with the last component unless it ends so.
CanonicalName(name) ==
  LET at   == CHOOSE k \in DOMAIN name : name[k] = "conflict"
      stem == SubSeq(name, 1, at - 1)
  IN  IF Len(stem) > 1 /\ Last(stem) = Last(name) THEN stem ELSE Append(stem, Last(name))

HasRow(f) == row[f].status # "none"

\* find_conflict_sibling of a copy: the row of that name, if there is one.
FindCanonical(s) ==
  LET name == CanonicalName(Name(s))
  IN  IF name \in Files /\ HasRow(name) THEN name ELSE None

\* find_conflict_sibling of a file: LIKE '{stem}.conflict.%', the newest.
Siblings(f) == {s \in listed : IsPrefix(Append(Stem(f), "conflict"), Name(s))}
FindSibling(f) == IF Siblings(f) = {} THEN None ELSE Newest(Siblings(f))

\* resolve_path and normalize_conflict_roles, for the path of a file ...
ResolveFile(f) == <<f, FindSibling(f)>>
\* ... and for the path of a conflict copy.
ResolveCopy(s) == <<FindCanonical(s), s>>
-----------------------------------------------------------------------------
EditsOf(c) == IF c = None THEN {} ELSE c
Row(status, etag) == [status |-> status, etag |-> etag]
NoRow == Row("none", None)

IdleCli == [pc |-> "idle", cmd |-> "none", file |-> None, sib |-> None,
            got |-> None, todo |-> {}, since |-> {}, gone |-> FALSE]

Init ==
  /\ row = [f \in Files |-> Row("cached", {})]
  /\ cache = [f \in Files |-> {}]
  /\ remote = [f \in Files |-> {}]
  /\ copies = [s \in Sids |-> None]
  /\ listed = {}
  /\ cli = IdleCli
  /\ made = {} /\ excused = {}
  /\ stamp = 0 /\ faults = 0 /\ runs = 0

\* What is written, here or by another client, while a command runs.
Meanwhile(S) == cli' = IF cli.pc = "idle" THEN cli ELSE [cli EXCEPT !.since = @ \cup S]

Make(e) ==
  /\ e \notin made
  /\ made' = made \cup {e}
  /\ Meanwhile({e})

Excuse(S) == excused' = excused \cup S
-----------------------------------------------------------------------------
(* The daemon, the applications and the other clients.                     *)

\* An application writes a hydrated file.
Write(f, e) ==
  /\ Make(e)
  /\ cache[f] # None /\ row[f].status \in {"cached", "dirty"}
  /\ cache' = [cache EXCEPT ![f] = @ \cup {e}]
  /\ row' = [row EXCEPT ![f].status = "dirty"]
  /\ UNCHANGED <<stamp, remote, copies, listed, excused, faults, runs>>

Matches(f) == remote[f] \in {None, row[f].etag}

\* The upload of a dirty file whose remote is as the row says.
Upload(f) ==
  /\ row[f].status = "dirty" /\ cache[f] # None /\ Matches(f)
  /\ remote' = [remote EXCEPT ![f] = cache[f]]
  /\ row' = [row EXCEPT ![f] = Row("cached", cache[f])]
  /\ UNCHANGED <<stamp, cache, copies, listed, cli, made, excused, faults, runs>>

\* resolve, when the two sides turn out to be equal.
UploadEqual(f) ==
  /\ row[f].status = "dirty" /\ ~Matches(f) /\ remote[f] = cache[f]
  /\ row' = [row EXCEPT ![f] = Row("cached", remote[f])]
  /\ UNCHANGED <<stamp, cache, remote, copies, listed, cli, made, excused, faults, runs>>

\* resolve, keep-both: the local version goes to a conflict copy and the remote
\* version into the cache file.  The row of the copy has no poll generation.
KeepBoth(f) ==
  /\ row[f].status = "dirty" /\ cache[f] # None /\ ~Matches(f) /\ remote[f] # cache[f]
  /\ stamp < Len(Stamps) /\ stamp' = stamp + 1
  /\ copies' = [copies EXCEPT ![<<f, stamp'>>] = cache[f]]
  /\ listed' = listed \cup {<<f, stamp'>>}
  /\ cache' = [cache EXCEPT ![f] = remote[f]]
  /\ row' = [row EXCEPT ![f] = Row("cached", remote[f])]
  /\ UNCHANGED <<remote, cli, made, excused, faults, runs>>

\* do_hydrate of a file that open found remote or stale; the ETag stays.
Hydrate(f) ==
  /\ row[f].status \in {"remote", "stale"} /\ remote[f] # None
  /\ cache' = [cache EXCEPT ![f] = remote[f]]
  /\ row' = [row EXCEPT ![f].status = "cached"]
  /\ UNCHANGED <<stamp, remote, copies, listed, cli, made, excused, faults, runs>>

\* upsert_remote_file of the poll: a dirty row stays dirty, and takes the ETag.
Polled(f) ==
  IF remote[f] = None THEN IF row[f].status = "dirty" THEN row[f] ELSE NoRow
  ELSE IF ~HasRow(f) THEN Row("remote", remote[f])
  ELSE IF row[f].etag = remote[f] THEN row[f]
  ELSE Row(IF row[f].status = "dirty" THEN "dirty" ELSE "stale", remote[f])

\* A full poll.  It skips the conflict copies in the listing and then sweeps the
\* rows it has not marked, those of the conflict copies too.
Poll ==
  /\ row' = [f \in Files |-> Polled(f)]
  /\ LET swept == {f \in Files : HasRow(f) /\ row'[f] = NoRow}
     IN  /\ cache' = [f \in Files |-> IF f \in swept THEN None ELSE cache[f]]
         /\ cli' = [cli EXCEPT !.gone = @ \/ cli.file \in swept]
  /\ listed' = {}
  /\ Excuse(UNION {EditsOf(remote[f]) \ EditsOf(cache[f]) :
                     f \in {g \in Files : row[g].status = "dirty"
                                            /\ row'[g].etag # row[g].etag}})
  /\ <<row, listed>>' # <<row, listed>>
  /\ UNCHANGED <<stamp, remote, copies, made, faults, runs>>

\* Another client edits the file or puts one at its path ...
RemoteEdit(f, e) ==
  /\ Make(e)
  /\ remote' = [remote EXCEPT ![f] = EditsOf(@) \cup {e}]
  /\ UNCHANGED <<stamp, row, cache, copies, listed, excused, faults, runs>>

\* ... or puts a conflict copy in its place ...
RemoteRestore(s) ==
  /\ copies[s] # None /\ remote[s[1]] # copies[s]
  /\ remote' = [remote EXCEPT ![s[1]] = copies[s]]
  /\ Excuse(EditsOf(remote[s[1]]) \ copies[s])
  /\ Meanwhile(copies[s])
  /\ UNCHANGED <<stamp, row, cache, copies, listed, made, faults, runs>>

\* ... or deletes it, with the edits in it.
RemoteDelete(f) ==
  /\ remote[f] # None
  /\ remote' = [remote EXCEPT ![f] = None]
  /\ Excuse(remote[f])
  /\ UNCHANGED <<stamp, row, cache, copies, listed, cli, made, faults, runs>>
-----------------------------------------------------------------------------
(* The commands that resolve the conflict of one file.                     *)

Start(cmd, pc, ctx) ==
  /\ cli.pc = "idle" /\ runs < MaxRuns /\ runs' = runs + 1
  /\ ctx[1] # None /\ HasRow(ctx[1])
  /\ cli' = [IdleCli EXCEPT !.pc = pc, !.cmd = cmd, !.file = ctx[1], !.sib = ctx[2]]
  /\ UNCHANGED <<stamp, row, cache, remote, copies, listed, made, excused, faults>>

\* A path that leads to the file and its conflict copy.
Paths == {ResolveFile(f) : f \in Files} \cup {ResolveCopy(s) : s \in listed}

keep_local  == \E ctx \in Paths : Start("keep_local", "upload", ctx) /\ cache[ctx[1]] # None
keep_remote == \E ctx \in Paths : Start("keep_remote", "download", ctx)
merge       == \E ctx \in Paths : Start("merge", "fetch", ctx) /\ cache[ctx[1]] # None

At(pc) == cli.pc = pc
Go(pc) == cli' = [cli EXCEPT !.pc = pc]

\* The command bails out, with what it has done so far.
Bail == cli' = IdleCli /\ UNCHANGED <<stamp, row, cache, remote, copies, listed, made, excused, runs>>
Fault == faults < MaxFaults /\ faults' = faults + 1

\* The documented loss of a command: keep-local overwrites the remote version,
\* merge only what another client wrote meanwhile.
Overwritten(f) ==
  LET lost == EditsOf(remote[f]) \ cache[f]
  IN  IF cli.cmd = "keep_local" THEN lost ELSE lost \cap cli.since

\* finalize_resolution starts with the copy, if resolve_path found one.
AfterTransfer == IF cli.sib = None THEN "stat" ELSE "rmcopy"

\* backend.upload with no ETag: whatever is at the path is replaced.
CliUpload ==
  /\ At("upload") /\ cache[cli.file] # None
  /\ remote' = [remote EXCEPT ![cli.file] = cache[cli.file]]
  /\ Excuse(Overwritten(cli.file))
  /\ Go(AfterTransfer)
  /\ UNCHANGED <<stamp, row, cache, copies, listed, made, faults, runs>>

\* backend.download onto the cache file: the local version is replaced.
CliDownload ==
  /\ At("download") /\ remote[cli.file] # None
  /\ cache' = [cache EXCEPT ![cli.file] = remote[cli.file]]
  /\ Excuse(EditsOf(cache[cli.file]) \ remote[cli.file])
  /\ Go(AfterTransfer)
  /\ UNCHANGED <<stamp, row, remote, copies, listed, made, faults, runs>>

\* merge: the remote version goes to a temporary file ...
MergeFetch ==
  /\ At("fetch") /\ remote[cli.file] # None
  /\ cli' = [cli EXCEPT !.pc = "merge", !.got = remote[cli.file]]
  /\ UNCHANGED <<stamp, row, cache, remote, copies, listed, made, excused, faults, runs>>

\* ... and try_three_way_merge reads the cache file: a clean result holds the
\* edits of both sides, and so does one with conflict markers.
TryMerge ==
  /\ At("merge") /\ cache[cli.file] # None
  /\ \E pc \in {"clean", "markers"} :
       cli' = [cli EXCEPT !.pc = pc, !.got = @ \cup cache[cli.file]]
  /\ UNCHANGED <<stamp, row, cache, remote, copies, listed, made, excused, faults, runs>>

\* The result replaces the cache file, with what was written to it meanwhile; the
\* row is not marked, which matters if an upload of the daemon made it clean.
MergeWrite(pc) ==
  /\ cache' = [cache EXCEPT ![cli.file] = cli.got]
  /\ Excuse(((EditsOf(cache[cli.file]) \ cli.got) \cap cli.since)
              \cup (IF row[cli.file].status = "dirty" THEN {}
                    ELSE cli.got \ EditsOf(remote[cli.file])))
  /\ cli' = IF pc = "idle" THEN IdleCli ELSE [cli EXCEPT !.pc = pc, !.got = None]
  /\ UNCHANGED <<stamp, row, remote, copies, listed, made, faults, runs>>

MergeClean == At("clean") /\ MergeWrite("upload")

\* A merge that leaves markers goes on to record the row as clean.
MergeMarkers_Finalized == At("markers") /\ MergeWrite(AfterTransfer)

\* Conflict markers are left to the user, who edits the file and runs keep-local.
MergeMarkers == At("markers") /\ MergeWrite("idle")

\* finalize_resolution deletes the copy; one that is gone is fine.
RemoveCopy ==
  /\ At("rmcopy")
  /\ copies' = [copies EXCEPT ![cli.sib] = None]
  /\ Excuse(EditsOf(copies[cli.sib]))
  /\ Go("rmrow")
  /\ UNCHANGED <<stamp, row, cache, remote, listed, made, faults, runs>>

RemoveRow ==
  /\ At("rmrow")
  /\ listed' = listed \ {cli.sib}
  /\ Go("stat")
  /\ UNCHANGED <<stamp, row, cache, remote, copies, made, excused, faults, runs>>

\* The file that is stat'ed at the end need not be there.
FinalStat_Lenient ==
  /\ At("stat")
  /\ cli' = [cli EXCEPT !.pc = "set", !.got = remote[cli.file]]
  /\ UNCHANGED <<stamp, row, cache, remote, copies, listed, made, excused, faults, runs>>

FinalStat ==
  /\ At("stat") /\ remote[cli.file] # None
  /\ cli' = [cli EXCEPT !.pc = "set", !.got = remote[cli.file]]
  /\ UNCHANGED <<stamp, row, cache, remote, copies, listed, made, excused, faults, runs>>

\* set_cached of the inode found at the start, whatever its status: an edit made on
\* either side since the command began is hidden by it.
SetCached ==
  LET f == cli.file
  IN  /\ At("set")
      /\ row' = IF cli.gone THEN row ELSE [row EXCEPT ![f] = Row("cached", cli.got)]
      /\ Excuse(IF cli.gone THEN {}
                ELSE cli.since \cap ((EditsOf(cache[f]) \ EditsOf(cli.got))
                                       \cup (EditsOf(cli.got) \ EditsOf(cache[f]))))
      /\ cli' = IdleCli
      /\ UNCHANGED <<stamp, cache, remote, copies, listed, made, faults, runs>>

\* The cache file or the remote file is missing, or git merge-file fails.
Missing ==
  /\ \/ At("upload") /\ cache[cli.file] = None
     \/ At("download") /\ remote[cli.file] = None
     \/ At("fetch") /\ remote[cli.file] = None
     \/ At("merge")
     \/ At("stat") /\ remote[cli.file] = None
  /\ Bail /\ UNCHANGED faults

\* A call to the remote or to the database fails.
CliFails ==
  /\ cli.pc \in {"upload", "download", "fetch", "rmcopy", "rmrow", "stat", "set"}
  /\ Fault /\ Bail
-----------------------------------------------------------------------------
(* cleanup: every copy that is listed, the newest first.                   *)

Collect ==
  /\ cli.pc = "idle" /\ runs < MaxRuns /\ runs' = runs + 1
  /\ listed # {}
  /\ cli' = [IdleCli EXCEPT !.pc = "next", !.cmd = "cleanup", !.todo = listed]
  /\ UNCHANGED <<stamp, row, cache, remote, copies, listed, made, excused, faults>>

Cleanup(pc, s, f, got) ==
  cli' = [cli EXCEPT !.pc = pc, !.sib = s, !.file = f, !.got = got,
                     !.todo = @ \ {s}]

\* The next copy, or the end; a copy whose file is not in the database is skipped.
CleanupNext ==
  /\ At("next")
  /\ IF cli.todo = {} THEN cli' = IdleCli
     ELSE LET s == Newest(cli.todo)
              f == FindCanonical(s)
          IN  Cleanup(IF f = None THEN "next" ELSE "eq", s, f, None)
  /\ UNCHANGED <<stamp, row, cache, remote, copies, listed, made, excused, faults, runs>>

\* stat_remote_eq: the canonical file, then the copy, by their ETags ...
StatCanonical ==
  /\ At("eq") /\ remote[cli.file] # None
  /\ cli' = [cli EXCEPT !.pc = "eqcopy", !.got = remote[cli.file]]
  /\ UNCHANGED <<stamp, row, cache, remote, copies, listed, made, excused, faults, runs>>

StatCopy ==
  /\ At("eqcopy") /\ copies[cli.sib] # None
  /\ Go(IF cli.got = copies[cli.sib] THEN "drop" ELSE "next")
  /\ UNCHANGED <<stamp, row, cache, remote, copies, listed, made, excused, faults, runs>>

\* ... and where there is no ETag, by their sizes and bytes: the cache file of
\* the canonical if there is one, the remote file otherwise.
StatUnknown ==
  /\ At("eqcopy") /\ copies[cli.sib] # None
  /\ Go("bytes")
  /\ UNCHANGED <<stamp, row, cache, remote, copies, listed, made, excused, faults, runs>>

Canonical == IF cache[cli.file] # None THEN cache[cli.file] ELSE remote[cli.file]

\* A comparison that goes by the sizes of the two files.
CompareBytes_Sizes ==
  /\ At("bytes") /\ Canonical # None /\ copies[cli.sib] # None
  /\ Go(IF Cardinality(Canonical) = Cardinality(copies[cli.sib]) THEN "drop" ELSE "next")
  /\ UNCHANGED <<stamp, row, cache, remote, copies, listed, made, excused, faults, runs>>

CompareBytes ==
  /\ At("bytes") /\ Canonical # None /\ copies[cli.sib] # None
  /\ Go(IF Canonical = copies[cli.sib] THEN "drop" ELSE "next")
  /\ UNCHANGED <<stamp, row, cache, remote, copies, listed, made, excused, faults, runs>>

CompareFails ==
  /\ At("bytes") /\ (Canonical = None \/ copies[cli.sib] = None)
  /\ Go("next")
  /\ UNCHANGED <<stamp, row, cache, remote, copies, listed, made, excused, faults, runs>>

\* A "not found" from either stat is taken for a copy that is gone: its row goes.
DropOrphan ==
  /\ \/ At("eq") /\ remote[cli.file] = None
     \/ At("eqcopy") /\ copies[cli.sib] = None
  /\ listed' = listed \ {cli.sib}
  /\ Go("next")
  /\ UNCHANGED <<stamp, row, cache, remote, copies, made, excused, faults, runs>>

\* An equal copy is deleted from the remote, then from the database.
DropCopy ==
  /\ At("drop")
  /\ copies' = [copies EXCEPT ![cli.sib] = None]
  /\ Go("droprow")
  /\ UNCHANGED <<stamp, row, cache, remote, listed, made, excused, faults, runs>>

DropRow ==
  /\ At("droprow")
  /\ listed' = listed \ {cli.sib}
  /\ Go("next")
  /\ UNCHANGED <<stamp, row, cache, remote, copies, made, excused, faults, runs>>

\* A call fails: the copy is skipped.
CleanupSkips ==
  /\ cli.pc \in {"eq", "eqcopy", "bytes", "drop", "droprow"}
  /\ Fault /\ Go("next")
  /\ UNCHANGED <<stamp, row, cache, remote, copies, listed, made, excused, runs>>
-----------------------------------------------------------------------------
Daemon(f) == Upload(f) \/ UploadEqual(f) \/ KeepBoth(f) \/ Hydrate(f)

Finalize == RemoveCopy \/ RemoveRow \/ FinalStat \/ SetCached

Resolution ==
  \/ keep_local \/ keep_remote \/ merge
  \/ CliUpload \/ CliDownload \/ MergeFetch \/ TryMerge \/ MergeClean \/ MergeMarkers
  \/ Finalize \/ Missing \/ CliFails

CleanupStep ==
  \/ Collect \/ CleanupNext \/ StatCanonical \/ StatCopy \/ StatUnknown
  \/ CompareBytes \/ CompareFails \/ DropOrphan \/ DropCopy \/ DropRow \/ CleanupSkips

Next ==
  \/ \E f \in Files, e \in Edits : Write(f, e) \/ RemoteEdit(f, e)
  \/ \E f \in Files : Daemon(f) \/ RemoteDelete(f)
  \/ \E s \in Sids : RemoteRestore(s)
  \/ Poll
  \/ Resolution
  \/ CleanupStep

Spec == Init /\ [][Next]_vars
-----------------------------------------------------------------------------
Contents == SUBSET Edits
OptContents == Contents \cup {None}

\* A row that says cached or dirty has a cache file, a row has an ETag, and the
\* command's locals are of this directory.
TypeOK ==
  /\ row \in [Files -> [status : {"none", "remote", "cached", "stale", "dirty"},
                        etag : OptContents]]
  /\ \A f \in Files : HasRow(f) => row[f].etag # None
  /\ cache \in [Files -> OptContents] /\ remote \in [Files -> OptContents]
  /\ \A f \in Files : row[f].status \in {"cached", "dirty"} => cache[f] # None
  /\ copies \in [Sids -> OptContents] /\ listed \subseteq Sids
  /\ cli.file \in Files \cup {None} /\ cli.sib \in Sids \cup {None}
  /\ cli.got \in OptContents /\ cli.todo \subseteq Sids /\ cli.since \subseteq made
  /\ cli.gone \in BOOLEAN
  /\ made \subseteq Edits /\ excused \subseteq made
  /\ stamp \in 0..Len(Stamps) /\ \A s \in listed : s[2] <= stamp
  /\ faults \in 0..MaxFaults /\ runs \in 0..MaxRuns

Held(S) == UNION {EditsOf(S[x]) : x \in DOMAIN S}

\* No edit disappears through the commands, whatever the daemon and the other
\* clients do in between: keep-local gives up the remote version, keep-remote the
\* cached one, both and merge the conflict copy they found, and a command hides
\* what was written while it ran; cleanup ("Genuinely-differing conflicts are left
\* alone") and the daemon's keep-both lose nothing.
NothingLost == made \ excused \subseteq Held(remote) \cup Held(cache) \cup Held(copies)

\* A command never marks a row clean over an edit that is in its cache file only,
\* unless the edit was made while the command ran.
DirtyKept ==
  \A f \in Files :
    EditsOf(cache[f]) \ (excused \cup Held(remote) \cup Held(copies)) # {}
      => row[f].status = "dirty"

-----------------------------------------------------------------------------
(* What the documents say.                                                 *)

\* "keep-local ... # keep your version" (docs/usage.md): the version that the
\* conflict saved as "your local version" is still somewhere when the command
\* deletes its copy.
KeepsYourVersion ==
  [][\A s \in Sids :
       cli.cmd = "keep_local" /\ copies[s] # None /\ copies'[s] = None =>
         copies[s] \subseteq Held(remote) \cup Held(cache)]_vars
=============================================================================
