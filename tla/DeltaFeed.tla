----------------------------- MODULE DeltaFeed ------------------------------
(***************************************************************************)
(* backend/delta.rs: how the Google Drive and OneDrive providers turn a    *)
(* provider's paged change log into the list of changes the poller         *)
(* applies, and the steps of sync/poller.rs around those calls: the listing*)
(* it falls back on and the column it keeps the change token in.  Every    *)
(* HTTP request, token refresh and listing is a step; other clients of the *)
(* account change files between them, the provider revokes access tokens   *)
(* and forgets old change tokens, and requests fail.                       *)
(*                                                                         *)
(* An item is known by its id and lies in a directory; its path is the     *)
(* chain of ids up to the root of the mount.  The provider's log holds, of *)
(* each change, the item and the tree as the change left it: Graph sends   *)
(* the parent's path with an item, Drive only the parent's id.             *)
(***************************************************************************)
EXTENDS Integers, Sequences, FiniteSets

CONSTANTS
  Items, Dirs,    \* ids of files and directories; those of directories
  Home,           \* where each of them is at first
  Root,           \* root_folder_id, or the directory root_path names
  Outside,        \* the rest of the account
  None,
  PageSize,       \* changes per page
  MaxLog, MaxFaults, MaxRevocations, MaxEvents   \* bounds

Providers == {"google", "onedrive"}
Columns   == {"none", "token", "generation"}
Places    == Dirs \cup {Root, Outside}

ASSUME DeltaFeedAssumption ==
  /\ IsFiniteSet(Items) /\ Dirs \subseteq Items
  /\ Home \in [Items -> Places]
  /\ Root \notin Items /\ Outside \notin Items \cup {Root}
  /\ None \notin Items \cup {Root, Outside} \cup Seq(Items)
  /\ PageSize \in Nat \ {0} /\ MaxLog \in Nat
  /\ MaxFaults \in Nat /\ MaxRevocations \in Nat /\ MaxEvents \in Nat

VARIABLES
  provider,   \* ProviderType
  tree, bin,  \* the account: where each item is (None: removed), the trash
  log,        \* the provider's change log
  auth,       \* the access token: honoured by the server, near its expiry
  token,      \* the change up to which the poller's change token reaches
  stored,     \* what the column of change_tokens holds: nothing, that token, or
              \* the generation of a full listing
  honoured,   \* whether the provider still knows the token
  call,       \* the call in progress
  reported,   \* the path reported for each change of the log, or None
  lapsed,     \* the changes the feed has lost, or told of under a later path
  faults, revocations

account == <<tree, bin, log>>
vars    == <<provider, tree, bin, log, auth, token, stored, honoured, call, reported,
             lapsed, faults, revocations>>

\* Where the call stands: the page token (or the end of the log at the time of the
\* listing), retried_auth, id_map.
Idle == [pc |-> "idle", cur |-> 0, retried |-> FALSE, ids |-> [i \in Items |-> None]]
MoreEvents == Len(log) + faults + revocations < MaxEvents

-----------------------------------------------------------------------------
(* Paths.                                                                  *)

\* The chain of parents of an item, following `up` from `at`.  A chain longer
\* than there are items is a cycle, on which the code's limit of 100 gives up.
Chain(up, at) ==
  LET c[n \in 0..Cardinality(Items)] ==
        IF n = 0 THEN at
        ELSE LET b == c[n - 1] IN IF b \in Items THEN up[b] ELSE b
  IN c

\* resolve_path: None if the chain breaks off, or leads out of the mount.
PathFrom(up, i, parent) ==
  LET c == Chain(up, parent)
      D == {n \in DOMAIN c : c[n] = Root}
  IN IF D = {} THEN None
     ELSE LET d == CHOOSE n \in D : \A m \in D : n <= m
          IN [n \in 1..(d + 1) |-> IF n = 1 THEN i ELSE c[n - 2]]

TruePath(t, i) == IF t[i] = None THEN None ELSE PathFrom(t, i, t[i])

-----------------------------------------------------------------------------
(* The account and its change log.                                         *)

Init ==
  /\ provider \in Providers
  /\ tree = Home /\ bin = {} /\ log = <<>>
  /\ auth = [good |-> TRUE, due |-> FALSE]
  /\ token = 0 /\ stored \in {"none", "token"} /\ honoured = TRUE
  /\ call = Idle
  /\ reported = <<>> /\ lapsed = {}
  /\ faults = 0 /\ revocations = 0

Entry(i, what, t) == [id |-> i, what |-> what, tree |-> t]

LogChange(e) ==
  /\ Len(log) < MaxLog /\ MoreEvents
  /\ log' = Append(log, e)
  /\ reported' = Append(reported, None)
  /\ UNCHANGED <<provider, auth, token, stored, honoured, call, lapsed, faults,
                 revocations>>

There == {i \in Items : tree[i] # None /\ i \notin bin}
Below(t, i) == {j \in Items : i \in {Chain(t, j)[n] : n \in 0..Cardinality(Items)}}

\* An item is written, or moved (`to` is another place).
Change(i, to) ==
  /\ i \in There
  /\ to \in (Dirs \cap There) \cup {Root, Outside} /\ to \notin Below(tree, i)
  /\ tree' = [tree EXCEPT ![i] = to]
  /\ LogChange(Entry(i, "live", tree'))
  /\ UNCHANGED bin

\* An empty directory or a file goes to the trash ...
Trash(i) ==
  /\ i \in There /\ \A j \in There : tree[j] # i
  /\ bin' = bin \cup {i}
  /\ LogChange(Entry(i, "trashed", tree))
  /\ UNCHANGED tree

\* ... or is removed for good, of which OneDrive also says where it was.
Erase(i) ==
  /\ tree[i] # None /\ \A j \in Items : tree[j] # i
  /\ tree' = [tree EXCEPT ![i] = None]
  /\ LogChange(Entry(i, IF provider = "google" THEN "removed" ELSE "trashed", tree))
  /\ UNCHANGED bin

\* A change of which the provider says too little: no file metadata (Drive), no
\* name or a parent path of an unknown shape (Graph).
Odd(i) ==
  /\ i \in There
  /\ LogChange(Entry(i, "odd", tree))
  /\ UNCHANGED <<tree, bin>>

\* The provider honours no change token that was issued before now.
Forget ==
  /\ revocations < MaxRevocations /\ MoreEvents
  /\ revocations' = revocations + 1
  /\ honoured' = FALSE
  /\ UNCHANGED <<provider, account, auth, token, stored, call, reported, lapsed,
                 faults>>

-----------------------------------------------------------------------------
(* Access tokens.                                                          *)

\* The access token comes near its expiry, or is refused before that.
Age(good) ==
  /\ revocations < MaxRevocations /\ MoreEvents
  /\ auth.good /\ ~auth.due
  /\ revocations' = revocations + 1
  /\ auth' = [good |-> good, due |-> good]
  /\ UNCHANGED <<provider, account, token, stored, honoured, call, reported, lapsed,
                 faults>>

Quiet == UNCHANGED <<faults, revocations>>
Fault == faults < MaxFaults /\ MoreEvents /\ faults' = faults + 1 /\ UNCHANGED revocations

\* get_fresh_oauth_token: rclone about, then rclone config show.
Refresh == auth' = [good |-> TRUE, due |-> FALSE]

\* An error ends the poll, and the column keeps what it holds; after TokenExpired
\* the poller clears it and makes a full listing.
Abort(error) ==
  /\ IF error = "TokenExpired"
     THEN call' = [Idle EXCEPT !.pc = "relist"] /\ stored' = "none"
     ELSE call' = Idle /\ stored' = stored
  /\ UNCHANGED <<provider, account, token, honoured, reported, lapsed>>

Continue(c) ==
  /\ call' = c
  /\ UNCHANGED <<provider, account, token, stored, honoured, reported, lapsed>>

\* ensure_valid_token.
EnsureValidToken(c) ==
  \/ ~auth.due /\ Continue(c) /\ UNCHANGED auth /\ Quiet
  \/ auth.due /\ Refresh /\ Continue(c) /\ Quiet
  \/ auth.due /\ Fault /\ Abort("Transient") /\ UNCHANGED auth

\* Fault variant: a refused access token is not refreshed.
Unauthorized_NoRetry ==
  /\ ~auth.good
  /\ Abort("PermissionDenied") /\ UNCHANGED auth /\ Quiet

\* 401: force_refresh_token once in a call, then give up.
Unauthorized ==
  /\ ~auth.good
  /\ \/ ~call.retried /\ Refresh /\ Continue([call EXCEPT !.retried = TRUE]) /\ Quiet
     \/ ~call.retried /\ Fault /\ Abort("Transient") /\ UNCHANGED auth
     \/ call.retried /\ Abort("PermissionDenied") /\ UNCHANGED auth /\ Quiet

\* map_http_error of Drive, which refuses a client in a hurry with a 403 ...
GoogleError(status, body) ==
  CASE body = "rateLimitExceeded"             -> "Transient"
    [] status = 410                           -> "TokenExpired"
    [] status \in {401, 403}                  -> "PermissionDenied"
    [] status = 429 \/ status \in 500..599    -> "Transient"
    [] OTHER                                  -> "Fatal"

\* ... and of OneDrive, which has two ways to say that a token is invalid.
OneDriveError(status, body) ==
  CASE status = 410                                   -> "TokenExpired"
    [] status = 404 /\ body = "resyncRequired"        -> "TokenExpired"
    [] status \in {401, 403}                          -> "PermissionDenied"
    [] status = 429 \/ status \in 500..599            -> "Transient"
    [] OTHER                                          -> "Fatal"

MapHttpError(status, body) ==
  IF provider = "google" THEN GoogleError(status, body) ELSE OneDriveError(status, body)

\* How the provider answers a change token it no longer knows ...
Unknown == IF provider = "google" THEN {<<410, "">>}
           ELSE {<<410, "">>, <<404, "resyncRequired">>}
\* ... and what else goes wrong with a request.
Trouble == {<<403, "rateLimitExceeded">>, <<429, "">>, <<503, "">>, <<400, "">>}

-----------------------------------------------------------------------------
(* The full listing, and start_token.                                      *)

\* A poll without a token lists everything first, unless the index has entries.
BeginFirst ==
  /\ call.pc = "idle" /\ stored = "none"
  /\ \/ Continue([Idle EXCEPT !.pc = "list"])
     \/ Continue([Idle EXCEPT !.pc = "begin", !.cur = token])
  /\ Quiet /\ UNCHANGED auth

\* What a listing tells of a change: where the item is now, or that it is gone.
Listed(p) ==
  LET i == log[p].id
  IN TruePath(IF tree[i] = None THEN log[p].tree ELSE tree, i)

\* poll_once tells of everything so far.  It stores its generation in the column of
\* the token.
Listing ==
  /\ call.pc \in {"list", "relist"}
  /\ call' = [Idle EXCEPT !.pc = "begin", !.cur = Len(log)]
  /\ stored' = "generation"
  /\ reported' = [p \in 1..Len(log) |-> IF reported[p] = None THEN Listed(p) ELSE reported[p]]
  /\ lapsed' = lapsed \cup {p \in 1..Len(log) :
                   reported[p] = None /\ Listed(p) # TruePath(log[p].tree, log[p].id)}
  /\ Quiet /\ UNCHANGED <<provider, account, auth, token, honoured>>

\* A first listing that fails is done without; another one ends the poll.
ListingFails ==
  /\ \/ call.pc = "list" /\ Continue([Idle EXCEPT !.pc = "begin", !.cur = token])
     \/ call.pc = "relist" /\ Abort("Transient")
  /\ Fault /\ UNCHANGED auth

BeginStart ==
  /\ call.pc = "begin"
  /\ EnsureValidToken([call EXCEPT !.pc = "start"])

StartRefused == call.pc = "start" /\ Unauthorized

StartFails ==
  /\ call.pc = "start" /\ auth.good
  /\ \E r \in Trouble : Abort(MapHttpError(r[1], r[2]))
  /\ Fault /\ UNCHANGED auth

\* Fault variant: the token is that of the next change.
Start_OffByOne ==
  /\ call.pc = "start" /\ auth.good
  /\ token' = Len(log) + 1 /\ stored' = "token" /\ honoured' = TRUE
  /\ call' = Idle
  /\ lapsed' = lapsed \cup ((call.cur + 1)..Len(log))
  /\ Quiet /\ UNCHANGED <<provider, account, auth, reported>>

\* What was changed since the listing is neither in it nor after the token.
Start ==
  /\ call.pc = "start" /\ auth.good
  /\ token' = Len(log) /\ stored' = "token" /\ honoured' = TRUE
  /\ call' = Idle
  /\ lapsed' = lapsed \cup ((call.cur + 1)..Len(log))
  /\ Quiet /\ UNCHANGED <<provider, account, auth, reported>>

-----------------------------------------------------------------------------
(* changes_since.                                                          *)

\* Whatever the column holds is sent as the page token.
BeginChanges ==
  /\ call.pc = "idle" /\ stored # "none"
  /\ EnsureValidToken([Idle EXCEPT !.pc = "page", !.cur = token])

ChangesRefused == call.pc = "page" /\ Unauthorized

ChangesFail ==
  /\ call.pc = "page" /\ auth.good
  /\ \E r \in Trouble : Abort(MapHttpError(r[1], r[2]))
  /\ Fault /\ UNCHANGED auth

\* The provider does not know the token, or takes a generation for such a one ...
ChangesExpired ==
  /\ call.pc = "page" /\ auth.good /\ (~honoured \/ stored = "generation")
  /\ \E r \in Unknown : Abort(MapHttpError(r[1], r[2]))
  /\ Quiet /\ UNCHANGED auth

\* ... or for none at all: then the next poll will send it again.
ChangesRejected ==
  /\ call.pc = "page" /\ auth.good /\ stored = "generation"
  /\ Abort(MapHttpError(400, ""))
  /\ Quiet /\ UNCHANGED auth

HasFile(e) == e.what \in {"live", "trashed"}

PageEnd == IF call.cur + PageSize < Len(log) THEN call.cur + PageSize ELSE Len(log)
OnPage  == (call.cur + 1)..PageEnd

\* A page's files go into id_map, the last change of a file last.
Gathered ==
  [i \in Items |->
     LET P == {p \in OnPage : log[p].id = i /\ HasFile(log[p])}
     IN IF P = {} THEN call.ids[i]
        ELSE log[CHOOSE p \in P : \A q \in P : q <= p].tree[i]]

\* raw_changes: the changes collected so far, by position in the log.
Raw == (token + 1)..call.cur

Page ==
  /\ call.pc = "page" /\ auth.good /\ honoured /\ stored = "token"
  /\ LET more == PageEnd < Len(log)
     IN Continue([call EXCEPT !.ids = Gathered,
                              !.cur = PageEnd,
                              !.pc = IF more THEN "page"
                                     ELSE IF provider = "google" THEN "parents"
                                     ELSE "convert"])
  /\ Quiet /\ UNCHANGED auth

\* Phase 2: the parents of changed files that are neither the root nor among the
\* changed files themselves are asked for.  No answer is of use: it holds no id,
\* which get_file_metadata requires, so each lookup fails and id_map stays.
Parent(p)  == log[p].tree[log[p].id]
Strange(p) == /\ HasFile(log[p]) /\ Parent(p) # Root
              /\ \A q \in Raw : HasFile(log[q]) => log[q].id # Parent(p)

Parents ==
  /\ call.pc = "parents"
  /\ call' = [call EXCEPT !.pc = "convert"]
  /\ lapsed' = lapsed \cup {p \in Raw : Strange(p)}
  /\ Quiet /\ UNCHANGED <<provider, account, auth, token, stored, honoured, reported>>

\* Phase 3 of Drive: a removed file is known by its id alone.
GooglePath(e) ==
  LET i == e.id
  IN IF e.what = "odd" THEN None
     ELSE IF e.what = "removed"
          THEN IF call.ids[i] = None THEN None ELSE PathFrom(call.ids, i, call.ids[i])
     ELSE PathFrom(call.ids, i, e.tree[i])

\* The parent's path starts with the drive's root, in one of its two spellings.
strip_onedrive_root_prefix(e) == e.what # "odd"

\* resolve_item_path of OneDrive.
OneDrivePath(e) == IF strip_onedrive_root_prefix(e) THEN TruePath(e.tree, e.id) ELSE None

Resolve(e) == IF provider = "google" THEN GooglePath(e) ELSE OneDrivePath(e)

\* Fault variant: the new token is asked for at the end of the call.
Return_Latest ==
  /\ call.pc = "convert"
  /\ reported' = [p \in 1..Len(log) |-> IF p \in Raw THEN Resolve(log[p]) ELSE reported[p]]
  /\ token' = Len(log)
  /\ call' = Idle
  /\ Quiet /\ UNCHANGED <<provider, account, auth, stored, honoured, lapsed>>

\* Fault variant: the token the call was made with is returned.
Return_OldToken ==
  /\ call.pc = "convert"
  /\ reported' = [p \in 1..Len(log) |-> IF p \in Raw THEN Resolve(log[p]) ELSE reported[p]]
  /\ token' = token
  /\ call' = Idle
  /\ Quiet /\ UNCHANGED <<provider, account, auth, stored, honoured, lapsed>>

\* What the call returns, and the poller's storing of the token.
Return ==
  /\ call.pc = "convert"
  /\ reported' = [p \in 1..Len(log) |-> IF p \in Raw THEN Resolve(log[p]) ELSE reported[p]]
  /\ token' = call.cur
  /\ call' = Idle
  /\ Quiet /\ UNCHANGED <<provider, account, auth, stored, honoured, lapsed>>

Client ==
  \/ BeginFirst \/ Listing \/ BeginStart \/ StartRefused \/ Start
  \/ BeginChanges \/ ChangesRefused \/ ChangesExpired \/ ChangesRejected \/ Page
  \/ Parents \/ Return

Next ==
  \/ \E i \in Items, to \in Places : Change(i, to)
  \/ \E i \in Items : Trash(i) \/ Erase(i) \/ Odd(i)
  \/ Forget \/ \E good \in BOOLEAN : Age(good)
  \/ Client \/ ListingFails \/ StartFails \/ ChangesFail

Spec == Init /\ [][Next]_vars
FairSpec == Spec /\ WF_vars(Client)

-----------------------------------------------------------------------------
(* Properties.                                                             *)

\* The call's locals and the account's state have their types.
TypeOK ==
  /\ provider \in Providers
  /\ tree \in [Items -> Places \cup {None}] /\ bin \subseteq Items
  /\ log \in Seq([id : Items, what : {"live", "trashed", "removed", "odd"},
                  tree : [Items -> Places \cup {None}]])
  /\ auth \in [good : BOOLEAN, due : BOOLEAN]
  /\ token \in 0..Len(log) /\ stored \in Columns /\ honoured \in BOOLEAN
  /\ call.pc \in {"idle", "list", "relist", "begin", "start", "page", "parents", "convert"}
  /\ call.cur \in 0..Len(log) /\ call.retried \in BOOLEAN
  /\ call.ids \in [Items -> Places \cup {None}]
  /\ DOMAIN reported = 1..Len(log) /\ lapsed \subseteq 1..Len(log)

\* A change that moves nothing later on.
Settled(p) ==
  LET i == log[p].id
      here == TruePath(log[p].tree, i)
  IN /\ TruePath(tree, i) = here
     /\ \A q \in p..Len(log) : TruePath(log[q].tree, i) = here

\* Drive's provider sees the item's directory if that is in the root and among the
\* changes of the same call.
Near(p) ==
  LET t == log[p].tree
      d == t[log[p].id]
  IN d = Root \/ (d \in Items /\ t[d] = Root)

\* The changes below the mount's root of which the poller must hear.  The lapsed
\* ones are those the code loses: changed between a listing and the start token (or
\* while there was no token and no listing), or in a directory Drive does not name.
Promised(p) ==
  /\ log[p].what # "odd" /\ TruePath(log[p].tree, log[p].id) # None /\ p \notin lapsed
  /\ provider = "google" => log[p].what # "removed" /\ Near(p) /\ Settled(p)

\* Whatever pages fail, tokens are refused or files move in the meantime, every
\* promised change up to the stored token was reported, and under the item's path.
FeedComplete ==
  \A p \in 1..token : Promised(p) => reported[p] = TruePath(log[p].tree, log[p].id)

\* The provider's requests implement the feed the poller takes it for: a call that
\* is cut off after some pages has told nothing and moved nothing.
Feed == INSTANCE ChangeFeed WITH
          length <- Len(log),
          told   <- {p \in 1..Len(log) : reported[p] # None},
          silent <- {p \in 1..Len(log) : ~Promised(p)}
ImplementsFeed == Feed!Spec

\* Once the account rests, the poller's token reaches the end of the log (refused
\* access tokens are refreshed and forgotten change tokens replaced), unless the
\* request for a start token failed after a listing: the generation left in the
\* column is then sent as a token for as long as the provider refuses it.
CatchesUp == <>[](stored = "generation" \/ (stored = "token" /\ token = Len(log)))

=============================================================================
