-------------------------- MODULE DeltaFeed_proofs --------------------------
(***************************************************************************)
(* Proofs about DeltaFeed: the types, that every promised change up to the *)
(* stored token was reported under its path, and that the requests of both *)
(* providers implement the feed the poller takes them for.                 *)
(*                                                                         *)
(* OneDrive sends the path with an item, so the argument is about Drive:   *)
(* what a call knows of the parent of a changed file from the pages it has *)
(* read is where that parent is, as long as neither of the two has moved.  *)
(* And a start token follows a listing that has told of every change up to *)
(* where the log ended, or none: then the changes since are lost.          *)
(***************************************************************************)
EXTENDS DeltaFeed, WellFoundedInduction, FiniteSetTheorems, TLAPS
-----------------------------------------------------------------------------
(* Sets of positions.                                                      *)

LEMMA SmallestNat ==
  ASSUME NEW T \in SUBSET Nat, T # {} PROVE \E m \in T : \A n \in T : m <= n
<1>1. IsWellFoundedOn(OpToRel(<, Nat), Nat)
  BY NatLessThanWellFounded
<1>2. PICK m \in T : \A n \in T : ~(<<n, m>> \in OpToRel(<, Nat))
  BY <1>1, WFMin, Zenon
<1>3. \A n \in T : ~(<<n, m>> \in {ss \in Nat \X Nat : ss[1] < ss[2]})
  BY <1>2, Zenon DEF OpToRel
<1>4. \A n \in T : ~(n < m)
  BY <1>3
<1> QED
  BY <1>4

LEMMA LargestBelow ==
  ASSUME NEW b \in Nat, NEW T \in SUBSET (0 .. b), T # {}
  PROVE  \E m \in T : \A n \in T : n <= m
<1> DEFINE U == {u \in 0 .. b : \A n \in T : n <= u}
<1>1. U \in SUBSET Nat /\ b \in U
  OBVIOUS
<1>2. PICK m \in U : \A j \in U : m <= j
  <2> HIDE DEF U
  <2> QED
    BY <1>1, SmallestNat
<1>3. m \in T
  <2> SUFFICES ASSUME m \notin T PROVE FALSE
    OBVIOUS
  <2>1. \A n \in T : n <= m - 1 /\ n >= 0
    BY <1>2
  <2>2. PICK n \in T : TRUE
    OBVIOUS
  <2>3. m - 1 \in 0 .. b
    BY <1>2, <2>1, <2>2
  <2>4. m - 1 \in U
    BY <2>1, <2>3
  <2> QED
    BY <1>2, <2>4
<1> QED
  BY <1>2, <1>3

-----------------------------------------------------------------------------
(* Paths.                                                                  *)

N == Cardinality(Items)

LEMMA ItemsFinite == N \in Nat /\ \A i \in Items : N >= 1
<1>1. IsFiniteSet(Items)
  BY DeltaFeedAssumption
<1>2. N \in Nat
  BY <1>1, FS_CardinalityType DEF N
<1>3. N = 0 => Items = {}
  BY <1>1, FS_EmptySet DEF N
<1> QED
  BY <1>2, <1>3

\* The chain of parents, n steps up: there is one.
IsChain(c, up, at, n) ==
  c = [k \in 0 .. n |-> IF k = 0 THEN at
                        ELSE IF c[k - 1] \in Items THEN up[c[k - 1]] ELSE c[k - 1]]

LEMMA ChainExists ==
  ASSUME NEW up, NEW at, NEW n \in Nat PROVE \E c : IsChain(c, up, at, n)
<1> DEFINE Up(b) == IF b \in Items THEN up[b] ELSE b
           Is(c, m) == c = [k \in 0 .. m |-> IF k = 0 THEN at ELSE Up(c[k - 1])]
           T == {m \in Nat : ~\E c : Is(c, m)}
<1>0. \A c, m : Is(c, m) <=> IsChain(c, up, at, m)
  BY DEF IsChain
<1>1. SUFFICES ASSUME n \in T PROVE FALSE
  <2> HIDE DEF Is
  <2> QED
    BY <1>0
<1>2. PICK m \in T : \A j \in T : m <= j
  <2>1. T \in SUBSET Nat /\ T # {}
    BY <1>1
  <2> HIDE DEF T
  <2> QED
    BY <2>1, SmallestNat
<1>3. m \in Nat /\ ~\E c : Is(c, m)
  BY <1>2
<1>4. CASE m = 0
  <2> DEFINE d == [k \in 0 .. 0 |-> at]
  <2>1. Is(d, 0)
    OBVIOUS
  <2> HIDE DEF d, Is
  <2> QED
    BY <1>3, <1>4, <2>1
<1>5. CASE m # 0
  <2>1. m - 1 \in Nat /\ m - 1 \notin T
    BY <1>2, <1>3, <1>5
  <2>2. PICK c : Is(c, m - 1)
    <3> HIDE DEF Is
    <3> QED
      BY <2>1 DEF T
  <2> DEFINE d == [k \in 0 .. m |-> IF k < m THEN c[k] ELSE Up(c[m - 1])]
  <2>3. \A k \in 0 .. m - 1 : c[k] = IF k = 0 THEN at ELSE Up(c[k - 1])
    <3> HIDE DEF Up
    <3> QED
      BY <2>2
  <2>4. ASSUME NEW k \in 0 .. m PROVE d[k] = IF k = 0 THEN at ELSE Up(d[k - 1])
    <3> HIDE DEF Up
    <3>1. CASE k < m
      <4>1. k \in 0 .. m - 1 /\ d[k] = c[k]
        BY <1>3, <3>1
      <4>2. k # 0 => d[k - 1] = c[k - 1]
        BY <1>3, <3>1
      <4> QED
        BY <2>3, <4>1, <4>2
    <3>2. CASE k = m
      <4>1. d[k] = Up(c[m - 1]) /\ d[k - 1] = c[m - 1]
        BY <1>3, <1>5, <3>2
      <4> QED
        BY <1>5, <3>2, <4>1
    <3> QED
      BY <1>3, <3>1, <3>2
  <2>5. Is(d, m)
    <3> HIDE DEF Up
    <3>1. d = [k \in 0 .. m |-> d[k]]
      OBVIOUS
    <3> HIDE DEF d
    <3> QED
      BY <2>4, <3>1
  <2> HIDE DEF d, Is
  <2> QED
    BY <1>3, <2>5
<1> QED
  BY <1>4, <1>5

LEMMA ChainStarts ==
  ASSUME NEW up, NEW at
  PROVE  /\ DOMAIN Chain(up, at) = 0 .. N
         /\ Chain(up, at)[0] = at
         /\ at \in Items => Chain(up, at)[1] = up[at]
<1> DEFINE d == CHOOSE c : IsChain(c, up, at, N)
<1>0. N \in Nat /\ (at \in Items => N >= 1)
  BY ItemsFinite
<1>1. Chain(up, at) = d
  BY DEF Chain, N, IsChain
<1>2. \E c : IsChain(c, up, at, N)
  BY <1>0, ChainExists
<1>3. IsChain(d, up, at, N)
  BY <1>2
<1> HIDE DEF d
<1>4. DOMAIN d = 0 .. N /\ d[0] = at
  BY <1>0, <1>3 DEF IsChain
<1>5. at \in Items => d[1] = up[at]
  BY <1>0, <1>3, <1>4 DEF IsChain
<1> QED
  BY <1>1, <1>4, <1>5

\* The path of an item in the root, or in a directory of the root.
LEMMA PathInRoot == ASSUME NEW up, NEW i PROVE PathFrom(up, i, Root) = <<i>>
<1> DEFINE c == Chain(up, Root)
           D == {n \in DOMAIN c : c[n] = Root}
           d == CHOOSE n \in D : \A m \in D : n <= m
<1>1. DOMAIN c = 0 .. N /\ c[0] = Root /\ N \in Nat
  BY ChainStarts, ItemsFinite
<1>2. 0 \in D /\ \A m \in D : m \in Nat
  BY <1>1
<1>3. d = 0
  <2> HIDE DEF D
  <2> QED
    BY <1>2
<1>4. PathFrom(up, i, Root) = [n \in 1 .. (d + 1) |-> IF n = 1 THEN i ELSE c[n - 2]]
  BY <1>2 DEF PathFrom
<1> HIDE DEF d, c
<1> QED
  BY <1>3, <1>4

LEMMA PathNearRoot ==
  ASSUME NEW up, NEW i, NEW p \in Items, up[p] = Root PROVE PathFrom(up, i, p) = <<i, p>>
<1> DEFINE c == Chain(up, p)
           D == {n \in DOMAIN c : c[n] = Root}
           d == CHOOSE n \in D : \A m \in D : n <= m
<1>1. DOMAIN c = 0 .. N /\ c[0] = p /\ c[1] = Root /\ N \in Nat /\ N >= 1
  BY ChainStarts, ItemsFinite
<1>2. 1 \in D /\ \A m \in D : m \in Nat /\ m # 0
  BY <1>1, DeltaFeedAssumption
<1>3. d = 1
  <2> HIDE DEF D
  <2> QED
    BY <1>2
<1>4. PathFrom(up, i, p) = [n \in 1 .. (d + 1) |-> IF n = 1 THEN i ELSE c[n - 2]]
  BY <1>2 DEF PathFrom
<1> HIDE DEF d, c
<1>5. PathFrom(up, i, p) = [n \in 1 .. 2 |-> IF n = 1 THEN i ELSE c[n - 2]]
  BY <1>3, <1>4
<1> QED
  BY <1>1, <1>5

\* A path of length one or two shows where the item and its parent are.
LEMMA PathShows ==
  ASSUME NEW up, NEW i \in Items, NEW p
  PROVE  /\ PathFrom(up, i, p) = <<i>> => p = Root
         /\ \A q \in Items : PathFrom(up, i, p) = <<i, q>> => p = q /\ up[q] = Root
<1> DEFINE c == Chain(up, p)
           D == {n \in DOMAIN c : c[n] = Root}
           d == CHOOSE n \in D : \A m \in D : n <= m
<1>1. /\ DOMAIN c = 0 .. N /\ c[0] = p /\ N \in Nat
      /\ p \in Items => c[1] = up[p]
  BY ChainStarts, ItemsFinite
<1>2. CASE D = {}
  <2>1. PathFrom(up, i, p) = None
    BY <1>2 DEF PathFrom
  <2>2. None # <<i>> /\ \A q \in Items : None # <<i, q>>
    <3>1. <<i>> \in Seq(Items) /\ \A q \in Items : <<i, q>> \in Seq(Items)
      OBVIOUS
    <3> QED
      BY <3>1, DeltaFeedAssumption
  <2> QED
    BY <2>1, <2>2
<1>3. CASE D # {}
  <2>1. PathFrom(up, i, p) = [n \in 1 .. (d + 1) |-> IF n = 1 THEN i ELSE c[n - 2]]
    BY <1>3 DEF PathFrom
  <2>2. D \in SUBSET Nat
    BY <1>1
  <2>3. d \in D
    <3>1. PICK m \in D : \A n \in D : m <= n
      <4> HIDE DEF D
      <4> QED
        BY <1>3, <2>2, SmallestNat
    <3> HIDE DEF D
    <3> QED
      BY <3>1
  <2>4. d \in Nat /\ c[d] = Root
    BY <2>2, <2>3
  <2> HIDE DEF d, c, D
  <2> DEFINE w == [n \in 1 .. (d + 1) |-> IF n = 1 THEN i ELSE c[n - 2]]
  <2>5. DOMAIN w = 1 .. (d + 1) /\ (d >= 1 => w[2] = c[0])
    BY <2>4
  <2>6. ASSUME w = <<i>> PROVE p = Root
    <3>1. DOMAIN w = 1 .. 1
      BY <2>6
    <3>2. d = 0
      BY <2>4, <2>5, <3>1
    <3> QED
      BY <1>1, <2>4, <3>2
  <2>7. ASSUME NEW q \in Items, w = <<i, q>> PROVE p = q /\ up[q] = Root
    <3>1. DOMAIN w = 1 .. 2 /\ w[2] = q
      BY <2>7
    <3>2. d = 1
      <4>1. 2 \in 1 .. (d + 1) /\ 3 \notin 1 .. (d + 1)
        BY <2>5, <3>1
      <4> QED
        BY <2>4, <4>1
    <3>3. p = q
      BY <1>1, <2>5, <3>1, <3>2
    <3> QED
      BY <1>1, <2>4, <3>2, <3>3
  <2> QED
    BY <2>1, <2>6, <2>7
<1> QED
  BY <1>2, <1>3
-----------------------------------------------------------------------------
(* Types.                                                                  *)

OptPlaces == Places \cup {None}
LogType   == [id : Items, what : {"live", "trashed", "removed", "odd"},
              tree : [Items -> OptPlaces]]
Pcs       == {"idle", "list", "relist", "begin", "start", "page", "parents", "convert"}
CallType  == [pc : Pcs, cur : Nat, retried : BOOLEAN, ids : [Items -> OptPlaces]]

AccountOK ==
  /\ provider \in Providers
  /\ tree \in [Items -> OptPlaces] /\ bin \in SUBSET Items
  /\ log \in Seq(LogType)

CallOK ==
  /\ call \in CallType
  /\ call.cur \in 0 .. Len(log)
  /\ token \in 0 .. Len(log) /\ lapsed \in SUBSET (1 .. Len(log))
  /\ DOMAIN reported = 1 .. Len(log)

FlagsOK == auth \in [good : BOOLEAN, due : BOOLEAN] /\ stored \in Columns /\ honoured \in BOOLEAN

TypeInv == AccountOK /\ CallOK /\ FlagsOK

LEMMA PlacesFacts ==
  /\ None \notin Places /\ None \notin Items /\ Root \in Places /\ Root \notin Items
  /\ Home \in [Items -> Places] /\ Dirs \subseteq Items
BY DeltaFeedAssumption DEF Places

LEMMA IdleType == Idle \in CallType /\ Idle.pc = "idle" /\ Idle.cur = 0
                  /\ \A i \in Items : Idle.ids[i] = None
<1>1. [i \in Items |-> None] \in [Items -> OptPlaces]
  BY DEF OptPlaces
<1> QED
  BY <1>1 DEF Idle, CallType, Pcs

LEMMA TypeInvInit == Init => TypeInv
<1> SUFFICES ASSUME Init PROVE TypeInv
  OBVIOUS
<1>1. log = <<>> /\ reported = <<>> /\ token = 0 /\ lapsed = {} /\ call = Idle
  BY DEF Init
<1>2. AccountOK
  <2>1. Home \in [Items -> OptPlaces]
    BY PlacesFacts DEF OptPlaces
  <2> QED
    BY <1>1, <2>1 DEF Init, AccountOK
<1>3. CallOK
  BY <1>1, IdleType DEF CallOK
<1>4. FlagsOK
  BY DEF Init, FlagsOK, Columns
<1> QED
  BY <1>2, <1>3, <1>4 DEF TypeInv
-----------------------------------------------------------------------------
(* The steps: one of the account's, which appends to the log, or one of the*)
(* client's, which leaves the account alone.                               *)

\* What an entry of the log says of the change it records.
Logged(e) ==
  /\ log' = Append(log, e) /\ reported' = Append(reported, None)
  /\ UNCHANGED <<provider, auth, token, stored, honoured, call, lapsed, faults, revocations>>
  /\ tree' \in [Items -> OptPlaces] /\ bin' \in SUBSET Items
  /\ \A j \in Items :
       /\ tree'[j] \in {e.tree[j], None}
       /\ tree[j] = None => tree'[j] = None
       /\ e.tree[j] # tree[j] => j = e.id /\ HasFile(e)
       /\ tree'[j] # tree[j] /\ tree'[j] # None => j = e.id /\ HasFile(e)
  /\ HasFile(e) => e.tree[e.id] # None

LEMMA ChangeLogs ==
  ASSUME TypeInv, NEW i \in Items, NEW to \in Places, Change(i, to)
  PROVE  \E e \in LogType : Logged(e)
<1> DEFINE e == Entry(i, "live", tree')
<1>0. tree \in [Items -> OptPlaces] /\ bin \in SUBSET Items
  BY DEF TypeInv, AccountOK
<1>1. tree' = [tree EXCEPT ![i] = to] /\ bin' = bin /\ tree[i] # None /\ to # None
  BY PlacesFacts DEF Change, There
<1>2. tree' \in [Items -> OptPlaces]
  BY <1>0, <1>1 DEF OptPlaces
<1>3. e \in LogType /\ e.tree = tree' /\ e.id = i /\ HasFile(e)
  BY <1>2 DEF Entry, LogType, HasFile
<1>4. LogChange(e)
  BY DEF Change
<1> HIDE DEF e
<1>5. \A j \in Items : /\ tree'[j] \in {e.tree[j], None}
                       /\ tree[j] = None => tree'[j] = None
                       /\ e.tree[j] # tree[j] => j = e.id /\ HasFile(e)
                       /\ tree'[j] # tree[j] /\ tree'[j] # None => j = e.id /\ HasFile(e)
  BY <1>0, <1>1, <1>3
<1>6. e.tree[e.id] # None
  BY <1>0, <1>1, <1>3
<1> QED
  BY <1>0, <1>1, <1>2, <1>3, <1>4, <1>5, <1>6 DEF Logged, LogChange

LEMMA OthersLog ==
  ASSUME TypeInv, NEW i \in Items, Trash(i) \/ Erase(i) \/ Odd(i)
  PROVE  \E e \in LogType : Logged(e)
<1>0. tree \in [Items -> OptPlaces] /\ bin \in SUBSET Items
  BY DEF TypeInv, AccountOK
<1>1. PICK w \in {"trashed", "removed", "odd"} :
        LogChange(Entry(i, w, tree)) /\ (w = "trashed" => tree[i] # None)
  BY DEF Trash, Erase, Odd, There
<1> DEFINE e == Entry(i, w, tree)
<1>2. e \in LogType /\ e.tree = tree /\ e.id = i /\ e.what = w
  BY <1>0 DEF Entry, LogType
<1>3. tree' = tree \/ tree' = [tree EXCEPT ![i] = None]
  BY DEF Trash, Erase, Odd
<1>4. tree' \in [Items -> OptPlaces]
  BY <1>0, <1>3 DEF OptPlaces
<1>5. bin' \in SUBSET Items
  BY <1>0 DEF Trash, Erase, Odd
<1>6. LogChange(e)
  BY <1>1
<1> HIDE DEF e
<1>7. \A j \in Items : /\ tree'[j] \in {e.tree[j], None}
                       /\ tree[j] = None => tree'[j] = None
                       /\ e.tree[j] # tree[j] => j = e.id /\ HasFile(e)
                       /\ tree'[j] # tree[j] /\ tree'[j] # None => j = e.id /\ HasFile(e)
  BY <1>0, <1>2, <1>3
<1>8. HasFile(e) => e.tree[e.id] # None
  BY <1>1, <1>2 DEF HasFile
<1> QED
  BY <1>2, <1>4, <1>5, <1>6, <1>7, <1>8 DEF Logged, LogChange

\* The steps of a call that do not concern its changes.
Untold  == UNCHANGED <<token, lapsed, reported>>
ToIdle  == call' = Idle /\ Untold
To(pc)  == call' = [Idle EXCEPT !.pc = pc] /\ Untold
ToBegin == call' = [Idle EXCEPT !.pc = "begin", !.cur = token] /\ Untold
ToStart == call.pc = "begin" /\ call' = [call EXCEPT !.pc = "start"] /\ Untold
ToPage  == call' = [Idle EXCEPT !.pc = "page", !.cur = token] /\ Untold
Again   == call.pc \in {"start", "page"} /\ call' = [call EXCEPT !.retried = TRUE] /\ Untold

ClientStep ==
  /\ UNCHANGED <<provider, tree, bin, log>>
  /\ \/ UNCHANGED <<call, stored>> /\ Untold
     \/ ToIdle \/ To("list") \/ To("relist") \/ ToBegin \/ ToStart \/ ToPage \/ Again
     \/ Listing \/ Start \/ Page \/ Parents \/ Return

LEMMA NextCases ==
  ASSUME TypeInv, [Next]_vars PROVE (\E e \in LogType : Logged(e)) \/ ClientStep
<1>1. ASSUME NEW i \in Items, NEW to \in Places, Change(i, to) PROVE \E e \in LogType : Logged(e)
  BY <1>1, ChangeLogs
<1>2. ASSUME NEW i \in Items, Trash(i) \/ Erase(i) \/ Odd(i) PROVE \E e \in LogType : Logged(e)
  BY <1>2, OthersLog
<1>3. ASSUME Forget \/ \E good \in BOOLEAN : Age(good) PROVE ClientStep
  BY <1>3 DEF Forget, Age, ClientStep, Untold, account
<1>4. ASSUME NEW x, Abort(x) PROVE ClientStep
  BY <1>4 DEF Abort, ClientStep, ToIdle, To, Untold, account
<1>5. CASE BeginFirst \/ BeginStart \/ ListingFails
  BY <1>4, <1>5 DEF BeginFirst, BeginStart, ListingFails, EnsureValidToken, Continue, ClientStep,
                    To, ToBegin, ToStart, Untold, account
<1>6. CASE BeginChanges
  BY <1>4, <1>6 DEF BeginChanges, EnsureValidToken, Continue, ClientStep, ToPage, Untold, account
<1>7. CASE StartRefused \/ ChangesRefused
  BY <1>4, <1>7 DEF StartRefused, ChangesRefused, Unauthorized, Continue, ClientStep, Again,
                    Untold, account
<1>8. CASE StartFails \/ ChangesFail \/ ChangesExpired \/ ChangesRejected
  BY <1>4, <1>8 DEF StartFails, ChangesFail, ChangesExpired, ChangesRejected
<1>9. CASE Listing \/ Start \/ Parents \/ Return
  BY <1>9 DEF Listing, Start, Parents, Return, ClientStep, account
<1>10. CASE Page
  BY <1>10 DEF Page, Continue, ClientStep, account
<1>11. CASE UNCHANGED vars
  BY <1>11 DEF vars, ClientStep, Untold
<1> QED
  BY <1>1, <1>2, <1>3, <1>5, <1>6, <1>7, <1>8, <1>9, <1>10, <1>11 DEF Next, Client

LEMMA LogFacts ==
  ASSUME TypeInv, NEW e \in LogType, Logged(e)
  PROVE  /\ Len(log) \in Nat /\ Len(log') = Len(log) + 1 /\ log' \in Seq(LogType)
         /\ \A p \in 1 .. Len(log) : log'[p] = log[p] /\ log[p] \in LogType
         /\ log'[Len(log) + 1] = e
BY DEF TypeInv, AccountOK, Logged

LEMMA PageFacts ==
  ASSUME TypeInv
  PROVE  /\ Len(log) \in Nat /\ call.cur \in Nat /\ token \in Nat
         /\ call.cur <= Len(log) /\ token <= Len(log)
         /\ PageEnd \in Nat /\ call.cur <= PageEnd /\ PageEnd <= Len(log)
         /\ OnPage \in SUBSET (1 .. Len(log)) /\ Raw \in SUBSET (1 .. Len(log))
         /\ \A p \in 1 .. Len(log) : log[p] \in LogType
<1>1. Len(log) \in Nat /\ call.cur \in 0 .. Len(log) /\ token \in 0 .. Len(log)
      /\ \A p \in 1 .. Len(log) : log[p] \in LogType
  BY DEF TypeInv, AccountOK, CallOK
<1>2. PageEnd \in Nat /\ call.cur <= PageEnd /\ PageEnd <= Len(log)
  BY <1>1, DeltaFeedAssumption DEF PageEnd
<1> QED
  BY <1>1, <1>2 DEF OnPage, Raw

\* The last of a set of positions on a page.
LEMMA LastOf ==
  ASSUME NEW b \in Nat, NEW P \in SUBSET (1 .. b), P # {}
  PROVE  LET p == CHOOSE p \in P : \A q \in P : q <= p IN p \in P /\ \A q \in P : q <= p
<1>1. \E p \in P : \A q \in P : q <= p
  <2>1. P \in SUBSET (0 .. b)
    OBVIOUS
  <2> QED
    BY <2>1, LargestBelow
<1> QED
  BY <1>1

LEMMA GatheredType == ASSUME TypeInv PROVE Gathered \in [Items -> OptPlaces]
<1>1. ASSUME NEW i \in Items PROVE Gathered[i] \in OptPlaces
  <2> DEFINE P == {p \in OnPage : log[p].id = i /\ HasFile(log[p])}
             q == CHOOSE p \in P : \A r \in P : r <= p
  <2>1. Gathered[i] = IF P = {} THEN call.ids[i] ELSE log[q].tree[i]
    BY DEF Gathered
  <2>2. P # {} => q \in P
    <3>1. P \in SUBSET (1 .. Len(log)) /\ Len(log) \in Nat
      BY PageFacts
    <3> HIDE DEF P
    <3> QED
      BY <3>1, LastOf
  <2>3. q \in P => log[q].tree[i] \in OptPlaces
    <3>1. \A p \in P : log[p] \in LogType
      BY PageFacts
    <3> HIDE DEF q, P
    <3> QED
      BY <3>1 DEF LogType
  <2>4. call.ids[i] \in OptPlaces
    BY DEF TypeInv, CallOK, CallType
  <2> QED
    BY <2>1, <2>2, <2>3, <2>4
<1> QED
  BY <1>1 DEF Gathered

LEMMA PageMoves ==
  ASSUME TypeInv, Page
  PROVE  /\ call' = [pc |-> IF PageEnd < Len(log) THEN "page"
                            ELSE IF provider = "google" THEN "parents" ELSE "convert",
                     cur |-> PageEnd, retried |-> call.retried, ids |-> Gathered]
         /\ UNCHANGED <<provider, tree, bin, log, token, lapsed, reported>> /\ call.pc = "page"
<1>1. call \in CallType
  BY DEF TypeInv, CallOK
<1> DEFINE pc == IF PageEnd < Len(log) THEN "page"
                 ELSE IF provider = "google" THEN "parents" ELSE "convert"
<1>2. call' = [call EXCEPT !.ids = Gathered, !.cur = PageEnd, !.pc = pc]
  BY DEF Page, Continue
<1> HIDE DEF pc
<1>3. call' = [pc |-> pc, cur |-> PageEnd, retried |-> call.retried, ids |-> Gathered]
  BY <1>1, <1>2 DEF CallType
<1> QED
  BY <1>3 DEF pc, Page, Continue, account

LEMMA ParentsMoves ==
  ASSUME TypeInv, Parents
  PROVE  /\ call' = [pc |-> "convert", cur |-> call.cur, retried |-> call.retried,
                     ids |-> call.ids]
         /\ call.pc = "parents" /\ lapsed' = lapsed \cup {p \in Raw : Strange(p)}
         /\ UNCHANGED <<provider, tree, bin, log, token, reported>>
<1>1. call \in CallType
  BY DEF TypeInv, CallOK
<1> QED
  BY <1>1 DEF CallType, Parents, account

\* The steps up to the start token.
LEMMA BeginMoves ==
  ASSUME TypeInv
  PROVE  /\ To("list") => call' \in CallType /\ call'.pc = "list" /\ call'.cur = 0
         /\ To("relist") => call' \in CallType /\ call'.pc = "relist" /\ call'.cur = 0
         /\ ToBegin => call' \in CallType /\ call'.pc = "begin" /\ call'.cur = token
         /\ ToStart => call' \in CallType /\ call'.pc = "start" /\ call'.cur = call.cur
         /\ ToPage => call' \in CallType /\ call'.pc = "page" /\ call'.cur = token
         /\ Listing => call' \in CallType /\ call'.pc = "begin" /\ call'.cur = Len(log)
         /\ Again => /\ call' \in CallType /\ call'.pc = call.pc /\ call'.cur = call.cur
                     /\ call'.ids = call.ids
<1>1. Idle \in CallType /\ Idle.cur = 0 /\ call \in CallType /\ token \in Nat /\ Len(log) \in Nat
  BY IdleType DEF TypeInv, CallOK, AccountOK
<1>3. {"list", "relist", "begin", "start", "page"} \subseteq Pcs
  BY DEF Pcs
<1>4. /\ To("list") => call' \in CallType /\ call'.pc = "list" /\ call'.cur = 0
      /\ To("relist") => call' \in CallType /\ call'.pc = "relist" /\ call'.cur = 0
  BY <1>1, <1>3 DEF To, CallType
<1>7. /\ ToBegin => call' \in CallType /\ call'.pc = "begin" /\ call'.cur = token
      /\ ToPage => call' \in CallType /\ call'.pc = "page" /\ call'.cur = token
  BY <1>1, <1>3 DEF ToBegin, ToPage, CallType
<1>8. Listing => call' \in CallType /\ call'.pc = "begin" /\ call'.cur = Len(log)
  BY <1>1, <1>3 DEF Listing, CallType
<1>5. ToStart => call' \in CallType /\ call'.pc = "start" /\ call'.cur = call.cur
  BY <1>1, <1>3 DEF ToStart, CallType
<1>6. Again => /\ call' \in CallType /\ call'.pc = call.pc /\ call'.cur = call.cur
               /\ call'.ids = call.ids
  BY <1>1 DEF Again, CallType
<1> QED
  BY <1>4, <1>5, <1>6, <1>7, <1>8

LEMMA CallOKStep == ASSUME TypeInv, [Next]_vars PROVE CallOK'
<1>0. call \in CallType /\ CallOK /\ Len(log) \in Nat
  BY DEF TypeInv, CallOK, AccountOK
<1>1. ASSUME NEW e \in LogType, Logged(e) PROVE CallOK'
  <2>1. Len(log') = Len(log) + 1
    BY <1>1, LogFacts
  <2>2. call' = call /\ token' = token /\ lapsed' = lapsed /\ reported' = Append(reported, None)
    BY <1>1 DEF Logged
  <2>3. DOMAIN reported' = 1 .. (Len(log) + 1)
    BY <1>0, <2>2 DEF CallOK
  <2> QED
    BY <1>0, <2>1, <2>2, <2>3 DEF CallOK
<1>2. ASSUME UNCHANGED log, Untold, call' \in CallType, call'.cur \in 0 .. Len(log)
      PROVE  CallOK'
  BY <1>0, <1>2 DEF CallOK, Untold
<1>3. CASE UNCHANGED log /\ (ToIdle \/ To("list") \/ To("relist") \/ ToBegin \/ ToStart \/ ToPage
                            \/ Again)
  <2>1. call' \in CallType /\ call'.cur \in 0 .. Len(log)
    BY <1>0, <1>3, IdleType, BeginMoves DEF ToIdle, CallOK
  <2> QED
    BY <1>2, <1>3, <2>1 DEF ToIdle, To, ToBegin, ToStart, ToPage, Again
<1>4. CASE Listing
  <2>1. /\ call' \in CallType /\ call'.cur = Len(log) /\ token' = token /\ log' = log
        /\ lapsed' \in SUBSET (1 .. Len(log)) /\ DOMAIN reported' = 1 .. Len(log)
    <3>1. lapsed \in SUBSET (1 .. Len(log))
      BY <1>0 DEF CallOK
    <3> QED
      BY <1>4, <3>1, BeginMoves DEF Listing, account
  <2> QED
    BY <1>0, <2>1 DEF CallOK
<1>5. CASE Start
  <2>1. /\ call' = Idle /\ token' = Len(log) /\ log' = log /\ reported' = reported
        /\ lapsed' = lapsed \cup ((call.cur + 1) .. Len(log))
    BY <1>5 DEF Start, account
  <2>2. (call.cur + 1) .. Len(log) \in SUBSET (1 .. Len(log))
    BY PageFacts
  <2>3. lapsed' \in SUBSET (1 .. Len(log)) /\ DOMAIN reported' = 1 .. Len(log)
    BY <1>0, <2>1, <2>2 DEF CallOK
  <2>4. call' \in CallType /\ call'.cur \in 0 .. Len(log) /\ token' \in 0 .. Len(log)
    BY <1>0, <2>1, IdleType
  <2> QED
    BY <2>1, <2>3, <2>4 DEF CallOK
<1>6. CASE Page
  <2>1. /\ call' = [pc |-> IF PageEnd < Len(log) THEN "page"
                           ELSE IF provider = "google" THEN "parents" ELSE "convert",
                    cur |-> PageEnd, retried |-> call.retried, ids |-> Gathered]
        /\ log' = log /\ Untold
    BY <1>6, PageMoves DEF Untold
  <2>2. PageEnd \in 0 .. Len(log) /\ PageEnd \in Nat /\ Gathered \in [Items -> OptPlaces]
    BY PageFacts, GatheredType
  <2>3. call' \in CallType
    BY <1>0, <2>1, <2>2 DEF CallType, Pcs
  <2> QED
    BY <1>0, <1>2, <2>1, <2>2, <2>3
<1>7. CASE Parents
  <2>1. /\ call' = [pc |-> "convert", cur |-> call.cur, retried |-> call.retried,
                    ids |-> call.ids]
        /\ lapsed' = lapsed \cup {p \in Raw : Strange(p)}
        /\ log' = log /\ token' = token /\ reported' = reported
    BY <1>7, ParentsMoves
  <2>2. Raw \in SUBSET (1 .. Len(log))
    BY PageFacts
  <2>3. call' \in CallType
    BY <1>0, <2>1 DEF CallType, Pcs
  <2> QED
    BY <1>0, <2>1, <2>2, <2>3 DEF CallOK
<1>9. CASE Return
  <2>1. call' = Idle /\ token' = call.cur /\ log' = log /\ lapsed' = lapsed
        /\ DOMAIN reported' = 1 .. Len(log)
    BY <1>9 DEF Return, account
  <2> QED
    BY <1>0, <2>1, IdleType DEF CallOK
<1>10. CASE UNCHANGED <<log, call>> /\ Untold
  BY <1>0, <1>10 DEF CallOK, Untold
<1> QED
  BY <1>1, <1>3, <1>4, <1>5, <1>6, <1>7, <1>9, <1>10, NextCases DEF ClientStep

LEMMA FlagsStep == ASSUME TypeInv, [Next]_vars PROVE FlagsOK'
<1>0. FlagsOK
  BY DEF TypeInv
<1>1. ASSUME NEW e \in LogType, Logged(e) PROVE FlagsOK'
  BY <1>0, <1>1 DEF Logged, FlagsOK
<1>2. ASSUME NEW x, Abort(x), auth' \in [good : BOOLEAN, due : BOOLEAN] PROVE FlagsOK'
  BY <1>0, <1>2 DEF Abort, FlagsOK, Columns
<1>3. ASSUME NEW c, Continue(c), auth' \in [good : BOOLEAN, due : BOOLEAN] PROVE FlagsOK'
  BY <1>0, <1>3 DEF Continue, FlagsOK
<1>4. Refresh => auth' \in [good : BOOLEAN, due : BOOLEAN]
  BY DEF Refresh
<1>5. UNCHANGED auth => auth' \in [good : BOOLEAN, due : BOOLEAN]
  BY <1>0 DEF FlagsOK
<1>6. CASE Forget \/ \E good \in BOOLEAN : Age(good)
  <2>1. CASE Forget
    BY <1>0, <2>1 DEF Forget, FlagsOK
  <2>2. ASSUME NEW good \in BOOLEAN, Age(good) PROVE FlagsOK'
    BY <1>0, <2>2 DEF Age, FlagsOK
  <2> QED
    BY <1>6, <2>1, <2>2
<1>7. CASE BeginFirst \/ BeginStart \/ BeginChanges
  BY <1>2, <1>3, <1>4, <1>5, <1>7 DEF BeginFirst, BeginStart, BeginChanges, EnsureValidToken
<1>8. CASE StartRefused \/ ChangesRefused
  BY <1>2, <1>3, <1>4, <1>5, <1>8 DEF StartRefused, ChangesRefused, Unauthorized
<1>9. CASE StartFails \/ ChangesFail \/ ChangesExpired \/ ChangesRejected \/ ListingFails
  BY <1>2, <1>3, <1>5, <1>9 DEF StartFails, ChangesFail, ChangesExpired, ChangesRejected,
                                ListingFails
<1>10. CASE Listing \/ Start \/ Parents \/ Return
  BY <1>0, <1>10 DEF Listing, Start, Parents, Return, FlagsOK, Columns
<1>11. CASE Page
  BY <1>3, <1>5, <1>11 DEF Page
<1>12. CASE UNCHANGED vars
  BY <1>0, <1>12 DEF vars, FlagsOK
<1>13. ASSUME NEW i \in Items, NEW to \in Places, Change(i, to) PROVE FlagsOK'
  BY <1>1, <1>13, ChangeLogs
<1>14. ASSUME NEW i \in Items, Trash(i) \/ Erase(i) \/ Odd(i) PROVE FlagsOK'
  BY <1>1, <1>14, OthersLog
<1> QED
  BY <1>6, <1>7, <1>8, <1>9, <1>10, <1>11, <1>12, <1>13, <1>14 DEF Next, Client

LEMMA TypeInvStep == ASSUME TypeInv, [Next]_vars PROVE TypeInv'
<1>1. AccountOK'
  <2>1. ASSUME NEW e \in LogType, Logged(e) PROVE AccountOK'
    BY <2>1, LogFacts DEF Logged, AccountOK, TypeInv
  <2>2. CASE ClientStep
    BY <2>2 DEF ClientStep, AccountOK, TypeInv
  <2> QED
    BY <2>1, <2>2, NextCases
<1> QED
  BY <1>1, CallOKStep, FlagsStep DEF TypeInv
-----------------------------------------------------------------------------
(* The invariant of the log.                                               *)

\* The account is as the last entry left it, but for what that one removed.
LastTree == Len(log) > 0 => \A j \in Items : tree[j] \in {log[Len(log)].tree[j], None}

\* An item that is elsewhere later on was changed in between.
Moved(d, q, p) == \E r \in (q + 1) .. p : log[r].id = d /\ HasFile(log[r])

Continuous ==
  \A d \in Items, q \in 1 .. Len(log) :
    /\ tree[d] # None /\ log[q].tree[d] # tree[d] => Moved(d, q, Len(log))
    /\ \A p \in (q + 1) .. Len(log) :
         log[p].tree[d] # None /\ log[q].tree[d] # log[p].tree[d] => Moved(d, q, p)

Placed == \A p \in 1 .. Len(log) : HasFile(log[p]) => Parent(p) # None

LogInv == LastTree /\ Continuous /\ Placed

LEMMA LogInvStep == ASSUME TypeInv, LogInv, [Next]_vars PROVE LogInv'
<1>1. ASSUME NEW e \in LogType, Logged(e) PROVE LogInv'
  <2>0. /\ Len(log) \in Nat /\ Len(log') = Len(log) + 1
        /\ \A p \in 1 .. Len(log) : log'[p] = log[p]
        /\ log'[Len(log) + 1] = e
    BY <1>1, LogFacts
  <2>1. /\ \A j \in Items :
             /\ tree'[j] \in {e.tree[j], None}
             /\ tree[j] = None => tree'[j] = None
             /\ e.tree[j] # tree[j] => j = e.id /\ HasFile(e)
             /\ tree'[j] # tree[j] /\ tree'[j] # None => j = e.id /\ HasFile(e)
        /\ HasFile(e) => e.tree[e.id] # None
    BY <1>1 DEF Logged
  <2>2. LastTree'
    BY <2>0, <2>1 DEF LastTree
  <2>3. Placed'
    <3>1. ASSUME NEW p \in 1 .. Len(log'), HasFile(log'[p]) PROVE log'[p].tree[log'[p].id] # None
      <4>1. CASE p \in 1 .. Len(log)
        BY <2>0, <3>1, <4>1 DEF LogInv, Placed, Parent
      <4>2. CASE p = Len(log) + 1
        BY <2>0, <2>1, <3>1, <4>2
      <4> QED
        BY <2>0, <4>1, <4>2
    <3> QED
      BY <3>1 DEF Placed, Parent
  <2>4. ASSUME NEW d \in Items, NEW q \in 1 .. Len(log), NEW p \in 1 .. Len(log), Moved(d, q, p)
        PROVE  Moved(d, q, p)'
    BY <2>0, <2>4 DEF Moved
  <2>5. ASSUME NEW d \in Items, NEW q \in 1 .. Len(log), Moved(d, q, Len(log)) \/ (d = e.id /\ HasFile(e))
        PROVE  Moved(d, q, Len(log))'
    <3>1. CASE Moved(d, q, Len(log))
      <4>1. PICK r \in (q + 1) .. Len(log) : log[r].id = d /\ HasFile(log[r])
        BY <3>1 DEF Moved
      <4>2. r \in (q + 1) .. (Len(log) + 1) /\ log'[r].id = d /\ HasFile(log'[r])
        BY <2>0, <4>1
      <4>3. \E x \in (q + 1) .. (Len(log) + 1) : log'[x].id = d /\ HasFile(log'[x])
        BY <4>2
      <4> QED
        BY <2>0, <4>3 DEF Moved
    <3>2. CASE d = e.id /\ HasFile(e)
      <4>1. Len(log) + 1 \in (q + 1) .. (Len(log) + 1)
        BY <2>0
      <4>2. \E x \in (q + 1) .. (Len(log) + 1) : log'[x].id = d /\ HasFile(log'[x])
        BY <2>0, <3>2, <4>1
      <4> QED
        BY <2>0, <4>2 DEF Moved
    <3> QED
      BY <2>5, <3>1, <3>2
  <2>6. Continuous'
    <3> SUFFICES ASSUME NEW d \in Items, NEW q \in 1 .. Len(log')
                 PROVE  /\ tree'[d] # None /\ log'[q].tree[d] # tree'[d] => Moved(d, q, Len(log))'
                        /\ \A p \in (q + 1) .. Len(log') :
                             log'[p].tree[d] # None /\ log'[q].tree[d] # log'[p].tree[d] => Moved(d, q, p)'
      BY DEF Continuous
    <3>1. CASE q = Len(log) + 1
      BY <2>0, <2>1, <3>1
    <3>2. CASE q \in 1 .. Len(log)
      <4>1. /\ log'[q] = log[q]
            /\ tree[d] # None /\ log[q].tree[d] # tree[d] => Moved(d, q, Len(log))
            /\ \A p \in (q + 1) .. Len(log) :
                 log[p].tree[d] # None /\ log[q].tree[d] # log[p].tree[d] => Moved(d, q, p)
        BY <2>0, <3>2 DEF LogInv, Continuous
      <4>2. ASSUME tree'[d] # None, log'[q].tree[d] # tree'[d] PROVE Moved(d, q, Len(log))'
        BY <2>1, <2>5, <3>2, <4>1, <4>2
      <4>3. ASSUME NEW p \in (q + 1) .. Len(log'), log'[p].tree[d] # None,
                   log'[q].tree[d] # log'[p].tree[d]
            PROVE  Moved(d, q, p)'
        <5>1. CASE p \in (q + 1) .. Len(log)
          BY <2>0, <2>4, <3>2, <4>1, <4>3, <5>1
        <5>2. CASE p = Len(log) + 1
          <6>1. Moved(d, q, Len(log)) \/ (d = e.id /\ HasFile(e))
            BY <2>0, <2>1, <4>1, <4>3, <5>2
          <6>2. Moved(d, q, Len(log))'
            BY <2>5, <3>2, <6>1
          <6> QED
            BY <2>0, <5>2, <6>2 DEF Moved
        <5> QED
          BY <2>0, <3>2, <5>1, <5>2
      <4>4. tree'[d] # None /\ log'[q].tree[d] # tree'[d] => Moved(d, q, Len(log))'
        BY <4>2
      <4> QED
        BY <4>3, <4>4
    <3> QED
      BY <2>0, <3>1, <3>2
  <2> QED
    BY <2>2, <2>3, <2>6 DEF LogInv
<1>2. CASE ClientStep
  BY <1>2 DEF ClientStep, LogInv, LastTree, Continuous, Placed, Moved, Parent
<1> QED
  BY <1>1, <1>2, NextCases
-----------------------------------------------------------------------------
(* Where an item near the root is, in a tree and by its path.              *)

Rests(t, i, d) == t[i] = d /\ (d # Root => t[d] = Root)

\* Neither the item nor its directory has moved since the change.
Steady(p) ==
  /\ Near(p) /\ Rests(tree, log[p].id, Parent(p))
  /\ \A q \in p .. Len(log) : Rests(log[q].tree, log[p].id, Parent(p))

LEMMA NearPath ==
  ASSUME NEW t, NEW i \in Items, NEW d, d = t[i], d = Root \/ (d \in Items /\ t[d] = Root)
  PROVE  /\ TruePath(t, i) # None
         /\ TruePath(t, i) = IF d = Root THEN <<i>> ELSE <<i, d>>
         /\ \A u : TruePath(u, i) = TruePath(t, i) <=> Rests(u, i, d)
<1>0. d # None /\ <<i>> # None /\ (d \in Items => <<i, d>> # None)
  <2>1. <<i>> \in Seq(Items) /\ (d \in Items => <<i, d>> \in Seq(Items))
    OBVIOUS
  <2> QED
    BY <2>1, DeltaFeedAssumption
<1>1. TruePath(t, i) = PathFrom(t, i, d)
  BY <1>0 DEF TruePath
<1>2. CASE d = Root
  <2>1. TruePath(t, i) = <<i>>
    BY <1>1, <1>2, PathInRoot
  <2>2. ASSUME NEW u PROVE TruePath(u, i) = <<i>> <=> u[i] = Root
    <3>1. ASSUME TruePath(u, i) = <<i>> PROVE u[i] = Root
      <4>1. PathFrom(u, i, u[i]) = <<i>>
        BY <1>0, <3>1 DEF TruePath
      <4> QED
        BY <4>1, PathShows
    <3>2. ASSUME u[i] = Root PROVE TruePath(u, i) = <<i>>
      BY <1>0, <1>2, <3>2, PathInRoot DEF TruePath
    <3> QED
      BY <3>1, <3>2
  <2> QED
    BY <1>0, <1>2, <2>1, <2>2 DEF Rests
<1>3. CASE d # Root
  <2>0. d \in Items /\ t[d] = Root
    BY <1>3
  <2>1. TruePath(t, i) = <<i, d>>
    BY <1>1, <2>0, PathNearRoot
  <2>2. ASSUME NEW u PROVE TruePath(u, i) = <<i, d>> <=> u[i] = d /\ u[d] = Root
    <3>1. ASSUME TruePath(u, i) = <<i, d>> PROVE u[i] = d /\ u[d] = Root
      <4>1. PathFrom(u, i, u[i]) = <<i, d>>
        BY <1>0, <2>0, <3>1 DEF TruePath
      <4> QED
        BY <2>0, <4>1, PathShows
    <3>2. ASSUME u[i] = d, u[d] = Root PROVE TruePath(u, i) = <<i, d>>
      BY <1>0, <2>0, <3>2, PathNearRoot DEF TruePath
    <3> QED
      BY <3>1, <3>2
  <2> QED
    BY <1>0, <1>3, <2>0, <2>1, <2>2 DEF Rests
<1> QED
  BY <1>2, <1>3

\* A change that has settled near the root is one that is steady.
LEMMA SettledSteady ==
  ASSUME TypeInv, NEW p \in 1 .. Len(log), Near(p)
  PROVE  /\ Settled(p) <=> Steady(p)
         /\ TruePath(log[p].tree, log[p].id) # None
<1> DEFINE i == log[p].id
           t == log[p].tree
           d == Parent(p)
<1>1. i \in Items /\ d = t[i] /\ (d = Root \/ (d \in Items /\ t[d] = Root))
  BY PageFacts DEF Near, Parent, LogType
<1>2. /\ TruePath(t, i) # None
      /\ \A u : TruePath(u, i) = TruePath(t, i) <=> Rests(u, i, d)
  <2> HIDE DEF i, d, t
  <2> QED
    BY <1>1, NearPath
<1>3. Settled(p) <=> /\ TruePath(tree, i) = TruePath(t, i)
                     /\ \A q \in p .. Len(log) : TruePath(log[q].tree, i) = TruePath(t, i)
  BY DEF Settled
<1>4. Steady(p) <=> /\ Rests(tree, i, d)
                    /\ \A q \in p .. Len(log) : Rests(log[q].tree, i, d)
  BY DEF Steady
<1> HIDE DEF i, d, t
<1>5. Settled(p) <=> Steady(p)
  BY <1>2, <1>3, <1>4
<1> QED
  BY <1>2, <1>5 DEF i, t

SettledAreSteady == \A p \in 1 .. Len(log) : Near(p) /\ Settled(p) => Steady(p)

LEMMA AllSteady == TypeInv => SettledAreSteady
BY SettledSteady DEF SettledAreSteady

\* What is steady after a step of the account was steady before it.
LEMMA SteadyBack ==
  ASSUME TypeInv, LogInv, NEW e \in LogType, Logged(e), NEW p \in 1 .. Len(log), Steady(p)'
  PROVE  Steady(p)
<1>0. /\ Len(log) \in Nat /\ Len(log') = Len(log) + 1 /\ log[p] \in LogType
      /\ \A q \in 1 .. Len(log) : log'[q] = log[q]
  BY LogFacts
<1> DEFINE i == log[p].id
           d == Parent(p)
<1>1. i \in Items /\ d = log[p].tree[i]
  BY <1>0 DEF LogType, Parent
<1>2. Near(p)' /\ Rests(tree', log'[p].id, log'[p].tree[log'[p].id])
      /\ \A q \in p .. Len(log') : Rests(log'[q].tree, log'[p].id, log'[p].tree[log'[p].id])
  BY DEF Steady, Parent
<1>3. Near(p)
  BY <1>0, <1>2 DEF Near
<1>4. Rests(tree', i, d) /\ \A q \in p .. Len(log) : Rests(log[q].tree, i, d)
  <2>1. log'[p] = log[p] /\ d = log'[p].tree[log'[p].id] /\ i = log'[p].id
    BY <1>0 DEF Parent
  <2>2. ASSUME NEW q \in p .. Len(log) PROVE Rests(log[q].tree, i, d)
    <3>1. log'[q] = log[q] /\ q \in p .. Len(log')
      BY <1>0
    <3> QED
      BY <1>2, <2>1, <3>1
  <2> QED
    BY <1>2, <2>1, <2>2
<1>5. d = Root \/ d \in Items
  BY <1>3 DEF Near, Parent
<1>6. d # None /\ Root # None
  BY <1>5, DeltaFeedAssumption
<1>7. \A j \in Items : (tree[j] = log[Len(log)].tree[j] \/ tree[j] = None)
                       /\ (tree[j] = None => tree'[j] = None)
  BY <1>0 DEF LogInv, LastTree, Logged
<1>8. Rests(log[Len(log)].tree, i, d)
  BY <1>0, <1>4
<1> HIDE DEF i, d
<1>9. tree[i] = d
  BY <1>1, <1>4, <1>6, <1>7, <1>8 DEF Rests
<1>10. d # Root => tree[d] = Root
  BY <1>4, <1>5, <1>6, <1>7, <1>8 DEF Rests
<1>11. Rests(tree, i, d)
  BY <1>9, <1>10 DEF Rests
<1> QED
  BY <1>3, <1>4, <1>11 DEF Steady, i, d

\* A promise only lapses.
LEMMA LapsedGrows == ASSUME TypeInv, ClientStep PROVE lapsed \subseteq lapsed'
BY DEF ClientStep, Untold, ToIdle, To, ToBegin, ToStart, ToPage, Again, Listing, Start, Page,
       Continue, Parents, Return

LEMMA PromisedBack ==
  ASSUME TypeInv, LogInv, [Next]_vars, NEW p \in 1 .. Len(log), Promised(p)'
  PROVE  Promised(p)
<1>0. TypeInv'
  BY TypeInvStep
<1>1. ASSUME NEW e \in LogType, Logged(e) PROVE Promised(p)
  <2>0. /\ Len(log) \in Nat /\ Len(log') = Len(log) + 1 /\ log'[p] = log[p]
        /\ provider' = provider /\ lapsed' = lapsed
    BY <1>1, LogFacts DEF Logged
  <2>1. /\ log'[p].what # "odd" /\ TruePath(log'[p].tree, log'[p].id) # None /\ p \notin lapsed'
        /\ provider' = "google" => log'[p].what # "removed" /\ Near(p)' /\ Settled(p)'
    BY DEF Promised
  <2>2. Near(p)' <=> Near(p)
    BY <2>0 DEF Near
  <2>3. ASSUME provider = "google" PROVE Settled(p)
    <3>1. Near(p)' /\ Settled(p)' /\ p \in 1 .. Len(log')
      BY <2>0, <2>1, <2>3
    <3>2. Steady(p)'
      <4>1. SettledAreSteady'
        BY <1>0, AllSteady, PTL
      <4> QED
        BY <3>1, <4>1 DEF SettledAreSteady
    <3>3. Steady(p)
      BY <1>1, <3>2, SteadyBack
    <3> QED
      BY <2>2, <3>1, <3>3, SettledSteady
  <2> QED
    BY <2>0, <2>1, <2>2, <2>3 DEF Promised
<1>2. CASE ClientStep
  <2>1. provider' = provider /\ tree' = tree /\ log' = log /\ lapsed \subseteq lapsed'
    BY <1>2, LapsedGrows DEF ClientStep
  <2>2. Near(p)' = Near(p) /\ Settled(p)' = Settled(p)
    BY <2>1 DEF Near, Settled
  <2> QED
    BY <2>1, <2>2 DEF Promised
<1> QED
  BY <1>1, <1>2, NextCases
-----------------------------------------------------------------------------
(* The invariant of a call.                                                *)

InCall  == call.pc \in {"page", "parents", "convert"}
ToToken == call.pc \in {"begin", "start"}

\* A call starts from the token, and gets an answer only to a token; a start token
\* follows a listing of what the token has not covered.
Calling ==
  /\ InCall \/ ToToken => token <= call.cur
  /\ call.pc \in {"parents", "convert"} => stored = "token"

\* While it reads pages, a call knows of each item what its last change said.
SeenOf(d) ==
  \/ call.ids[d] = None /\ ~Moved(d, token, call.cur)
  \/ \E q \in Raw : /\ log[q].id = d /\ HasFile(log[q]) /\ call.ids[d] = log[q].tree[d]
                    /\ ~Moved(d, q, call.cur)
Seen == call.pc \in {"page", "parents"} => \A d \in Items : SeenOf(d)

\* Of a steady change, Drive's provider knows where the parent is.
FoundOf(p) ==
  HasFile(log[p]) /\ Steady(p) /\ Parent(p) \in Items => call.ids[Parent(p)] = Root
Found ==
  provider = "google" /\ call.pc = "convert" => \A p \in Raw \ lapsed : FoundOf(p)

CallInv == Calling /\ Seen /\ Found

LEMMA CallingStep == ASSUME TypeInv, CallInv, [Next]_vars PROVE Calling'
<1>0. /\ call \in CallType /\ token \in Nat /\ call.cur \in Nat /\ PageEnd \in Nat
      /\ call.cur <= PageEnd /\ (InCall \/ ToToken => token <= call.cur)
      /\ call.pc \in {"parents", "convert"} => stored = "token"
      /\ Len(log) \in Nat /\ token <= Len(log)
  BY PageFacts DEF TypeInv, CallOK, CallInv, Calling
<1>1. ASSUME NEW e \in LogType, Logged(e) PROVE Calling'
  BY <1>0, <1>1 DEF Logged, Calling, InCall, ToToken
<1>2. CASE UNCHANGED <<call, stored>> /\ Untold
  BY <1>0, <1>2 DEF Untold, Calling, InCall, ToToken
<1>3. CASE call' = Idle \/ To("list") \/ To("relist")
  <2>1. call'.pc \in {"idle", "list", "relist"}
    BY <1>3, IdleType, BeginMoves
  <2> QED
    BY <2>1 DEF Calling, InCall, ToToken
<1>4. CASE ToBegin \/ ToPage
  <2>1. call'.pc \in {"begin", "page"} /\ call'.cur = token /\ token' = token
    BY <1>4, BeginMoves DEF ToBegin, ToPage, Untold
  <2> QED
    BY <1>0, <2>1 DEF Calling
<1>5. CASE Again \/ ToStart
  <2>1. call'.cur = call.cur /\ call'.pc \in {"start", "page"} /\ token' = token
        /\ call.pc \in {"begin", "start", "page"}
    BY <1>5, BeginMoves DEF Again, ToStart, Untold
  <2> QED
    BY <1>0, <2>1 DEF Calling, InCall, ToToken
<1>6. CASE Listing
  <2>1. call'.pc = "begin" /\ call'.cur = Len(log) /\ token' = token
    BY <1>6, BeginMoves DEF Listing
  <2> QED
    BY <1>0, <2>1 DEF Calling
<1>7. CASE Page
  <2>1. call'.cur = PageEnd /\ token' = token /\ call.pc = "page" /\ stored' = "token"
    BY <1>7, PageMoves DEF Page, Continue
  <2> QED
    BY <1>0, <2>1 DEF Calling, InCall
<1>8. CASE Parents
  <2>1. call.pc = "parents" /\ call'.cur = call.cur /\ token' = token /\ stored' = stored
    BY <1>8, ParentsMoves DEF Parents
  <2> QED
    BY <1>0, <2>1 DEF Calling, InCall
<1> QED
  BY <1>1, <1>2, <1>3, <1>4, <1>5, <1>6, <1>7, <1>8, NextCases DEF ClientStep, ToIdle, Start, Return

\* What was seen is as it was as long as the log only grows.
LEMMA SeenKeeps ==
  ASSUME TypeInv, \A p \in 1 .. Len(log) : log'[p] = log[p], token' = token,
         call'.cur = call.cur, call'.ids = call.ids, NEW d \in Items, SeenOf(d)
  PROVE  SeenOf(d)'
<1>1. /\ token \in Nat /\ call.cur \in Nat /\ Len(log) \in Nat /\ call.cur <= Len(log)
      /\ Raw \in SUBSET (1 .. Len(log)) /\ Raw' = Raw
  BY PageFacts DEF Raw
<1>2. ASSUME NEW q \in Nat, ~Moved(d, q, call.cur) PROVE ~Moved(d, q, call.cur)'
  <2> SUFFICES ASSUME NEW r \in (q + 1) .. call.cur, log'[r].id = d, HasFile(log'[r]) PROVE FALSE
    BY DEF Moved
  <2>1. log'[r] = log[r]
    BY <1>1
  <2> QED
    BY <1>2, <2>1 DEF Moved
<1>3. CASE call.ids[d] = None /\ ~Moved(d, token, call.cur)
  <2>1. ~Moved(d, token, call.cur)'
    BY <1>1, <1>2, <1>3
  <2> QED
    BY <1>3, <2>1 DEF SeenOf
<1>4. CASE \E q \in Raw : /\ log[q].id = d /\ HasFile(log[q]) /\ call.ids[d] = log[q].tree[d]
                          /\ ~Moved(d, q, call.cur)
  <2>1. PICK q \in Raw : /\ log[q].id = d /\ HasFile(log[q]) /\ call.ids[d] = log[q].tree[d]
                         /\ ~Moved(d, q, call.cur)
    BY <1>4
  <2>2. ~Moved(d, q, call.cur)' /\ log'[q] = log[q]
    BY <1>1, <1>2, <2>1
  <2>3. q \in Raw' /\ log'[q].id = d /\ HasFile(log'[q]) /\ call'.ids[d] = log'[q].tree[d]
    BY <1>1, <2>1, <2>2
  <2> QED
    BY <2>2, <2>3 DEF SeenOf
<1> QED
  BY <1>3, <1>4 DEF SeenOf

\* A page moves the call on: its files are the last changes seen.
LEMMA PageSees ==
  ASSUME TypeInv, Page, token <= call.cur, NEW d \in Items, SeenOf(d)
  PROVE  SeenOf(d)'
<1>1. /\ token \in Nat /\ call.cur \in Nat /\ PageEnd \in Nat /\ call.cur <= PageEnd
      /\ OnPage \in SUBSET (1 .. Len(log)) /\ Len(log) \in Nat
  BY PageFacts
<1>2. call'.cur = PageEnd /\ call'.ids = Gathered /\ token' = token /\ log' = log
  BY PageMoves
<1>3. Raw' = (token + 1) .. PageEnd
  BY <1>2 DEF Raw
<1> DEFINE P == {p \in OnPage : log[p].id = d /\ HasFile(log[p])}
           l == CHOOSE p \in P : \A q \in P : q <= p
<1>4. call'.ids[d] = IF P = {} THEN call.ids[d] ELSE log[l].tree[d]
  BY <1>2 DEF Gathered
<1>5. \A q \in Nat : Moved(d, q, call.cur)' <=> \E r \in (q + 1) .. PageEnd : log[r].id = d /\ HasFile(log[r])
  BY <1>2 DEF Moved
<1>6. CASE P = {}
  <2>1. ASSUME NEW q \in Nat, ~Moved(d, q, call.cur) PROVE ~Moved(d, q, call.cur)'
    <3> SUFFICES ASSUME NEW r \in (q + 1) .. PageEnd, log[r].id = d, HasFile(log[r]) PROVE FALSE
      BY <1>5
    <3>1. r > call.cur
      BY <1>1, <2>1 DEF Moved
    <3>2. r \in P
      BY <1>1, <3>1 DEF OnPage
    <3> QED
      BY <1>6, <3>2
  <2>2. CASE call.ids[d] = None /\ ~Moved(d, token, call.cur)
    <3>1. ~Moved(d, token, call.cur)'
      BY <1>1, <1>2, <2>1, <2>2
    <3> QED
      BY <1>2, <1>4, <1>6, <2>2, <3>1 DEF SeenOf
  <2>3. CASE \E q \in Raw : /\ log[q].id = d /\ HasFile(log[q]) /\ call.ids[d] = log[q].tree[d]
                            /\ ~Moved(d, q, call.cur)
    <3>1. PICK q \in Raw : /\ log[q].id = d /\ HasFile(log[q]) /\ call.ids[d] = log[q].tree[d]
                           /\ ~Moved(d, q, call.cur)
      BY <2>3
    <3>2. q \in Nat /\ q \in Raw'
      BY <1>1, <1>2 DEF Raw
    <3>3. ~Moved(d, q, call.cur)'
      BY <2>1, <3>1, <3>2
    <3> QED
      BY <1>2, <1>4, <1>6, <3>1, <3>2, <3>3 DEF SeenOf
  <2> QED
    BY <2>2, <2>3 DEF SeenOf
<1>7. CASE P # {}
  <2>0. l \in P /\ \A q \in P : q <= l
    <3>1. P \in SUBSET (1 .. Len(log))
      BY <1>1
    <3> HIDE DEF P
    <3> QED
      BY <1>1, <1>7, <3>1, LastOf
  <2>1. PICK m \in P : m = l /\ \A q \in P : q <= m
    BY <2>0
  <2>2. call'.ids[d] = log[m].tree[d]
    BY <1>4, <1>7, <2>1
  <2>3. m \in (call.cur + 1) .. PageEnd /\ log[m].id = d /\ HasFile(log[m])
    BY <2>1 DEF OnPage
  <2>4. ~Moved(d, m, call.cur)'
    <3> SUFFICES ASSUME NEW r \in (m + 1) .. PageEnd, log[r].id = d, HasFile(log[r]) PROVE FALSE
      BY <1>1, <1>5, <2>3
    <3>1. r \in P
      BY <1>1, <2>3 DEF OnPage
    <3> QED
      BY <1>1, <2>1, <2>3, <3>1
  <2>5. m \in Raw'
    BY <1>1, <1>2, <2>3 DEF Raw
  <2> QED
    BY <1>2, <2>2, <2>3, <2>4, <2>5 DEF SeenOf
<1> QED
  BY <1>6, <1>7

LEMMA SeenStep == ASSUME TypeInv, CallInv, [Next]_vars PROVE Seen'
<1>0. /\ call \in CallType /\ Len(log) \in Nat
      /\ call.pc \in {"page", "parents"} => \A d \in Items : SeenOf(d)
      /\ InCall => token <= call.cur
  BY PageFacts DEF TypeInv, CallOK, CallInv, Calling, Seen
<1>1. ASSUME \A p \in 1 .. Len(log) : log'[p] = log[p], token' = token,
             call'.cur = call.cur, call'.ids = call.ids, call'.pc = call.pc
      PROVE  Seen'
  BY <1>0, <1>1, SeenKeeps DEF Seen
<1>2. ASSUME NEW e \in LogType, Logged(e) PROVE Seen'
  <2>1. call' = call /\ token' = token /\ \A p \in 1 .. Len(log) : log'[p] = log[p]
    BY <1>2, LogFacts DEF Logged
  <2> QED
    BY <1>1, <2>1
<1>3. CASE UNCHANGED <<log, call>> /\ Untold
  BY <1>1, <1>3 DEF Untold
<1>4. ASSUME call'.pc \notin {"page", "parents"} PROVE Seen'
  BY <1>4 DEF Seen
<1>5. CASE call' = Idle \/ To("list") \/ To("relist") \/ ToBegin \/ ToStart \/ Listing \/ Parents
  <2>1. call'.pc \in {"idle", "list", "relist", "begin", "start", "convert"}
    BY <1>5, IdleType, BeginMoves, ParentsMoves
  <2> QED
    BY <1>4, <2>1
<1>6. CASE ToPage
  <2>1. call'.cur = token /\ token' = token /\ \A d \in Items : call'.ids[d] = None
    BY <1>6, IdleType DEF ToPage, CallType, Untold
  <2>2. ASSUME NEW d \in Items PROVE ~Moved(d, token, call.cur)'
    <3>1. (token + 1) .. token = {}
      BY PageFacts
    <3> QED
      BY <2>1, <3>1 DEF Moved
  <2> QED
    BY <2>1, <2>2 DEF Seen, SeenOf
<1>7. CASE UNCHANGED log /\ Again
  <2>1. call'.cur = call.cur /\ call'.pc = call.pc /\ call'.ids = call.ids /\ token' = token
    BY <1>0, <1>7 DEF Again, CallType, Untold
  <2> QED
    BY <1>1, <1>7, <2>1
<1>8. CASE Page
  <2>1. call.pc = "page"
    BY <1>8 DEF Page
  <2> QED
    BY <1>0, <1>8, <2>1, PageSees DEF Seen, InCall
<1> QED
  BY <1>2, <1>3, <1>5, <1>6, <1>7, <1>8, NextCases DEF ClientStep, ToIdle, Start, Return

\* What the pages said of the parent of a steady change is so.
LEMMA SeenIsCurrent ==
  ASSUME TypeInv, LogInv, Seen, call.pc = "parents", NEW p \in Raw, Steady(p),
         Parent(p) \in Items, call.ids[Parent(p)] # None
  PROVE  call.ids[Parent(p)] = Root
<1> DEFINE d == Parent(p)
<1>0. /\ Raw \in SUBSET (1 .. Len(log)) /\ Len(log) \in Nat /\ call.cur \in Nat
      /\ token \in Nat /\ Root # None /\ d # Root /\ d \in Items
  BY PageFacts, DeltaFeedAssumption
<1>1. \A q \in p .. Len(log) : log[q].tree[d] = Root
  BY <1>0 DEF Steady, Rests
<1>2. PICK q \in Raw : call.ids[d] = log[q].tree[d] /\ ~Moved(d, q, call.cur)
  <2> HIDE DEF d
  <2> QED
    BY <1>0 DEF Seen, SeenOf, d
<1>3. CASE q >= p
  BY <1>0, <1>1, <1>2, <1>3
<1>4. CASE q < p
  <2>1. p \in (q + 1) .. Len(log) /\ q \in 1 .. Len(log) /\ p <= call.cur
    BY <1>0, <1>4 DEF Raw
  <2>2. log[p].tree[d] = Root
    BY <1>0, <1>1, <2>1
  <2>3. log[q].tree[d] # Root => Moved(d, q, p)
    <3> HIDE DEF d
    <3> QED
      BY <1>0, <2>1, <2>2 DEF LogInv, Continuous
  <2>4. ~Moved(d, q, p)
    BY <1>0, <1>2, <2>1 DEF Moved
  <2> QED
    BY <1>2, <2>3, <2>4
<1> QED
  BY <1>0, <1>3, <1>4

\* The pages say where the parent of a change is that is not strange to them.
LEMMA NotStrange ==
  ASSUME TypeInv, LogInv, CallInv, call.pc = "parents", NEW p \in Raw, HasFile(log[p]),
         ~Strange(p), Parent(p) \in Items
  PROVE  call.ids[Parent(p)] # None
<1> DEFINE d == Parent(p)
<1>0. /\ Raw \in SUBSET (1 .. Len(log)) /\ Len(log) \in Nat /\ call.cur \in Nat
      /\ token \in Nat /\ d # Root
  BY PageFacts, DeltaFeedAssumption
<1>1. PICK q \in Raw : HasFile(log[q]) /\ log[q].id = d
  BY <1>0 DEF Strange
<1>2. Moved(d, token, call.cur)
  BY <1>0, <1>1 DEF Moved, Raw
<1>3. SeenOf(d)
  BY DEF CallInv, Seen
<1>4. PICK r \in Raw : log[r].id = d /\ HasFile(log[r]) /\ call.ids[d] = log[r].tree[d]
  <2> HIDE DEF d
  <2> QED
    BY <1>2, <1>3 DEF SeenOf
<1>5. log[r].tree[log[r].id] # None
  BY <1>0, <1>4 DEF LogInv, Placed, Parent
<1> QED
  BY <1>4, <1>5

LEMMA FoundStep == ASSUME TypeInv, LogInv, CallInv, [Next]_vars PROVE Found'
<1>0. /\ call \in CallType /\ Len(log) \in Nat /\ Raw \in SUBSET (1 .. Len(log))
      /\ \A p \in 1 .. Len(log) : log[p] \in LogType
  BY PageFacts DEF TypeInv, CallOK
<1>1. ASSUME NEW e \in LogType, Logged(e) PROVE Found'
  <2>1. /\ call' = call /\ token' = token /\ lapsed' = lapsed /\ provider' = provider
        /\ \A p \in 1 .. Len(log) : log'[p] = log[p]
    BY <1>1, LogFacts DEF Logged
  <2>2. Raw' = Raw
    BY <2>1 DEF Raw
  <2>3. SUFFICES ASSUME provider = "google", call.pc = "convert",
                        NEW p \in Raw \ lapsed, HasFile(log'[p]), Steady(p)',
                        Parent(p)' \in Items
                 PROVE  call.ids[Parent(p)'] = Root
    BY <2>1, <2>2 DEF Found, FoundOf
  <2>4. log'[p] = log[p] /\ p \in 1 .. Len(log) /\ Parent(p)' = Parent(p)
    BY <1>0, <2>1 DEF Parent
  <2>5. Steady(p)
    BY <1>1, <2>3, <2>4, SteadyBack
  <2>6. HasFile(log[p]) /\ Parent(p) \in Items
    BY <2>3, <2>4
  <2>7. FoundOf(p)
    BY <2>3 DEF CallInv, Found
  <2> QED
    BY <2>4, <2>5, <2>6, <2>7 DEF FoundOf
<1>2. CASE UNCHANGED <<provider, tree, log, call>> /\ Untold
  <2>1. UNCHANGED <<provider, tree, log, call, token, lapsed>>
    BY <1>2 DEF Untold
  <2>2. Raw' = Raw /\ \A p : FoundOf(p)' = FoundOf(p)
    BY <2>1 DEF Raw, FoundOf, HasFile, Parent, Steady, Near, Rests
  <2> QED
    BY <2>1, <2>2 DEF CallInv, Found
<1>3. ASSUME call'.pc # "convert" PROVE Found'
  BY <1>3 DEF Found
<1>4. CASE \/ call' = Idle \/ To("list") \/ To("relist") \/ ToBegin \/ ToStart \/ ToPage
           \/ Again \/ Listing
  <2>1. call'.pc \in {"idle", "list", "relist", "begin", "start", "page"}
    BY <1>4, IdleType, BeginMoves DEF Again
  <2> QED
    BY <1>3, <2>1
<1>5. CASE Page
  <2>1. provider' = provider /\ (provider = "google" => call'.pc \in {"page", "parents"})
    BY <1>5, PageMoves
  <2> QED
    BY <2>1 DEF Found
<1>6. CASE Parents
  <2>1. /\ call'.ids = call.ids /\ call'.cur = call.cur /\ call.pc = "parents"
        /\ lapsed' = lapsed \cup {p \in Raw : Strange(p)}
        /\ UNCHANGED <<provider, tree, log, token>>
    BY <1>6, ParentsMoves
  <2>2. Raw' = Raw
    BY <2>1 DEF Raw
  <2>3. ASSUME NEW p \in Raw \ lapsed' PROVE FoundOf(p)'
    <3>1. Parent(p)' = Parent(p) /\ Steady(p)' = Steady(p) /\ p \in Raw /\ ~Strange(p)
      BY <2>1, <2>3 DEF Parent, Steady, Near, Rests
    <3>2. SUFFICES ASSUME HasFile(log[p]), Steady(p), Parent(p) \in Items
                   PROVE  call.ids[Parent(p)] = Root
      BY <2>1, <3>1 DEF FoundOf
    <3>3. call.ids[Parent(p)] # None
      BY <2>1, <3>1, <3>2, NotStrange
    <3> QED
      BY <2>1, <3>1, <3>2, <3>3, SeenIsCurrent DEF CallInv
  <2> QED
    BY <2>2, <2>3 DEF Found
<1> QED
  BY <1>1, <1>2, <1>4, <1>5, <1>6, NextCases DEF ClientStep, ToIdle, Start, Return

LEMMA CallInvStep == ASSUME TypeInv, LogInv, CallInv, [Next]_vars PROVE CallInv'
BY CallingStep, SeenStep, FoundStep DEF CallInv
-----------------------------------------------------------------------------
(* What a call reports.                                                    *)

\* As long as there is a token, nothing beyond it has been reported.
Unheard == stored = "token" => \A p \in (token + 1) .. Len(log) : reported[p] = None

\* Every promised change up to the token was reported; before a start token, every
\* one up to where the listing ended.
Told(n) == \A p \in 1 .. n : Promised(p) => reported[p] # None
Heard   == Told(token) /\ (ToToken => Told(call.cur))

\* What is reported of a promised change is its path.
Truly ==
  \A p \in 1 .. Len(log) :
    Promised(p) /\ reported[p] # None => reported[p] = TruePath(log[p].tree, log[p].id)

\* A call that is about to return has the path of every promised change.
LEMMA Resolves ==
  ASSUME TypeInv, CallInv, call.pc = "convert", NEW p \in Raw, Promised(p)
  PROVE  /\ Resolve(log[p]) = TruePath(log[p].tree, log[p].id)
         /\ TruePath(log[p].tree, log[p].id) # None
<1>0. /\ p \in 1 .. Len(log) /\ log[p] \in LogType /\ log[p].what # "odd"
      /\ TruePath(log[p].tree, log[p].id) # None
  BY PageFacts DEF Promised
<1>1. CASE provider # "google"
  BY <1>0, <1>1 DEF Resolve, OneDrivePath, strip_onedrive_root_prefix
<1>2. CASE provider = "google"
  <2> DEFINE i == log[p].id
             t == log[p].tree
             d == Parent(p)
  <2>1. log[p].what # "removed" /\ Near(p) /\ Settled(p) /\ p \notin lapsed
    BY <1>2 DEF Promised
  <2>2. Steady(p)
    BY <1>0, <2>1, SettledSteady
  <2>3. i \in Items /\ HasFile(log[p]) /\ d = t[i] /\ (d = Root \/ (d \in Items /\ t[d] = Root))
    BY <1>0, <2>1 DEF LogType, HasFile, Parent, Near
  <2>4. TruePath(t, i) = IF d = Root THEN <<i>> ELSE <<i, d>>
    <3> HIDE DEF i, t, d
    <3> QED
      BY <2>3, NearPath
  <2>5. d \in Items => call.ids[d] = Root
    BY <1>2, <2>1, <2>2, <2>3 DEF CallInv, Found, FoundOf
  <2>6. Resolve(log[p]) = PathFrom(call.ids, i, d)
    BY <1>0, <1>2, <2>1, <2>3 DEF Resolve, GooglePath
  <2> HIDE DEF i, t, d
  <2>7. PathFrom(call.ids, i, d) = IF d = Root THEN <<i>> ELSE <<i, d>>
    BY <2>3, <2>5, PathInRoot, PathNearRoot
  <2> QED
    BY <1>0, <2>4, <2>6, <2>7 DEF i, t
<1> QED
  BY <1>1, <1>2

\* The steps of a call that tell nothing.
Silent == Untold \/ Page \/ Parents

LEMMA SilentFacts == ASSUME Silent PROVE token' = token /\ reported' = reported
BY DEF Silent, Untold, Page, Parents, Continue

LEMMA StepCases ==
  ASSUME TypeInv, [Next]_vars
  PROVE  \/ \E e \in LogType : Logged(e)
         \/ log' = log /\ Silent /\ (stored' = stored \/ stored' = "none")
         \/ Listing \/ Start \/ Return
<1>1. ASSUME NEW x, Abort(x) PROVE log' = log /\ Silent /\ (stored' = stored \/ stored' = "none")
  BY <1>1 DEF Abort, Silent, Untold, account
<1>2. ASSUME NEW c, Continue(c) PROVE log' = log /\ Silent /\ stored' = stored
  BY <1>2 DEF Continue, Silent, Untold, account
<1>3. CASE Client \/ ListingFails \/ StartFails \/ ChangesFail
  BY <1>1, <1>2, <1>3
     DEF Client, BeginFirst, ListingFails, BeginStart, StartRefused, StartFails, BeginChanges,
         ChangesRefused, ChangesFail, ChangesExpired, ChangesRejected, EnsureValidToken,
         Unauthorized, Page, Parents, Silent, account
<1>4. CASE Forget \/ \E good \in BOOLEAN : Age(good)
  BY <1>4 DEF Forget, Age, Silent, Untold, account
<1>5. CASE UNCHANGED vars
  BY <1>5 DEF vars, Silent, Untold
<1>6. ASSUME NEW i \in Items, NEW to \in Places, Change(i, to) PROVE \E e \in LogType : Logged(e)
  BY <1>6, ChangeLogs
<1>7. ASSUME NEW i \in Items, Trash(i) \/ Erase(i) \/ Odd(i) PROVE \E e \in LogType : Logged(e)
  BY <1>7, OthersLog
<1> QED
  BY <1>3, <1>4, <1>5, <1>6, <1>7 DEF Next

LEMMA UnheardStep == ASSUME TypeInv, CallInv, Unheard, [Next]_vars PROVE Unheard'
<1>0. Len(log) \in Nat /\ token \in Nat /\ call.cur \in Nat /\ DOMAIN reported = 1 .. Len(log)
  BY PageFacts DEF TypeInv, CallOK
<1>1. ASSUME NEW e \in LogType, Logged(e) PROVE Unheard'
  <2>1. Len(log') = Len(log) + 1
    BY <1>1, LogFacts
  <2>2. token' = token /\ reported' = Append(reported, None) /\ stored' = stored
    BY <1>1 DEF Logged
  <2>3. \A p \in 1 .. Len(log) : reported'[p] = reported[p]
    BY <1>0, <2>2
  <2>4. reported'[Len(log) + 1] = None
    BY <1>0, <2>2
  <2> QED
    BY <1>0, <2>1, <2>2, <2>3, <2>4 DEF Unheard
<1>2. CASE log' = log /\ Silent /\ (stored' = stored \/ stored' = "none")
  <2>1. token' = token /\ reported' = reported
    BY <1>2, SilentFacts
  <2> QED
    BY <1>2, <2>1 DEF Unheard
<1>3. CASE Start
  <2>1. token' = Len(log) /\ log' = log
    BY <1>3 DEF Start, account
  <2> QED
    BY <1>0, <2>1 DEF Unheard
<1>4. CASE Return
  <2>1. token' = call.cur /\ log' = log /\ token <= call.cur /\ stored = "token"
    BY <1>4 DEF Return, account, CallInv, Calling, InCall
  <2>2. \A p \in 1 .. Len(log) : reported'[p] = IF p \in Raw THEN Resolve(log[p]) ELSE reported[p]
    BY <1>4 DEF Return
  <2>3. ASSUME NEW p \in (call.cur + 1) .. Len(log) PROVE reported'[p] = None
    BY <1>0, <2>1, <2>2 DEF Unheard, Raw
  <2> QED
    BY <2>1, <2>3 DEF Unheard
<1>5. CASE Listing
  BY <1>5 DEF Listing, Unheard
<1> QED
  BY <1>1, <1>2, <1>3, <1>4, <1>5, StepCases

LEMMA TrulyStep == ASSUME TypeInv, LogInv, CallInv, Truly, [Next]_vars PROVE Truly'
<1>0. Len(log) \in Nat /\ DOMAIN reported = 1 .. Len(log) /\ Raw \in SUBSET (1 .. Len(log))
  BY PageFacts DEF TypeInv, CallOK
<1>1. ASSUME NEW p \in 1 .. Len(log), Promised(p)', log'[p] = log[p],
             reported'[p] = reported[p], reported'[p] # None
      PROVE  reported'[p] = TruePath(log'[p].tree, log'[p].id)
  BY <1>1, PromisedBack DEF Truly
<1>2. ASSUME NEW e \in LogType, Logged(e) PROVE Truly'
  <2>1. Len(log') = Len(log) + 1 /\ reported' = Append(reported, None)
        /\ \A p \in 1 .. Len(log) : log'[p] = log[p]
    BY <1>2, LogFacts DEF Logged
  <2>2. (\A p \in 1 .. Len(log) : reported'[p] = reported[p]) /\ reported'[Len(log) + 1] = None
    BY <1>0, <2>1
  <2>3. ASSUME NEW p \in 1 .. Len(log'), Promised(p)', reported'[p] # None
        PROVE  reported'[p] = TruePath(log'[p].tree, log'[p].id)
    <3>1. p \in 1 .. Len(log)
      BY <1>0, <2>1, <2>2, <2>3
    <3> QED
      BY <1>1, <2>1, <2>2, <2>3, <3>1
  <2> QED
    BY <2>3 DEF Truly
<1>3. ASSUME log' = log,
             \A p \in 1 .. Len(log) : Promised(p)' /\ reported'[p] # None =>
               \/ reported'[p] = reported[p]
               \/ reported'[p] = TruePath(log[p].tree, log[p].id)
      PROVE  Truly'
  <2>1. ASSUME NEW p \in 1 .. Len(log), Promised(p)', reported'[p] # None
        PROVE  reported'[p] = TruePath(log'[p].tree, log'[p].id)
    BY <1>1, <1>3, <2>1
  <2> QED
    BY <1>3, <2>1 DEF Truly
<1>4. CASE log' = log /\ (Silent \/ Start)
  <2>1. reported' = reported
    BY <1>4, SilentFacts DEF Start
  <2> QED
    BY <1>3, <1>4, <2>1
<1>5. CASE Listing
  <2>1. log' = log
    BY <1>5 DEF Listing, account
  <2>2. ASSUME NEW p \in 1 .. Len(log), Promised(p)'
        PROVE  reported'[p] = reported[p] \/ reported'[p] = TruePath(log[p].tree, log[p].id)
    <3>1. p \notin lapsed'
      BY <2>2 DEF Promised
    <3>2. reported'[p] = IF reported[p] = None THEN Listed(p) ELSE reported[p]
      BY <1>5 DEF Listing
    <3>3. reported[p] = None => Listed(p) = TruePath(log[p].tree, log[p].id)
      BY <1>5, <3>1 DEF Listing
    <3> QED
      BY <3>2, <3>3
  <2> QED
    BY <1>3, <2>1, <2>2
<1>6. CASE Return
  <2>1. log' = log /\ call.pc = "convert"
    BY <1>6 DEF Return, account
  <2>2. ASSUME NEW p \in 1 .. Len(log), Promised(p)'
        PROVE  reported'[p] = reported[p] \/ reported'[p] = TruePath(log[p].tree, log[p].id)
    <3>1. Promised(p)
      BY <2>2, PromisedBack
    <3>2. reported'[p] = IF p \in Raw THEN Resolve(log[p]) ELSE reported[p]
      BY <1>6 DEF Return
    <3> QED
      BY <2>1, <3>1, <3>2, Resolves
  <2> QED
    BY <1>3, <2>1, <2>2
<1>7. Start => log' = log
  BY DEF Start, account
<1> QED
  BY <1>2, <1>4, <1>5, <1>6, <1>7, StepCases

LEMMA HeardStep == ASSUME TypeInv, LogInv, CallInv, Heard, [Next]_vars PROVE Heard'
<1>0. Len(log) \in Nat /\ token \in Nat /\ call.cur \in Nat /\ DOMAIN reported = 1 .. Len(log)
      /\ token <= Len(log) /\ call.cur <= Len(log) /\ Told(token)
  BY PageFacts DEF TypeInv, CallOK, Heard
<1>1. ASSUME NEW n \in 0 .. Len(log), Told(n), \A p \in 1 .. n : reported'[p] = reported[p]
      PROVE  Told(n)'
  <2>1. ASSUME NEW p \in 1 .. n, Promised(p)' PROVE reported'[p] # None
    <3>1. p \in 1 .. Len(log)
      BY <1>0
    <3>2. Promised(p)
      BY <2>1, <3>1, PromisedBack
    <3> QED
      BY <1>1, <3>2 DEF Told
  <2>2. \A p \in 1 .. n : Promised(p)' => reported'[p] # None
    BY <2>1
  <2> QED
    BY <2>2 DEF Told
<1>2. ASSUME NEW e \in LogType, Logged(e) PROVE Heard'
  <2>1. token' = token /\ reported' = Append(reported, None) /\ call' = call
    BY <1>2 DEF Logged
  <2>2. \A p \in 1 .. Len(log) : reported'[p] = reported[p]
    BY <1>0, <2>1
  <2>3. Told(token)'
    BY <1>0, <1>1, <2>1, <2>2 DEF Told
  <2>4. ASSUME ToToken PROVE Told(call.cur)'
    <3>1. PICK n \in 0 .. Len(log) : n = call.cur /\ Told(n)
      BY <1>0, <2>4 DEF Heard, Told
    <3>2. Told(n)'
      BY <1>1, <2>2, <3>1
    <3> QED
      BY <2>1, <3>1, <3>2 DEF Told
  <2>5. ToToken' = ToToken
    BY <2>1 DEF ToToken
  <2> QED
    BY <2>3, <2>4, <2>5 DEF Heard
<1>3. ASSUME token' = token, reported' = reported,
             \/ ~ToToken' \/ call'.cur = token
             \/ ToToken /\ call'.cur = call.cur
      PROVE  Heard'
  <2>1. Told(token)'
    BY <1>0, <1>1, <1>3 DEF Told
  <2>2. ASSUME ToToken' PROVE Told(call.cur)'
    BY <1>0, <1>1, <1>3, <2>1, <2>2 DEF Told, Heard
  <2> QED
    BY <2>1, <2>2 DEF Heard
<1>4. CASE UNCHANGED call /\ Untold
  BY <1>3, <1>4 DEF Untold, ToToken
<1>5. CASE ToIdle \/ To("list") \/ To("relist") \/ ToBegin \/ ToStart \/ ToPage
  <2>1. token' = token /\ reported' = reported
    BY <1>5 DEF ToIdle, To, ToBegin, ToStart, ToPage, Untold
  <2>2. \/ ~ToToken' \/ call'.cur = token
        \/ ToToken /\ call'.cur = call.cur
    BY <1>5, IdleType, BeginMoves DEF ToToken, ToIdle, ToStart
  <2> QED
    BY <1>3, <2>1, <2>2
<1>6. CASE Again
  <2>1. token' = token /\ reported' = reported /\ call'.pc = call.pc /\ call'.cur = call.cur
    BY <1>6, BeginMoves DEF Again, Untold
  <2> QED
    BY <1>3, <2>1 DEF ToToken
<1>7. CASE Page \/ Parents
  <2>1. token' = token /\ reported' = reported
    BY <1>7, PageMoves, ParentsMoves
  <2>2. call'.pc \in {"page", "parents", "convert"}
    BY <1>7, PageMoves, ParentsMoves
  <2> QED
    BY <1>3, <2>1, <2>2 DEF ToToken
<1>8. CASE Listing
  <2>1. token' = token /\ call'.cur = Len(log) /\ log' = log
    BY <1>8, BeginMoves DEF Listing, account
  <2>2. ASSUME NEW p \in 1 .. Len(log), Promised(p)' PROVE reported'[p] # None
    <3>1. p \notin lapsed' /\ TruePath(log[p].tree, log[p].id) # None
      BY <2>1, <2>2 DEF Promised
    <3>2. reported'[p] = IF reported[p] = None THEN Listed(p) ELSE reported[p]
      BY <1>8 DEF Listing
    <3>3. reported[p] = None => Listed(p) = TruePath(log[p].tree, log[p].id)
      BY <1>8, <3>1 DEF Listing
    <3> QED
      BY <3>1, <3>2, <3>3
  <2>3. \A n \in 0 .. Len(log) : \A p \in 1 .. n : Promised(p)' => reported'[p] # None
    BY <1>0, <2>2
  <2>4. Told(token)' /\ Told(call.cur)'
    BY <1>0, <2>1, <2>3 DEF Told
  <2> QED
    BY <2>4 DEF Heard
<1>9. CASE Start
  <2>1. token' = Len(log) /\ reported' = reported /\ call' = Idle /\ ToToken
        /\ lapsed' = lapsed \cup ((call.cur + 1) .. Len(log))
    BY <1>9 DEF Start, ToToken
  <2>2. ASSUME NEW p \in 1 .. Len(log), Promised(p)' PROVE reported'[p] # None
    <3>1. p \notin lapsed' /\ Promised(p)
      BY <2>2, PromisedBack DEF Promised
    <3>2. p \in 1 .. call.cur
      BY <1>0, <2>1, <3>1
    <3> QED
      BY <2>1, <3>1, <3>2 DEF Heard, Told
  <2>3. Told(token)'
    BY <2>1, <2>2 DEF Told
  <2>4. ~ToToken'
    BY <2>1, IdleType DEF ToToken
  <2> QED
    BY <2>3, <2>4 DEF Heard
<1>10. CASE Return
  <2>1. token' = call.cur /\ token <= call.cur /\ call.pc = "convert" /\ call' = Idle
    BY <1>10 DEF Return, CallInv, Calling, InCall
  <2>2. \A p \in 1 .. Len(log) : reported'[p] = IF p \in Raw THEN Resolve(log[p]) ELSE reported[p]
    BY <1>10 DEF Return
  <2>3. ASSUME NEW p \in 1 .. call.cur, Promised(p)' PROVE reported'[p] # None
    <3>1. p \in 1 .. Len(log)
      BY <1>0
    <3>2. Promised(p)
      BY <2>3, <3>1, PromisedBack
    <3>3. CASE p \in Raw
      BY <2>1, <2>2, <3>1, <3>2, <3>3, Resolves
    <3>4. CASE p \notin Raw
      <4>1. p \in 1 .. token /\ reported'[p] = reported[p]
        BY <1>0, <2>2, <3>1, <3>4 DEF Raw
      <4> QED
        BY <1>0, <3>2, <4>1 DEF Told
    <3> QED
      BY <3>3, <3>4
  <2>4. Told(token)'
    BY <2>1, <2>3 DEF Told
  <2>5. ~ToToken'
    BY <2>1, IdleType DEF ToToken
  <2> QED
    BY <2>4, <2>5 DEF Heard
<1> QED
  BY <1>2, <1>4, <1>5, <1>6, <1>7, <1>8, <1>9, <1>10, NextCases DEF ClientStep

LEMMA HeardTruly == ASSUME TypeInv, Heard, Truly PROVE FeedComplete
BY PageFacts DEF Heard, Told, Truly, FeedComplete
-----------------------------------------------------------------------------
(* The theorems.                                                           *)

IInv == TypeInv /\ LogInv /\ CallInv /\ Unheard /\ Heard /\ Truly

LEMMA IInvInit == Init => IInv
<1> SUFFICES ASSUME Init PROVE IInv
  OBVIOUS
<1>1. TypeInv
  BY TypeInvInit
<1>2. log = <<>> /\ token = 0 /\ call = Idle /\ Len(log) = 0
  BY DEF Init
<1>3. LogInv
  BY <1>2 DEF LogInv, LastTree, Continuous, Placed
<1>4. CallInv
  BY <1>2, IdleType DEF CallInv, Calling, InCall, ToToken, Seen, Found
<1>5. Unheard /\ Heard /\ Truly
  BY <1>2, IdleType DEF Unheard, Heard, Told, ToToken, Truly
<1> QED
  BY <1>1, <1>3, <1>4, <1>5 DEF IInv

LEMMA IInvStep == IInv /\ [Next]_vars => IInv'
BY TypeInvStep, LogInvStep, CallInvStep, UnheardStep, HeardStep, TrulyStep DEF IInv

\* Every state of every run satisfies the inductive invariant.
THEOREM Inductive == Spec => []IInv
BY IInvInit, IInvStep, PTL DEF Spec

\* The account's state and the call's locals (page token, id_map) have their types, and a token never points beyond the log.
THEOREM TypeCorrect == Spec => []TypeOK
<1>1. IInv => TypeOK
  BY DEF IInv, TypeInv, AccountOK, CallOK, FlagsOK, CallType, Pcs, LogType, OptPlaces, TypeOK
<1> QED
  BY <1>1, Inductive, PTL

\* changes_since, get_start_token and the listing before it: whatever requests and
\* listings fail, tokens are refused or forgotten and files move between two
\* requests, every promised change up to the stored token was reported under the
\* item's path.
THEOREM FeedIsComplete == Spec => []FeedComplete
<1>1. IInv => FeedComplete
  BY HeardTruly DEF IInv
<1> QED
  BY <1>1, Inductive, PTL
-----------------------------------------------------------------------------
(* The refinement.                                                         *)

LEMMA FeedInit == Init => Feed!Init
<1> SUFFICES ASSUME Init PROVE Feed!Init
  OBVIOUS
<1>1. log = <<>> /\ token = 0 /\ Len(log) = 0
  BY DEF Init
<1>2. {p \in 1 .. Len(log) : reported[p] # None} = {}
  BY <1>1
<1> QED
  BY <1>1, <1>2 DEF Feed!Init

LEMMA FeedNext == IInv /\ [Next]_vars => [Feed!Next]_(Feed!vars)
<1> SUFFICES ASSUME IInv, [Next]_vars PROVE [Feed!Next]_(Feed!vars)
  OBVIOUS
<1> DEFINE told == {p \in 1 .. Len(log) : reported[p] # None}
           silent == {p \in 1 .. Len(log) : ~Promised(p)}
<1>0. /\ TypeInv /\ Len(log) \in Nat /\ token \in Nat /\ call.cur \in Nat /\ token <= Len(log)
      /\ call.cur <= Len(log) /\ DOMAIN reported = 1 .. Len(log)
      /\ Raw \in SUBSET (1 .. Len(log))
  BY PageFacts DEF IInv, TypeInv, CallOK
<1>1. ASSUME NEW e \in LogType, Logged(e) PROVE Feed!Log
  <2>1. Len(log') = Len(log) + 1
    BY <1>0, <1>1, LogFacts
  <2>2. token' = token /\ reported' = Append(reported, None)
    BY <1>1 DEF Logged
  <2>3. (\A p \in 1 .. Len(log) : reported'[p] = reported[p]) /\ reported'[Len(log) + 1] = None
    BY <1>0, <2>2
  <2>4. {p \in 1 .. Len(log') : reported'[p] # None} = told
    BY <1>0, <2>1, <2>3
  <2> QED
    BY <2>1, <2>2, <2>4 DEF Feed!Log
<1>2. CASE log' = log /\ Silent
  <2>1. token' = token /\ reported' = reported
    BY <1>2, SilentFacts
  <2> QED
    BY <1>2, <2>1 DEF Feed!vars
<1>3. CASE Start
  <2>1. token' = Len(log) /\ log' = log /\ reported' = reported /\ call.pc = "start"
        /\ lapsed' = lapsed \cup ((call.cur + 1) .. Len(log))
    BY <1>3 DEF Start, account
  <2>2. ASSUME NEW p \in (token + 1) .. Len(log), Promised(p)' PROVE p \in told
    <3>1. p \in 1 .. Len(log) /\ p \notin lapsed'
      BY <1>0, <2>2 DEF Promised
    <3>2. Promised(p) /\ p \in 1 .. call.cur
      BY <1>0, <2>1, <2>2, <3>1, PromisedBack DEF IInv
    <3> QED
      BY <2>1, <3>1, <3>2 DEF IInv, Heard, ToToken, Told
  <2>3. ((token + 1) .. Len(log)) \ {p \in 1 .. Len(log') : ~Promised(p)'} \subseteq told
    BY <1>0, <2>1, <2>2
  <2>4. {p \in 1 .. Len(log') : reported'[p] # None} = told
    BY <2>1
  <2> HIDE DEF told
  <2>5. Feed!Restart
    BY <2>1, <2>3, <2>4 DEF Feed!Restart, told
  <2> QED
    BY <2>5 DEF Feed!Next
<1>5. CASE Listing
  <2>1. token' = token /\ log' = log
        /\ \A p \in 1 .. Len(log) : reported'[p] = IF reported[p] = None THEN Listed(p) ELSE reported[p]
    BY <1>5 DEF Listing, account
  <2> DEFINE S == {p \in 1 .. Len(log) : reported'[p] # None}
  <2>2. S = told \cup S /\ S \in SUBSET (1 .. Len(log))
    BY <2>1
  <2>3. Heard' /\ call'.cur = Len(log) /\ call'.pc = "begin"
    BY <1>0, <1>5, HeardStep, BeginMoves DEF IInv
  <2>4. \A p \in 1 .. Len(log) : Promised(p)' => p \in S
    BY <2>3 DEF Heard, ToToken, Told
  <2>5. (1 .. Len(log)) \ {p \in 1 .. Len(log') : ~Promised(p)'} \subseteq S
    BY <2>1, <2>4
  <2>6. {p \in 1 .. Len(log') : reported'[p] # None} = S
    BY <2>1
  <2> HIDE DEF told, S
  <2>7. \E T \in SUBSET (1 .. Len(log)) :
          /\ {p \in 1 .. Len(log') : reported'[p] # None} = told \cup T
          /\ (1 .. Len(log)) \ {p \in 1 .. Len(log') : ~Promised(p)'}
               \subseteq {p \in 1 .. Len(log') : reported'[p] # None}
    BY <2>2, <2>5, <2>6
  <2>8. Feed!Relist
    BY <2>1, <2>7 DEF Feed!Relist, told
  <2> QED
    BY <2>8 DEF Feed!Next
<1>4. CASE Return
  <2>1. token' = call.cur /\ log' = log /\ token <= call.cur /\ call.pc = "convert"
    BY <1>4 DEF Return, account, IInv, CallInv, Calling, InCall
  <2>2. \A p \in 1 .. Len(log) : reported'[p] = IF p \in Raw THEN Resolve(log[p]) ELSE reported[p]
    BY <1>4 DEF Return
  <2> DEFINE S == {p \in Raw : Resolve(log[p]) # None}
             n == call.cur
  <2>3. \A p \in Raw : reported[p] = None
    <3>1. stored = "token"
      BY <2>1 DEF IInv, CallInv, Calling
    <3> QED
      BY <1>0, <3>1 DEF IInv, Unheard, Raw
  <2>4. {p \in 1 .. Len(log') : reported'[p] # None} = told \cup S
    BY <1>0, <2>1, <2>2, <2>3
  <2>5. S \subseteq (token + 1) .. n /\ S \in SUBSET (1 .. Len(log)) /\ n \in token .. Len(log)
    BY <1>0, <2>1 DEF Raw
  <2>6. ((token + 1) .. n) \ silent \subseteq S
    <3> SUFFICES ASSUME NEW p \in Raw, p \notin silent PROVE p \in S
      BY DEF Raw
    <3>1. Promised(p)
      BY <1>0
    <3> QED
      BY <1>0, <2>1, <3>1, Resolves DEF IInv
  <2> HIDE DEF S, silent, told, n
  <2>7. \E m \in token .. Len(log), T \in SUBSET (1 .. Len(log)) :
          /\ T \subseteq (token + 1) .. m
          /\ ((token + 1) .. m) \ silent \subseteq T
          /\ token' = m
          /\ {p \in 1 .. Len(log') : reported'[p] # None} = told \cup T
    BY <2>1, <2>4, <2>5, <2>6 DEF n
  <2>8. Feed!Answer
    BY <2>1, <2>7 DEF Feed!Answer, silent, told
  <2> QED
    BY <2>8 DEF Feed!Next
<1> QED
  BY <1>0, <1>1, <1>2, <1>3, <1>4, <1>5, StepCases DEF Feed!Next

\* The requests of both providers implement the feed the poller takes them for: a
\* call tells, in one step, of every promised change between the old token and the
\* new one, a call that is cut off tells nothing and moves nothing, and a start
\* token passes over no promised change that no listing told of.
THEOREM RequestsImplementFeed == Spec => ImplementsFeed
<1>1. Init => Feed!Init
  BY FeedInit
<1>2. IInv /\ [Next]_vars => [Feed!Next]_(Feed!vars)
  BY FeedNext
<1>3. ImplementsFeed <=> Feed!Init /\ [][Feed!Next]_(Feed!vars)
  BY DEF ImplementsFeed, Feed!Spec
<1> QED
  BY <1>1, <1>2, <1>3, Inductive, PTL DEF Spec
=============================================================================
