--------------------------- MODULE Poller_proofs ---------------------------
(***************************************************************************)
(* Proofs about Poller: the types, the back-off of the poll loop, that the *)
(* poller keeps rows with local changes and sweeps no listed file, and     *)
(* that no delta poll skips a change.                                      *)
(*                                                                         *)
(* Steps outside the poller leave its locals alone and change some items   *)
(* of the cloud, whose sequence number is then newer than any the poller   *)
(* has, or move items with their directory, which are then apart; so what  *)
(* the poller knows of the other items stays true (Outside).               *)
(***************************************************************************)
EXTENDS Poller, FiniteSetTheorems, TLAPS
-----------------------------------------------------------------------------
(* The cloud.                                                              *)

ItemType == [path : Paths \cup {None}, ver : Nat, seq : Nat, gone : BOOLEAN]
Used(i)  == remote[i].path # None

CloudTypes == remote \in [Items -> ItemType] /\ clock \in Nat

\* Items have been made before they are there, and change no later than now.
CloudDates ==
  \A i \in Items : /\ ~remote[i].gone => Used(i)
                   /\ ~Used(i) => remote[i].seq = 0
                   /\ remote[i].seq <= clock /\ remote[i].ver <= clock

\* One item at a path at a time; the one that is there came last, unless it came
\* with its directory.
CloudPaths ==
  \A i, j \in Items : ~remote[j].gone /\ remote[i].path = remote[j].path =>
    IF remote[i].gone THEN remote[j].seq > remote[i].seq \/ j \in apart ELSE i = j

\* A content belongs to one item.
CloudVers ==
  \A i, j \in Items : Used(i) /\ Used(j) /\ remote[i].ver = remote[j].ver => i = j

CloudInv == CloudTypes /\ CloudDates /\ CloudPaths /\ CloudVers

\* An item is made, edited or moved.
CloudPut(i, p, v) ==
  /\ i \in Items /\ p \in Paths /\ apart \ {i} \subseteq apart'
  /\ v = clock + 1 \/ (v = remote[i].ver /\ Used(i))
  /\ \A j \in LiveItems : remote[j].path = p => j = i
  /\ clock' = clock + 1
  /\ \A j \in Items : remote'[j] = IF j = i THEN Item(p, v, clock + 1, FALSE) ELSE remote[j]
  /\ remote' \in [Items -> ItemType]

\* Items are deleted.
CloudCut(S) ==
  /\ S \subseteq LiveItems /\ apart \ S \subseteq apart'
  /\ clock' = clock + 1
  /\ \A j \in Items : remote'[j] = IF j \in S THEN Item(remote[j].path, remote[j].ver, clock + 1, TRUE)
                                   ELSE remote[j]
  /\ remote' \in [Items -> ItemType]

LEMMA NoneFacts == None \notin Paths /\ None \notin Items /\ None \notin Nat /\ Dirs \subseteq Paths
BY PollerAssumption

LEMMA PutKeeps ==
  ASSUME CloudInv, NEW i, NEW p, NEW v, CloudPut(i, p, v) PROVE CloudInv'
<1>0. /\ remote \in [Items -> ItemType] /\ clock \in Nat /\ clock' = clock + 1
      /\ i \in Items /\ p \in Paths /\ p # None
      /\ v \in Nat /\ v <= clock + 1
  BY NoneFacts DEF CloudInv, CloudTypes, CloudDates, CloudPut, ItemType
<1>1. /\ remote'[i].path = p /\ remote'[i].ver = v /\ remote'[i].seq = clock + 1 /\ ~remote'[i].gone
      /\ \A j \in Items \ {i} : remote'[j] = remote[j]
  BY DEF CloudPut, Item
<1>2. CloudTypes'
  BY <1>0 DEF CloudTypes, CloudPut
<1>3. CloudDates'
  <2>1. ASSUME NEW j \in Items
        PROVE  /\ ~remote'[j].gone => remote'[j].path # None
               /\ remote'[j].path = None => remote'[j].seq = 0
               /\ remote'[j].seq <= clock' /\ remote'[j].ver <= clock'
    <3>1. remote[j].seq <= clock /\ remote[j].ver <= clock /\ remote[j] \in ItemType
      BY <1>0 DEF CloudInv, CloudDates
    <3>2. CASE j = i
      BY <1>0, <1>1, <3>2
    <3>3. CASE j # i
      BY <1>0, <1>1, <3>1, <3>3 DEF CloudInv, CloudDates, Used, ItemType
    <3> QED
      BY <3>2, <3>3
  <2> QED
    BY <2>1 DEF CloudDates, Used
<1>4. CloudPaths'
  <2> SUFFICES ASSUME NEW j \in Items, NEW k \in Items, ~remote'[k].gone,
                      remote'[j].path = remote'[k].path
               PROVE  IF remote'[j].gone THEN remote'[k].seq > remote'[j].seq \/ k \in apart' ELSE j = k
    BY DEF CloudPaths
  <2>1. CASE k = i /\ j # i
    <3>1. remote[j].seq <= clock /\ remote[j].seq \in Nat
      BY <1>0 DEF CloudInv, CloudDates, ItemType
    <3>2. ~remote[j].gone => j = i
      BY <1>1, <2>1 DEF CloudPut, LiveItems
    <3> QED
      BY <1>0, <1>1, <2>1, <3>1, <3>2
  <2>2. CASE j = i /\ k # i
    BY <1>1, <2>2 DEF CloudPut, LiveItems
  <2>3. CASE j # i /\ k # i
    BY <1>1, <2>3 DEF CloudInv, CloudPaths, CloudPut
  <2>4. CASE j = i /\ k = i
    BY <1>1, <2>4
  <2> QED
    BY <2>1, <2>2, <2>3, <2>4
<1>5. CloudVers'
  <2> SUFFICES ASSUME NEW j \in Items, NEW k \in Items, remote'[j].path # None,
                      remote'[k].path # None, remote'[j].ver = remote'[k].ver
               PROVE  j = k
    BY DEF CloudVers, Used
  <2>1. ASSUME NEW m \in Items, m # i, remote'[m].path # None PROVE remote'[m].ver # v
    <3>1. remote[m].ver <= clock /\ remote[m].ver \in Nat /\ Used(m) /\ remote'[m] = remote[m]
      BY <1>0, <1>1, <2>1 DEF CloudInv, CloudDates, Used, ItemType
    <3>2. v = clock + 1 \/ (v = remote[i].ver /\ Used(i))
      BY DEF CloudPut
    <3> QED
      BY <1>0, <2>1, <3>1, <3>2 DEF CloudInv, CloudVers
  <2>2. CASE j # i /\ k # i
    BY <1>1, <2>2 DEF CloudInv, CloudVers, Used
  <2> QED
    BY <1>1, <2>1, <2>2
<1> QED
  BY <1>2, <1>3, <1>4, <1>5 DEF CloudInv

LEMMA CutKeeps ==
  ASSUME CloudInv, NEW S, CloudCut(S) PROVE CloudInv'
<1>0. /\ remote \in [Items -> ItemType] /\ clock \in Nat /\ clock' = clock + 1
      /\ S \subseteq LiveItems /\ S \subseteq Items
  BY DEF CloudInv, CloudTypes, CloudCut, LiveItems
<1>1. \A j \in Items : /\ remote'[j].path = remote[j].path /\ remote'[j].ver = remote[j].ver
                       /\ j \in S => remote'[j].gone /\ ~remote[j].gone /\ remote'[j].seq = clock + 1
                       /\ j \notin S => remote'[j] = remote[j]
  BY DEF CloudCut, Item, LiveItems
<1>2. CloudTypes'
  BY <1>0 DEF CloudTypes, CloudCut
<1>3. CloudDates'
  <2>1. ASSUME NEW j \in Items
        PROVE  /\ ~remote'[j].gone => remote'[j].path # None
               /\ remote'[j].path = None => remote'[j].seq = 0
               /\ remote'[j].seq <= clock' /\ remote'[j].ver <= clock'
    <3>1. /\ remote[j].seq <= clock /\ remote[j].ver <= clock /\ remote[j] \in ItemType
          /\ ~remote[j].gone => remote[j].path # None
          /\ remote[j].path = None => remote[j].seq = 0
      BY <1>0 DEF CloudInv, CloudDates, Used
    <3> QED
      BY <1>0, <1>1, <3>1 DEF ItemType
  <2> QED
    BY <2>1 DEF CloudDates, Used
<1>4. CloudPaths'
  <2> SUFFICES ASSUME NEW j \in Items, NEW k \in Items, ~remote'[k].gone,
                      remote'[j].path = remote'[k].path
               PROVE  IF remote'[j].gone THEN remote'[k].seq > remote'[j].seq \/ k \in apart' ELSE j = k
    BY DEF CloudPaths
  <2>1. k \notin S /\ remote'[k] = remote[k] /\ remote[j].path = remote[k].path
    BY <1>1
  <2>2. IF remote[j].gone THEN remote[k].seq > remote[j].seq \/ k \in apart ELSE j = k
    BY <2>1 DEF CloudInv, CloudPaths
  <2> QED
    BY <1>1, <2>1, <2>2 DEF CloudCut
<1>5. CloudVers'
  BY <1>1 DEF CloudInv, CloudVers, Used
<1> QED
  BY <1>2, <1>3, <1>4, <1>5 DEF CloudInv

LEMMA TakenBy ==
  ASSUME CloudInv, NEW p, Taken(p)
  PROVE  ItemAt(p) \in LiveItems /\ remote[ItemAt(p)].path = p
         /\ \A j \in LiveItems : remote[j].path = p => j = ItemAt(p)
<1>1. ItemAt(p) \in LiveItems /\ remote[ItemAt(p)].path = p
  BY DEF Taken, ItemAt
<1> QED
  BY <1>1 DEF CloudInv, CloudPaths, LiveItems
-----------------------------------------------------------------------------
(* The index.                                                              *)

IndexTypes ==
  /\ mode \in Modes /\ rows \in [Inodes -> RowType] /\ next \in 1 .. (MaxInode + 1)
  /\ \A n \in Live : n < next /\ rows[n].parent < next

\* The keys of file_index; a row without an item's id is a conflict copy's.
IndexKeys ==
  /\ \A m, n \in Live : rows[m].path = rows[n].path => m = n
  /\ \A m, n \in Live : rows[m].item = rows[n].item /\ rows[m].item # None => m = n
  /\ \A n \in Live : /\ rows[n].path \in Paths /\ rows[n].etag \in 0 .. clock
                     /\ mode = "delta" /\ rows[n].item = None => rows[n].path \in ConflictNs

IndexInv == IndexTypes /\ IndexKeys

\* With delta, a row with an item's id has no other item's content, unless they are
\* mixed.
OwnRow(r) ==
  mode = "delta" /\ r.item # None =>
    \A j \in Items : j # r.item /\ Used(j) /\ remote[j].ver = r.etag => r.item \in mixed /\ j \in mixed
OwnRows == \A n \in Live : OwnRow(rows[n])

\* Items of which the poller is to know.
Told == Items \ (apart \cup mixed)

\* The index shows the item as it is.
Cur(i) ==
  IF remote[i].gone THEN \A n \in Live : rows[n].item = i => ~Clean(n)
  ELSE \/ remote[i].path \in Skipped
       \/ \E n \in Live : /\ rows[n].item = i /\ rows[n].path = remote[i].path
                          /\ rows[n].etag = remote[i].ver \/ ~Clean(n)

\* An item moved with its directory.
Carried(i) ==
  /\ i \in apart' /\ Used(i) /\ Used(i)'
  /\ remote'[i].ver = remote[i].ver /\ remote'[i].seq = remote[i].seq /\ remote'[i].gone = remote[i].gone

\* A step that is not the poller's, and changes the items S of the cloud.
Outside(S) ==
  /\ S \subseteq Items
  /\ UNCHANGED <<mode, poll, token>>
  /\ clock' \in {clock, clock + 1} /\ next <= next'
  /\ \A i \in Items \ S : remote'[i] = remote[i] \/ Carried(i)
  /\ \A i \in S : remote'[i].seq = clock + 1 /\ clock' = clock + 1
  /\ \A i \in S : remote'[i].ver = clock + 1 \/ (remote'[i].ver = remote[i].ver /\ Used(i))
  /\ apart \ S \subseteq apart' /\ mixed \subseteq mixed'
  /\ InGap => S \subseteq apart' \cup mixed'
  /\ \A i \in Items \ S : mode = "delta" /\ i \in Told' /\ Cur(i) => Cur(i)'
  /\ \A n \in Live' : \/ rows'[n].path \in ConflictNs
                      \/ n \in Live /\ rows'[n].path = rows[n].path /\ rows'[n].gen = rows[n].gen

LEMMA LiveFacts ==
  ASSUME IndexInv, NEW n \in Live
  PROVE  /\ n \in Inodes /\ n \in Nat /\ rows[n] # NoRow /\ rows[n] \in RowType
         /\ rows[n].path \in Paths /\ rows[n].path # None /\ rows[n].etag \in Nat
BY NoneFacts DEF IndexInv, IndexTypes, IndexKeys, Live, Inodes

\* A record with a path is a row.
LEMMA PathLives == ASSUME NEW r, r.path # None PROVE r # NoRow
BY DEF NoRow

\* What a step leaves of the ownership of a record's content.
LEMMA OwnStays ==
  ASSUME CloudInv, NEW S, Outside(S), NEW r, r.etag \in 0 .. clock, OwnRow(r) PROVE OwnRow(r)'
<1> SUFFICES ASSUME mode = "delta", r.item # None, NEW j \in Items, j # r.item, Used(j)', remote'[j].ver = r.etag
             PROVE  r.item \in mixed' /\ j \in mixed'
  BY DEF OwnRow, Outside
<1>0. clock \in Nat /\ mixed \subseteq mixed'
  BY DEF CloudInv, CloudTypes, Outside
<1>1. Used(j) /\ remote[j].ver = r.etag
  <2>1. CASE j \in S
    BY <1>0, <2>1 DEF Outside
  <2>2. CASE j \notin S
    BY <2>2 DEF Outside, Carried, Used
  <2> QED
    BY <2>1, <2>2
<1> QED
  BY <1>0, <1>1 DEF OwnRow

\* Steps that leave the index alone.
LEMMA CloudOnly ==
  ASSUME CloudInv, IndexInv, OwnRows, NEW S, S \subseteq Items,
         UNCHANGED <<mode, poll, token, rows, next, mixed>>,
         clock' \in {clock, clock + 1}, \A i \in Items \ S : remote'[i] = remote[i] \/ Carried(i),
         \A i \in S : remote'[i].seq = clock + 1 /\ clock' = clock + 1,
         \A i \in S : remote'[i].ver = clock + 1 \/ (remote'[i].ver = remote[i].ver /\ Used(i)),
         apart \ S \subseteq apart', InGap => S \subseteq apart'
  PROVE  Outside(S) /\ IndexInv' /\ OwnRows'
<1>1. Live' = Live
  BY DEF Live
<1>2. ASSUME NEW i \in Items \ S, i \in Told', Cur(i) PROVE Cur(i)'
  <2>1. remote'[i] = remote[i]
    BY <1>2 DEF Carried, Told
  <2> QED
    BY <1>1, <1>2, <2>1 DEF Cur, Clean
<1>3. clock \in Nat /\ next \in Nat
  BY DEF CloudInv, CloudTypes, IndexInv, IndexTypes
<1>4. Outside(S)
  BY <1>1, <1>2, <1>3 DEF Outside
<1>5. IndexInv'
  <2>1. IndexTypes'
    BY <1>1 DEF IndexInv, IndexTypes
  <2>2. IndexKeys'
    BY <1>1, <1>3 DEF IndexInv, IndexKeys
  <2> QED
    BY <2>1, <2>2 DEF IndexInv
<1>6. OwnRows'
  <2>1. ASSUME NEW n \in Live PROVE OwnRow(rows[n])'
    <3>1. PICK r : r = rows[n]
      OBVIOUS
    <3>2. r.etag \in 0 .. clock /\ OwnRow(r)
      BY <3>1 DEF IndexInv, IndexKeys, OwnRows
    <3>3. OwnRow(r)'
      BY <1>4, <3>2, OwnStays
    <3> QED
      BY <3>1, <3>3 DEF OwnRow
  <2> QED
    BY <1>1, <2>1 DEF OwnRows
<1> QED
  BY <1>4, <1>5, <1>6

LEMMA PutOutside ==
  ASSUME CloudInv, IndexInv, OwnRows, NEW i, NEW p, NEW v, CloudPut(i, p, v), Known({i}),
         UNCHANGED <<mode, poll, token, rows, next, mixed>>
  PROVE  Outside({i}) /\ CloudInv' /\ IndexInv' /\ OwnRows'
<1>1. /\ i \in Items /\ clock' = clock + 1 /\ clock \in Nat
      /\ \A j \in Items \ {i} : remote'[j] = remote[j]
      /\ remote'[i].seq = clock + 1
      /\ remote'[i].ver = clock + 1 \/ (remote'[i].ver = remote[i].ver /\ Used(i))
  BY DEF CloudPut, Item, CloudInv, CloudTypes
<1> DEFINE S == {i}
<1>2. /\ S \subseteq Items /\ apart \ S \subseteq apart' /\ (InGap => S \subseteq apart')
      /\ \A j \in Items \ S : remote'[j] = remote[j]
      /\ \A j \in S : remote'[j].seq = clock + 1 /\ clock' = clock + 1
      /\ \A j \in S : remote'[j].ver = clock + 1 \/ (remote'[j].ver = remote[j].ver /\ Used(j))
  BY <1>1 DEF Known
<1>3. Outside(S) /\ IndexInv' /\ OwnRows'
  <2> HIDE DEF S
  <2> QED
    BY <1>1, <1>2, CloudOnly
<1>4. CloudInv'
  BY PutKeeps
<1> QED
  BY <1>3, <1>4

LEMMA CutOutside ==
  ASSUME CloudInv, IndexInv, OwnRows, NEW S, CloudCut(S), Known(S),
         UNCHANGED <<mode, poll, token, rows, next, mixed>>
  PROVE  Outside(S) /\ CloudInv' /\ IndexInv' /\ OwnRows'
<1>1. /\ S \subseteq Items /\ clock' = clock + 1 /\ clock \in Nat
      /\ \A j \in Items \ S : remote'[j] = remote[j]
      /\ \A j \in S : remote'[j].seq = clock + 1 /\ remote'[j].ver = remote[j].ver /\ Used(j)
  BY DEF CloudCut, Item, CloudInv, CloudTypes, CloudDates, LiveItems
<1>2. apart \ S \subseteq apart' /\ (InGap => S \subseteq apart')
  BY DEF Known
<1>3. Outside(S) /\ IndexInv' /\ OwnRows'
  BY <1>1, <1>2, CloudOnly
<1>4. CloudInv'
  BY CutKeeps
<1> QED
  BY <1>3, <1>4

\* The actions on the cloud.
LEMMA EditOutside ==
  ASSUME CloudInv, IndexInv, OwnRows, NEW i \in Items, RemoteEdit(i)
  PROVE  Outside({i}) /\ CloudInv' /\ IndexInv' /\ OwnRows'
<1> DEFINE p == remote[i].path
<1>0. remote \in [Items -> ItemType] /\ clock \in Nat /\ i \in LiveItems
  BY DEF CloudInv, CloudTypes, RemoteEdit
<1>1. p \in Paths /\ \A j \in LiveItems : remote[j].path = p => j = i
  BY <1>0 DEF CloudInv, CloudDates, CloudPaths, LiveItems, Used, ItemType
<1>2. /\ clock' = clock + 1 /\ Known({i})
      /\ remote' = [j \in Items |-> IF j \in {i} THEN Item(remote[j].path, clock + 1, clock + 1, FALSE)
                                    ELSE remote[j]]
  BY DEF RemoteEdit, Change
<1>3. CloudPut(i, p, clock + 1)
  <2>1. Item(p, clock + 1, clock + 1, FALSE) \in ItemType
    BY <1>0, <1>1 DEF Item, ItemType
  <2>2. remote' \in [Items -> ItemType]
    BY <1>0, <1>2, <2>1
  <2> QED
    BY <1>0, <1>1, <1>2, <2>2 DEF CloudPut, Known
<1> QED
  BY <1>2, <1>3, PutOutside DEF RemoteEdit, OtherClient, index

LEMMA MoveOutside ==
  ASSUME CloudInv, IndexInv, OwnRows, NEW i \in Items, NEW p \in Paths, RemoteMove(i, p)
  PROVE  Outside({i}) /\ CloudInv' /\ IndexInv' /\ OwnRows'
<1>0. remote \in [Items -> ItemType] /\ clock \in Nat /\ i \in LiveItems /\ ~Taken(p)
  BY DEF CloudInv, CloudTypes, RemoteMove, Free
<1>1. Used(i) /\ (\A j \in LiveItems : remote[j].path # p) /\ remote[i].ver \in Nat
  BY <1>0 DEF CloudInv, CloudDates, LiveItems, Taken, ItemType
<1>2. /\ clock' = clock + 1 /\ Known({i})
      /\ remote' = [j \in Items |-> IF j \in {i} THEN Item(p, remote[j].ver, clock + 1, FALSE)
                                    ELSE remote[j]]
  BY DEF RemoteMove, Change
<1>3. CloudPut(i, p, remote[i].ver)
  <2>1. Item(p, remote[i].ver, clock + 1, FALSE) \in ItemType
    BY <1>0, <1>1 DEF Item, ItemType
  <2>2. remote' \in [Items -> ItemType]
    BY <1>0, <1>2, <2>1
  <2> QED
    BY <1>0, <1>1, <1>2, <2>2 DEF CloudPut, Known
<1> QED
  BY <1>2, <1>3, PutOutside DEF RemoteMove, OtherClient, index

LEMMA CreateOutside ==
  ASSUME CloudInv, IndexInv, OwnRows, NEW i \in Items, NEW p \in Paths, RemoteCreate(i, p)
  PROVE  Outside({i}) /\ CloudInv' /\ IndexInv' /\ OwnRows'
<1>0. remote \in [Items -> ItemType] /\ clock \in Nat /\ ~Taken(p)
  BY DEF CloudInv, CloudTypes, RemoteCreate, Free
<1>1. \A j \in LiveItems : remote[j].path # p
  BY <1>0 DEF Taken
<1>2. /\ clock' = clock + 1 /\ Known({i})
      /\ remote' = [j \in Items |-> IF j \in {i} THEN Item(p, clock + 1, clock + 1, FALSE)
                                    ELSE remote[j]]
  BY DEF RemoteCreate, Change
<1>3. CloudPut(i, p, clock + 1)
  <2>1. Item(p, clock + 1, clock + 1, FALSE) \in ItemType
    BY <1>0 DEF Item, ItemType
  <2>2. remote' \in [Items -> ItemType]
    BY <1>0, <1>2, <2>1
  <2> QED
    BY <1>0, <1>1, <1>2, <2>2 DEF CloudPut, Known
<1> QED
  BY <1>2, <1>3, PutOutside DEF RemoteCreate, OtherClient, index

\* Renaming a directory takes no two paths to one.
LEMMA RebaseInjective ==
  ASSUME NEW x \in Paths, NEW y \in Paths, NEW d \in Dirs, NEW e \in Dirs,
         Rebase[x][d][e] # None, Rebase[y][d][e] = Rebase[x][d][e]
  PROVE  x = y
BY PollerAssumption

\* A directory moves; what it held is carried along.
LEMMA MoveDirOutside ==
  ASSUME CloudInv, IndexInv, OwnRows, NEW i \in Items, NEW p \in Paths, RemoteMoveDir(i, p)
  PROVE  Outside({i}) /\ CloudInv' /\ IndexInv' /\ OwnRows'
<1> DEFINE from  == remote[i].path
           held  == {j \in LiveItems : from \in Above[remote[j].path]}
           to(j) == Rebase[remote[j].path][from][p]
<1>0. /\ remote \in [Items -> ItemType] /\ clock \in Nat /\ i \in LiveItems /\ from \in Dirs /\ p \in Dirs
      /\ ~Taken(p) /\ (\A j \in held : to(j) # None /\ ~Taken(to(j))) /\ clock' = clock + 1
  BY DEF CloudInv, CloudTypes, RemoteMoveDir, Free
<1>1. /\ remote' = [j \in Items |-> CASE j = i -> Item(p, remote[j].ver, clock + 1, FALSE)
                                      [] j \in held -> [remote[j] EXCEPT !.path = to(j)]
                                      [] OTHER -> remote[j]]
      /\ apart' = (IF InGap THEN apart \cup {i} ELSE apart \ {i}) \cup held
      /\ UNCHANGED <<mode, poll, token, rows, next, mixed>>
  BY DEF RemoteMoveDir, OtherClient, index
<1>2. /\ Used(i) /\ i \notin held /\ held \subseteq LiveItems /\ held \subseteq Items
      /\ \A j \in held : Used(j) /\ remote[j].path \in Paths /\ ~remote[j].gone
  <2>1. \A j \in LiveItems : Used(j) /\ remote[j].path \in Paths /\ ~remote[j].gone /\ j \in Items
    BY <1>0 DEF CloudInv, CloudDates, LiveItems, ItemType, Used
  <2>2. from \notin Above[from]
    BY <1>0, NoneFacts, PollerAssumption
  <2> QED
    BY <1>0, <2>1, <2>2
<1>3. ASSUME NEW j \in held
      PROVE  /\ to(j) \in Paths /\ to(j) # p
             /\ \A k \in held : to(k) = to(j) => remote[k].path = remote[j].path
  <2>1. PICK q : q = to(j)
    OBVIOUS
  <2>2. q \in Paths
    BY <1>0, <1>2, <2>1, PollerAssumption
  <2>3. p \in Above[q] /\ q \notin Above[q]
    BY <1>0, <1>2, <2>1, <2>2, NoneFacts, PollerAssumption
  <2>4. ASSUME NEW k \in held, to(k) = q PROVE remote[k].path = remote[j].path
    <3>1. PICK x, y : x = remote[j].path /\ y = remote[k].path
      OBVIOUS
    <3>2. x \in Paths /\ y \in Paths
      BY <1>2, <3>1
    <3>3. Rebase[x][from][p] # None /\ Rebase[y][from][p] = Rebase[x][from][p]
      BY <1>0, <2>1, <2>4, <3>1
    <3>4. from \in Dirs /\ p \in Dirs
      BY <1>0
    <3>5. x = y
      BY <3>2, <3>3, <3>4, RebaseInjective
    <3> QED
      BY <3>1, <3>5
  <2> QED
    BY <2>1, <2>2, <2>3, <2>4
<1>4. ASSUME NEW j \in Items
      PROVE  /\ j = i => remote'[j] = Item(p, remote[i].ver, clock + 1, FALSE)
             /\ j \in held => remote'[j] = [remote[j] EXCEPT !.path = to(j)]
             /\ j # i /\ j \notin held => remote'[j] = remote[j]
  BY <1>1, <1>2
<1>5. /\ remote'[i].path = p /\ remote'[i].ver = remote[i].ver /\ remote'[i].seq = clock + 1 /\ ~remote'[i].gone
      /\ \A j \in held : /\ remote'[j].path = to(j) /\ remote'[j].ver = remote[j].ver
                         /\ remote'[j].seq = remote[j].seq /\ remote'[j].gone = remote[j].gone
  <2>1. ASSUME NEW j \in held PROVE /\ remote'[j].path = to(j) /\ remote'[j].ver = remote[j].ver
                                    /\ remote'[j].seq = remote[j].seq /\ remote'[j].gone = remote[j].gone
    <3>1. remote[j] \in ItemType /\ j \in Items
      BY <1>0, <1>2
    <3>2. remote'[j] = [remote[j] EXCEPT !.path = to(j)]
      BY <1>4, <3>1
    <3> QED
      BY <3>1, <3>2 DEF ItemType
  <2>2. remote'[i] = Item(p, remote[i].ver, clock + 1, FALSE)
    BY <1>4
  <2> HIDE DEF held, to
  <2> QED
    BY <2>1, <2>2 DEF Item
<1>6. /\ held \subseteq apart' /\ apart \ {i} \subseteq apart' /\ (InGap => i \in apart')
      /\ \A j \in Items \ {i} : remote'[j] = remote[j] \/ Carried(j)
  <2>1. held \subseteq apart' /\ apart \ {i} \subseteq apart' /\ (InGap => i \in apart')
    BY <1>1
  <2>2. ASSUME NEW j \in held PROVE Carried(j)
    BY <1>0, <1>2, <1>5, <2>1, <2>2 DEF Carried, Used
  <2> QED
    BY <1>4, <2>1, <2>2
<1> HIDE DEF held, to
<1>7. Outside({i}) /\ IndexInv' /\ OwnRows'
  <2>1. PICK S : S = {i}
    OBVIOUS
  <2>2. /\ S \subseteq Items /\ apart \ S \subseteq apart' /\ (InGap => S \subseteq apart')
        /\ \A j \in Items \ S : remote'[j] = remote[j] \/ Carried(j)
        /\ \A j \in S : remote'[j].seq = clock + 1 /\ clock' = clock + 1
        /\ \A j \in S : remote'[j].ver = clock + 1 \/ (remote'[j].ver = remote[j].ver /\ Used(j))
    BY <1>0, <1>2, <1>5, <1>6, <2>1
  <2>3. Outside(S) /\ IndexInv' /\ OwnRows'
    BY <1>0, <1>1, <2>2, CloudOnly
  <2> QED
    BY <2>1, <2>3
<1>8. CloudTypes'
  <2>1. ASSUME NEW j \in Items PROVE remote'[j] \in ItemType
    <3>1. remote[j] \in ItemType /\ remote[i] \in ItemType
      BY <1>0
    <3>2. CASE j = i
      <4>1. remote'[j] = Item(p, remote[i].ver, clock + 1, FALSE) /\ remote[i].ver \in Nat
        BY <1>4, <3>1, <3>2 DEF ItemType
      <4> QED
        BY <1>0, <4>1 DEF Item, ItemType
    <3>3. CASE j \in held
      BY <1>3, <1>4, <3>1, <3>3 DEF ItemType
    <3>4. CASE j # i /\ j \notin held
      BY <1>4, <3>1, <3>4
    <3> QED
      BY <3>2, <3>3, <3>4
  <2>2. remote' \in [Items -> ItemType]
    <3>1. remote' = [j \in Items |-> remote'[j]]
      BY <1>1
    <3> QED
      BY <2>1, <3>1
  <2> QED
    BY <1>0, <2>2 DEF CloudTypes
<1>9. CloudDates'
  <2>1. ASSUME NEW j \in Items
        PROVE  /\ ~remote'[j].gone => remote'[j].path # None
               /\ remote'[j].path = None => remote'[j].seq = 0
               /\ remote'[j].seq <= clock' /\ remote'[j].ver <= clock'
    <3>1. /\ remote[j].seq <= clock /\ remote[j].ver <= clock /\ remote[j] \in ItemType
          /\ ~remote[j].gone => remote[j].path # None
          /\ remote[j].path = None => remote[j].seq = 0
      BY <1>0 DEF CloudInv, CloudDates, Used
    <3>2. remote[j].seq <= clock + 1 /\ remote[j].ver <= clock + 1
      BY <1>0, <3>1 DEF ItemType
    <3>3. CASE j = i
      BY <1>0, <1>5, <3>2, <3>3, NoneFacts
    <3>4. CASE j \in held
      BY <1>0, <1>5, <3>2, <3>4
    <3>5. CASE j # i /\ j \notin held
      BY <1>0, <1>4, <3>1, <3>2, <3>5
    <3> QED
      BY <3>3, <3>4, <3>5
  <2> QED
    BY <2>1 DEF CloudDates, Used
<1>10. CloudPaths'
  <2> SUFFICES ASSUME NEW j \in Items, NEW k \in Items, ~remote'[k].gone,
                      remote'[j].path = remote'[k].path
               PROVE  IF remote'[j].gone THEN remote'[k].seq > remote'[j].seq \/ k \in apart' ELSE j = k
    BY DEF CloudPaths
  <2>0. \A m \in Items : ~remote[m].gone => remote[m].path # p /\ \A n \in held : remote[m].path # to(n)
    BY <1>0 DEF Taken, LiveItems
  <2>1. CASE k = i
    <3>1. CASE j # i /\ j \notin held
      <4>1. remote'[j] = remote[j] /\ remote[j].path = p /\ remote[j].seq \in Nat /\ remote[j].seq <= clock
        BY <1>0, <1>4, <1>5, <2>1, <3>1 DEF CloudInv, CloudDates, ItemType
      <4>2. remote[j].gone
        BY <2>0, <4>1
      <4> QED
        BY <1>0, <1>5, <2>1, <4>1, <4>2
    <3>2. j \notin held
      BY <1>3, <1>5, <2>1
    <3> QED
      BY <1>5, <2>1, <3>1, <3>2
  <2>2. CASE k \in held
    <3>0. k \in apart'
      BY <1>6, <2>2
    <3>1. CASE j \in held
      <4>1. remote[j].path = remote[k].path
        BY <1>3, <1>5, <2>2, <3>1
      <4>2. j = k
        BY <1>2, <2>2, <3>1, <4>1 DEF CloudInv, CloudPaths
      <4> QED
        BY <1>2, <1>5, <2>2, <4>2
    <3>2. CASE j = i
      BY <1>3, <1>5, <2>2, <3>2
    <3>3. CASE j # i /\ j \notin held
      <4>1. remote'[j] = remote[j] /\ remote[j].path = to(k)
        BY <1>4, <1>5, <2>2, <3>3
      <4>2. remote[j].gone
        BY <2>0, <2>2, <4>1
      <4> QED
        BY <3>0, <4>1, <4>2
    <3> QED
      BY <3>1, <3>2, <3>3
  <2>3. CASE k # i /\ k \notin held
    <3>0. remote'[k] = remote[k] /\ ~remote[k].gone
      BY <1>4, <2>3
    <3>1. j # i /\ j \notin held
      BY <1>5, <2>0, <3>0
    <3>2. remote'[j] = remote[j]
      BY <1>4, <3>1
    <3>3. IF remote[j].gone THEN remote[k].seq > remote[j].seq \/ k \in apart ELSE j = k
      BY <3>0, <3>2 DEF CloudInv, CloudPaths
    <3> QED
      BY <1>6, <2>3, <3>0, <3>2, <3>3
  <2> QED
    BY <2>1, <2>2, <2>3
<1>11. CloudVers'
  <2>1. \A j \in Items : remote'[j].ver = remote[j].ver /\ (remote'[j].path # None => Used(j))
    BY <1>2, <1>4, <1>5 DEF Used
  <2> QED
    BY <2>1 DEF CloudInv, CloudVers, Used
<1> QED
  BY <1>7, <1>8, <1>9, <1>10, <1>11 DEF CloudInv

LEMMA DeleteCuts ==
  ASSUME CloudInv, NEW S \in SUBSET LiveItems, Delete(S) PROVE CloudCut(S) /\ Known(S)
<1>0. remote \in [Items -> ItemType] /\ clock \in Nat
  BY DEF CloudInv, CloudTypes
<1>1. /\ clock' = clock + 1 /\ Known(S)
      /\ remote' = [j \in Items |-> IF j \in S THEN Item(remote[j].path, remote[j].ver, clock + 1, TRUE)
                                    ELSE remote[j]]
  BY DEF Delete, Change
<1>2. \A j \in Items : Item(remote[j].path, remote[j].ver, clock + 1, TRUE) \in ItemType
  BY <1>0 DEF Item, ItemType
<1>3. remote' \in [Items -> ItemType]
  BY <1>0, <1>1, <1>2
<1> QED
  BY <1>1, <1>3 DEF CloudCut, Known

LEMMA RemoteDeleteOutside ==
  ASSUME CloudInv, IndexInv, OwnRows, NEW i \in Items, RemoteDelete(i)
  PROVE  (\E S : Outside(S)) /\ CloudInv' /\ IndexInv' /\ OwnRows'
<1> DEFINE S == {j \in LiveItems : Under(remote[j].path, remote[i].path)}
<1>1. Delete(S) /\ S \in SUBSET LiveItems
  BY DEF RemoteDelete
<1> HIDE DEF S
<1>2. CloudCut(S) /\ Known(S)
  BY <1>1, DeleteCuts
<1>3. UNCHANGED <<mode, poll, token, rows, next, mixed>>
  BY DEF RemoteDelete, OtherClient, index
<1> QED
  BY <1>2, <1>3, CutOutside
-----------------------------------------------------------------------------
(* The local side.                                                         *)

\* Steps that change nothing but tombstones and the like.
LEMMA QuietOutside ==
  ASSUME CloudInv, IndexInv, OwnRows, UNCHANGED <<mode, poll, token, rows, next, mixed>>,
         clock' \in {clock, clock + 1}, remote' = remote, apart' = apart
  PROVE  Outside({}) /\ CloudInv' /\ IndexInv' /\ OwnRows'
<1>1. Outside({}) /\ IndexInv' /\ OwnRows'
  <2>1. PICK S : S = {}
    OBVIOUS
  <2>2. /\ S \subseteq Items /\ apart \ S \subseteq apart' /\ (InGap => S \subseteq apart')
        /\ \A j \in Items \ S : remote'[j] = remote[j]
        /\ \A j \in S : remote'[j].seq = clock + 1 /\ clock' = clock + 1
        /\ \A j \in S : remote'[j].ver = clock + 1 \/ (remote'[j].ver = remote[j].ver /\ Used(j))
    BY <2>1
  <2>3. Outside(S) /\ IndexInv' /\ OwnRows'
    BY <2>2, CloudOnly
  <2> QED
    BY <2>1, <2>3
<1>2. CloudTypes'
  BY DEF CloudInv, CloudTypes
<1>3. CloudDates'
  BY DEF CloudInv, CloudTypes, CloudDates, Used, ItemType
<1>4. CloudPaths' /\ CloudVers'
  BY DEF CloudInv, CloudPaths, CloudVers, Used
<1> QED
  BY <1>1, <1>2, <1>3, <1>4 DEF CloudInv

\* A row gets another ETag or status.
Touched(n, e, s) ==
  /\ rows' \in [Inodes -> RowType]
  /\ \A m \in Inodes \ {n} : rows'[m] = rows[m]
  /\ rows'[n].path = rows[n].path /\ rows'[n].parent = rows[n].parent
  /\ rows'[n].item = rows[n].item /\ rows'[n].gen = rows[n].gen
  /\ rows'[n].etag = e /\ rows'[n].status = s

LEMMA StatusTouches ==
  ASSUME IndexInv, NEW n \in Live, NEW s \in Statuses, rows' = [rows EXCEPT ![n].status = s]
  PROVE  Touched(n, rows[n].etag, s)
<1>1. n \in Inodes /\ rows \in [Inodes -> RowType]
  BY DEF Live, IndexInv, IndexTypes
<1> QED
  BY <1>1 DEF Touched, RowType

LEMMA EtagTouches ==
  ASSUME IndexInv, NEW n \in Live, NEW e \in Nat,
         rows' = [rows EXCEPT ![n].status = "cached", ![n].etag = e]
  PROVE  Touched(n, e, "cached")
<1>1. n \in Inodes /\ rows \in [Inodes -> RowType]
  BY DEF Live, IndexInv, IndexTypes
<1> QED
  BY <1>1 DEF Touched, RowType, Statuses

LEMMA TouchKeeps ==
  ASSUME CloudInv, IndexInv, NEW n \in Live, NEW e, NEW s, Touched(n, e, s), mode' = mode, next' = next,
         clock' \in {clock, clock + 1}, e \in 0 .. clock'
  PROVE  Live' = Live /\ IndexInv'
<1>0. n \in Inodes /\ clock \in Nat
  BY DEF Live, CloudInv, CloudTypes
<1>1. /\ \A m \in Inodes : /\ rows'[m].path = rows[m].path /\ rows'[m].item = rows[m].item
                           /\ rows'[m].parent = rows[m].parent
      /\ \A m \in Inodes \ {n} : rows'[m] = rows[m]
  BY DEF Touched
<1>2. rows'[n] # NoRow
  <2>1. rows'[n].path # None
    BY <1>0, <1>1, LiveFacts
  <2> QED
    BY <2>1 DEF NoRow
<1>3. Live' = Live
  BY <1>0, <1>1, <1>2 DEF Live
<1>4. IndexTypes'
  BY <1>1, <1>3 DEF IndexInv, IndexTypes, Touched, Live
<1>5. IndexKeys'
  <2>1. ASSUME NEW m \in Live PROVE rows'[m].etag \in 0 .. clock'
    BY <1>0, <1>1 DEF IndexInv, IndexKeys, Touched, Live
  <2> QED
    BY <1>1, <1>3, <2>1 DEF IndexInv, IndexKeys, Live
<1> QED
  BY <1>3, <1>4, <1>5 DEF IndexInv

\* The contents of the other rows are their own as before.
LEMMA TouchOwns ==
  ASSUME CloudInv, IndexInv, OwnRows, NEW n \in Live, NEW e, NEW s, Touched(n, e, s), NEW S, Outside(S),
         Live' = Live, OwnRow(rows[n])'
  PROVE  OwnRows'
<1>1. ASSUME NEW m \in Live PROVE OwnRow(rows[m])'
  <2>1. CASE m = n
    BY <2>1
  <2>2. CASE m # n
    <3>1. PICK r : r = rows[m]
      OBVIOUS
    <3>2. r.etag \in 0 .. clock /\ OwnRow(r)
      BY <3>1 DEF IndexInv, IndexKeys, OwnRows
    <3>3. OwnRow(r)'
      BY <3>2, OwnStays
    <3>4. rows'[m] = r
      BY <2>2, <3>1 DEF Touched, Live
    <3> QED
      BY <3>3, <3>4 DEF OwnRow
  <2> QED
    BY <2>1, <2>2
<1> QED
  BY <1>1 DEF OwnRows

\* A change of status that makes no dirty row clean.
LEMMA StatusOutside ==
  ASSUME CloudInv, IndexInv, OwnRows, NEW n \in Live, NEW s, Touched(n, rows[n].etag, s),
         UNCHANGED <<mode, poll, token, remote, clock, next, apart, mixed>>,
         s \in Unsynced \/ Clean(n)
  PROVE  Outside({}) /\ CloudInv' /\ IndexInv' /\ OwnRows'
<1>0. clock \in Nat /\ next \in Nat /\ n \in Inodes /\ rows[n].etag \in 0 .. clock
  BY DEF CloudInv, CloudTypes, IndexInv, IndexTypes, IndexKeys, Live
<1>1. Live' = Live /\ IndexInv'
  BY <1>0, TouchKeeps
<1>2. \A m \in Inodes : /\ rows'[m].path = rows[m].path /\ rows'[m].item = rows[m].item
                        /\ rows'[m].gen = rows[m].gen /\ rows'[m].etag = rows[m].etag
                        /\ ~Clean(m) => ~Clean(m)'
  BY <1>0 DEF Touched, Clean
<1>3. ASSUME NEW i \in Items, Cur(i) PROVE Cur(i)'
  <2>1. CASE remote[i].gone
    BY <1>1, <1>2, <1>3, <2>1 DEF Cur, Live
  <2>2. CASE ~remote[i].gone
    BY <1>1, <1>2, <1>3, <2>2 DEF Cur, Live
  <2> QED
    BY <2>1, <2>2
<1>4. Outside({})
  BY <1>0, <1>1, <1>2, <1>3 DEF Outside, Live
<1>5. OwnRow(rows[n])'
  BY <1>0, <1>2 DEF OwnRows, OwnRow, Used
<1>6. OwnRows'
  BY <1>1, <1>4, <1>5, TouchOwns
<1>7. CloudInv'
  BY DEF CloudInv, CloudTypes, CloudDates, CloudPaths, CloudVers, Used
<1> QED
  BY <1>1, <1>4, <1>6, <1>7

LEMMA HydrateOutside ==
  ASSUME CloudInv, IndexInv, OwnRows, NEW n \in Inodes, Hydrate(n)
  PROVE  Outside({}) /\ CloudInv' /\ IndexInv' /\ OwnRows'
<1>1. n \in Live /\ rows' = [rows EXCEPT ![n].status = "cached"] /\ Clean(n)
  BY DEF Hydrate, IsFile, Live, Clean, Unsynced
<1>2. UNCHANGED <<mode, poll, token, remote, clock, next, apart, mixed>>
  BY DEF Hydrate, LocalStep, LocalRest, history
<1>3. Touched(n, rows[n].etag, "cached")
  BY <1>1, StatusTouches DEF Statuses
<1> QED
  BY <1>1, <1>2, <1>3, StatusOutside

LEMMA LocalWriteOutside ==
  ASSUME CloudInv, IndexInv, OwnRows, NEW n \in Inodes, LocalWrite(n)
  PROVE  Outside({}) /\ CloudInv' /\ IndexInv' /\ OwnRows'
<1>1. n \in Live /\ rows' = [rows EXCEPT ![n].status = "dirty"] /\ "dirty" \in Unsynced
  BY DEF LocalWrite, IsFile, Live, Unsynced
<1>2. UNCHANGED <<mode, poll, token, remote, clock, next, apart, mixed>>
  BY DEF LocalWrite, LocalStep, LocalRest, history
<1>3. Touched(n, rows[n].etag, "dirty")
  BY <1>1, StatusTouches DEF Statuses
<1> QED
  BY <1>1, <1>2, <1>3, StatusOutside

LEMMA UploadOutside ==
  ASSUME CloudInv, IndexInv, OwnRows, NEW n \in Inodes, Upload(n)
  PROVE  (\E S : Outside(S)) /\ CloudInv' /\ IndexInv' /\ OwnRows'
<1>0. /\ clock \in Nat /\ next \in Nat /\ n \in Live /\ ~Clean(n) /\ remote \in [Items -> ItemType]
      /\ rows[n].path \in Paths /\ Taken(rows[n].path)
  BY LiveFacts DEF CloudInv, CloudTypes, IndexInv, IndexTypes, Upload, IsFile, Matches, Live, Clean, Unsynced
<1>1. PICK a : a = ItemAt(rows[n].path)
  OBVIOUS
<1>2. /\ a \in Items /\ ~remote[a].gone /\ remote[a].path = rows[n].path /\ Used(a)
      /\ \A j \in LiveItems : remote[j].path = rows[n].path => j = a
      /\ remote[a].ver = rows[n].etag
  <2>1. /\ a \in LiveItems /\ remote[a].path = rows[n].path
        /\ \A j \in LiveItems : remote[j].path = rows[n].path => j = a
    BY <1>0, <1>1, TakenBy
  <2> QED
    BY <1>0, <1>1, <2>1, NoneFacts DEF Upload, Matches, Used, LiveItems
<1>3. /\ clock' = clock + 1 /\ Known({a})
      /\ remote' = [j \in Items |-> IF j \in {a} THEN Item(rows[n].path, clock + 1, clock + 1, FALSE)
                                    ELSE remote[j]]
      /\ UNCHANGED <<mode, poll, token, next, mixed>>
  BY <1>1 DEF Upload, Change, LocalRest
<1>4. CloudPut(a, rows[n].path, clock + 1)
  <2>1. Item(rows[n].path, clock + 1, clock + 1, FALSE) \in ItemType
    BY <1>0 DEF Item, ItemType
  <2>2. remote' \in [Items -> ItemType]
    BY <1>0, <1>3, <2>1
  <2> QED
    BY <1>0, <1>2, <1>3, <2>2 DEF CloudPut, Known
<1>5. CloudInv'
  BY <1>4, PutKeeps
<1>6. Touched(n, clock + 1, "cached")
  <2>1. clock + 1 \in Nat /\ rows' = [rows EXCEPT ![n].status = "cached", ![n].etag = clock + 1]
    BY <1>0 DEF Upload
  <2> QED
    BY <1>0, <2>1, EtagTouches
<1>7. Live' = Live /\ IndexInv'
  BY <1>0, <1>3, <1>6, TouchKeeps
<1>8. /\ \A m \in Live : rows'[m].path = rows[m].path /\ rows'[m].item = rows[m].item /\ rows'[m].gen = rows[m].gen
      /\ \A m \in Live \ {n} : rows'[m] = rows[m]
  BY <1>6 DEF Live, Touched
<1>9. mode = "delta" => rows[n].item \in {a, None} \cup (IF a \in mixed THEN mixed ELSE {})
  BY <1>0, <1>2 DEF OwnRows, OwnRow
<1>10. ASSUME mode = "delta", NEW i \in Items \ {a}, i \in Told', Cur(i) PROVE Cur(i)'
  <2>0. remote'[i] = remote[i] /\ i # None
    BY <1>3, NoneFacts
  <2>1. CASE remote[i].gone
    <3>1. rows[n].item # i
      BY <1>3, <1>9, <1>10, <2>0 DEF Told
    <3>2. ASSUME NEW m \in Live', rows'[m].item = i PROVE ~Clean(m)'
      BY <1>7, <1>8, <1>10, <2>1, <3>1, <3>2 DEF Cur, Clean
    <3> QED
      BY <2>0, <2>1, <3>2 DEF Cur
  <2>2. CASE ~remote[i].gone /\ remote[i].path \notin Skipped
    <3>1. PICK m \in Live : /\ rows[m].item = i /\ rows[m].path = remote[i].path
                            /\ rows[m].etag = remote[i].ver \/ ~Clean(m)
      BY <1>10, <2>2 DEF Cur
    <3>2. m # n
      BY <1>2, <1>10, <2>2, <3>1 DEF LiveItems
    <3> QED
      BY <1>7, <1>8, <2>0, <2>2, <3>1, <3>2 DEF Cur, Clean
  <2>3. CASE ~remote[i].gone /\ remote[i].path \in Skipped
    BY <2>0, <2>3 DEF Cur
  <2> QED
    BY <2>1, <2>2, <2>3
<1>11. Outside({a})
  <2>1. apart \ {a} \subseteq apart' /\ (InGap => {a} \subseteq apart')
    BY <1>3 DEF Known
  <2>2. /\ \A i \in Items \ {a} : remote'[i] = remote[i]
        /\ remote'[a].seq = clock + 1 /\ remote'[a].ver = clock + 1
    BY <1>2, <1>3 DEF Item
  <2>3. \A i \in Items \ {a} : mode = "delta" /\ i \in Told' /\ Cur(i) => Cur(i)'
    BY <1>10
  <2>4. /\ clock' \in {clock, clock + 1} /\ next <= next' /\ {a} \subseteq Items
        /\ \A i \in {a} : remote'[i].seq = clock + 1 /\ clock' = clock + 1
        /\ UNCHANGED <<mode, poll, token>> /\ mixed \subseteq mixed'
    <3>1. clock' \in {clock, clock + 1} /\ next <= next'
      BY <1>0, <1>3
    <3>2. {a} \subseteq Items
      BY <1>2
    <3>3. \A i \in {a} : remote'[i].seq = clock + 1 /\ clock' = clock + 1
      BY <1>3, <2>2
    <3>4. UNCHANGED <<mode, poll, token>> /\ mixed \subseteq mixed'
      BY <1>3
    <3> QED
      BY <3>1, <3>2, <3>3, <3>4
  <2>6. \A i \in {a} : remote'[i].ver = clock + 1 \/ (remote'[i].ver = remote[i].ver /\ Used(i))
    BY <2>2
  <2>5. \A m \in Live' : m \in Live /\ rows'[m].path = rows[m].path /\ rows'[m].gen = rows[m].gen
    BY <1>7, <1>8
  <2> QED
    BY <2>1, <2>2, <2>3, <2>4, <2>5, <2>6 DEF Outside
<1>12. OwnRow(rows[n])'
  <2>1. ASSUME NEW j \in Items, Used(j)', remote'[j].ver = clock + 1 PROVE j = a
    <3>1. CASE j # a
      <4>1. remote'[j] = remote[j] /\ remote[j].ver <= clock /\ remote[j].ver \in Nat
        BY <1>0, <1>3, <3>1 DEF CloudInv, CloudDates, ItemType
      <4> QED
        BY <1>0, <2>1, <4>1
    <3> QED
      BY <3>1
  <2>2. rows'[n].item = rows[n].item /\ rows'[n].etag = clock + 1
    BY <1>6 DEF Touched
  <2> QED
    BY <1>3, <1>9, <2>1, <2>2 DEF OwnRow
<1>13. OwnRows'
  BY <1>0, <1>6, <1>7, <1>11, <1>12, TouchOwns
<1> QED
  BY <1>5, <1>7, <1>11, <1>13

LEMMA PutStep ==
  ASSUME CloudInv, NEW a, NEW p, NEW v, CloudPut(a, p, v), UNCHANGED <<mode, poll, token>>,
         next <= next', apart \ {a} \subseteq apart', mixed \subseteq mixed', a \in apart' \cup mixed' \/ ~InGap,
         \A i \in Items \ {a} : i \in Told' /\ Cur(i) => Cur(i)',
         \A n \in Live' : \/ rows'[n].path \in ConflictNs
                          \/ n \in Live /\ rows'[n].path = rows[n].path /\ rows'[n].gen = rows[n].gen
  PROVE  Outside({a})
<1>1. clock' \in {clock, clock + 1} /\ {a} \subseteq Items
  BY DEF CloudPut
<1>2. \A i \in Items \ {a} : remote'[i] = remote[i]
  BY DEF CloudPut
<1>3. /\ remote'[a].seq = clock + 1 /\ clock' = clock + 1
      /\ remote'[a].ver = clock + 1 \/ (remote'[a].ver = remote[a].ver /\ Used(a))
  BY DEF CloudPut, Item
<1>4. \A i \in {a} : remote'[i].seq = clock + 1 /\ clock' = clock + 1
  BY <1>3
<1>5. \A i \in {a} : remote'[i].ver = clock + 1 \/ (remote'[i].ver = remote[i].ver /\ Used(i))
  BY <1>3
<1>6. InGap => {a} \subseteq apart' \cup mixed'
  OBVIOUS
<1> QED
  BY <1>1, <1>2, <1>4, <1>5, <1>6 DEF Outside

\* The content of a new item is no other's.
LEMMA NewVer ==
  ASSUME CloudInv, NEW a, NEW p, CloudPut(a, p, clock + 1), NEW j \in Items, Used(j)', remote'[j].ver = clock + 1
  PROVE  j = a
<1>1. CASE j # a
  <2>1. remote'[j] = remote[j] /\ remote[j].ver <= clock /\ remote[j].ver \in Nat /\ clock \in Nat
    BY <1>1 DEF CloudInv, CloudTypes, CloudDates, ItemType, CloudPut
  <2> QED
    BY <2>1
<1> QED
  BY <1>1

LEMMA MakePuts ==
  ASSUME CloudInv, NEW i \in Items, Unused(i), NEW p \in Paths, ~Taken(p), clock' = clock + 1, apart \ {i} \subseteq apart',
         \A j \in Items : remote'[j] = IF j = i THEN Item(p, clock + 1, clock + 1, FALSE) ELSE remote[j],
         remote' = [j \in Items |-> remote'[j]]
  PROVE  CloudPut(i, p, clock + 1)
<1>0. remote \in [Items -> ItemType] /\ clock \in Nat
  BY DEF CloudInv, CloudTypes
<1>1. Item(p, clock + 1, clock + 1, FALSE) \in ItemType
  BY <1>0 DEF Item, ItemType
<1>2. \A j \in Items : remote'[j] \in ItemType
  BY <1>0, <1>1
<1>3. remote' \in [Items -> ItemType]
  BY <1>2
<1>4. \A j \in LiveItems : remote[j].path # p
  BY DEF Taken
<1> QED
  BY <1>3, <1>4 DEF CloudPut

LEMMA UploadNewOutside ==
  ASSUME CloudInv, IndexInv, OwnRows, NEW n \in Inodes, NEW a \in Items, UploadNew(n, a)
  PROVE  Outside({a}) /\ CloudInv' /\ IndexInv' /\ OwnRows'
<1>0. /\ clock \in Nat /\ next \in Nat /\ n \in Live /\ ~Clean(n) /\ remote \in [Items -> ItemType]
      /\ rows[n].path \in Paths /\ ~Taken(rows[n].path) /\ a # None
  BY LiveFacts, NoneFacts
     DEF CloudInv, CloudTypes, IndexInv, IndexTypes, UploadNew, IsFile, Live, Clean, Unsynced
<1>1. /\ clock' = clock + 1 /\ apart' = apart /\ mixed \subseteq mixed'
      /\ a \in mixed' /\ (rows[n].item # None => rows[n].item \in mixed')
  BY <1>0 DEF UploadNew
<1>2. CloudPut(a, rows[n].path, clock + 1)
  <2>1. remote' = [remote EXCEPT ![a] = Item(rows[n].path, clock + 1, clock + 1, FALSE)] /\ Unused(a)
    BY DEF UploadNew
  <2>2. /\ \A j \in Items : remote'[j] = IF j = a THEN Item(rows[n].path, clock + 1, clock + 1, FALSE) ELSE remote[j]
        /\ remote' = [j \in Items |-> remote'[j]]
    BY <1>0, <2>1
  <2> QED
    BY <1>0, <1>1, <2>1, <2>2, MakePuts
<1>3. CloudInv'
  BY <1>2, PutKeeps
<1>4. Touched(n, clock + 1, "cached")
  <2>1. clock + 1 \in Nat /\ rows' = [rows EXCEPT ![n].status = "cached", ![n].etag = clock + 1]
    BY <1>0 DEF UploadNew
  <2> QED
    BY <1>0, <2>1, EtagTouches
<1>5. UNCHANGED <<mode, poll, token, next>>
  BY DEF UploadNew, LocalRest
<1>6. Live' = Live /\ IndexInv'
  BY <1>0, <1>1, <1>4, <1>5, TouchKeeps
<1>7. /\ \A m \in Live : rows'[m].path = rows[m].path /\ rows'[m].item = rows[m].item /\ rows'[m].gen = rows[m].gen
      /\ \A m \in Live \ {n} : rows'[m] = rows[m]
  BY <1>4 DEF Live, Touched
<1>8. ASSUME NEW i \in Items \ {a}, i \in Told', Cur(i) PROVE Cur(i)'
  <2>0. remote'[i] = remote[i] /\ i # None
    BY <1>2, NoneFacts DEF CloudPut
  <2>1. CASE remote[i].gone
    <3>1. rows[n].item # i
      BY <1>1, <1>8, <2>0 DEF Told
    <3>2. ASSUME NEW m \in Live', rows'[m].item = i PROVE ~Clean(m)'
      BY <1>6, <1>7, <1>8, <2>1, <3>1, <3>2 DEF Cur, Clean
    <3> QED
      BY <2>0, <2>1, <3>2 DEF Cur
  <2>2. CASE ~remote[i].gone /\ remote[i].path \notin Skipped
    <3>1. PICK m \in Live : /\ rows[m].item = i /\ rows[m].path = remote[i].path
                            /\ rows[m].etag = remote[i].ver \/ ~Clean(m)
      BY <1>8, <2>2 DEF Cur
    <3>2. m # n
      BY <1>0, <1>8, <2>2, <3>1 DEF LiveItems, Taken
    <3> QED
      BY <1>6, <1>7, <2>0, <2>2, <3>1, <3>2 DEF Cur, Clean
  <2>3. CASE ~remote[i].gone /\ remote[i].path \in Skipped
    BY <2>0, <2>3 DEF Cur
  <2> QED
    BY <2>1, <2>2, <2>3
<1>9. Outside({a})
  <2>1. \A i \in Items \ {a} : i \in Told' /\ Cur(i) => Cur(i)'
    BY <1>8
  <2>2. \A m \in Live' : m \in Live /\ rows'[m].path = rows[m].path /\ rows'[m].gen = rows[m].gen
    BY <1>6, <1>7
  <2>3. next <= next' /\ apart \ {a} \subseteq apart'
    BY <1>0, <1>1, <1>5
  <2> QED
    BY <1>1, <1>2, <1>5, <2>1, <2>2, <2>3, PutStep
<1>10. OwnRow(rows[n])'
  <2>1. \A j \in Items : Used(j)' /\ remote'[j].ver = clock + 1 => j = a
    BY <1>2, NewVer
  <2>2. rows'[n].item = rows[n].item /\ rows'[n].etag = clock + 1
    BY <1>4 DEF Touched
  <2> QED
    BY <1>1, <2>1, <2>2 DEF OwnRow
<1>11. OwnRows'
  BY <1>0, <1>4, <1>6, <1>9, <1>10, TouchOwns
<1> QED
  BY <1>3, <1>6, <1>9, <1>11

LEMMA UnlinkOutside ==
  ASSUME CloudInv, IndexInv, OwnRows, NEW n \in Inodes, Unlink(n)
  PROVE  Outside({}) /\ CloudInv' /\ IndexInv' /\ OwnRows'
<1>0. /\ clock \in Nat /\ next \in Nat /\ n \in Live /\ rows' = [rows EXCEPT ![n] = NoRow]
      /\ rows \in [Inodes -> RowType]
      /\ UNCHANGED <<mode, poll, token, remote, clock, next, mixed>> /\ apart \subseteq apart'
  BY DEF CloudInv, CloudTypes, IndexInv, IndexTypes, Unlink, IsFile, Live, LocalStep, LocalRest
<1>1. Live' = Live \ {n} /\ \A m \in Live' : rows'[m] = rows[m]
  BY <1>0 DEF Live
<1>2. IndexInv'
  <2>1. NoRow \in RowType
    BY DEF NoRow, RowType
  <2>2. IndexTypes'
    BY <1>0, <1>1, <2>1 DEF IndexInv, IndexTypes
  <2>3. IndexKeys'
    BY <1>0, <1>1 DEF IndexInv, IndexKeys
  <2> QED
    BY <2>2, <2>3 DEF IndexInv
<1>3. ASSUME NEW i \in Items, i \in Told', Cur(i) PROVE Cur(i)'
  <2>1. CASE remote[i].gone
    BY <1>0, <1>1, <1>3, <2>1 DEF Cur, Clean
  <2>2. CASE ~remote[i].gone /\ remote[i].path \notin Skipped
    <3>1. PICK m \in Live : /\ rows[m].item = i /\ rows[m].path = remote[i].path
                            /\ rows[m].etag = remote[i].ver \/ ~Clean(m)
      BY <1>3, <2>2 DEF Cur
    <3>2. i \notin apart'
      BY <1>3 DEF Told
    <3>3. m # n
      BY <1>3, <2>2, <3>1, <3>2 DEF Unlink, LiveItems
    <3> QED
      BY <1>0, <1>1, <2>2, <3>1, <3>3 DEF Cur, Clean
  <2>3. CASE ~remote[i].gone /\ remote[i].path \in Skipped
    BY <1>0, <2>3 DEF Cur
  <2> QED
    BY <2>1, <2>2, <2>3
<1>4. Outside({})
  BY <1>0, <1>1, <1>3 DEF Outside
<1>5. OwnRows'
  <2>1. ASSUME NEW m \in Live' PROVE OwnRow(rows[m])'
    BY <1>0, <1>1 DEF OwnRows, OwnRow, Used
  <2> QED
    BY <2>1 DEF OwnRows
<1>6. CloudInv'
  BY <1>0 DEF CloudInv, CloudTypes, CloudDates, CloudPaths, CloudVers, Used
<1> QED
  BY <1>2, <1>4, <1>5, <1>6

LEMMA UnlinkRemoteOutside ==
  ASSUME CloudInv, IndexInv, OwnRows, UnlinkRemote
  PROVE  (\E S : Outside(S)) /\ CloudInv' /\ IndexInv' /\ OwnRows'
<1>0. UNCHANGED <<mode, poll, token, rows, next, mixed>>
  BY DEF UnlinkRemote, Unlinking, index
<1>1. CASE Taken(unl.path)
  <2>1. PICK S : S = {ItemAt(unl.path)}
    OBVIOUS
  <2>2. S \in SUBSET LiveItems /\ Delete(S)
    BY <1>1, <2>1, TakenBy DEF UnlinkRemote
  <2>3. CloudCut(S) /\ Known(S)
    BY <2>2, DeleteCuts
  <2> QED
    BY <1>0, <2>3, CutOutside
<1>2. CASE ~Taken(unl.path)
  <2>1. remote' = remote /\ clock' = clock /\ apart' = apart
    BY <1>2 DEF UnlinkRemote
  <2> QED
    BY <1>0, <2>1, QuietOutside
<1> QED
  BY <1>1, <1>2

LEMMA QuietSteps ==
  ASSUME CloudInv, IndexInv, OwnRows,
         ExpireTokens \/ UnlinkTombstone \/ UnlinkDone \/ \E t \in Paths : TombstoneExpires(t)
  PROVE  Outside({}) /\ CloudInv' /\ IndexInv' /\ OwnRows'
<1>1. CASE ExpireTokens
  BY <1>1, QuietOutside DEF ExpireTokens, index, history
<1>2. CASE UnlinkTombstone
  BY <1>2, QuietOutside DEF UnlinkTombstone, Unlinking, index
<1>3. CASE UnlinkDone
  BY <1>3, QuietOutside DEF UnlinkDone, Unlinking, index
<1>4. CASE \E t \in Paths : TombstoneExpires(t)
  BY <1>4, QuietOutside DEF TombstoneExpires, index, cloud, history
<1> QED
  BY <1>1, <1>2, <1>3, <1>4

LEMMA ConflictOutside ==
  ASSUME CloudInv, IndexInv, OwnRows, NEW n \in Inodes, NEW c \in Items, NEW p \in ConflictNs, Conflict(n, c, p)
  PROVE  Outside({c}) /\ CloudInv' /\ IndexInv' /\ OwnRows'
<1>0. /\ clock \in Nat /\ next \in Nat /\ n \in Live /\ remote \in [Items -> ItemType]
      /\ rows \in [Inodes -> RowType] /\ next \in Inodes /\ next' = next + 1
      /\ rows[n].path \in Paths /\ Taken(rows[n].path) /\ rows[n] \in RowType
      /\ p \in ConflictNs /\ ~Taken(p) /\ (\A m \in Live : rows[m].path # p) /\ Unused(c)
      /\ p # None /\ p \in Paths
  BY LiveFacts, NoneFacts, PollerAssumption
     DEF CloudInv, CloudTypes, IndexInv, IndexTypes, Conflict, IsFile, Live
<1>1. PICK a : a = ItemAt(rows[n].path)
  OBVIOUS
<1>2. /\ a \in Items /\ ~remote[a].gone /\ remote[a].path = rows[n].path /\ Used(a) /\ a # c
      /\ \A j \in LiveItems : remote[j].path = rows[n].path => j = a
  <2>1. /\ a \in LiveItems /\ remote[a].path = rows[n].path
        /\ \A j \in LiveItems : remote[j].path = rows[n].path => j = a
    BY <1>0, <1>1, TakenBy
  <2> QED
    BY <1>0, <2>1, NoneFacts DEF Used, Unused, LiveItems
<1>3. /\ clock' = clock + 1 /\ Known({c})
      /\ remote' = [j \in Items |-> IF j \in {c} THEN Item(p, clock + 1, clock + 1, FALSE) ELSE remote[j]]
      /\ UNCHANGED <<mode, poll, token>>
      /\ mixed' = mixed \cup Mixed(rows[n].item, a)
  BY <1>1 DEF Conflict, Change, LocalRest
<1>4. CloudPut(c, p, clock + 1)
  <2>1. /\ \A j \in Items : remote'[j] = IF j = c THEN Item(p, clock + 1, clock + 1, FALSE) ELSE remote[j]
        /\ remote' = [j \in Items |-> remote'[j]]
    BY <1>3
  <2>2. apart \ {c} \subseteq apart'
    BY <1>3 DEF Known
  <2> QED
    BY <1>0, <1>3, <2>1, <2>2, MakePuts
<1>5. CloudInv'
  BY <1>4, PutKeeps
<1>6. next \notin Live /\ n # next /\ next' \in 1 .. (MaxInode + 1)
  BY <1>0, PollerAssumption DEF IndexInv, IndexTypes, Inodes
<1>7. /\ rows' \in [Inodes -> RowType]
      /\ \A m \in Inodes \ {n, next} : rows'[m] = rows[m]
      /\ rows'[n].path = rows[n].path /\ rows'[n].parent = rows[n].parent
      /\ rows'[n].item = rows[n].item /\ rows'[n].gen = rows[n].gen
      /\ rows'[n].etag = remote[a].ver /\ rows'[n].status = "cached"
      /\ rows'[next].path = p /\ rows'[next].parent = rows[n].parent
      /\ rows'[next].item = None /\ rows'[next].etag = clock + 1
  <2>1. remote[a].ver \in Nat
    BY <1>0, <1>2 DEF ItemType
  <2>2. rows' = [rows EXCEPT ![n].status = "cached", ![n].etag = remote[a].ver,
                             ![next] = Row(p, rows[n].parent, None, clock + 1, "conflict", 0)]
    BY <1>1 DEF Conflict
  <2>3. PICK q : q = Row(p, rows[n].parent, None, clock + 1, "conflict", 0)
    OBVIOUS
  <2>4. q \in RowType /\ q.path = p /\ q.parent = rows[n].parent /\ q.item = None /\ q.etag = clock + 1
    BY <1>0, <2>3 DEF Row, RowType, Statuses
  <2>5. PICK e \in Nat : e = remote[a].ver
    BY <2>1
  <2>6. PICK r : r = [rows[n] EXCEPT !.status = "cached", !.etag = e]
    OBVIOUS
  <2>7. /\ r \in RowType /\ r.path = rows[n].path /\ r.parent = rows[n].parent
        /\ r.item = rows[n].item /\ r.gen = rows[n].gen /\ r.etag = e /\ r.status = "cached"
    BY <1>0, <2>6 DEF RowType, Statuses
  <2>8. rows' = [m \in Inodes |-> IF m = next THEN q ELSE IF m = n THEN r ELSE rows[m]]
    BY <1>0, <1>6, <2>2, <2>3, <2>5, <2>6
  <2>9. rows'[n] = r /\ rows'[next] = q /\ \A m \in Inodes \ {n, next} : rows'[m] = rows[m]
    BY <1>0, <1>6, <2>8
  <2>10. rows' \in [Inodes -> RowType]
    BY <1>0, <2>4, <2>7, <2>8
  <2> QED
    BY <2>4, <2>5, <2>7, <2>9, <2>10
<1>8. Live' = Live \cup {next}
  <2>1. rows'[n] # NoRow /\ rows'[next] # NoRow
    BY <1>0, <1>7, NoneFacts, PathLives
  <2> QED
    BY <1>0, <1>6, <1>7, <2>1 DEF Live
<1>9. /\ \A m \in Live : rows'[m].path = rows[m].path /\ rows'[m].item = rows[m].item /\ rows'[m].gen = rows[m].gen
                         /\ rows'[m].parent = rows[m].parent
      /\ \A m \in Live \ {n} : rows'[m] = rows[m]
  BY <1>6, <1>7 DEF Live
<1>10. IndexTypes'
  <2>1. \A m \in Live : m < next /\ rows[m].parent < next /\ m \in Nat /\ rows[m].parent \in Nat
    BY <1>0 DEF IndexInv, IndexTypes, Live, Inodes, RowType
  <2>2. ASSUME NEW m \in Live PROVE m < next' /\ rows'[m].parent < next'
    <3>1. rows'[m].parent = rows[m].parent
      BY <1>9
    <3> QED
      BY <1>0, <2>1, <3>1
  <2>3. next < next' /\ rows'[next].parent < next'
    <3>1. rows'[next].parent = rows[n].parent
      BY <1>7
    <3> QED
      BY <1>0, <2>1, <3>1
  <2>4. \A m \in Live' : m < next' /\ rows'[m].parent < next'
    BY <1>8, <2>2, <2>3
  <2> QED
    BY <1>3, <1>6, <1>7, <2>4 DEF IndexInv, IndexTypes
<1>11. IndexKeys'
  <2>1. remote[a].ver \in 0 .. clock'
    BY <1>0, <1>2, <1>3 DEF CloudInv, CloudDates, ItemType
  <2>2. ASSUME NEW m \in Live PROVE rows'[m].etag \in 0 .. clock'
    <3>1. CASE m = n
      BY <1>7, <2>1, <3>1
    <3>2. CASE m # n
      <4>1. rows'[m] = rows[m] /\ rows[m].etag \in 0 .. clock
        BY <1>9, <3>2 DEF IndexInv, IndexKeys
      <4> QED
        BY <1>0, <1>3, <4>1
    <3> QED
      BY <3>1, <3>2
  <2>3. \A m \in Live' : /\ rows'[m].path \in Paths /\ rows'[m].etag \in 0 .. clock'
                         /\ mode' = "delta" /\ rows'[m].item = None => rows'[m].path \in ConflictNs
    BY <1>0, <1>3, <1>7, <1>8, <1>9, <2>2 DEF IndexInv, IndexKeys
  <2>4. \A m, k \in Live' : rows'[m].path = rows'[k].path => m = k
    <3>1. \A m, k \in Live : rows[m].path = rows[k].path => m = k
      BY DEF IndexInv, IndexKeys
    <3>2. \A m \in Live : rows'[m].path = rows[m].path /\ rows'[m].path # p
      BY <1>0, <1>9
    <3> QED
      BY <1>7, <1>8, <3>1, <3>2
  <2>5. \A m, k \in Live' : rows'[m].item = rows'[k].item /\ rows'[m].item # None => m = k
    BY <1>0, <1>7, <1>8, <1>9 DEF IndexInv, IndexKeys
  <2> QED
    BY <2>3, <2>4, <2>5 DEF IndexKeys
<1>12. ASSUME NEW i \in Items \ {c}, i \in Told', Cur(i) PROVE Cur(i)'
  <2>0. remote'[i] = remote[i] /\ i # None
    BY <1>3, NoneFacts
  <2>1. CASE remote[i].gone
    <3>1. rows[n].item # i
      BY <1>2, <1>3, <1>12, <2>0, <2>1, NoneFacts DEF Told, Mixed
    <3>2. ASSUME NEW m \in Live', rows'[m].item = i PROVE ~Clean(m)'
      <4>1. m \in Live /\ m # n
        BY <1>7, <1>8, <1>9, <2>0, <3>1, <3>2
      <4> QED
        BY <1>9, <1>12, <2>1, <3>2, <4>1 DEF Cur, Clean
    <3> QED
      BY <2>0, <2>1, <3>2 DEF Cur
  <2>2. CASE ~remote[i].gone /\ remote[i].path \notin Skipped
    <3>1. PICK m \in Live : /\ rows[m].item = i /\ rows[m].path = remote[i].path
                            /\ rows[m].etag = remote[i].ver \/ ~Clean(m)
      BY <1>12, <2>2 DEF Cur
    <3>2. CASE m = n
      <4>1. i = a
        BY <1>2, <1>12, <2>2, <3>1, <3>2 DEF LiveItems
      <4> QED
        BY <1>7, <1>8, <1>9, <2>0, <2>2, <3>1, <3>2, <4>1 DEF Cur
    <3>3. CASE m # n
      BY <1>8, <1>9, <2>0, <2>2, <3>1, <3>3 DEF Cur, Clean
    <3> QED
      BY <3>2, <3>3
  <2>3. CASE ~remote[i].gone /\ remote[i].path \in Skipped
    BY <2>0, <2>3 DEF Cur
  <2> QED
    BY <2>1, <2>2, <2>3
<1>13. Outside({c})
  <2>1. \A i \in Items \ {c} : i \in Told' /\ Cur(i) => Cur(i)'
    BY <1>12
  <2>2. \A m \in Live' : \/ rows'[m].path \in ConflictNs
                         \/ m \in Live /\ rows'[m].path = rows[m].path /\ rows'[m].gen = rows[m].gen
    BY <1>0, <1>7, <1>8, <1>9
  <2>3. next <= next' /\ apart \ {c} \subseteq apart' /\ mixed \subseteq mixed' /\ (c \in apart' \cup mixed' \/ ~InGap)
    BY <1>0, <1>3 DEF Known
  <2> QED
    BY <1>3, <1>4, <2>1, <2>2, <2>3, PutStep
<1>14. OwnRows'
  <2>1. ASSUME NEW m \in Live, m # n PROVE OwnRow(rows[m])'
    <3>1. PICK r : r = rows[m]
      OBVIOUS
    <3>2. r.etag \in 0 .. clock /\ OwnRow(r)
      BY <3>1 DEF IndexInv, IndexKeys, OwnRows
    <3>3. OwnRow(r)'
      BY <1>13, <3>2, OwnStays
    <3>4. rows'[m] = r
      BY <1>9, <2>1, <3>1
    <3> QED
      BY <3>3, <3>4 DEF OwnRow
  <2>2. OwnRow(rows[n])'
    <3> SUFFICES ASSUME rows[n].item # None, NEW j \in Items, j # rows[n].item, Used(j)', remote'[j].ver = remote[a].ver
                 PROVE  rows[n].item \in mixed' /\ j \in mixed'
      BY <1>7 DEF OwnRow
    <3>1. remote[a].ver <= clock /\ remote[a].ver \in Nat
      BY <1>0, <1>2 DEF CloudInv, CloudDates, ItemType
    <3>2. j # c
      BY <1>0, <1>3, <3>1 DEF Item
    <3>3. j = a
      BY <1>2, <1>3, <3>2 DEF CloudInv, CloudVers, Used
    <3> QED
      BY <1>2, <1>3, <3>3, NoneFacts DEF Mixed
  <2> QED
    BY <1>7, <1>8, <2>1, <2>2 DEF OwnRows, OwnRow
<1> QED
  BY <1>5, <1>10, <1>11, <1>13, <1>14 DEF IndexInv
-----------------------------------------------------------------------------
(* What the poller knows.                                                  *)

Pcs == {"idle", "list", "snapshot", "diff", "upsert", "sweep", "generation", "start",
        "settoken", "fetch", "tombstones", "dsnapshot", "apply"}
Full  == {"snapshot", "diff", "upsert", "sweep"}
Pages == {"tombstones", "dsnapshot", "apply"}

MetaType   == [item : Items \cup {None}, path : Paths, ver : Nat]
ChangeType == [item : Items, path : Paths, ver : Nat, seq : Nat, gone : BOOLEAN]
SnapType   == [inode : Inodes, row : RowType]
TokenType  == [kind : {"none", "generation", "token"}, n : Nat]
PollType   ==
  [pc : Pcs, call : {"poll", "first", "expired"}, listing : SUBSET MetaType,
   snap : SUBSET SnapType, todo : SUBSET (MetaType \cup ChangeType), marks : SUBSET Inodes,
   map : [Dirs -> Nat], nxt : Nat]

\* The poller's locals have their types, and the inodes it knows were given out.
PollTypes ==
  /\ poll \in PollType /\ token \in TokenType
  /\ \A p \in Dirs : poll.map[p] < next
  /\ \A x \in poll.snap : x.inode < next

\* Which of the two polls runs, and what the stored token is meanwhile.
PhaseInv ==
  /\ poll.nxt <= clock /\ (token.kind = "token" => token.n <= clock)
  /\ mode = "delta" =>
       /\ poll.pc \in Full \cup {"list", "generation", "start"} => poll.call # "poll"
       /\ poll.call # "poll" => token.kind # "token"
       /\ poll.pc \in Pages \cup {"fetch", "idle"} => poll.call = "poll"
       /\ poll.pc \in Pages \cup {"settoken"} /\ poll.call = "poll" =>
            token.kind = "token" /\ token.n <= poll.nxt
  /\ mode = "full" => poll.call = "poll" /\ poll.pc \notin Pages \cup {"start", "fetch", "settoken"}

\* The content that a listing or a change gives for an item is no other item's.
Owned(m) ==
  /\ m.ver <= clock
  /\ m.item # None => \A j \in Items : j # m.item /\ Used(j) => remote[j].ver # m.ver

\* The changes still to apply: what they say is true of the items that have not
\* changed again, and they are newer than what was applied.
PageInv ==
  poll.pc \in Pages =>
    /\ \A c \in poll.todo :
         /\ c \in ChangeType /\ Owned(c) /\ token.n < c.seq /\ c.seq <= poll.nxt
         /\ remote[c.item].seq <= poll.nxt /\ c.item \notin apart => c = ChangeOf(c.item)
    /\ \A c \in poll.todo, j \in LiveItems \ apart :
         j # c.item /\ remote[j].seq <= poll.nxt /\ remote[j].path = c.path =>
           c.gone /\ remote[j].seq > c.seq
    /\ \A j \in Told : token.n < remote[j].seq /\ remote[j].seq <= poll.nxt /\ ChangeOf(j) \notin poll.todo =>
         \A c \in poll.todo : remote[j].seq <= c.seq

\* The listing: it holds the items that have not changed since, and no other at
\* their paths.
ListInv ==
  poll.pc \in Full =>
    /\ \A m \in poll.listing : Owned(m)
    /\ poll.pc = "upsert" => poll.todo \subseteq poll.listing
    /\ mode = "delta" =>
         /\ \A i \in LiveItems \cap Told : Meta(i) \in poll.listing
         /\ \A m \in poll.listing : m.item \in Items /\ (m.item \in Told => m = Meta(m.item) /\ ~remote[m.item].gone)
         /\ \A m \in poll.listing, j \in LiveItems \cap Told : m.path = remote[j].path => m.item = j

\* Items that are to be in the index as they are.
InSnapshot(i) == \E x \in poll.snap : x.row.path = remote[i].path /\ x.row.etag = remote[i].ver
Due(i) ==
  \/ poll.pc \in {"idle", "fetch"} /\ token.kind = "token" /\ remote[i].seq <= token.n
  \/ poll.pc \in Pages /\ remote[i].seq <= poll.nxt /\ ChangeOf(i) \notin poll.todo
  \/ poll.pc = "settoken" /\ poll.call = "poll" /\ remote[i].seq <= poll.nxt
  \/ poll.pc \in {"settoken", "generation", "start"} /\ poll.call # "poll"
  \/ poll.pc = "diff" /\ ~remote[i].gone /\ InSnapshot(i)
  \/ poll.pc = "upsert" /\ ~remote[i].gone /\ Meta(i) \notin poll.todo
  \/ poll.pc = "sweep" /\ ~remote[i].gone
CurInv == mode = "delta" => \A i \in Told : Due(i) => Cur(i)

\* A row at a listed path is in the snapshot, then marked or to be upserted, then of
\* this generation.
SweepInv ==
  /\ poll.pc = "diff" => \A n \in Live :
       rows[n].path \notin ConflictNs => \E x \in poll.snap : x.inode = n /\ x.row.path = rows[n].path
  /\ poll.pc = "upsert" => \A n \in Live, m \in poll.listing :
       m.path = rows[n].path /\ m.path \notin ConflictNs =>
         rows[n].gen = Generation \/ n \in poll.marks \/ \E k \in poll.todo : k.path = m.path
  /\ poll.pc = "sweep" => \A n \in Live, m \in poll.listing :
       m.path = rows[n].path /\ m.path \notin ConflictNs => rows[n].gen = Generation

KnowInv == PollTypes /\ PhaseInv /\ PageInv /\ ListInv /\ CurInv /\ SweepInv

LEMMA OwnedStays ==
  ASSUME CloudInv, NEW S, Outside(S), NEW m, m.ver \in Nat, Owned(m) PROVE Owned(m)'
<1>0. clock \in Nat /\ clock' \in {clock, clock + 1}
  BY DEF CloudInv, CloudTypes, Outside
<1>1. m.ver <= clock /\ m.ver <= clock'
  BY <1>0 DEF Owned
<1>2. ASSUME m.item # None, NEW j \in Items, j # m.item, Used(j)' PROVE remote'[j].ver # m.ver
  <2>1. CASE j \in S
    BY <1>0, <1>1, <1>2, <2>1 DEF Outside, Owned
  <2>2. CASE j \notin S
    BY <1>2, <2>2 DEF Outside, Carried, Owned, Used
  <2> QED
    BY <2>1, <2>2
<1> QED
  BY <1>1, <1>2 DEF Owned

\* Steps outside the poller leave what it knows true.
LEMMA OutsideKeeps ==
  ASSUME CloudInv, IndexInv, KnowInv, NEW S, Outside(S), IndexInv' PROVE KnowInv'
<1>0. /\ clock \in Nat /\ clock' \in {clock, clock + 1} /\ next \in Nat /\ next' \in Nat /\ next <= next'
      /\ mode' = mode /\ poll' = poll /\ token' = token /\ S \subseteq Items /\ poll \in PollType /\ token \in TokenType
      /\ remote \in [Items -> ItemType]
  BY DEF CloudInv, CloudTypes, Outside, IndexInv, IndexTypes, KnowInv, PollTypes
<1>1. /\ \A i \in Items \ S : i \notin apart' => remote'[i] = remote[i] /\ i \notin apart
      /\ \A i \in S : remote'[i].seq = clock + 1
      /\ \A i \in Told' : i \notin apart' /\ (i \notin S => i \in Told)
      /\ InGap => Told' \cap S = {}
  BY DEF Outside, Carried, Told
<1>2. poll.nxt \in Nat /\ poll.nxt <= clock /\ token.n \in Nat /\ (token.kind = "token" => token.n <= clock)
  BY <1>0 DEF KnowInv, PhaseInv, PollType, TokenType
<1>3. PollTypes'
  <2>1. ASSUME NEW p \in Dirs PROVE poll.map[p] < next'
    BY <1>0 DEF KnowInv, PollTypes, PollType
  <2>2. ASSUME NEW x \in poll.snap PROVE x.inode < next'
    <3>1. x.inode \in Nat /\ x.inode < next
      BY <1>0 DEF KnowInv, PollTypes, PollType, SnapType, Inodes
    <3> QED
      BY <1>0, <3>1
  <2> QED
    BY <1>0, <2>1, <2>2 DEF PollTypes
<1>4. PhaseInv'
  <2>1. poll.nxt <= clock' /\ (token.kind = "token" => token.n <= clock')
    BY <1>0, <1>2
  <2> QED
    BY <1>0, <2>1 DEF KnowInv, PhaseInv
<1>5. PageInv'
  <2> SUFFICES ASSUME poll.pc \in Pages
               PROVE  /\ \A c \in poll.todo :
                           /\ c \in ChangeType /\ Owned(c)' /\ token.n < c.seq /\ c.seq <= poll.nxt
                           /\ remote'[c.item].seq <= poll.nxt /\ c.item \notin apart' => c = ChangeOf(c.item)'
                      /\ \A c \in poll.todo, j \in LiveItems' \ apart' :
                           j # c.item /\ remote'[j].seq <= poll.nxt /\ remote'[j].path = c.path =>
                             c.gone /\ remote'[j].seq > c.seq
                      /\ \A j \in Told' : token.n < remote'[j].seq /\ remote'[j].seq <= poll.nxt
                                          /\ ChangeOf(j)' \notin poll.todo =>
                           \A c \in poll.todo : remote'[j].seq <= c.seq
    BY <1>0 DEF PageInv
  <2>0. ASSUME NEW j \in Items, remote'[j].seq <= poll.nxt, j \notin apart'
        PROVE  remote'[j] = remote[j] /\ j \notin S /\ j \notin apart
    BY <1>0, <1>1, <1>2, <2>0
  <2>1. ASSUME NEW c \in poll.todo
        PROVE  /\ c \in ChangeType /\ Owned(c)' /\ token.n < c.seq /\ c.seq <= poll.nxt
               /\ remote'[c.item].seq <= poll.nxt /\ c.item \notin apart' => c = ChangeOf(c.item)'
    <3>1. c \in ChangeType /\ Owned(c) /\ token.n < c.seq /\ c.seq <= poll.nxt
          /\ (remote[c.item].seq <= poll.nxt /\ c.item \notin apart => c = ChangeOf(c.item))
      BY DEF KnowInv, PageInv
    <3>2. c.item \in Items /\ c.ver \in Nat
      BY <3>1 DEF ChangeType
    <3>3. Owned(c)'
      BY <3>1, <3>2, OwnedStays
    <3> QED
      BY <2>0, <3>1, <3>2, <3>3 DEF ChangeOf
  <2>2. ASSUME NEW c \in poll.todo, NEW j \in LiveItems' \ apart', j # c.item, remote'[j].seq <= poll.nxt, remote'[j].path = c.path
        PROVE  c.gone /\ remote'[j].seq > c.seq
    <3>1. j \in LiveItems \ apart /\ remote'[j] = remote[j]
      BY <2>0, <2>2 DEF LiveItems
    <3> QED
      BY <2>2, <3>1 DEF KnowInv, PageInv
  <2>3. ASSUME NEW j \in Told', token.n < remote'[j].seq, remote'[j].seq <= poll.nxt, ChangeOf(j)' \notin poll.todo,
               NEW c \in poll.todo
        PROVE  remote'[j].seq <= c.seq
    <3>1. j \in Told /\ remote'[j] = remote[j]
      BY <1>1, <2>0, <2>3 DEF Told
    <3>2. ChangeOf(j) \notin poll.todo
      BY <2>3, <3>1 DEF ChangeOf
    <3> QED
      BY <2>3, <3>1, <3>2 DEF KnowInv, PageInv
  <2> QED
    BY <2>1, <2>2, <2>3
<1>6. ListInv'
  <2> SUFFICES ASSUME poll.pc \in Full
               PROVE  /\ \A m \in poll.listing : Owned(m)'
                      /\ mode = "delta" =>
                           /\ \A i \in LiveItems' \cap Told' : Meta(i)' \in poll.listing
                           /\ \A m \in poll.listing : m.item \in Items /\ (m.item \in Told' => m = Meta(m.item)' /\ ~remote'[m.item].gone)
                           /\ \A m \in poll.listing, j \in LiveItems' \cap Told' : m.path = remote'[j].path => m.item = j
    BY <1>0 DEF KnowInv, ListInv
  <2>1. ASSUME NEW m \in poll.listing PROVE Owned(m)'
    <3>1. m.ver \in Nat
      BY <1>0 DEF PollType, MetaType
    <3> QED
      BY <3>1, OwnedStays DEF KnowInv, ListInv
  <2>2. ASSUME mode = "delta"
        PROVE  /\ \A i \in Told' : i \in Told /\ remote'[i] = remote[i] /\ Meta(i)' = Meta(i)
               /\ \A i \in LiveItems' \cap Told' : i \in LiveItems \cap Told /\ remote'[i] = remote[i] /\ Meta(i)' = Meta(i)
    <3>1. InGap
      BY <2>2 DEF KnowInv, PhaseInv, InGap, Full
    <3>2. \A i \in Told' : i \in Told /\ remote'[i] = remote[i] /\ i \in Items
      BY <1>1, <3>1 DEF Told
    <3> QED
      BY <1>0, <3>2 DEF LiveItems, Meta, ItemId
  <2> QED
    BY <2>1, <2>2 DEF KnowInv, ListInv
<1>7. CurInv'
  <2> SUFFICES ASSUME mode = "delta", NEW i \in Told', Due(i)' PROVE Cur(i)'
    BY <1>0 DEF CurInv
  <2>1. i \notin S
    <3> SUFFICES ASSUME i \in S PROVE FALSE
      OBVIOUS
    <3>1. ~InGap /\ remote'[i].seq = clock + 1
      BY <1>1
    <3>2. poll.call = "poll" \/ poll.pc = "list"
      BY <3>1 DEF InGap
    <3>3. ~(remote'[i].seq <= poll.nxt) /\ (token.kind = "token" => ~(remote'[i].seq <= token.n))
      BY <1>0, <1>2, <3>1
    <3>4. poll.pc \in Full \cup {"list", "generation", "start"} => poll.call # "poll"
      BY DEF KnowInv, PhaseInv
    <3> QED
      BY <1>0, <3>2, <3>3, <3>4 DEF Due, Full, Pages
  <2>2. remote'[i] = remote[i] /\ i \in Told /\ i \in Items \ S
    BY <1>1, <2>1 DEF Told
  <2>3. Due(i)
    BY <1>0, <2>2 DEF Due, ChangeOf, Meta, ItemId, InSnapshot
  <2>4. Cur(i)
    BY <2>2, <2>3 DEF KnowInv, CurInv
  <2> QED
    BY <2>2, <2>4 DEF Outside
<1>8. SweepInv'
  <2>0. \A n \in Live' : \/ rows'[n].path \in ConflictNs
                         \/ n \in Live /\ rows'[n].path = rows[n].path /\ rows'[n].gen = rows[n].gen
    BY DEF Outside
  <2>1. Generation' = Generation
    BY <1>0 DEF Generation
  <2>2. ASSUME poll.pc = "diff", NEW n \in Live', rows'[n].path \notin ConflictNs
        PROVE  \E x \in poll.snap : x.inode = n /\ x.row.path = rows'[n].path
    BY <2>0, <2>2 DEF KnowInv, SweepInv
  <2>3. ASSUME poll.pc = "upsert", NEW n \in Live', NEW m \in poll.listing,
               m.path = rows'[n].path, m.path \notin ConflictNs
        PROVE  rows'[n].gen = Generation \/ n \in poll.marks \/ \E k \in poll.todo : k.path = m.path
    BY <2>0, <2>3 DEF KnowInv, SweepInv
  <2>4. ASSUME poll.pc = "sweep", NEW n \in Live', NEW m \in poll.listing,
               m.path = rows'[n].path, m.path \notin ConflictNs
        PROVE  rows'[n].gen = Generation
    BY <2>0, <2>4 DEF KnowInv, SweepInv
  <2> QED
    BY <1>0, <2>1, <2>2, <2>3, <2>4 DEF SweepInv
<1> QED
  BY <1>3, <1>4, <1>5, <1>6, <1>7, <1>8 DEF KnowInv
-----------------------------------------------------------------------------
(* Steps of the poller that leave the index alone.                         *)

LEMMA CloudStill ==
  ASSUME CloudInv, remote' = remote, clock' = clock, apart \subseteq apart' PROVE CloudInv'
BY DEF CloudInv, CloudTypes, CloudDates, CloudPaths, CloudVers, Used

LEMMA IndexStill ==
  ASSUME IndexInv, OwnRows, UNCHANGED <<mode, remote, clock, rows, next, mixed>>
  PROVE  IndexInv' /\ OwnRows' /\ \A i \in Items : Cur(i)' = Cur(i)
<1>1. Live' = Live
  BY DEF Live
<1>2. IndexTypes' /\ IndexKeys'
  BY <1>1 DEF IndexInv, IndexTypes, IndexKeys
<1>3. OwnRows'
  BY <1>1 DEF OwnRows, OwnRow, Used
<1>4. ASSUME NEW i \in Items PROVE Cur(i)' = Cur(i)
  BY <1>1 DEF Cur, Clean
<1> QED
  BY <1>2, <1>3, <1>4 DEF IndexInv

LEMMA OtherPc ==
  ASSUME poll'.pc \notin Pages \cup Full PROVE PageInv' /\ ListInv' /\ SweepInv'
BY DEF PageInv, ListInv, SweepInv, Full

LEMMA IdleType ==
  ASSUME IndexInv
  PROVE  /\ Idle \in PollType /\ Idle.pc = "idle" /\ Idle.call = "poll" /\ Idle.nxt = 0
         /\ (\A p \in Dirs : Idle.map[p] < next) /\ Idle.snap = {}
<1>1. next \in Nat \ {0}
  BY PollerAssumption DEF IndexInv, IndexTypes
<1> QED
  BY <1>1 DEF Idle, PollType, Pcs

\* A poll that is given up, by an error or a restart.
LEMMA ToIdle ==
  ASSUME CloudInv, IndexInv, KnowInv, IndexInv', poll' = Idle, UNCHANGED <<mode, remote, clock, token, mixed>>,
         apart \subseteq apart', next <= next',
         mode = "delta" /\ token.kind = "token" => \A i \in Told : remote[i].seq <= token.n /\ Cur(i) => Cur(i)'
  PROVE  KnowInv'
<1>0. clock \in Nat /\ token \in TokenType /\ poll \in PollType
  BY DEF CloudInv, CloudTypes, KnowInv, PollTypes
<1>1. /\ Idle \in PollType /\ Idle.pc = "idle" /\ Idle.call = "poll" /\ Idle.nxt = 0
      /\ (\A p \in Dirs : Idle.map[p] < next) /\ Idle.snap = {}
  BY IdleType
<1>2. PollTypes'
  <2>1. \A p \in Dirs : Idle.map[p] < next'
    <3>1. next \in Nat /\ next' \in Nat
      BY DEF IndexInv, IndexTypes
    <3> QED
      BY <1>1, <3>1 DEF PollType
  <2> QED
    BY <1>0, <1>1, <2>1 DEF PollTypes
<1>3. PhaseInv'
  BY <1>0, <1>1 DEF KnowInv, PhaseInv, Pages, Full
<1>4. PageInv' /\ ListInv' /\ SweepInv'
  BY <1>1, OtherPc DEF Pages, Full
<1>5. CurInv'
  <2> SUFFICES ASSUME mode = "delta", NEW i \in Told', token.kind = "token", remote[i].seq <= token.n
               PROVE  Cur(i)'
    BY <1>1 DEF CurInv, Due, Pages
  <2>1. i \in Told /\ i \in Items
    BY DEF Told
  <2>2. poll.call = "poll" /\ poll.pc \notin Full \cup {"list", "generation", "start"}
    BY DEF KnowInv, PhaseInv
  <2>3. poll.pc \in {"idle", "fetch", "settoken"} \cup Pages
    BY <1>0, <2>2 DEF PollType, Pcs, Full, Pages
  <2>4. poll.pc \in Pages \cup {"settoken"} => remote[i].seq <= poll.nxt
    <3>1. poll.pc \in Pages \cup {"settoken"} => token.n <= poll.nxt
      BY <2>2 DEF KnowInv, PhaseInv
    <3>2. token.n \in Nat /\ poll.nxt \in Nat /\ remote[i].seq \in Nat
      BY <1>0, <2>1 DEF TokenType, PollType, CloudInv, CloudTypes, ItemType
    <3> QED
      BY <3>1, <3>2
  <2>5. poll.pc \in Pages => ChangeOf(i) \notin poll.todo
    <3> SUFFICES ASSUME poll.pc \in Pages, ChangeOf(i) \in poll.todo PROVE FALSE
      OBVIOUS
    <3>1. token.n < ChangeOf(i).seq
      BY DEF KnowInv, PageInv
    <3>2. token.n \in Nat /\ remote[i].seq \in Nat
      BY <1>0, <2>1 DEF TokenType, CloudInv, CloudTypes, ItemType
    <3> QED
      BY <3>1, <3>2 DEF ChangeOf
  <2>6. Due(i)
    BY <2>2, <2>3, <2>4, <2>5 DEF Due
  <2>7. Cur(i)
    BY <2>1, <2>6 DEF KnowInv, CurInv
  <2> QED
    BY <2>1, <2>7
<1> QED
  BY <1>2, <1>3, <1>4, <1>5 DEF KnowInv

LEMMA FailKeeps ==
  ASSUME CloudInv, IndexInv, KnowInv, apart \subseteq Items, IndexInv', Fail,
         UNCHANGED <<mode, remote, clock, token, mixed>>, next <= next',
         mode = "delta" /\ token.kind = "token" => \A i \in Told : remote[i].seq <= token.n /\ Cur(i) => Cur(i)'
  PROVE  KnowInv' /\ apart \subseteq apart' /\ apart' \subseteq Items
<1>1. CASE poll.call = "first" /\ poll.pc \notin {"start", "settoken"}
  <2>1. poll' = [Idle EXCEPT !.pc = "start", !.call = "first"] /\ apart' = Items
    BY <1>1 DEF Fail
  <2>2. /\ poll' \in PollType /\ poll'.pc = "start" /\ poll'.call = "first" /\ poll'.nxt = 0
        /\ poll'.map = Idle.map /\ poll'.snap = {}
    BY <2>1 DEF Idle, PollType, Pcs
  <2>3. PollTypes'
    <3>1. next \in Nat /\ next' \in Nat /\ \A p \in Dirs : Idle.map[p] < next /\ Idle.map[p] \in Nat
      BY IdleType DEF IndexInv, IndexTypes, PollType
    <3>2. \A p \in Dirs : poll'.map[p] < next'
      BY <2>2, <3>1
    <3> QED
      BY <2>2, <3>2 DEF PollTypes, KnowInv
  <2>4. PhaseInv'
    <3>1. mode = "delta" /\ token.kind # "token" /\ clock \in Nat
      BY <1>1 DEF KnowInv, PhaseInv, IndexInv, IndexTypes, Modes, CloudInv, CloudTypes
    <3> QED
      BY <2>2, <3>1 DEF PhaseInv, Pages, Full
  <2>5. PageInv' /\ ListInv' /\ SweepInv'
    BY <2>2, OtherPc DEF Pages, Full
  <2>6. CurInv'
    BY <2>1 DEF CurInv, Told
  <2> QED
    BY <2>1, <2>3, <2>4, <2>5, <2>6 DEF KnowInv
<1>2. CASE ~(poll.call = "first" /\ poll.pc \notin {"start", "settoken"})
  <2>1. poll' = Idle /\ apart' = apart
    BY <1>2 DEF Fail
  <2> QED
    BY <2>1, ToIdle
<1> QED
  BY <1>1, <1>2

\* What the steps below share.
Looks ==
  /\ UNCHANGED <<mode, remote, clock, rows, next, mixed>>
  /\ apart \subseteq apart' /\ apart' \subseteq Items

LEMMA BeginFullKeeps ==
  ASSUME CloudInv, IndexInv, KnowInv, apart \subseteq Items, BeginFull PROVE Looks /\ KnowInv'
<1>0. poll \in PollType /\ token \in TokenType
  BY DEF KnowInv, PollTypes
<1>1. poll' = [poll EXCEPT !.pc = "list"] /\ token' = token /\ mode = "full"
  BY DEF BeginFull, Proceed, Goto
<1>2. Looks
  BY DEF BeginFull, PollStep, index, history, cloud, Looks
<1>3. /\ poll' \in PollType /\ poll'.pc = "list" /\ poll'.call = poll.call /\ poll'.nxt = poll.nxt
      /\ poll'.map = poll.map /\ poll'.snap = poll.snap
  BY <1>0, <1>1 DEF PollType, Pcs
<1>4. PollTypes' /\ PhaseInv'
  BY <1>1, <1>2, <1>3 DEF KnowInv, PollTypes, PhaseInv, Pages, Looks
<1>5. PageInv' /\ ListInv' /\ SweepInv'
  BY <1>3, OtherPc DEF Pages, Full
<1>6. CurInv'
  BY <1>1, <1>2 DEF CurInv, Looks
<1> QED
  BY <1>2, <1>4, <1>5, <1>6 DEF KnowInv

\* An item in the cloud as a listing and as the feed have it.
LEMMA MetaFacts ==
  ASSUME CloudInv, IndexInv, NEW i \in LiveItems
  PROVE  /\ Meta(i) \in MetaType /\ Meta(i).path = remote[i].path /\ Meta(i).ver = remote[i].ver
         /\ Owned(Meta(i)) /\ (mode = "delta" => Meta(i).item = i)
<1>1. /\ i \in Items /\ ~remote[i].gone /\ Used(i) /\ remote[i].path \in Paths /\ remote[i].ver \in Nat
      /\ remote[i].ver <= clock
  BY DEF LiveItems, CloudInv, CloudTypes, CloudDates, Used, ItemType
<1>2. ItemId(i) \in {i, None} /\ (mode = "delta" => ItemId(i) = i)
  BY DEF ItemId
<1>3. /\ Meta(i).item = ItemId(i) /\ Meta(i).path = remote[i].path /\ Meta(i).ver = remote[i].ver
      /\ Meta(i) \in MetaType
  BY <1>1, <1>2 DEF Meta, MetaType
<1>4. \A j \in Items : j # i /\ Used(j) => remote[j].ver # remote[i].ver
  BY <1>1 DEF CloudInv, CloudVers
<1> QED
  BY <1>1, <1>2, <1>3, <1>4 DEF Owned

LEMMA ListKeeps ==
  ASSUME CloudInv, IndexInv, KnowInv, apart \subseteq Items, List PROVE Looks /\ KnowInv'
<1>0. poll \in PollType /\ token \in TokenType
  BY DEF KnowInv, PollTypes
<1> DEFINE L == {Meta(i) : i \in LiveItems}
<1>1. poll' = [poll EXCEPT !.pc = "snapshot", !.listing = L] /\ token' = token /\ poll.pc = "list"
  BY DEF List, Proceed, PollStep
<1>2. Looks
  BY DEF List, PollStep, index, history, cloud, Looks
<1>3. L \subseteq MetaType
  BY MetaFacts
<1>4. /\ poll' \in PollType /\ poll'.pc = "snapshot" /\ poll'.call = poll.call /\ poll'.nxt = poll.nxt
      /\ poll'.map = poll.map /\ poll'.snap = poll.snap /\ poll'.listing = L
  <2> HIDE DEF L
  <2> QED
    BY <1>0, <1>1, <1>3 DEF PollType, Pcs
<1>5. PollTypes' /\ PhaseInv'
  BY <1>1, <1>2, <1>4 DEF KnowInv, PollTypes, PhaseInv, Pages, Looks, Full
<1>6. PageInv' /\ SweepInv'
  BY <1>4 DEF PageInv, SweepInv, Pages
<1>7. ListInv'
  <2>0. LiveItems' = LiveItems /\ (\A i \in Items : Meta(i)' = Meta(i)) /\ mode' = mode
    BY <1>2 DEF Looks, LiveItems, Meta, ItemId
  <2>1. ASSUME NEW m \in L PROVE Owned(m)'
    <3>1. Owned(m)
      BY MetaFacts
    <3> QED
      BY <1>2, <3>1 DEF Owned, Looks, Used
  <2>2. ASSUME mode = "delta", NEW m \in L
        PROVE  m.item \in LiveItems /\ m.path = remote[m.item].path /\ m = Meta(m.item)
    BY <2>2, MetaFacts
  <2>3. ASSUME mode = "delta"
        PROVE  /\ \A i \in LiveItems : Meta(i) \in L
               /\ \A m \in L : m.item \in Items /\ m = Meta(m.item) /\ ~remote[m.item].gone
               /\ \A m \in L, j \in LiveItems : m.path = remote[j].path => m.item = j
    <3>1. \A i \in LiveItems : Meta(i) \in L
      OBVIOUS
    <3>2. \A m \in L : m.item \in Items /\ m = Meta(m.item) /\ ~remote[m.item].gone
      BY <2>2, <2>3 DEF LiveItems
    <3>3. \A m \in L, j \in LiveItems : m.path = remote[j].path => m.item = j
      BY <2>2, <2>3 DEF LiveItems, CloudInv, CloudPaths
    <3> QED
      BY <3>1, <3>2, <3>3
  <2>4. LiveItems \subseteq Items
    BY DEF LiveItems
  <2> HIDE DEF L
  <2> QED
    BY <1>2, <1>4, <2>0, <2>1, <2>3, <2>4 DEF ListInv, Looks
<1>8. CurInv'
  BY <1>4 DEF CurInv, Due, Pages
<1> QED
  BY <1>2, <1>5, <1>6, <1>7, <1>8 DEF KnowInv

\* The invariants about the listing, when it stays.
LEMMA ListStays ==
  ASSUME UNCHANGED <<mode, remote, clock>>, apart \subseteq apart', mixed \subseteq mixed', ListInv,
         poll.pc \in Full, poll'.listing = poll.listing, poll'.pc \in Full,
         poll'.pc = "upsert" => poll'.todo \subseteq poll.listing
  PROVE  ListInv'
<1>1. /\ LiveItems' = LiveItems /\ (\A i \in Items : Meta(i)' = Meta(i)) /\ mode' = mode /\ Told' \subseteq Told
      /\ LiveItems \subseteq Items /\ remote' = remote
  BY DEF LiveItems, Meta, ItemId, Told
<1>2. \A m \in poll.listing : Owned(m)'
  BY DEF ListInv, Owned, Used
<1>3. ASSUME mode = "delta"
      PROVE  /\ \A i \in LiveItems' \cap Told' : Meta(i)' \in poll.listing
             /\ \A m \in poll.listing : m.item \in Items /\ (m.item \in Told' => m = Meta(m.item)' /\ ~remote'[m.item].gone)
             /\ \A m \in poll.listing, j \in LiveItems' \cap Told' : m.path = remote'[j].path => m.item = j
  <2>1. /\ \A i \in LiveItems \cap Told : Meta(i) \in poll.listing
        /\ \A m \in poll.listing : m.item \in Items /\ (m.item \in Told => m = Meta(m.item) /\ ~remote[m.item].gone)
        /\ \A m \in poll.listing, j \in LiveItems \cap Told : m.path = remote[j].path => m.item = j
    BY <1>3 DEF ListInv
  <2> QED
    BY <1>1, <2>1
<1> QED
  BY <1>1, <1>2, <1>3 DEF ListInv

LEMMA SnapshotKeeps ==
  ASSUME CloudInv, IndexInv, OwnRows, KnowInv, apart \subseteq Items, Snapshot PROVE Looks /\ KnowInv'
<1>0. poll \in PollType /\ token \in TokenType
  BY DEF KnowInv, PollTypes
<1> DEFINE P == {[inode |-> n, row |-> rows[n]] : n \in Live}
<1>1. poll' = [poll EXCEPT !.pc = "diff", !.snap = P] /\ token' = token /\ poll.pc = "snapshot" /\ apart' = apart
  BY DEF Snapshot, Proceed, PollStep, history
<1>2. Looks
  BY DEF Snapshot, PollStep, index, history, cloud, Looks
<1>3. P \subseteq SnapType /\ \A x \in P : x.inode \in Live /\ x.row = rows[x.inode] /\ x.inode < next
  <2>1. ASSUME NEW n \in Live PROVE n \in Inodes /\ rows[n] \in RowType /\ n < next
    BY DEF IndexInv, IndexTypes, Live
  <2> QED
    BY <2>1 DEF SnapType
<1>4. /\ poll' \in PollType /\ poll'.pc = "diff" /\ poll'.call = poll.call /\ poll'.nxt = poll.nxt
      /\ poll'.map = poll.map /\ poll'.snap = P /\ poll'.listing = poll.listing
  <2> HIDE DEF P
  <2> QED
    BY <1>0, <1>1, <1>3 DEF PollType, Pcs
<1>5. PollTypes' /\ PhaseInv'
  <2> HIDE DEF P
  <2> QED
    BY <1>1, <1>2, <1>3, <1>4 DEF KnowInv, PollTypes, PhaseInv, Pages, Looks, Full
<1>6. PageInv'
  BY <1>4 DEF PageInv, Pages
<1>7. ListInv'
  BY <1>1, <1>2, <1>4, ListStays DEF KnowInv, Full, Looks
<1>8. SweepInv'
  <2>1. ASSUME NEW n \in Live PROVE \E x \in P : x.inode = n /\ x.row.path = rows[n].path
    <3>1. [inode |-> n, row |-> rows[n]] \in P
      OBVIOUS
    <3> QED
      BY <3>1
  <2>2. Live' = Live /\ rows' = rows
    BY <1>2 DEF Looks, Live
  <2> HIDE DEF P
  <2> QED
    BY <1>4, <2>1, <2>2 DEF SweepInv
<1>9. CurInv'
  <2> SUFFICES ASSUME mode = "delta", NEW i \in Told', ~remote[i].gone, NEW x \in P,
                      x.row.path = remote[i].path, x.row.etag = remote[i].ver
               PROVE  Cur(i)
    <3>1. \A i \in Items : Cur(i)' = Cur(i)
      BY <1>2, IndexStill DEF Looks
    <3>2. Told' \subseteq Items
      BY DEF Told
    <3> HIDE DEF P
    <3> QED
      BY <1>2, <1>4, <3>1, <3>2 DEF CurInv, Due, Pages, Looks, InSnapshot
  <2>1. i \in Items /\ i \notin mixed /\ Used(i)
    BY <1>2 DEF Told, Looks, CloudInv, CloudDates
  <2>2. PICK n \in Live : n = x.inode /\ rows[n].path = remote[i].path /\ rows[n].etag = remote[i].ver
    BY <1>3
  <2>3. rows[n].item = None => remote[i].path \in Skipped
    BY <2>2 DEF IndexInv, IndexKeys, Skipped
  <2>4. rows[n].item \in {None, i}
    BY <2>1, <2>2 DEF OwnRows, OwnRow
  <2> QED
    BY <2>2, <2>3, <2>4 DEF Cur
<1> QED
  BY <1>2, <1>5, <1>6, <1>7, <1>8, <1>9 DEF KnowInv

LEMMA MapType ==
  ASSUME IndexInv, NEW P, P \subseteq SnapType, \A x \in P : x.inode < next
  PROVE  MapOf(P) \in [Dirs -> Nat] /\ \A p \in Dirs : MapOf(P)[p] < next
<1>1. next \in Nat \ {0}
  BY PollerAssumption DEF IndexInv, IndexTypes
<1>2. ASSUME NEW p \in Dirs PROVE MapOf(P)[p] \in Nat /\ MapOf(P)[p] < next
  <2>1. CASE \E x \in P : x.row.path = p
    <3>1. PICK x \in P : x = CHOOSE y \in P : y.row.path = p
      BY <2>1
    <3>2. MapOf(P)[p] = x.inode
      BY <2>1, <3>1 DEF MapOf
    <3> QED
      BY <3>2 DEF SnapType, Inodes
  <2>2. CASE ~\E x \in P : x.row.path = p
    BY <1>1, <2>2 DEF MapOf
  <2> QED
    BY <2>1, <2>2
<1> QED
  BY <1>2 DEF MapOf

LEMMA SkipsItems ==
  ASSUME NEW S, \A m \in S : m.item \in Items \cup {None} PROVE SkippedItems(S) \subseteq Items
BY DEF SkippedItems

LEMMA DiffKeeps ==
  ASSUME CloudInv, IndexInv, OwnRows, KnowInv, apart \subseteq Items, Diff PROVE Looks /\ KnowInv'
<1>0. poll \in PollType /\ token \in TokenType /\ poll.listing \subseteq MetaType /\ poll.snap \subseteq SnapType
  BY DEF KnowInv, PollTypes, PollType
<1> DEFINE seen == {m \in poll.listing : Considered(m)}
           same == {m \in seen : Unchanged(m)}
           L == {m \in poll.listing : ~IsTombstoned(m.path, tombs)}
           M == UNION {{x.inode : x \in InSnap(m.path)} : m \in same}
           T == {m \in seen \ same : m.path \notin Ignored}
<1>1. /\ poll' = [poll EXCEPT !.pc = "upsert", !.snap = {}, !.map = MapOf(poll.snap), !.listing = L,
                              !.marks = M, !.todo = T]
      /\ token' = token /\ poll.pc = "diff"
      /\ apart' = apart \cup SkippedItems({m \in poll.listing : ~Considered(m)})
  BY DEF Diff, Proceed, PollStep
<1>2. Looks
  <2>1. apart' \subseteq Items
    BY <1>0, <1>1, SkipsItems DEF MetaType
  <2> QED
    BY <1>1, <2>1 DEF Diff, PollStep, index, cloud, Looks
<1>3. MapOf(poll.snap) \in [Dirs -> Nat] /\ \A p \in Dirs : MapOf(poll.snap)[p] < next
  BY <1>0, MapType DEF KnowInv, PollTypes
<1>4. L \subseteq MetaType /\ T \subseteq MetaType /\ M \subseteq Inodes /\ T \subseteq L
  BY <1>0 DEF SnapType, InSnap, Considered
<1>5. /\ poll' \in PollType /\ poll'.pc = "upsert" /\ poll'.call = poll.call /\ poll'.nxt = poll.nxt
      /\ poll'.map = MapOf(poll.snap) /\ poll'.snap = {} /\ poll'.listing = L /\ poll'.todo = T /\ poll'.marks = M
  <2> HIDE DEF L, T, M
  <2> QED
    BY <1>0, <1>1, <1>3, <1>4 DEF PollType, Pcs
<1>6. PollTypes' /\ PhaseInv'
  <2> HIDE DEF L, T, M
  <2> QED
    BY <1>1, <1>2, <1>3, <1>5 DEF KnowInv, PollTypes, PhaseInv, Pages, Looks, Full
<1>7. PageInv'
  BY <1>5 DEF PageInv, Pages
<1>8. /\ LiveItems' = LiveItems /\ (\A i \in Items : Meta(i)' = Meta(i)) /\ mode' = mode /\ Told' \subseteq Told
      /\ LiveItems \subseteq Items /\ remote' = remote
  BY <1>2 DEF Looks, LiveItems, Meta, ItemId, Told
<1>9. ASSUME mode = "delta", NEW i \in LiveItems \cap Told' PROVE Meta(i) \in poll.listing /\ Considered(Meta(i))
  <2>1. Meta(i) \in poll.listing
    BY <1>1, <1>8, <1>9 DEF KnowInv, ListInv, Full
  <2>2. Meta(i).item = i /\ i # None /\ i \notin apart'
    BY <1>8, <1>9, MetaFacts, NoneFacts DEF Told
  <2> QED
    BY <1>1, <2>1, <2>2 DEF SkippedItems
<1>10. ListInv'
  <2>1. \A m \in L : Owned(m)'
    BY <1>1, <1>2 DEF KnowInv, ListInv, Owned, Looks, Used, Full
  <2>2. ASSUME mode = "delta"
        PROVE  /\ \A i \in LiveItems' \cap Told' : Meta(i)' \in L
               /\ \A m \in L : m.item \in Items /\ (m.item \in Told' => m = Meta(m.item)' /\ ~remote'[m.item].gone)
               /\ \A m \in L, j \in LiveItems' \cap Told' : m.path = remote'[j].path => m.item = j
    <3>1. /\ \A m \in poll.listing : m.item \in Items /\ (m.item \in Told => m = Meta(m.item) /\ ~remote[m.item].gone)
          /\ \A m \in poll.listing, j \in LiveItems \cap Told : m.path = remote[j].path => m.item = j
      BY <1>1, <2>2 DEF KnowInv, ListInv, Full
    <3>2. \A i \in LiveItems' \cap Told' : Meta(i)' \in L
      BY <1>8, <1>9, <2>2 DEF Considered
    <3>3. L \subseteq poll.listing
      OBVIOUS
    <3> HIDE DEF L
    <3> QED
      BY <1>8, <3>1, <3>2, <3>3
  <2> HIDE DEF L, T, M
  <2> QED
    BY <1>4, <1>5, <1>8, <2>1, <2>2 DEF ListInv
<1>11. CurInv'
  <2> SUFFICES ASSUME mode = "delta", NEW i \in Told', ~remote[i].gone, Meta(i) \notin T
               PROVE  Cur(i)
    <3>1. \A i \in Items : Cur(i)' = Cur(i)
      BY <1>2, IndexStill DEF Looks
    <3>2. Told' \subseteq Items
      BY DEF Told
    <3> HIDE DEF L, T, M
    <3> QED
      BY <1>5, <1>8, <3>1, <3>2 DEF CurInv, Due, Pages
  <2>0. i \in LiveItems /\ i \in Told
    BY <1>8 DEF LiveItems, Told
  <2>1. Meta(i) \in seen /\ Meta(i).path = remote[i].path /\ Meta(i).ver = remote[i].ver
    BY <1>9, <2>0, MetaFacts
  <2>2. CASE remote[i].path \in Ignored
    BY <2>2 DEF Cur, Skipped
  <2>3. CASE remote[i].path \notin Ignored
    <3>1. Unchanged(Meta(i))
      BY <2>1, <2>3
    <3>2. InSnapshot(i)
      BY <2>1, <2>3, <3>1 DEF Unchanged, InSnap, InSnapshot
    <3> QED
      BY <1>1, <2>0, <3>2 DEF KnowInv, CurInv, Due
  <2> QED
    BY <2>2, <2>3
<1>12. SweepInv'
  <2>1. ASSUME NEW n \in Live, NEW m \in L, m.path = rows[n].path, m.path \notin ConflictNs
        PROVE  n \in M \/ \E k \in T : k.path = m.path
    <3>1. PICK x \in poll.snap : x.inode = n /\ x.row.path = rows[n].path
      BY <1>1, <2>1 DEF KnowInv, SweepInv
    <3>2. m \in seen /\ x \in InSnap(m.path)
      BY <2>1, <3>1 DEF Considered, InSnap
    <3>3. CASE Unchanged(m)
      <4>1. m \in same
        BY <3>2, <3>3
      <4>2. n \in {y.inode : y \in InSnap(m.path)}
        BY <3>1, <3>2
      <4> QED
        BY <4>1, <4>2
    <3>4. CASE ~Unchanged(m)
      <4>1. m.path \notin Ignored
        BY <3>2, <3>4 DEF Unchanged
      <4> QED
        BY <3>2, <3>4, <4>1
    <3> QED
      BY <3>3, <3>4
  <2>2. Live' = Live /\ rows' = rows
    BY <1>2 DEF Looks, Live
  <2> HIDE DEF L, T, M
  <2> QED
    BY <1>5, <2>1, <2>2 DEF SweepInv
<1> QED
  BY <1>2, <1>6, <1>7, <1>10, <1>11, <1>12 DEF KnowInv

LEMMA BeginDeltaKeeps ==
  ASSUME CloudInv, IndexInv, OwnRows, KnowInv, apart \subseteq Items, BeginDelta PROVE Looks /\ KnowInv'
<1>0. poll \in PollType /\ token \in TokenType /\ mode = "delta" /\ poll.pc = "idle" /\ token' = token /\ poll.call = "poll"
  BY DEF KnowInv, PollTypes, PhaseInv, BeginDelta, PollStep
<1>1. \/ /\ poll' = [poll EXCEPT !.pc = "fetch"] /\ token.kind # "none" /\ apart' = apart
      \/ /\ poll' = [poll EXCEPT !.pc = "list", !.call = "first"] /\ token.kind = "none" /\ apart' = apart
      \/ /\ poll' = [poll EXCEPT !.pc = "start", !.call = "first"] /\ token.kind = "none" /\ apart' = Items
  BY DEF BeginDelta, Proceed, Goto
<1>2. Looks
  BY <1>1 DEF BeginDelta, PollStep, index, cloud, Looks
<1>3. /\ poll' \in PollType /\ poll'.nxt = poll.nxt /\ poll'.map = poll.map /\ poll'.snap = poll.snap
      /\ \/ poll'.pc = "fetch" /\ poll'.call = "poll" /\ apart' = apart
         \/ poll'.pc = "list" /\ poll'.call = "first" /\ token.kind = "none"
         \/ poll'.pc = "start" /\ poll'.call = "first" /\ token.kind = "none" /\ apart' = Items
  BY <1>0, <1>1 DEF PollType, Pcs
<1>4. PollTypes' /\ PhaseInv'
  BY <1>0, <1>2, <1>3 DEF KnowInv, PollTypes, PhaseInv, Pages, Looks, Full
<1>5. PageInv' /\ ListInv' /\ SweepInv'
  BY <1>3, OtherPc DEF Pages, Full
<1>6. CurInv'
  <2>1. \A i \in Items : Cur(i)' = Cur(i)
    BY <1>2, IndexStill DEF Looks
  <2>2. CASE poll'.pc = "fetch" /\ apart' = apart
    <3>1. Told' = Told /\ Told \subseteq Items
      BY <1>2, <2>2 DEF Told, Looks
    <3>2. \A i \in Told : Due(i)' => Due(i)
      BY <1>0, <1>2, <1>3, <2>2 DEF Due, Looks, Pages
    <3> QED
      BY <1>0, <1>2, <2>1, <3>1, <3>2 DEF KnowInv, CurInv, Looks
  <2>3. CASE poll'.pc = "list"
    BY <2>3 DEF CurInv, Due, Pages
  <2>4. CASE apart' = Items
    BY <2>4 DEF CurInv, Told
  <2> QED
    BY <1>3, <2>2, <2>3, <2>4
<1> QED
  BY <1>2, <1>4, <1>5, <1>6 DEF KnowInv

LEMMA StartTokenKeeps ==
  ASSUME CloudInv, IndexInv, OwnRows, KnowInv, apart \subseteq Items, StartToken PROVE Looks /\ KnowInv'
<1>0. poll \in PollType /\ token \in TokenType /\ poll.pc = "start" /\ token' = token /\ apart' = apart /\ clock \in Nat
  BY DEF KnowInv, PollTypes, StartToken, PollStep, history, CloudInv, CloudTypes
<1>1. poll' = [poll EXCEPT !.pc = "settoken", !.nxt = clock]
  BY DEF StartToken, Proceed
<1>2. Looks
  BY DEF StartToken, PollStep, index, cloud, Looks, history
<1>3. /\ poll' \in PollType /\ poll'.nxt = clock /\ poll'.map = poll.map /\ poll'.snap = poll.snap
      /\ poll'.pc = "settoken" /\ poll'.call = poll.call
  BY <1>0, <1>1 DEF PollType, Pcs
<1>4. mode = "delta" /\ poll.call # "poll"
  BY <1>0 DEF KnowInv, PhaseInv, IndexInv, IndexTypes, Modes
<1>5. PollTypes' /\ PhaseInv'
  BY <1>0, <1>2, <1>3, <1>4 DEF KnowInv, PollTypes, PhaseInv, Pages, Looks, Full
<1>6. PageInv' /\ ListInv' /\ SweepInv'
  BY <1>3, OtherPc DEF Pages, Full
<1>7. CurInv'
  <2>1. \A i \in Items : Cur(i)' = Cur(i)
    BY <1>2, IndexStill DEF Looks
  <2>2. Told' = Told /\ Told \subseteq Items
    BY <1>0, <1>2 DEF Told, Looks
  <2>3. \A i \in Told : Due(i)
    BY <1>0, <1>4 DEF Due
  <2> QED
    BY <1>4, <2>1, <2>2, <2>3 DEF KnowInv, CurInv
<1> QED
  BY <1>2, <1>5, <1>6, <1>7 DEF KnowInv

LEMMA SetTokenKeeps ==
  ASSUME CloudInv, IndexInv, OwnRows, KnowInv, apart \subseteq Items, SetToken PROVE Looks /\ KnowInv'
<1>0. /\ poll \in PollType /\ token \in TokenType /\ poll.pc = "settoken" /\ token' = Token(poll.nxt) /\ apart' = apart
      /\ poll' = Idle /\ clock \in Nat /\ poll.nxt \in Nat /\ poll.nxt <= clock
  BY DEF KnowInv, PollTypes, PollType, PhaseInv, SetToken, PollStep, Succeed, history, CloudInv, CloudTypes
<1>1. Looks
  BY DEF SetToken, PollStep, index, cloud, Looks, history
<1>2. /\ Idle \in PollType /\ Idle.pc = "idle" /\ Idle.call = "poll" /\ Idle.nxt = 0
      /\ (\A p \in Dirs : Idle.map[p] < next) /\ Idle.snap = {}
  BY IdleType
<1>3. token' \in TokenType /\ token'.kind = "token" /\ token'.n = poll.nxt
  BY <1>0 DEF Token, TokenType
<1>4. PollTypes' /\ PhaseInv'
  <2>1. mode = "delta"
    BY <1>0 DEF KnowInv, PhaseInv, IndexInv, IndexTypes, Modes
  <2> QED
    BY <1>0, <1>1, <1>2, <1>3, <2>1 DEF PollTypes, PhaseInv, Pages, Looks, Full
<1>5. PageInv' /\ ListInv' /\ SweepInv'
  BY <1>0, <1>2, OtherPc DEF Pages, Full
<1>6. CurInv'
  <2>1. \A i \in Items : Cur(i)' = Cur(i)
    BY <1>1, IndexStill DEF Looks
  <2>2. Told' = Told /\ Told \subseteq Items
    BY <1>0, <1>1 DEF Told, Looks
  <2>3. ASSUME NEW i \in Told, Due(i)' PROVE Due(i)
    <3>1. remote[i].seq <= poll.nxt
      BY <1>0, <1>1, <1>2, <1>3, <2>3 DEF Due, Pages, Looks
    <3> QED
      BY <1>0, <3>1 DEF Due
  <2> QED
    BY <1>1, <2>1, <2>2, <2>3 DEF KnowInv, CurInv, Looks
<1> QED
  BY <1>1, <1>4, <1>5, <1>6 DEF KnowInv

LEMMA ChangeFacts ==
  ASSUME CloudInv, NEW i \in Items, remote[i].seq > 0
  PROVE  /\ ChangeOf(i) \in ChangeType /\ ChangeOf(i).item = i /\ ChangeOf(i).path = remote[i].path
         /\ ChangeOf(i).ver = remote[i].ver /\ ChangeOf(i).seq = remote[i].seq /\ ChangeOf(i).gone = remote[i].gone
         /\ Owned(ChangeOf(i))
<1>1. /\ remote[i] \in ItemType /\ Used(i) /\ remote[i].path \in Paths
      /\ remote[i].ver <= clock
  BY DEF CloudInv, CloudTypes, CloudDates, Used, ItemType
<1>2. \A j \in Items : j # i /\ Used(j) => remote[j].ver # remote[i].ver
  BY <1>1 DEF CloudInv, CloudVers
<1> QED
  BY <1>1, <1>2 DEF ChangeOf, ChangeType, Owned, ItemType

LEMMA FetchKeeps ==
  ASSUME CloudInv, IndexInv, OwnRows, KnowInv, apart \subseteq Items, Fetch PROVE Looks /\ KnowInv'
<1> DEFINE C == ChangedSince(token.n)
           T == {ChangeOf(i) : i \in C}
<1>0. /\ poll \in PollType /\ token \in TokenType /\ poll.pc = "fetch" /\ token' = token /\ apart' = apart
      /\ clock \in Nat /\ token.kind = "token" /\ token.n \in Nat /\ remote \in [Items -> ItemType] /\ token.n <= clock
  BY DEF KnowInv, PhaseInv, PollTypes, Fetch, PollStep, history, CloudInv, CloudTypes, TokenType
<1>1. poll' = [poll EXCEPT !.pc = IF C = {} THEN "settoken" ELSE "tombstones", !.todo = T, !.nxt = clock]
  BY DEF Fetch, Proceed
<1>2. Looks
  BY DEF Fetch, PollStep, index, cloud, Looks, history
<1>3. mode = "delta" /\ poll.call = "poll"
  BY <1>0 DEF KnowInv, PhaseInv, IndexInv, IndexTypes, Modes
<1>4. /\ C \subseteq Items /\ \A i \in C : remote[i].seq > token.n /\ remote[i].seq > 0
      /\ \A i \in Items \ C : remote[i].seq <= token.n
      /\ \A i \in Items : remote[i].seq \in Nat /\ remote[i].seq <= clock
  BY <1>0 DEF ChangedSince, ItemType, CloudInv, CloudDates
<1>5. ASSUME NEW c \in T
      PROVE  /\ c \in ChangeType /\ Owned(c) /\ c.item \in C /\ c = ChangeOf(c.item)
             /\ c.path = remote[c.item].path /\ c.seq = remote[c.item].seq /\ c.gone = remote[c.item].gone
  <2>1. PICK i \in C : c = ChangeOf(i)
    OBVIOUS
  <2> HIDE DEF C
  <2> QED
    BY <1>4, <2>1, ChangeFacts
<1>6. /\ poll' \in PollType /\ poll'.nxt = clock /\ poll'.map = poll.map /\ poll'.snap = poll.snap
      /\ poll'.pc \in {"settoken", "tombstones"} /\ poll'.call = "poll" /\ poll'.todo = T
      /\ poll'.pc = "settoken" => C = {}
  <2>1. T \subseteq MetaType \cup ChangeType
    BY <1>5
  <2>2. PICK q \in {"settoken", "tombstones"} : q = (IF C = {} THEN "settoken" ELSE "tombstones")
    OBVIOUS
  <2> HIDE DEF C, T
  <2> QED
    BY <1>0, <1>1, <1>3, <2>1, <2>2 DEF PollType, Pcs
<1> HIDE DEF C, T
<1>7. PollTypes' /\ PhaseInv'
  BY <1>0, <1>2, <1>3, <1>6 DEF KnowInv, PollTypes, PhaseInv, Pages, Looks, Full
<1>8. ListInv' /\ SweepInv'
  BY <1>6 DEF ListInv, SweepInv, Full
<1>9. /\ LiveItems' = LiveItems /\ (\A i \in Items : ChangeOf(i)' = ChangeOf(i)) /\ mode' = mode /\ Told' = Told
      /\ LiveItems \subseteq Items /\ remote' = remote /\ Told \subseteq Items /\ apart \subseteq apart'
  BY <1>0, <1>2 DEF Looks, LiveItems, ChangeOf, Told
<1>10. \A i \in C : ChangeOf(i) \in T
  BY DEF T
<1>11. PageInv'
  <2>1. ASSUME NEW c \in T
        PROVE  /\ c \in ChangeType /\ Owned(c)' /\ token.n < c.seq /\ c.seq <= clock
               /\ c = ChangeOf(c.item)'
    <3>1. Owned(c)'
      BY <1>2, <1>5 DEF Owned, Looks, Used
    <3>2. c.item \in Items
      BY <1>4, <1>5
    <3> QED
      BY <1>0, <1>4, <1>5, <1>9, <3>1, <3>2
  <2>2. ASSUME NEW c \in T, NEW j \in LiveItems \ apart, j # c.item, remote[j].path = c.path
        PROVE  c.gone /\ remote[j].seq > c.seq
    <3>1. c.item \in Items /\ c.path = remote[c.item].path /\ c.seq = remote[c.item].seq /\ c.gone = remote[c.item].gone
      BY <1>4, <1>5
    <3> QED
      BY <2>2, <3>1 DEF CloudInv, CloudPaths, LiveItems
  <2>3. ASSUME NEW j \in Told, token.n < remote[j].seq, ChangeOf(j) \notin T PROVE FALSE
    BY <1>0, <1>4, <1>9, <1>10, <2>3
  <2> QED
    BY <1>0, <1>6, <1>9, <2>1, <2>2, <2>3 DEF PageInv
<1>12. CurInv'
  <2>1. \A i \in Items : Cur(i)' = Cur(i)
    BY <1>2, IndexStill DEF Looks
  <2>2. ASSUME NEW i \in Told, Due(i)' PROVE Due(i)
    <3>1. i \in Items /\ i \notin C
      BY <1>3, <1>6, <1>9, <1>10, <2>2 DEF Due, Pages
    <3> QED
      BY <1>0, <1>4, <3>1 DEF Due
  <2> QED
    BY <1>3, <1>9, <2>1, <2>2 DEF KnowInv, CurInv
<1> QED
  BY <1>2, <1>7, <1>8, <1>11, <1>12 DEF KnowInv

LEMMA FetchExpiredKeeps ==
  ASSUME CloudInv, IndexInv, OwnRows, KnowInv, apart \subseteq Items, FetchExpired PROVE Looks /\ KnowInv'
<1>0. poll \in PollType /\ poll.pc = "fetch" /\ token' = NoToken
  BY DEF KnowInv, PollTypes, FetchExpired, PollStep
<1>1. poll' = [poll EXCEPT !.pc = "list", !.call = "expired"]
  BY DEF FetchExpired, Proceed
<1>2. Looks
  BY DEF FetchExpired, PollStep, index, cloud, Looks, history
<1>3. /\ poll' \in PollType /\ poll'.nxt = poll.nxt /\ poll'.map = poll.map /\ poll'.snap = poll.snap
      /\ poll'.pc = "list" /\ poll'.call = "expired"
  BY <1>0, <1>1 DEF PollType, Pcs
<1>4. token' \in TokenType /\ token'.kind = "none" /\ mode = "delta"
  BY <1>0 DEF NoToken, TokenType, KnowInv, PhaseInv, IndexInv, IndexTypes, Modes
<1>5. PollTypes' /\ PhaseInv'
  BY <1>2, <1>3, <1>4 DEF KnowInv, PollTypes, PhaseInv, Pages, Looks, Full
<1>6. PageInv' /\ ListInv' /\ SweepInv'
  BY <1>3, OtherPc DEF Pages, Full
<1>7. CurInv'
  BY <1>3 DEF CurInv, Due, Pages
<1> QED
  BY <1>2, <1>5, <1>6, <1>7 DEF KnowInv

\* Failures and restarts.
LEMMA LookFails ==
  ASSUME CloudInv, IndexInv, OwnRows, KnowInv, apart \subseteq Items, Fail,
         UNCHANGED <<mode, remote, clock, rows, next, token, mixed>>
  PROVE  Looks /\ KnowInv'
<1>1. IndexInv' /\ \A i \in Items : Cur(i)' = Cur(i)
  BY IndexStill
<1>2. next <= next' /\ Told \subseteq Items
  BY DEF IndexInv, IndexTypes, Told
<1>3. KnowInv' /\ apart \subseteq apart' /\ apart' \subseteq Items
  BY <1>1, <1>2, FailKeeps
<1> QED
  BY <1>3 DEF Looks

LEMMA FaultKeeps ==
  ASSUME CloudInv, IndexInv, OwnRows, KnowInv, apart \subseteq Items, FetchRejected \/ PollFault
  PROVE  Looks /\ KnowInv'
<1>1. Fail /\ UNCHANGED <<mode, remote, clock, rows, next, token, mixed>>
  BY DEF FetchRejected, PollFault, PollStep, cloud, index
<1> QED
  BY <1>1, LookFails

LEMMA RestartKeeps ==
  ASSUME CloudInv, IndexInv, OwnRows, KnowInv, apart \subseteq Items, Restart PROVE Looks /\ KnowInv'
<1>1. poll' = Idle /\ UNCHANGED <<mode, remote, clock, rows, next, token, apart, mixed>>
  BY DEF Restart, cloud, index, history
<1>2. IndexInv' /\ \A i \in Items : Cur(i)' = Cur(i)
  BY <1>1, IndexStill
<1>3. next <= next' /\ Told \subseteq Items /\ apart \subseteq apart'
  BY <1>1 DEF IndexInv, IndexTypes, Told
<1>4. KnowInv'
  BY <1>1, <1>2, <1>3, ToIdle
<1> QED
  BY <1>1, <1>4 DEF Looks

\* Between fetch and apply: changes are only dropped, with their items set apart.
LEMMA PageStays ==
  ASSUME IndexInv, OwnRows, KnowInv, Looks, token' = token, poll.pc \in Pages, poll'.pc \in Pages,
         poll'.nxt = poll.nxt, poll'.todo \subseteq poll.todo,
         \A c \in poll.todo \ poll'.todo : c.item \notin Told'
  PROVE  PageInv' /\ CurInv'
<1>1. /\ LiveItems' = LiveItems /\ (\A i \in Items : ChangeOf(i)' = ChangeOf(i)) /\ mode' = mode /\ Told' \subseteq Told
      /\ LiveItems \subseteq Items /\ remote' = remote /\ Told \subseteq Items /\ apart \subseteq apart'
  BY DEF Looks, LiveItems, ChangeOf, Told
<1>2. \A i \in Told' : ChangeOf(i) \notin poll'.todo => ChangeOf(i) \notin poll.todo
  BY DEF ChangeOf
<1>3. PageInv'
  <2>1. ASSUME NEW c \in poll'.todo
        PROVE  /\ c \in ChangeType /\ Owned(c)' /\ token.n < c.seq /\ c.seq <= poll.nxt
               /\ remote[c.item].seq <= poll.nxt /\ c.item \notin apart' => c = ChangeOf(c.item)'
    <3>1. /\ c \in ChangeType /\ Owned(c) /\ token.n < c.seq /\ c.seq <= poll.nxt
          /\ remote[c.item].seq <= poll.nxt /\ c.item \notin apart => c = ChangeOf(c.item)
      BY <2>1 DEF KnowInv, PageInv
    <3>2. Owned(c)' /\ c.item \in Items
      BY <3>1 DEF Owned, Looks, Used, ChangeType
    <3> QED
      BY <1>1, <3>1, <3>2
  <2>2. ASSUME NEW c \in poll'.todo, NEW j \in LiveItems \ apart', j # c.item, remote[j].seq <= poll.nxt,
               remote[j].path = c.path
        PROVE  c.gone /\ remote[j].seq > c.seq
    BY <1>1, <2>2 DEF KnowInv, PageInv
  <2>3. ASSUME NEW j \in Told', token.n < remote[j].seq, remote[j].seq <= poll.nxt, ChangeOf(j) \notin poll'.todo,
               NEW c \in poll'.todo
        PROVE  remote[j].seq <= c.seq
    BY <1>1, <1>2, <2>3 DEF KnowInv, PageInv
  <2> QED
    BY <1>1, <2>1, <2>2, <2>3 DEF PageInv
<1>4. CurInv'
  <2>1. \A i \in Items : Cur(i)' = Cur(i)
    BY IndexStill DEF Looks
  <2>2. ASSUME NEW i \in Told', Due(i)' PROVE Due(i)
    <3>1. remote[i].seq <= poll.nxt /\ ChangeOf(i) \notin poll'.todo
      BY <1>1, <2>2 DEF Due, Pages
    <3> QED
      BY <1>2, <3>1 DEF Due
  <2> QED
    BY <1>1, <2>1, <2>2 DEF KnowInv, CurInv
<1> QED
  BY <1>3, <1>4

LEMMA DeltaTombstonesKeeps ==
  ASSUME CloudInv, IndexInv, OwnRows, KnowInv, apart \subseteq Items, DeltaTombstones PROVE Looks /\ KnowInv'
<1> DEFINE skip == {c \in poll.todo : ~c.gone /\ (~Considered(c) \/ c.path \in Ignored)}
           T == poll.todo \ skip
<1>0. /\ poll \in PollType /\ token \in TokenType /\ poll.pc = "tombstones" /\ token' = token
      /\ apart' = apart \cup SkippedItems(skip)
  BY DEF KnowInv, PollTypes, DeltaTombstones, PollStep
<1>1. poll' = [poll EXCEPT !.pc = "dsnapshot", !.todo = T]
  BY DEF DeltaTombstones, Proceed
<1>2. \A c \in poll.todo : c \in ChangeType /\ c.item \in Items /\ c.item # None
  BY <1>0, NoneFacts DEF KnowInv, PageInv, Pages, ChangeType
<1>3. Looks
  <2>1. apart' \subseteq Items
    BY <1>0, <1>2, SkipsItems
  <2> QED
    BY <1>0, <2>1 DEF DeltaTombstones, PollStep, index, cloud, Looks
<1>4. \A c \in skip : c.item \notin Told'
  BY <1>0, <1>2 DEF SkippedItems, Told
<1> HIDE DEF skip
<1>5. /\ poll' \in PollType /\ poll'.nxt = poll.nxt /\ poll'.map = poll.map /\ poll'.snap = poll.snap
      /\ poll'.pc = "dsnapshot" /\ poll'.call = poll.call /\ poll'.todo = T
  BY <1>0, <1>1 DEF PollType, Pcs
<1>6. PollTypes' /\ PhaseInv'
  BY <1>0, <1>3, <1>5 DEF KnowInv, PollTypes, PhaseInv, Pages, Looks, Full
<1>7. ListInv' /\ SweepInv'
  BY <1>5 DEF ListInv, SweepInv, Full
<1>8. PageInv' /\ CurInv'
  BY <1>0, <1>3, <1>4, <1>5, PageStays DEF Pages
<1> QED
  BY <1>3, <1>6, <1>7, <1>8 DEF KnowInv

LEMMA DeltaSnapshotKeeps ==
  ASSUME CloudInv, IndexInv, OwnRows, KnowInv, apart \subseteq Items, DeltaSnapshot PROVE Looks /\ KnowInv'
<1>0. poll \in PollType /\ token \in TokenType /\ poll.pc = "dsnapshot" /\ token' = token
  BY DEF KnowInv, PollTypes, DeltaSnapshot, PollStep
<1>1. PICK P : P = {[inode |-> n, row |-> rows[n]] : n \in Live}
  OBVIOUS
<1>2. poll' = [poll EXCEPT !.pc = "apply", !.map = MapOf(P)]
  BY <1>1 DEF DeltaSnapshot, Proceed
<1>3. P \subseteq SnapType /\ \A x \in P : x.inode < next
  <2>1. ASSUME NEW n \in Live PROVE n \in Inodes /\ rows[n] \in RowType /\ n < next
    BY DEF IndexInv, IndexTypes, Live
  <2> QED
    BY <1>1, <2>1 DEF SnapType
<1>4. MapOf(P) \in [Dirs -> Nat] /\ \A p \in Dirs : MapOf(P)[p] < next
  BY <1>3, MapType
<1>5. Looks
  BY DEF DeltaSnapshot, PollStep, index, cloud, Looks, history
<1>6. /\ poll' \in PollType /\ poll'.nxt = poll.nxt /\ poll'.map = MapOf(P) /\ poll'.snap = poll.snap
      /\ poll'.pc = "apply" /\ poll'.call = poll.call /\ poll'.todo = poll.todo
  BY <1>0, <1>2, <1>4 DEF PollType, Pcs
<1>7. PollTypes' /\ PhaseInv'
  BY <1>0, <1>4, <1>5, <1>6 DEF KnowInv, PollTypes, PhaseInv, Pages, Looks, Full
<1>8. ListInv' /\ SweepInv'
  BY <1>6 DEF ListInv, SweepInv, Full
<1>9. PageInv' /\ CurInv'
  BY <1>0, <1>5, <1>6, PageStays DEF Pages
<1> QED
  BY <1>5, <1>7, <1>8, <1>9 DEF KnowInv

LEMMA AppliedKeeps ==
  ASSUME CloudInv, IndexInv, OwnRows, KnowInv, apart \subseteq Items, Applied PROVE Looks /\ KnowInv'
<1>0. /\ poll \in PollType /\ token \in TokenType /\ poll.pc = "apply" /\ token' = token /\ poll.todo = {}
      /\ apart' = apart
  BY DEF KnowInv, PollTypes, Applied, PollStep, history
<1>1. poll' = [poll EXCEPT !.pc = "settoken"]
  BY DEF Applied, Proceed, Goto
<1>2. Looks
  BY DEF Applied, PollStep, index, cloud, Looks, history
<1>3. /\ poll' \in PollType /\ poll'.nxt = poll.nxt /\ poll'.map = poll.map /\ poll'.snap = poll.snap
      /\ poll'.pc = "settoken" /\ poll'.call = poll.call
  BY <1>0, <1>1 DEF PollType, Pcs
<1>4. mode = "delta" /\ poll.call = "poll"
  BY <1>0 DEF KnowInv, PhaseInv, IndexInv, IndexTypes, Modes, Pages
<1>5. PollTypes' /\ PhaseInv'
  BY <1>0, <1>2, <1>3, <1>4 DEF KnowInv, PollTypes, PhaseInv, Pages, Looks, Full
<1>6. PageInv' /\ ListInv' /\ SweepInv'
  BY <1>3, OtherPc DEF Pages, Full
<1>7. CurInv'
  <2>1. \A i \in Items : Cur(i)' = Cur(i)
    BY <1>2, IndexStill DEF Looks
  <2>2. Told' = Told /\ Told \subseteq Items
    BY <1>0, <1>2 DEF Told, Looks
  <2>3. ASSUME NEW i \in Told, Due(i)' PROVE Due(i)
    BY <1>0, <1>2, <1>3, <1>4, <2>3 DEF Due, Looks, Pages
  <2> QED
    BY <1>4, <2>1, <2>2, <2>3 DEF KnowInv, CurInv
<1> QED
  BY <1>2, <1>5, <1>6, <1>7 DEF KnowInv
-----------------------------------------------------------------------------
(* The upsert.                                                             *)

\* Row t now shows what m says.
Upserts(m, t, g) ==
  /\ t \in Inodes /\ rows' \in [Inodes -> RowType]
  /\ \A k \in Inodes \ {t} : rows'[k] = IF rows[k].path = m.path THEN NoRow ELSE rows[k]
  /\ rows'[t].path = m.path /\ rows'[t].etag = m.ver /\ rows'[t].gen = g /\ rows'[t].parent < next
  /\ next' = IF t = next THEN next + 1 ELSE next
  /\ \/ t = next /\ ById(m) = {} /\ ByPath(m.path) = {} /\ rows'[t].item = m.item
     \/ t \in ById(m) /\ rows'[t].item = m.item
     \/ /\ t \in ByPath(m.path) /\ ById(m) = {}
        /\ rows'[t].item = IF rows[t].item = None THEN m.item ELSE rows[t].item
  /\ t \in Live => rows'[t].status = Refreshed(rows[t].status)
  /\ mixed \subseteq mixed' /\ mixed' \subseteq Items
  /\ t \in Live => Mixed(rows[t].item, m.item) \subseteq mixed'

LEMMA TargetFacts ==
  ASSUME IndexInv, NEW m
  PROVE  \/ UpsertTarget(m) = next /\ ById(m) = {} /\ ByPath(m.path) = {}
         \/ UpsertTarget(m) \in ById(m)
         \/ UpsertTarget(m) \in ByPath(m.path) /\ ById(m) = {}
BY DEF UpsertTarget

\* The poller notes the inode, and the work that is left.
Notes(m, t, rest) ==
  poll' = [poll EXCEPT !.map = [p \in Dirs |-> IF p = m.path THEN t ELSE poll.map[p]], !.todo = rest]

LEMMA UpsertDone ==
  ASSUME CloudInv, IndexInv, PollTypes, mixed \subseteq Items, NEW m, NEW g \in Nat, NEW rest,
         m.item \in Items \cup {None}, m.path \in Paths, m.ver \in Nat,
         DoUpsert(m, g, rest), ~UpsertFails(m, ParentInode(m.path))
  PROVE  \E t : Upserts(m, t, g) /\ Notes(m, t, rest) /\ apart' = apart /\ timer' = timer
<1>1. PICK t : t = UpsertTarget(m)
  OBVIOUS
<1>2. PICK par : par = ParentInode(m.path)
  OBVIOUS
<1>3. /\ t \in Inodes /\ rows' = Upserted(m, par, g)
      /\ next' = IF t = next THEN next + 1 ELSE next
      /\ Notes(m, t, rest)
      /\ mixed' = mixed \cup UNION {Mixed(rows[n].item, m.item) : n \in Live \cap {t}}
      /\ apart' = apart /\ timer' = timer
  BY <1>1, <1>2 DEF DoUpsert, Proceed, Notes
<1>4. \/ t = next /\ ById(m) = {} /\ ByPath(m.path) = {}
      \/ t \in ById(m)
      \/ t \in ByPath(m.path) /\ ById(m) = {}
  BY <1>1, TargetFacts
<1>5. par \in Nat /\ par < next
  <2>0. next \in Nat \ {0}
    BY PollerAssumption DEF IndexInv, IndexTypes
  <2>1. CASE ParentOf[m.path] = None
    BY <1>2, <2>0, <2>1 DEF ParentInode
  <2>2. CASE ParentOf[m.path] # None
    <3>1. ParentOf[m.path] \in Dirs
      BY <2>2, PollerAssumption
    <3> QED
      BY <1>2, <2>2, <3>1 DEF ParentInode, PollTypes, PollType
  <2> QED
    BY <2>1, <2>2
<1>6. /\ next \notin Live /\ (\A n \in Live : n \in Inodes /\ rows[n] \in RowType) /\ NoRow \in RowType
      /\ rows \in [Inodes -> RowType]
  BY DEF IndexInv, IndexTypes, Live, Inodes, NoRow, RowType
<1>7. t \in Live <=> t # next
  BY <1>4, <1>6 DEF ById, ByPath
<1>8. t = next => rows[t] = NoRow
  BY <1>3, <1>6 DEF Live
<1>9. PICK new : new = (IF t = next /\ rows[t] = NoRow
                        THEN Row(m.path, par, m.item, m.ver, "remote", g)
                        ELSE Row(m.path, par, IF rows[t].item = None THEN m.item ELSE rows[t].item,
                                 m.ver, Refreshed(rows[t].status), g))
  OBVIOUS
<1>10. rows' = [k \in Inodes |-> IF k = t THEN new ELSE IF rows[k].path = m.path THEN NoRow ELSE rows[k]]
  BY <1>1, <1>3, <1>9 DEF Upserted
<1>11. /\ new \in RowType /\ new.path = m.path /\ new.etag = m.ver /\ new.gen = g /\ new.parent = par
       /\ t = next => new.item = m.item
       /\ t # next => new.item = (IF rows[t].item = None THEN m.item ELSE rows[t].item)
       /\ t # next => new.status = Refreshed(rows[t].status)
  <2>1. CASE t = next
    BY <1>5, <1>8, <1>9, <2>1 DEF Row, RowType, Statuses
  <2>2. CASE t # next
    <3>1. rows[t] \in RowType
      BY <1>6, <1>7, <2>2
    <3>2. Refreshed(rows[t].status) \in Statuses \cup {"none"}
      BY <3>1 DEF Refreshed, RowType, Statuses
    <3> QED
      BY <1>5, <1>9, <2>2, <3>1, <3>2 DEF Row, RowType
  <2> QED
    BY <2>1, <2>2
<1>12. /\ rows' \in [Inodes -> RowType] /\ rows'[t] = new
       /\ \A k \in Inodes \ {t} : rows'[k] = IF rows[k].path = m.path THEN NoRow ELSE rows[k]
  BY <1>3, <1>6, <1>10, <1>11
<1>13. t \in ById(m) => new.item = m.item
  BY <1>6, <1>7, <1>11 DEF ById
<1>14. mixed \subseteq mixed' /\ mixed' \subseteq Items /\ (t \in Live => Mixed(rows[t].item, m.item) \subseteq mixed')
  <2>1. ASSUME t \in Live PROVE Mixed(rows[t].item, m.item) \subseteq Items /\ Live \cap {t} = {t}
    BY <1>6, <2>1 DEF Mixed, RowType
  <2>2. CASE t \in Live
    BY <1>3, <2>1, <2>2
  <2>3. CASE t \notin Live
    BY <1>3, <2>3
  <2> QED
    BY <2>2, <2>3
<1>15. /\ \/ t = next /\ ById(m) = {} /\ ByPath(m.path) = {} /\ rows'[t].item = m.item
          \/ t \in ById(m) /\ rows'[t].item = m.item
          \/ /\ t \in ByPath(m.path) /\ ById(m) = {}
             /\ rows'[t].item = IF rows[t].item = None THEN m.item ELSE rows[t].item
       /\ t \in Live => rows'[t].status = Refreshed(rows[t].status)
  <2>1. CASE t = next
    <3>1. t \notin Live /\ t \notin ById(m) /\ t \notin ByPath(m.path)
      BY <1>7, <2>1 DEF ById, ByPath
    <3>2. rows'[t].item = m.item
      BY <1>11, <1>12, <2>1
    <3> QED
      BY <1>4, <2>1, <3>1, <3>2
  <2>2. CASE t # next
    BY <1>4, <1>7, <1>11, <1>12, <1>13, <2>2
  <2> QED
    BY <2>1, <2>2
<1> QED
  BY <1>3, <1>5, <1>11, <1>12, <1>14, <1>15 DEF Upserts

LEMMA UpsertLive ==
  ASSUME IndexInv, NEW m, NEW t, NEW g, Upserts(m, t, g), m.path \in Paths
  PROVE  /\ Live' = (Live \ ByPath(m.path)) \cup {t} /\ t \in Inodes /\ (t \in Live \/ (t = next /\ next \notin Live))
         /\ \A k \in Live' : k # t => k \in Live /\ rows'[k] = rows[k] /\ rows[k].path # m.path
<1>0. m.path # None /\ \A k \in Inodes : (k \in Live <=> rows[k] # NoRow)
  BY NoneFacts DEF Live
<1>1. t \in Live \/ (t = next /\ next \notin Live)
  BY DEF Upserts, ById, ByPath, IndexInv, IndexTypes, Live, Inodes
<1>2. t \in Inodes /\ rows'[t] # NoRow
  <2>1. rows'[t].path # None
    BY <1>0 DEF Upserts
  <2> QED
    BY <2>1, PathLives DEF Upserts
<1>3. \A k \in Inodes \ {t} : rows'[k] # NoRow <=> rows[k] # NoRow /\ rows[k].path # m.path
  BY <1>0 DEF Upserts, NoRow
<1>4. Live' = (Live \ ByPath(m.path)) \cup {t}
  BY <1>2, <1>3 DEF Live, ByPath
<1> QED
  BY <1>1, <1>2, <1>4 DEF Upserts, ByPath, Live

LEMMA UpsertIndex ==
  ASSUME CloudInv, IndexInv, OwnRows, NEW m, NEW t, NEW g, Upserts(m, t, g), UNCHANGED <<mode, remote, clock>>,
         m.item \in Items \cup {None}, m.path \in Paths, m.ver \in Nat, Owned(m), mode = "delta" => m.item \in Items
  PROVE  IndexInv' /\ OwnRows'
<1>0. /\ Live' = (Live \ ByPath(m.path)) \cup {t} /\ t \in Inodes /\ (t \in Live \/ (t = next /\ next \notin Live))
      /\ \A k \in Live' : k # t => k \in Live /\ rows'[k] = rows[k] /\ rows[k].path # m.path
  BY UpsertLive
<1>1. rows'[t].path = m.path /\ rows'[t].etag = m.ver
  BY DEF Upserts
<1>2. clock \in Nat /\ m.ver \in 0 .. clock
  BY DEF CloudInv, CloudTypes, Owned
<1>3. IndexTypes'
  <2>0. next \in 1 .. (MaxInode + 1) /\ MaxInode \in Nat
    BY PollerAssumption DEF IndexInv, IndexTypes
  <2>1. \A k \in Live : k \in Nat /\ k < next /\ rows[k].parent \in Nat /\ rows[k].parent < next
    BY DEF IndexInv, IndexTypes, Live, Inodes, RowType
  <2>2. next' \in 1 .. (MaxInode + 1) /\ next <= next' /\ t < next'
    BY <1>0, <2>0, <2>1 DEF Upserts, Inodes
  <2>3. rows' \in [Inodes -> RowType] /\ rows'[t].parent \in Nat /\ rows'[t].parent < next'
    BY <1>0, <2>0, <2>2 DEF Upserts, RowType
  <2>4. \A k \in Live' : k < next' /\ rows'[k].parent < next'
    <3>1. ASSUME NEW k \in Live', k # t PROVE k < next' /\ rows'[k].parent < next'
      BY <1>0, <2>0, <2>1, <2>2, <3>1
    <3> QED
      BY <2>2, <2>3, <3>1
  <2> QED
    BY <2>2, <2>3, <2>4 DEF IndexTypes, IndexInv
<1>4. IndexKeys'
  <2>1. \A k \in Live' : k # t => rows'[k].path # m.path
    BY <1>0
  <2>2. \A k \in Live' : k # t /\ rows'[t].item # None => rows'[k].item # rows'[t].item
    <3> SUFFICES ASSUME NEW k \in Live', k # t, rows'[t].item # None, rows[k].item = rows'[t].item PROVE FALSE
      BY <1>0
    <3>0. k \in Live /\ rows[k].path # m.path
      BY <1>0
    <3>1. CASE ById(m) = {} /\ rows'[t].item = m.item
      BY <3>0, <3>1 DEF ById
    <3>2. CASE t \in ById(m) /\ rows'[t].item = m.item
      BY <3>0, <3>2 DEF ById, IndexInv, IndexKeys
    <3>3. CASE t \in ByPath(m.path) /\ rows'[t].item = rows[t].item
      BY <3>0, <3>3 DEF ByPath, IndexInv, IndexKeys
    <3> QED
      BY <3>1, <3>2, <3>3 DEF Upserts
  <2>3. mode = "delta" => rows'[t].item # None
    BY NoneFacts DEF Upserts
  <2>4. \A k \in Live' : /\ rows'[k].path \in Paths /\ rows'[k].etag \in 0 .. clock
                         /\ mode = "delta" /\ rows'[k].item = None => rows'[k].path \in ConflictNs
    BY <1>0, <1>1, <1>2, <2>3 DEF IndexInv, IndexKeys
  <2>5. \A k, l \in Live' : rows'[k].path = rows'[l].path => k = l
    <3>1. ASSUME NEW k \in Live', NEW l \in Live', k # t, l # t, rows'[k].path = rows'[l].path PROVE k = l
      BY <1>0, <3>1 DEF IndexInv, IndexKeys
    <3> QED
      BY <1>1, <2>1, <3>1
  <2>6. \A k, l \in Live' : rows'[k].item = rows'[l].item /\ rows'[k].item # None => k = l
    <3>1. ASSUME NEW k \in Live', NEW l \in Live', k # t, l # t, rows'[k].item = rows'[l].item, rows'[k].item # None
          PROVE k = l
      BY <1>0, <3>1 DEF IndexInv, IndexKeys
    <3> QED
      BY <2>2, <3>1
  <2> QED
    BY <2>4, <2>5, <2>6 DEF IndexKeys
<1>5. OwnRows'
  <2>1. ASSUME NEW k \in Live', k # t PROVE OwnRow(rows[k])'
    <3>1. k \in Live /\ rows'[k] = rows[k] /\ mixed \subseteq mixed'
      BY <1>0, <2>1 DEF Upserts
    <3> QED
      BY <3>1 DEF OwnRows, OwnRow, Used
  <2>2. OwnRow(rows[t])'
    <3> SUFFICES ASSUME mode = "delta", rows'[t].item # None, NEW j \in Items, j # rows'[t].item, Used(j),
                        remote[j].ver = m.ver
                 PROVE  rows'[t].item \in mixed' /\ j \in mixed'
      BY <1>1 DEF OwnRow, Used
    <3>1. j = m.item
      BY NoneFacts DEF Owned
    <3>2. t \in Live /\ rows'[t].item = rows[t].item
      BY <3>1 DEF Upserts, ByPath
    <3>3. Mixed(rows[t].item, m.item) = {rows[t].item, m.item}
      BY <3>1, <3>2, NoneFacts DEF Mixed
    <3> QED
      BY <3>1, <3>2, <3>3 DEF Upserts
  <2> QED
    BY <2>1, <2>2 DEF OwnRows
<1> QED
  BY <1>3, <1>4, <1>5 DEF IndexInv

\* Other items stay current, unless m came to the path where they are.
LEMMA UpsertOthers ==
  ASSUME CloudInv, IndexInv, NEW m, NEW t, NEW g, Upserts(m, t, g), UNCHANGED <<mode, remote, clock>>,
         m.item \in Items, m.path \in Paths, NEW i \in Items, i # m.item, i \in Told', Cur(i),
         remote[i].gone \/ remote[i].path # m.path
  PROVE  Cur(i)'
<1>0. /\ Live' = (Live \ ByPath(m.path)) \cup {t} /\ t \in Inodes /\ (t \in Live \/ (t = next /\ next \notin Live))
      /\ \A k \in Live' : k # t => k \in Live /\ rows'[k] = rows[k] /\ rows[k].path # m.path
  BY UpsertLive
<1>1. i # None /\ m.item # None /\ i \notin mixed'
  BY NoneFacts DEF Told
<1>2. rows'[t].item # i
  <2> SUFFICES ASSUME rows'[t].item = i PROVE FALSE
    OBVIOUS
  <2>1. t \in Live /\ rows[t].item = i
    BY <1>1 DEF Upserts, ByPath
  <2>2. Mixed(rows[t].item, m.item) = {i, m.item}
    BY <1>1, <2>1 DEF Mixed
  <2> QED
    BY <1>1, <2>1, <2>2 DEF Upserts
<1>3. CASE remote[i].gone
  <2>1. ASSUME NEW k \in Live', rows'[k].item = i PROVE ~Clean(k)'
    BY <1>0, <1>2, <1>3, <2>1 DEF Cur, Clean
  <2> QED
    BY <1>3, <2>1 DEF Cur
<1>4. CASE ~remote[i].gone /\ remote[i].path \notin Skipped
  <2>1. PICK k \in Live : /\ rows[k].item = i /\ rows[k].path = remote[i].path
                          /\ rows[k].etag = remote[i].ver \/ ~Clean(k)
    BY <1>4 DEF Cur
  <2>2. k # t
    <3> SUFFICES ASSUME k = t PROVE FALSE
      OBVIOUS
    <3>1. t \in Live /\ next \notin Live /\ rows[t].item = i /\ rows[t].path # m.path
      BY <1>4, <2>1 DEF IndexInv, IndexTypes, Live, Inodes
    <3> QED
      BY <1>1, <3>1 DEF Upserts, ById, ByPath
  <2>3. k \in Live' /\ rows'[k] = rows[k]
    BY <1>0, <1>4, <2>1, <2>2 DEF ByPath
  <2> QED
    BY <1>4, <2>1, <2>3 DEF Cur, Clean
<1>5. CASE ~remote[i].gone /\ remote[i].path \in Skipped
  BY <1>5 DEF Cur
<1> QED
  BY <1>3, <1>4, <1>5

LEMMA UpsertItself ==
  ASSUME CloudInv, IndexInv, NEW m, NEW t, NEW g, Upserts(m, t, g), UNCHANGED <<mode, remote, clock>>,
         m.item \in Items, m.path \in Paths, m.item \in Told', ~remote[m.item].gone,
         m.path = remote[m.item].path, m.ver = remote[m.item].ver
  PROVE  Cur(m.item)'
<1>0. t \in Live' /\ rows'[t].path = m.path /\ rows'[t].etag = m.ver
  BY UpsertLive DEF Upserts
<1>1. m.item # None /\ m.item \notin mixed'
  BY NoneFacts DEF Told
<1>2. rows'[t].item = m.item
  <2> SUFFICES ASSUME rows'[t].item # m.item PROVE FALSE
    OBVIOUS
  <2>1. t \in Live /\ rows[t].item # None /\ rows[t].item # m.item
    BY DEF Upserts, ByPath
  <2>2. Mixed(rows[t].item, m.item) = {rows[t].item, m.item}
    BY <1>1, <2>1 DEF Mixed
  <2> QED
    BY <1>1, <2>1, <2>2 DEF Upserts
<1> QED
  BY <1>0, <1>2 DEF Cur

\* Rows with local changes stay, unless another row comes to their path.
DirtyStays ==
  \A n \in Live : ~Clean(n) =>
    \/ rows'[n].status = rows[n].status
    \/ \E m \in Live \ {n}, c \in poll.todo :
         /\ rows[m].item = c.item /\ rows[m].path # rows[n].path /\ c.path = rows[n].path
         /\ rows'[m] = rows[m] => poll'.pc \in {"idle", "start"}

LEMMA UpsertDirty ==
  ASSUME IndexInv, NEW m \in poll.todo, NEW t, NEW g, Upserts(m, t, g), m.path \in Paths PROVE DirtyStays
<1> SUFFICES ASSUME NEW n \in Live, ~Clean(n), rows'[n].status # rows[n].status
             PROVE  /\ t \in Live \ {n} /\ rows[t].path # rows[n].path /\ rows'[t].path = rows[n].path
                    /\ rows[t].item = m.item /\ m.path = rows[n].path
  BY DEF DirtyStays
<1>0. n \in Inodes /\ rows[n].status = "dirty"
  BY DEF Live, Clean, Unsynced
<1>1. n # t
  BY <1>0 DEF Upserts, Refreshed, Unsynced
<1>2. rows[n].path = m.path
  BY <1>0, <1>1 DEF Upserts
<1>3. n \in ByPath(m.path)
  BY <1>2 DEF ByPath
<1>4. t \in Live
  BY <1>3 DEF Upserts, ById, ByPath
<1>5. rows[t].path # m.path
  BY <1>1, <1>2, <1>4 DEF IndexInv, IndexKeys
<1>6. rows[t].item = m.item
  BY <1>3, <1>5 DEF Upserts, ById, ByPath
<1> QED
  BY <1>1, <1>2, <1>4, <1>5, <1>6 DEF Upserts

Sets == apart \subseteq Items /\ mixed \subseteq Items

LEMMA UpsertPoll ==
  ASSUME IndexInv, PollTypes, NEW m, NEW t, NEW g, Upserts(m, t, g), m.path \in Paths, NEW rest, rest \subseteq poll.todo,
         Notes(m, t, rest), token' = token
  PROVE  /\ PollTypes' /\ poll'.pc = poll.pc /\ poll'.call = poll.call /\ poll'.listing = poll.listing
         /\ poll'.snap = poll.snap /\ poll'.todo = rest /\ poll'.marks = poll.marks /\ poll'.nxt = poll.nxt
<1>0. poll \in PollType /\ next \in Nat /\ t \in Nat
  BY DEF PollTypes, IndexInv, IndexTypes, Upserts, Inodes
<1>1. next' \in Nat /\ next <= next' /\ t < next'
  <2>1. t \in Live => t < next
    BY DEF IndexInv, IndexTypes
  <2> QED
    BY <1>0, <2>1, UpsertLive DEF Upserts
<1>2. PICK mp : mp = [p \in Dirs |-> IF p = m.path THEN t ELSE poll.map[p]]
  OBVIOUS
<1>3. mp \in [Dirs -> Nat] /\ \A p \in Dirs : mp[p] < next'
  <2>1. \A p \in Dirs : poll.map[p] \in Nat /\ poll.map[p] < next
    BY <1>0 DEF PollTypes, PollType
  <2> QED
    BY <1>0, <1>1, <1>2, <2>1
<1>4. poll' = [poll EXCEPT !.map = mp, !.todo = rest]
  BY <1>2 DEF Notes
<1>5. rest \subseteq MetaType \cup ChangeType
  BY <1>0 DEF PollType
<1>6. /\ poll' \in PollType /\ poll'.pc = poll.pc /\ poll'.call = poll.call /\ poll'.listing = poll.listing
      /\ poll'.snap = poll.snap /\ poll'.todo = rest /\ poll'.marks = poll.marks /\ poll'.nxt = poll.nxt /\ poll'.map = mp
  BY <1>0, <1>3, <1>4, <1>5 DEF PollType
<1>7. \A x \in poll.snap : x.inode < next'
  <2>1. ASSUME NEW x \in poll.snap PROVE x.inode \in Nat /\ x.inode < next
    BY <1>0 DEF PollTypes, PollType, SnapType, Inodes
  <2> QED
    BY <1>0, <1>1, <2>1
<1> QED
  BY <1>3, <1>6, <1>7 DEF PollTypes

Dropped(D) ==
  rows' = [n \in Inodes |-> IF n \in D THEN NoRow ELSE rows[n]]

LEMMA DropKeeps ==
  ASSUME CloudInv, IndexInv, OwnRows, NEW D, Dropped(D), UNCHANGED <<mode, remote, clock, next, mixed>>
  PROVE  /\ Live' = Live \ D /\ (\A n \in Live' : rows'[n] = rows[n]) /\ IndexInv' /\ OwnRows'
         /\ \A i \in Items : Cur(i) /\ (~remote[i].gone => \A n \in Live \cap D : ~(rows[n].item = i /\ rows[n].path = remote[i].path))
              => Cur(i)'
<1>1. Live' = Live \ D /\ \A n \in Live' : rows'[n] = rows[n]
  BY DEF Dropped, Live
<1>2. IndexInv'
  <2>1. NoRow \in RowType /\ rows \in [Inodes -> RowType]
    BY DEF NoRow, RowType, IndexInv, IndexTypes
  <2>2. rows' \in [Inodes -> RowType]
    BY <2>1 DEF Dropped
  <2>3. IndexTypes'
    BY <1>1, <2>2 DEF IndexInv, IndexTypes
  <2>4. IndexKeys'
    BY <1>1 DEF IndexInv, IndexKeys
  <2> QED
    BY <2>3, <2>4 DEF IndexInv
<1>3. OwnRows'
  <2>1. ASSUME NEW n \in Live' PROVE OwnRow(rows[n])'
    BY <1>1 DEF OwnRows, OwnRow, Used
  <2> QED
    BY <2>1 DEF OwnRows
<1>4. ASSUME NEW i \in Items, Cur(i),
             ~remote[i].gone => \A n \in Live \cap D : ~(rows[n].item = i /\ rows[n].path = remote[i].path)
      PROVE  Cur(i)'
  <2>1. CASE remote[i].gone
    BY <1>1, <1>4, <2>1 DEF Cur, Clean
  <2>2. CASE ~remote[i].gone /\ remote[i].path \notin Skipped
    <3>1. PICK n \in Live : /\ rows[n].item = i /\ rows[n].path = remote[i].path
                            /\ rows[n].etag = remote[i].ver \/ ~Clean(n)
      BY <1>4, <2>2 DEF Cur
    <3>2. n \notin D
      BY <1>4, <2>2, <3>1
    <3> QED
      BY <1>1, <2>2, <3>1, <3>2 DEF Cur, Clean
  <2>3. CASE ~remote[i].gone /\ remote[i].path \in Skipped
    BY <2>3 DEF Cur
  <2> QED
    BY <2>1, <2>2, <2>3
<1> QED
  BY <1>1, <1>2, <1>3, <1>4

\* An upsert that fails: the row it dropped, if any, was not the row of an item that
\* is where it was when the token was stored.
LEMMA HalfKeeps ==
  ASSUME CloudInv, IndexInv, OwnRows, KnowInv, Sets, NEW m \in poll.todo, NEW g, NEW rest,
         DoUpsert(m, g, rest), UpsertFails(m, ParentInode(m.path)), UNCHANGED <<mode, remote, clock, token>>,
         mode = "delta" /\ token.kind = "token" =>
           \A i \in Told : remote[i].seq <= token.n /\ ~remote[i].gone /\ remote[i].path = m.path => i = m.item
  PROVE  IndexInv' /\ OwnRows' /\ KnowInv' /\ Sets' /\ DirtyStays /\ apart \subseteq apart'
<1>0. Fail /\ rows' = HalfUpserted(m) /\ UNCHANGED <<next, mixed>>
  BY DEF DoUpsert
<1>1. PICK t : t = UpsertTarget(m)
  OBVIOUS
<1>2. PICK D : D = {k \in Colliding(m) : ~DropFails(m)}
  OBVIOUS
<1>3. Dropped(D)
  BY <1>0, <1>2 DEF Dropped, HalfUpserted
<1>4. /\ Live' = Live \ D /\ (\A n \in Live' : rows'[n] = rows[n]) /\ IndexInv' /\ OwnRows'
      /\ \A i \in Items : Cur(i) /\ (~remote[i].gone => \A n \in Live \cap D : ~(rows[n].item = i /\ rows[n].path = remote[i].path))
           => Cur(i)'
  BY <1>0, <1>3, DropKeeps
<1>5. ASSUME NEW n \in D
      PROVE  /\ n \in Live /\ rows[n].path = m.path /\ t \in Live \ {n} /\ rows[t].item = m.item /\ m.item # None
             /\ rows[t].path # rows[n].path /\ rows[n].item # m.item /\ t \notin D
  <2>1. n \in Live /\ rows[n].path = m.path /\ n # t /\ n \in ByPath(m.path) /\ t \notin D
    BY <1>1, <1>2 DEF Colliding, ByPath
  <2>2. t \in ById(m)
    <3>1. \/ t = next /\ ById(m) = {} /\ ByPath(m.path) = {}
          \/ t \in ById(m)
          \/ t \in ByPath(m.path) /\ ById(m) = {}
      BY <1>1, TargetFacts
    <3>2. t \notin ByPath(m.path)
      BY <2>1 DEF ByPath, IndexInv, IndexKeys
    <3> QED
      BY <2>1, <3>1, <3>2
  <2>3. t \in Live /\ rows[t].item = m.item /\ m.item # None
    BY <2>2 DEF ById
  <2> QED
    BY <2>1, <2>3 DEF IndexInv, IndexKeys
<1>6. KnowInv' /\ apart \subseteq apart' /\ apart' \subseteq Items
  <2>1. mode = "delta" /\ token.kind = "token" => \A i \in Told : remote[i].seq <= token.n /\ Cur(i) => Cur(i)'
    <3> SUFFICES ASSUME mode = "delta", token.kind = "token", NEW i \in Told, remote[i].seq <= token.n, Cur(i)
                 PROVE  Cur(i)'
      OBVIOUS
    <3>1. i \in Items
      BY DEF Told
    <3>2. ASSUME ~remote[i].gone, NEW n \in Live \cap D, rows[n].item = i, rows[n].path = remote[i].path PROVE FALSE
      BY <1>5, <3>2
    <3> QED
      BY <1>4, <3>1, <3>2
  <2>2. next <= next' /\ apart \subseteq Items
    BY <1>0 DEF IndexInv, IndexTypes, Sets
  <2> QED
    BY <1>0, <1>4, <2>1, <2>2, FailKeeps
<1>7. poll'.pc \in {"idle", "start"}
  <2>1. Idle.pc = "idle" /\ [Idle EXCEPT !.pc = "start", !.call = "first"].pc = "start"
    BY DEF Idle
  <2> QED
    BY <1>0, <2>1 DEF Fail
<1>8. DirtyStays
  <2> SUFFICES ASSUME NEW n \in Live, rows'[n].status # rows[n].status
               PROVE  \E k \in Live \ {n}, c \in poll.todo :
                        /\ rows[k].item = c.item /\ rows[k].path # rows[n].path /\ c.path = rows[n].path
                        /\ rows'[k] = rows[k] => poll'.pc \in {"idle", "start"}
    BY DEF DirtyStays
  <2>1. n \in D
    BY <1>4
  <2> QED
    BY <1>5, <1>7, <2>1
<1> QED
  BY <1>0, <1>4, <1>6, <1>8 DEF Sets

LEMMA UpsertOneKeeps ==
  ASSUME CloudInv, IndexInv, OwnRows, KnowInv, Sets, UpsertOne
  PROVE  IndexInv' /\ OwnRows' /\ KnowInv' /\ Sets' /\ DirtyStays
<1>0. /\ poll \in PollType /\ token \in TokenType /\ poll.pc = "upsert" /\ token' = token
      /\ UNCHANGED <<mode, remote, clock>>
  BY DEF KnowInv, PollTypes, UpsertOne, PollStep, cloud
<1>1. PICK m \in poll.todo : DoUpsert(m, Generation, poll.todo \ {m})
  BY DEF UpsertOne, First
<1>2. /\ m \in poll.listing /\ m.item \in Items \cup {None} /\ m.path \in Paths /\ m.ver \in Nat /\ Owned(m)
      /\ mode = "delta" => m.item \in Items
  <2>1. m \in poll.listing /\ Owned(m) /\ (mode = "delta" => m.item \in Items)
    BY <1>0 DEF KnowInv, ListInv, Full
  <2> QED
    BY <1>0, <2>1 DEF PollType, MetaType
<1>3. CASE UpsertFails(m, ParentInode(m.path))
  <2>1. token.kind # "token" \/ mode # "delta"
    BY <1>0 DEF KnowInv, PhaseInv, Full
  <2> QED
    BY <1>0, <1>1, <1>3, <2>1, HalfKeeps
<1>4. CASE ~UpsertFails(m, ParentInode(m.path))
  <2>0. Generation \in Nat
    BY <1>0 DEF Generation, TokenType
  <2>1. PICK g \in Nat : g = Generation
    BY <2>0
  <2>2. PICK rest : rest = poll.todo \ {m}
    OBVIOUS
  <2>3. PICK t : Upserts(m, t, g) /\ Notes(m, t, rest) /\ apart' = apart
    <3>1. DoUpsert(m, g, rest)
      BY <1>1, <2>1, <2>2
    <3>2. PollTypes /\ mixed \subseteq Items
      BY DEF KnowInv, Sets
    <3> QED
      BY <1>2, <1>4, <3>1, <3>2, UpsertDone
  <2>4. IndexInv' /\ OwnRows'
    BY <1>0, <1>2, <2>3, UpsertIndex
  <2>5. /\ PollTypes' /\ poll'.pc = poll.pc /\ poll'.call = poll.call /\ poll'.listing = poll.listing
        /\ poll'.snap = poll.snap /\ poll'.todo = rest /\ poll'.marks = poll.marks /\ poll'.nxt = poll.nxt
    <3>1. PollTypes /\ rest \subseteq poll.todo
      BY <2>2 DEF KnowInv
    <3> QED
      BY <1>0, <1>2, <2>3, <3>1, UpsertPoll
  <2>6. PhaseInv' /\ PageInv'
    BY <1>0, <2>5 DEF KnowInv, PhaseInv, PageInv, Pages, Full
  <2>7. mixed \subseteq mixed' /\ mixed' \subseteq Items /\ apart' = apart
    BY <2>3 DEF Upserts
  <2>8. ListInv'
    <3>1. poll.todo \subseteq poll.listing
      BY <1>0 DEF KnowInv, ListInv, Full
    <3> QED
      BY <1>0, <2>2, <2>5, <2>7, <3>1, ListStays DEF KnowInv, Full
  <2>9. CurInv'
    <3> SUFFICES ASSUME mode = "delta", NEW i \in Told', ~remote[i].gone, Meta(i) \notin rest PROVE Cur(i)'
      <4>1. \A i \in Items : Meta(i)' = Meta(i)
        BY <1>0 DEF Meta, ItemId
      <4>2. Told' \subseteq Items
        BY DEF Told
      <4> QED
        BY <1>0, <2>5, <4>1, <4>2 DEF CurInv, Due, Pages
    <3>0. i \in Items /\ i \in Told /\ i \in LiveItems
      BY <2>7 DEF Told, LiveItems
    <3>1. CASE m.item = i
      <4>1. m = Meta(i)
        BY <1>0, <1>2, <3>0, <3>1 DEF KnowInv, ListInv, Full
      <4>2. m.path = remote[m.item].path /\ m.ver = remote[m.item].ver
        BY <3>0, <3>1, <4>1, MetaFacts
      <4> QED
        BY <1>0, <1>2, <2>3, <3>0, <3>1, <4>2, UpsertItself
    <3>2. CASE m.item # i
      <4>1. remote[i].path # m.path
        BY <1>0, <1>2, <3>0, <3>2 DEF KnowInv, ListInv, Full
      <4>2. Meta(i) # m
        BY <3>0, <3>2, MetaFacts
      <4>3. Cur(i)
        BY <1>0, <2>2, <3>0, <4>2 DEF KnowInv, CurInv, Due
      <4> QED
        BY <1>0, <1>2, <2>3, <3>0, <3>2, <4>1, <4>3, UpsertOthers
    <3> QED
      BY <3>1, <3>2
  <2>10. SweepInv'
    <3> SUFFICES ASSUME NEW n \in Live', NEW k \in poll.listing, k.path = rows'[n].path, k.path \notin ConflictNs
                 PROVE  rows'[n].gen = Generation \/ n \in poll.marks \/ \E l \in rest : l.path = k.path
      <4>1. Generation' = Generation
        BY <1>0 DEF Generation
      <4> QED
        BY <1>0, <2>5, <4>1 DEF SweepInv
    <3>1. CASE n = t
      BY <2>1, <2>3, <3>1 DEF Upserts
    <3>2. CASE n # t
      <4>1. n \in Live /\ rows'[n] = rows[n] /\ rows[n].path # m.path
        BY <1>2, <2>3, <3>2, UpsertLive
      <4>2. rows[n].gen = Generation \/ n \in poll.marks \/ \E l \in poll.todo : l.path = k.path
        BY <1>0, <4>1 DEF KnowInv, SweepInv
      <4> QED
        BY <2>2, <4>1, <4>2
    <3> QED
      BY <3>1, <3>2
  <2>11. DirtyStays
    BY <1>2, <2>3, UpsertDirty
  <2> QED
    BY <2>4, <2>5, <2>6, <2>7, <2>8, <2>9, <2>10, <2>11 DEF KnowInv, Sets
<1> QED
  BY <1>3, <1>4

\* The oldest change has been applied.
LEMMA OldestGone ==
  ASSUME CloudInv, KnowInv, UNCHANGED <<mode, remote, clock, token>>, apart \subseteq apart', mixed \subseteq mixed',
         poll.pc = "apply", poll'.pc = "apply", poll'.nxt = poll.nxt, NEW c \in Oldest, poll'.todo = poll.todo \ {c}
  PROVE  PageInv'
<1>1. /\ LiveItems' = LiveItems /\ (\A i \in Items : ChangeOf(i)' = ChangeOf(i)) /\ Told' \subseteq Told
      /\ LiveItems \subseteq Items /\ Told \subseteq Items
  BY DEF LiveItems, ChangeOf, Told
<1>2. ASSUME NEW d \in poll'.todo
      PROVE  /\ d \in ChangeType /\ Owned(d)' /\ token.n < d.seq /\ d.seq <= poll.nxt
             /\ remote[d.item].seq <= poll.nxt /\ d.item \notin apart' => d = ChangeOf(d.item)'
  <2>1. /\ d \in ChangeType /\ Owned(d) /\ token.n < d.seq /\ d.seq <= poll.nxt
        /\ remote[d.item].seq <= poll.nxt /\ d.item \notin apart => d = ChangeOf(d.item)
    BY <1>2 DEF KnowInv, PageInv, Pages
  <2>2. Owned(d)' /\ d.item \in Items
    BY <2>1 DEF Owned, Used, ChangeType
  <2> QED
    BY <1>1, <2>1, <2>2
<1>3. ASSUME NEW d \in poll'.todo, NEW j \in LiveItems \ apart', j # d.item, remote[j].seq <= poll.nxt, remote[j].path = d.path
      PROVE  d.gone /\ remote[j].seq > d.seq
  BY <1>3 DEF KnowInv, PageInv, Pages
<1>4. ASSUME NEW j \in Told', token.n < remote[j].seq, remote[j].seq <= poll.nxt, ChangeOf(j) \notin poll'.todo,
             NEW d \in poll'.todo
      PROVE  remote[j].seq <= d.seq
  <2>1. CASE ChangeOf(j) = c
    BY <1>4, <2>1 DEF Oldest, ChangeOf
  <2>2. CASE ChangeOf(j) # c
    BY <1>1, <1>4, <2>2 DEF KnowInv, PageInv, Pages
  <2> QED
    BY <2>1, <2>2
<1> QED
  BY <1>1, <1>2, <1>3, <1>4 DEF PageInv

LEMMA ChangeTodo ==
  ASSUME KnowInv, poll.pc = "apply", NEW c \in Oldest
  PROVE  /\ c \in poll.todo /\ c.item \in Items /\ c.path \in Paths /\ c.ver \in Nat /\ Owned(c) /\ c.seq \in Nat
         /\ token.n < c.seq
         /\ remote[c.item].seq <= poll.nxt /\ c.item \notin apart => c = ChangeOf(c.item)
<1>1. c \in poll.todo
  BY DEF Oldest
<1>2. /\ c \in ChangeType /\ Owned(c) /\ token.n < c.seq
      /\ remote[c.item].seq <= poll.nxt /\ c.item \notin apart => c = ChangeOf(c.item)
  BY <1>1 DEF KnowInv, PageInv, Pages
<1> QED
  BY <1>1, <1>2 DEF ChangeType

LEMMA ApplyUpsertKeeps ==
  ASSUME CloudInv, IndexInv, OwnRows, KnowInv, Sets, ApplyUpsert
  PROVE  IndexInv' /\ OwnRows' /\ KnowInv' /\ Sets' /\ DirtyStays
<1>0. /\ poll \in PollType /\ token \in TokenType /\ poll.pc = "apply" /\ token' = token
      /\ UNCHANGED <<mode, remote, clock>>
  BY DEF KnowInv, PollTypes, ApplyUpsert, PollStep, cloud
<1>1. PICK m \in Oldest : ~m.gone /\ DoUpsert(m, 0, poll.todo \ {m})
  BY DEF ApplyUpsert
<1>2. /\ m \in poll.todo /\ m.item \in Items /\ m.path \in Paths /\ m.ver \in Nat /\ Owned(m)
      /\ remote[m.item].seq <= poll.nxt /\ m.item \notin apart => m = ChangeOf(m.item)
  BY <1>0, ChangeTodo
<1>3. CASE UpsertFails(m, ParentInode(m.path))
  <2>1. ASSUME mode = "delta", NEW i \in Told, remote[i].seq <= token.n, ~remote[i].gone, remote[i].path = m.path
        PROVE  i = m.item
    <3>1. i \in LiveItems \ apart
      BY <2>1 DEF Told, LiveItems
    <3>2. token.n \in Nat /\ poll.nxt \in Nat /\ remote[i].seq \in Nat /\ token.n <= poll.nxt
      BY <1>0, <2>1, <3>1 DEF KnowInv, PhaseInv, Pages, TokenType, PollType, CloudInv, CloudTypes, ItemType, LiveItems
    <3>3. remote[i].seq <= poll.nxt
      BY <2>1, <3>2
    <3> QED
      BY <1>0, <1>1, <1>2, <2>1, <3>1, <3>3 DEF KnowInv, PageInv, Pages
  <2> QED
    BY <1>0, <1>1, <1>2, <1>3, <2>1, HalfKeeps
<1>4. CASE ~UpsertFails(m, ParentInode(m.path))
  <2>2. PICK rest : rest = poll.todo \ {m}
    OBVIOUS
  <2>3. PICK t : Upserts(m, t, 0) /\ Notes(m, t, rest) /\ apart' = apart
    <3>1. DoUpsert(m, 0, rest) /\ 0 \in Nat
      BY <1>1, <2>2
    <3>2. PollTypes /\ mixed \subseteq Items
      BY DEF KnowInv, Sets
    <3> QED
      BY <1>2, <1>4, <3>1, <3>2, UpsertDone
  <2>4. IndexInv' /\ OwnRows'
    BY <1>0, <1>2, <2>3, UpsertIndex
  <2>5. /\ PollTypes' /\ poll'.pc = poll.pc /\ poll'.call = poll.call /\ poll'.listing = poll.listing
        /\ poll'.snap = poll.snap /\ poll'.todo = rest /\ poll'.marks = poll.marks /\ poll'.nxt = poll.nxt
    <3>1. PollTypes /\ rest \subseteq poll.todo
      BY <2>2 DEF KnowInv
    <3> QED
      BY <1>0, <1>2, <2>3, <3>1, UpsertPoll
  <2>6. PhaseInv' /\ ListInv' /\ SweepInv'
    BY <1>0, <2>5 DEF KnowInv, PhaseInv, ListInv, SweepInv, Pages, Full
  <2>7. mixed \subseteq mixed' /\ mixed' \subseteq Items /\ apart' = apart
    BY <2>3 DEF Upserts
  <2>8. PageInv'
    BY <1>0, <2>2, <2>5, <2>7, OldestGone
  <2>9. CurInv'
    <3> SUFFICES ASSUME mode = "delta", NEW i \in Told', remote[i].seq <= poll.nxt, ChangeOf(i) \notin rest PROVE Cur(i)'
      <4>1. \A i \in Items : ChangeOf(i)' = ChangeOf(i)
        BY <1>0 DEF ChangeOf
      <4>2. Told' \subseteq Items
        BY DEF Told
      <4> QED
        BY <1>0, <2>5, <4>1, <4>2 DEF CurInv, Due, Pages
    <3>0. i \in Items /\ i \in Told /\ i \notin apart
      BY <2>7 DEF Told
    <3>1. CASE m.item = i
      <4>1. m = ChangeOf(i)
        BY <1>2, <3>0, <3>1
      <4>2. m.path = remote[m.item].path /\ m.ver = remote[m.item].ver /\ ~remote[m.item].gone
        BY <1>1, <3>1, <4>1 DEF ChangeOf
      <4> QED
        BY <1>0, <1>2, <2>3, <3>0, <3>1, <4>2, UpsertItself
    <3>2. CASE m.item # i
      <4>1. remote[i].gone \/ remote[i].path # m.path
        BY <1>0, <1>1, <1>2, <3>0, <3>2 DEF KnowInv, PageInv, Pages, LiveItems
      <4>2. ChangeOf(i) # m
        BY <3>0, <3>2 DEF ChangeOf
      <4>3. Cur(i)
        BY <1>0, <2>2, <3>0, <4>2 DEF KnowInv, CurInv, Due, Pages
      <4> QED
        BY <1>0, <1>2, <2>3, <3>0, <3>2, <4>1, <4>3, UpsertOthers
    <3> QED
      BY <3>1, <3>2
  <2>10. DirtyStays
    BY <1>2, <2>3, UpsertDirty
  <2> QED
    BY <2>4, <2>5, <2>6, <2>7, <2>8, <2>9, <2>10 DEF KnowInv, Sets
<1> QED
  BY <1>3, <1>4
-----------------------------------------------------------------------------
(* Deletions and marks.                                                    *)

\* Rows get other generations.
Regenerated ==
  /\ rows' \in [Inodes -> RowType]
  /\ \A n \in Inodes \ Live : rows'[n] = rows[n]
  /\ \A n \in Live : /\ rows'[n].path = rows[n].path /\ rows'[n].item = rows[n].item /\ rows'[n].etag = rows[n].etag
                     /\ rows'[n].parent = rows[n].parent /\ rows'[n].status = rows[n].status

LEMMA RegenKeeps ==
  ASSUME CloudInv, IndexInv, OwnRows, Regenerated, UNCHANGED <<mode, remote, clock, next, mixed>>
  PROVE  Live' = Live /\ IndexInv' /\ OwnRows' /\ \A i \in Items : Cur(i)' = Cur(i)
<1>1. Live' = Live
  <2>1. ASSUME NEW n \in Live PROVE rows'[n] # NoRow
    BY LiveFacts, PathLives DEF Regenerated
  <2> QED
    BY <2>1 DEF Live, Regenerated
<1>2. IndexInv'
  BY <1>1 DEF IndexInv, IndexTypes, IndexKeys, Regenerated
<1>3. OwnRows'
  <2>1. ASSUME NEW n \in Live PROVE OwnRow(rows[n])'
    BY DEF OwnRows, OwnRow, Used, Regenerated
  <2> QED
    BY <1>1, <2>1 DEF OwnRows
<1>4. ASSUME NEW i \in Items PROVE Cur(i)' = Cur(i)
  <2>1. CASE remote[i].gone
    BY <1>1, <2>1 DEF Cur, Clean, Regenerated
  <2>2. CASE ~remote[i].gone
    BY <1>1, <2>2 DEF Cur, Clean, Regenerated
  <2> QED
    BY <2>1, <2>2
<1> QED
  BY <1>1, <1>2, <1>3, <1>4

LEMMA ApplyDeleteKeeps ==
  ASSUME CloudInv, IndexInv, OwnRows, KnowInv, Sets, ApplyDelete
  PROVE  IndexInv' /\ OwnRows' /\ KnowInv' /\ Sets' /\ DirtyStays
<1>0. /\ poll \in PollType /\ token \in TokenType /\ poll.pc = "apply" /\ UNCHANGED <<mode, remote, clock, next, token, mixed>>
  BY DEF KnowInv, PollTypes, ApplyDelete, PollStep, cloud
<1>1. PICK c \in Oldest :
        /\ c.gone
        /\ IF \A n \in DeleteTarget(c) : CanDelete(n)
           THEN /\ rows' = [n \in Inodes |-> IF n \in DeleteTarget(c) THEN NoRow ELSE rows[n]]
                /\ Proceed([poll EXCEPT !.todo = @ \ {c}])
                /\ UNCHANGED apart
           ELSE Fail /\ UNCHANGED <<rows, faults>>
  BY DEF ApplyDelete
<1>2. /\ c \in poll.todo /\ c.item \in Items /\ c.path \in Paths /\ c.seq \in Nat /\ token.n < c.seq
      /\ remote[c.item].seq <= poll.nxt /\ c.item \notin apart => c = ChangeOf(c.item)
  BY <1>0, ChangeTodo
<1>3. CASE ~\A n \in DeleteTarget(c) : CanDelete(n)
  <2>1. Fail /\ rows' = rows
    BY <1>1, <1>3
  <2>2. Looks /\ KnowInv'
    BY <1>0, <2>1, LookFails DEF Sets
  <2>3. IndexInv' /\ OwnRows'
    BY <1>0, <2>1, IndexStill
  <2> QED
    BY <2>1, <2>2, <2>3 DEF Looks, Sets, DirtyStays
<1>4. CASE \A n \in DeleteTarget(c) : CanDelete(n)
  <2>0. PICK D : D = DeleteTarget(c)
    OBVIOUS
  <2>1. Dropped(D) /\ poll' = [poll EXCEPT !.todo = poll.todo \ {c}] /\ apart' = apart
    BY <1>1, <1>4, <2>0 DEF Dropped, Proceed
  <2>2. /\ Live' = Live \ D /\ (\A n \in Live' : rows'[n] = rows[n]) /\ IndexInv' /\ OwnRows'
        /\ \A i \in Items : Cur(i) /\ (~remote[i].gone => \A n \in Live \cap D : ~(rows[n].item = i /\ rows[n].path = remote[i].path))
             => Cur(i)'
    BY <1>0, <2>1, DropKeeps
  <2>3. /\ poll' \in PollType /\ poll'.pc = poll.pc /\ poll'.call = poll.call /\ poll'.listing = poll.listing /\ poll'.map = poll.map
        /\ poll'.snap = poll.snap /\ poll'.todo = poll.todo \ {c} /\ poll'.marks = poll.marks /\ poll'.nxt = poll.nxt
    BY <1>0, <2>1 DEF PollType
  <2>4. PollTypes' /\ PhaseInv' /\ ListInv' /\ SweepInv'
    BY <1>0, <2>3 DEF KnowInv, PollTypes, PhaseInv, ListInv, SweepInv, Pages, Full
  <2>5. PageInv'
    BY <1>0, <2>1, <2>3, OldestGone
  <2>6. CurInv'
    <3> SUFFICES ASSUME mode = "delta", NEW i \in Told, remote[i].seq <= poll.nxt, ChangeOf(i) \notin poll.todo \ {c} PROVE Cur(i)'
      <4>1. \A i \in Items : ChangeOf(i)' = ChangeOf(i)
        BY <1>0 DEF ChangeOf
      <4>2. Told' = Told /\ Told \subseteq Items
        BY <1>0, <2>1 DEF Told
      <4> QED
        BY <1>0, <2>3, <4>1, <4>2 DEF CurInv, Due, Pages
    <3>0. i \in Items /\ i # None /\ i \notin apart
      BY NoneFacts DEF Told
    <3>1. CASE c.item = i
      <4>1. c = ChangeOf(i) /\ remote[i].gone
        BY <1>1, <1>2, <3>0, <3>1 DEF ChangeOf
      <4>2. ASSUME NEW n \in Live', rows'[n].item = i PROVE ~Clean(n)'
        <5>1. n \in Live /\ n \notin D /\ rows[n].item = i
          BY <2>2, <4>2
        <5>2. n \in ById(c)
          BY <3>0, <3>1, <5>1 DEF ById
        <5>3. ~Clean(n)
          BY <2>0, <5>1, <5>2 DEF DeleteTarget
        <5> QED
          BY <2>2, <4>2, <5>3 DEF Clean
      <4> QED
        BY <1>0, <4>1, <4>2 DEF Cur
    <3>2. CASE c.item # i
      <4>1. ChangeOf(i) \notin poll.todo
        BY <3>2 DEF ChangeOf
      <4>2. Cur(i)
        BY <1>0, <4>1 DEF KnowInv, CurInv, Due, Pages
      <4>3. ASSUME ~remote[i].gone, NEW n \in Live \cap D, rows[n].item = i, rows[n].path = remote[i].path PROVE FALSE
        <5>1. c.path = remote[i].path
          BY <2>0, <3>2, <4>3 DEF DeleteTarget, ById, ByPath
        <5>2. remote[i].seq > c.seq
          BY <1>0, <1>2, <3>0, <3>2, <4>3, <5>1 DEF KnowInv, PageInv, Pages, LiveItems
        <5>3. token.n < remote[i].seq => remote[i].seq <= c.seq
          BY <1>0, <1>2, <4>1 DEF KnowInv, PageInv, Pages
        <5>4. token.n \in Nat /\ remote[i].seq \in Nat
          BY <1>0, <3>0 DEF TokenType, CloudInv, CloudTypes, ItemType
        <5> QED
          BY <1>2, <5>2, <5>3, <5>4
      <4> QED
        BY <2>2, <3>0, <4>2, <4>3
    <3> QED
      BY <3>1, <3>2
  <2>7. DirtyStays
    BY <2>0, <2>1 DEF DirtyStays, Dropped, DeleteTarget, ById, ByPath, Live
  <2> QED
    BY <1>0, <2>1, <2>2, <2>4, <2>5, <2>6, <2>7 DEF KnowInv, Sets
<1> QED
  BY <1>3, <1>4

LEMMA MarkUnchangedKeeps ==
  ASSUME CloudInv, IndexInv, OwnRows, KnowInv, Sets, MarkUnchanged
  PROVE  Regenerated /\ IndexInv' /\ OwnRows' /\ KnowInv' /\ Sets'
<1>0. /\ poll \in PollType /\ token \in TokenType /\ poll.pc = "upsert" /\ poll.todo = {}
      /\ UNCHANGED <<mode, remote, clock, next, token, mixed, apart>> /\ rows \in [Inodes -> RowType]
  BY DEF KnowInv, PollTypes, MarkUnchanged, PollStep, cloud, history, IndexInv, IndexTypes
<1>1. PICK g \in Nat : g = Generation
  BY <1>0 DEF Generation, TokenType
<1>2. rows' = [n \in Inodes |-> IF n \in poll.marks /\ n \in Live THEN [rows[n] EXCEPT !.gen = g] ELSE rows[n]]
  BY <1>1 DEF MarkUnchanged
<1>3. \A n \in Inodes : /\ [rows[n] EXCEPT !.gen = g] \in RowType /\ [rows[n] EXCEPT !.gen = g].gen = g
                        /\ [rows[n] EXCEPT !.gen = g].path = rows[n].path
                        /\ [rows[n] EXCEPT !.gen = g].item = rows[n].item
                        /\ [rows[n] EXCEPT !.gen = g].etag = rows[n].etag
                        /\ [rows[n] EXCEPT !.gen = g].parent = rows[n].parent
                        /\ [rows[n] EXCEPT !.gen = g].status = rows[n].status
  BY <1>0 DEF RowType
<1>4. Regenerated
  <2>1. rows' \in [Inodes -> RowType]
    BY <1>0, <1>2, <1>3
  <2>2. Live \subseteq Inodes
    BY DEF Live
  <2> QED
    BY <1>2, <1>3, <2>1, <2>2 DEF Regenerated
<1>5. Live' = Live /\ IndexInv' /\ OwnRows' /\ \A i \in Items : Cur(i)' = Cur(i)
  BY <1>0, <1>4, RegenKeeps
<1>6. poll' = [poll EXCEPT !.pc = "sweep", !.marks = {}]
  BY DEF MarkUnchanged, Proceed
<1>7. /\ poll' \in PollType /\ poll'.pc = "sweep" /\ poll'.call = poll.call /\ poll'.listing = poll.listing /\ poll'.map = poll.map
      /\ poll'.snap = poll.snap /\ poll'.nxt = poll.nxt
  BY <1>0, <1>6 DEF PollType, Pcs
<1>8. PollTypes' /\ PhaseInv' /\ PageInv'
  BY <1>0, <1>7 DEF KnowInv, PollTypes, PhaseInv, PageInv, Pages, Full
<1>9. ListInv'
  BY <1>0, <1>7, ListStays DEF KnowInv, Full
<1>10. CurInv'
  <2>1. Told' = Told /\ Told \subseteq Items
    BY <1>0 DEF Told
  <2>2. ASSUME NEW i \in Told, Due(i)' PROVE Due(i)
    BY <1>0, <1>7, <2>2 DEF Due, Pages
  <2> QED
    BY <1>0, <1>5, <2>1, <2>2 DEF KnowInv, CurInv
<1>11. SweepInv'
  <2>1. Generation' = g
    BY <1>0, <1>1 DEF Generation
  <2>2. ASSUME NEW n \in Live, NEW m \in poll.listing, m.path = rows[n].path, m.path \notin ConflictNs PROVE rows'[n].gen = g
    <3>1. rows[n].gen = g \/ n \in poll.marks
      BY <1>0, <1>1, <2>2 DEF KnowInv, SweepInv
    <3> QED
      BY <1>2, <1>3, <3>1 DEF Live
  <2>3. \A n \in Live : rows'[n].path = rows[n].path
    BY <1>4 DEF Regenerated
  <2> QED
    BY <1>5, <1>7, <2>1, <2>2, <2>3 DEF SweepInv
<1> QED
  BY <1>0, <1>4, <1>5, <1>8, <1>9, <1>10, <1>11 DEF KnowInv, Sets

\* No listed row is deleted.
Spares ==
  \A n \in Live : rows'[n] = NoRow =>
    \/ \A m \in poll.listing : m.path # rows[n].path
    \/ rows[n].path \in ConflictNs

LEMMA SweepKeeps ==
  ASSUME CloudInv, IndexInv, OwnRows, KnowInv, Sets, Sweep
  PROVE  IndexInv' /\ OwnRows' /\ KnowInv' /\ Sets' /\ DirtyStays /\ Spares
<1>0. /\ poll \in PollType /\ token \in TokenType /\ poll.pc = "sweep" /\ UNCHANGED <<mode, remote, clock, next, token, mixed>>
  BY DEF KnowInv, PollTypes, Sweep, PollStep, cloud
<1>1. PICK D : D = Swept(Generation)
  OBVIOUS
<1>2. Dropped(D) /\ D \subseteq Stale(Generation)
  BY <1>1 DEF Sweep, Dropped, Swept
<1>3. /\ Live' = Live \ D /\ (\A n \in Live' : rows'[n] = rows[n]) /\ IndexInv' /\ OwnRows'
      /\ \A i \in Items : Cur(i) /\ (~remote[i].gone => \A n \in Live \cap D : ~(rows[n].item = i /\ rows[n].path = remote[i].path))
           => Cur(i)'
  BY <1>0, <1>2, DropKeeps
<1>4. DirtyStays
  BY <1>2 DEF DirtyStays, Dropped, Stale, Live
<1>5. Spares
  <2> SUFFICES ASSUME NEW n \in Live, rows'[n] = NoRow, NEW m \in poll.listing, m.path = rows[n].path,
                      rows[n].path \notin ConflictNs
               PROVE  FALSE
    BY DEF Spares
  <2>1. n \in Stale(Generation)
    BY <1>2 DEF Dropped, Live
  <2>2. rows[n].gen = Generation /\ Generation \in Nat
    BY <1>0 DEF KnowInv, SweepInv, Generation, TokenType
  <2> QED
    BY <2>1, <2>2 DEF Stale
<1>6. CASE D # Stale(Generation)
  <2>1. Fail
    BY <1>1, <1>6 DEF Sweep
  <2>2. next <= next' /\ ~(mode = "delta" /\ token.kind = "token")
    BY <1>0 DEF IndexInv, IndexTypes, KnowInv, PhaseInv, Full
  <2>3. KnowInv' /\ apart \subseteq apart' /\ apart' \subseteq Items
    BY <1>0, <1>3, <2>1, <2>2, FailKeeps DEF Sets
  <2> QED
    BY <1>0, <1>3, <1>4, <1>5, <2>3 DEF Sets
<1>7. CASE D = Stale(Generation)
  <2>1. poll' = [poll EXCEPT !.pc = "generation"] /\ apart' = apart \cup Unswept
    BY <1>1, <1>7 DEF Sweep, Proceed, Goto
  <2>2. /\ poll' \in PollType /\ poll'.pc = "generation" /\ poll'.call = poll.call /\ poll'.map = poll.map
        /\ poll'.snap = poll.snap /\ poll'.nxt = poll.nxt
    BY <1>0, <2>1 DEF PollType, Pcs
  <2>3. PollTypes' /\ PhaseInv'
    BY <1>0, <2>2 DEF KnowInv, PollTypes, PhaseInv, Pages, Full
  <2>4. PageInv' /\ ListInv' /\ SweepInv'
    BY <2>2, OtherPc DEF Pages, Full
  <2>5. Unswept \subseteq Items
    BY LiveFacts DEF Unswept, RowType
  <2>6. CurInv'
    <3> SUFFICES ASSUME mode = "delta", NEW i \in Told' PROVE Cur(i)'
      BY <1>0 DEF CurInv
    <3>0. i \in Items /\ i \in Told /\ i # None /\ i \notin Unswept
      BY <1>0, <2>1, NoneFacts DEF Told
    <3>1. \A n \in Live : rows[n].item = i => Listed(n)
      BY <3>0 DEF Unswept
    <3>2. CASE remote[i].gone
      <4>1. ASSUME NEW n \in Live, rows[n].item = i PROVE FALSE
        <5>1. PICK m \in poll.listing : m.item = i
          BY <3>1, <4>1 DEF Listed
        <5> QED
          BY <1>0, <3>0, <3>2, <5>1 DEF KnowInv, ListInv, Full
      <4> QED
        BY <1>0, <1>3, <3>2, <4>1 DEF Cur
    <3>3. CASE ~remote[i].gone
      <4>1. Cur(i)
        BY <1>0, <3>0, <3>3 DEF KnowInv, CurInv, Due
      <4>2. CASE remote[i].path \in Skipped
        BY <1>0, <3>3, <4>2 DEF Cur
      <4>3. CASE remote[i].path \notin Skipped
        <5>1. Meta(i) \in poll.listing /\ Meta(i).path = remote[i].path
          BY <1>0, <3>0, <3>3, MetaFacts DEF KnowInv, ListInv, Full, LiveItems
        <5>2. ASSUME NEW n \in Live, rows[n].path = remote[i].path PROVE n \notin D
          <6>1. rows[n].gen = Generation
            BY <1>0, <4>3, <5>1, <5>2 DEF KnowInv, SweepInv, Skipped
          <6>2. Generation \in Nat
            BY <1>0 DEF Generation, TokenType
          <6> QED
            BY <1>2, <6>1, <6>2 DEF Stale
        <5> QED
          BY <1>3, <3>0, <4>1, <5>2
      <4> QED
        BY <4>2, <4>3
    <3> QED
      BY <3>2, <3>3
  <2> QED
    BY <1>0, <1>3, <1>4, <1>5, <2>1, <2>3, <2>4, <2>5, <2>6 DEF KnowInv, Sets
<1> QED
  BY <1>6, <1>7

LEMMA SetGenerationKeeps ==
  ASSUME CloudInv, IndexInv, OwnRows, KnowInv, Sets, SetGeneration
  PROVE  Regenerated /\ IndexInv' /\ OwnRows' /\ KnowInv' /\ Sets'
<1>0. /\ poll \in PollType /\ token \in TokenType /\ poll.pc = "generation"
      /\ UNCHANGED <<mode, remote, clock, next, mixed, apart>> /\ rows \in [Inodes -> RowType]
  BY DEF KnowInv, PollTypes, SetGeneration, PollStep, cloud, history, IndexInv, IndexTypes
<1>1. /\ token' = Gen(Smaller(Generation, 2))
      /\ rows' = [n \in Inodes |-> IF Generation = 3 /\ rows[n].gen >= 2 THEN [rows[n] EXCEPT !.gen = rows[n].gen - 1] ELSE rows[n]]
  BY DEF SetGeneration
<1>2. token' \in TokenType /\ token'.kind = "generation"
  BY <1>0, <1>1 DEF Gen, Smaller, Generation, TokenType
<1>3. ASSUME NEW n \in Inodes
      PROVE  /\ rows'[n] \in RowType
             /\ rows'[n].path = rows[n].path /\ rows'[n].item = rows[n].item /\ rows'[n].etag = rows[n].etag
             /\ rows'[n].parent = rows[n].parent /\ rows'[n].status = rows[n].status
             /\ n \notin Live => rows'[n] = rows[n]
  <2>0. rows[n] \in RowType /\ rows[n].gen \in Nat
    BY <1>0 DEF RowType
  <2>1. CASE Generation = 3 /\ rows[n].gen >= 2
    <3>1. PICK h \in Nat : h = rows[n].gen - 1
      BY <2>0, <2>1
    <3>2. rows'[n] = [rows[n] EXCEPT !.gen = h]
      BY <1>1, <2>1, <3>1
    <3>3. n \in Live
      BY <2>1 DEF Live, NoRow
    <3> QED
      BY <2>0, <3>2, <3>3 DEF RowType
  <2>2. CASE ~(Generation = 3 /\ rows[n].gen >= 2)
    <3>1. rows'[n] = rows[n]
      BY <1>1, <2>2
    <3> QED
      BY <2>0, <3>1
  <2> QED
    BY <2>1, <2>2
<1>4. Regenerated
  <2>1. rows' \in [Inodes -> RowType]
    BY <1>1, <1>3
  <2>2. Live \subseteq Inodes
    BY DEF Live
  <2> QED
    BY <1>3, <2>1, <2>2 DEF Regenerated
<1>5. Live' = Live /\ IndexInv' /\ OwnRows' /\ \A i \in Items : Cur(i)' = Cur(i)
  BY <1>0, <1>4, RegenKeeps
<1>6. /\ Idle \in PollType /\ Idle.pc = "idle" /\ Idle.call = "poll" /\ Idle.nxt = 0
      /\ (\A p \in Dirs : Idle.map[p] < next) /\ Idle.snap = {}
  BY IdleType
<1>7. clock \in Nat
  BY DEF CloudInv, CloudTypes
<1>8. CASE poll.call = "poll"
  <2>1. poll' = Idle
    BY <1>8 DEF SetGeneration, Succeed
  <2>2. mode = "full"
    BY <1>0, <1>8 DEF KnowInv, PhaseInv, IndexInv, IndexTypes, Modes
  <2>3. PollTypes' /\ PhaseInv'
    BY <1>0, <1>2, <1>6, <1>7, <2>1, <2>2 DEF PollTypes, PhaseInv, Pages, Full
  <2>4. PageInv' /\ ListInv' /\ SweepInv'
    BY <1>6, <2>1, OtherPc DEF Pages, Full
  <2>5. CurInv'
    BY <1>0, <2>2 DEF CurInv
  <2> QED
    BY <1>0, <1>4, <1>5, <2>3, <2>4, <2>5 DEF KnowInv, Sets
<1>9. CASE poll.call # "poll"
  <2>1. poll' = [Idle EXCEPT !.pc = "start", !.call = poll.call]
    BY <1>9 DEF SetGeneration, Proceed
  <2>2. /\ poll' \in PollType /\ poll'.pc = "start" /\ poll'.call = poll.call /\ poll'.nxt = 0
        /\ poll'.map = Idle.map /\ poll'.snap = {}
    BY <1>0, <1>6, <2>1 DEF PollType, Pcs
  <2>3. mode = "delta"
    BY <1>0, <1>9 DEF KnowInv, PhaseInv, IndexInv, IndexTypes, Modes
  <2>4. PollTypes' /\ PhaseInv'
    BY <1>0, <1>2, <1>6, <1>7, <1>9, <2>2, <2>3 DEF PollTypes, PhaseInv, Pages, Full
  <2>5. PageInv' /\ ListInv' /\ SweepInv'
    BY <2>2, OtherPc DEF Pages, Full
  <2>6. CurInv'
    <3>1. Told' = Told /\ Told \subseteq Items
      BY <1>0 DEF Told
    <3>2. \A i \in Told : Due(i)
      BY <1>0, <1>9 DEF Due
    <3> QED
      BY <1>5, <2>3, <3>1, <3>2 DEF KnowInv, CurInv
  <2> QED
    BY <1>0, <1>4, <1>5, <2>4, <2>5, <2>6 DEF KnowInv, Sets
<1> QED
  BY <1>8, <1>9
-----------------------------------------------------------------------------
(* The theorems.                                                           *)

TimerInv == timer \in [failures : 0 .. 10, interval : Nat] /\ PollBackoff

UnlinkInv ==
  /\ horizon \in Nat /\ tombs \subseteq Paths
  /\ unl \in [pc : {"idle", "tomb", "remote", "drop"}, path : Paths \cup {None}]
  /\ unl.pc # "idle" => unl.path \in Paths

IInv == CloudInv /\ IndexInv /\ OwnRows /\ KnowInv /\ Sets /\ TimerInv /\ UnlinkInv

LEMMA TimerKeeps ==
  ASSUME TimerInv, timer' \in {timer, Failed(timer), Succeeded(timer), [failures |-> 0, interval |-> BaseInterval]}
  PROVE  TimerInv'
<1>0. /\ timer \in [failures : 0 .. 10, interval : Nat] /\ BaseInterval \in Nat
      /\ (timer.failures < 3 => timer.interval = BaseInterval)
      /\ timer.interval >= Smaller(BaseInterval, 600)
      /\ timer.interval <= IF timer.failures < 3 THEN BaseInterval ELSE 600
  BY PollerAssumption DEF TimerInv, PollBackoff
<1>1. CASE timer' = timer
  BY <1>1 DEF TimerInv, PollBackoff
<1>2. CASE timer' = [failures |-> 0, interval |-> BaseInterval]
  BY <1>0, <1>2 DEF TimerInv, PollBackoff, Smaller
<1>3. CASE timer' = Succeeded(timer)
  <2>1. timer' = timer \/ timer' = [failures |-> 0, interval |-> BaseInterval]
    BY <1>3 DEF Succeeded
  <2> QED
    BY <1>1, <1>2, <2>1
<1>4. CASE timer' = Failed(timer)
  <2>1. PICK f : f = IF timer.failures >= 3 /\ timer.interval = 600 THEN timer.failures
                     ELSE Smaller(timer.failures + 1, 10)
    OBVIOUS
  <2>2. f \in 0 .. 10 /\ (f < 3 => timer.failures < 3) /\ (f = 10 => timer.failures >= 3)
    BY <1>0, <2>1 DEF Smaller
  <2>3. PICK v : v = IF f >= 3 /\ f < 10 THEN Smaller(2 * timer.interval, 600) ELSE timer.interval
    OBVIOUS
  <2>4. /\ v \in Nat /\ v >= Smaller(BaseInterval, 600) /\ (f < 3 => v = BaseInterval)
        /\ v <= IF f < 3 THEN BaseInterval ELSE 600
    BY <1>0, <2>2, <2>3 DEF Smaller
  <2>5. timer' = [failures |-> f, interval |-> v]
    BY <1>4, <2>1, <2>3 DEF Failed
  <2> QED
    BY <2>2, <2>4, <2>5 DEF TimerInv, PollBackoff
<1> QED
  BY <1>1, <1>2, <1>3, <1>4

\* The sets a step outside the poller leaves.
LEMMA LocalTimer ==
  ASSUME LocalNext \/ CloudNext \/ \E t \in Paths : TombstoneExpires(t)
  PROVE  timer' = timer /\ poll' = poll
<1>1. CASE LocalNext
  BY <1>1 DEF LocalNext, Hydrate, LocalWrite, Upload, Unlink, UploadNew, Conflict, UnlinkTombstone, UnlinkRemote,
              UnlinkDone, Unlinking, LocalStep, LocalRest
<1>2. CASE CloudNext
  BY <1>2 DEF CloudNext, RemoteEdit, RemoteDelete, RemoteCreate, RemoteMove, RemoteMoveDir, ExpireTokens,
              OtherClient
<1>3. CASE \E t \in Paths : TombstoneExpires(t)
  BY <1>3 DEF TombstoneExpires
<1> QED
  BY <1>1, <1>2, <1>3

LEMMA FailTimer == ASSUME Fail PROVE timer' \in {timer, Failed(timer)}
BY DEF Fail

LEMMA PollTimer ==
  ASSUME PollNext \/ Restart
  PROVE  timer' \in {timer, Failed(timer), Succeeded(timer), [failures |-> 0, interval |-> BaseInterval]}
<1>1. CASE BeginFull \/ List \/ Snapshot \/ Diff \/ MarkUnchanged \/ BeginDelta \/ StartToken \/ Fetch \/ FetchExpired
           \/ DeltaTombstones \/ DeltaSnapshot \/ Applied
  BY <1>1 DEF BeginFull, List, Snapshot, Diff, MarkUnchanged, BeginDelta, StartToken, Fetch, FetchExpired,
              DeltaTombstones, DeltaSnapshot, Applied, Proceed
<1>2. CASE SetGeneration \/ SetToken
  BY <1>2 DEF SetGeneration, SetToken, Succeed, Proceed
<1>3. CASE FetchRejected \/ PollFault
  BY <1>3, FailTimer DEF FetchRejected, PollFault
<1>4. CASE UpsertOne \/ ApplyUpsert
  <2>1. PICK m, g, rest : DoUpsert(m, g, rest)
    BY <1>4 DEF UpsertOne, ApplyUpsert
  <2>2. Fail \/ timer' = timer
    BY <2>1 DEF DoUpsert, Proceed
  <2> QED
    BY <2>2, FailTimer
<1>5. CASE Sweep
  <2>1. Fail \/ timer' = timer
    BY <1>5 DEF Sweep, Proceed
  <2> QED
    BY <2>1, FailTimer
<1>6. CASE ApplyDelete
  <2>1. Fail \/ timer' = timer
    BY <1>6 DEF ApplyDelete, Proceed
  <2> QED
    BY <2>1, FailTimer
<1>7. CASE Restart
  BY <1>7 DEF Restart
<1> QED
  BY <1>1, <1>2, <1>3, <1>4, <1>5, <1>6, <1>7 DEF PollNext

\* The poller's steps.
LEMMA LooksDone ==
  ASSUME CloudInv, IndexInv, OwnRows, Sets, Looks
  PROVE  CloudInv' /\ IndexInv' /\ OwnRows' /\ Sets' /\ DirtyStays
<1>1. CloudInv'
  BY CloudStill DEF Looks
<1>2. IndexInv' /\ OwnRows'
  BY IndexStill DEF Looks
<1> QED
  BY <1>1, <1>2 DEF Looks, Sets, DirtyStays

LEMMA PollerKeeps ==
  ASSUME CloudInv, IndexInv, OwnRows, KnowInv, Sets, PollNext \/ Restart
  PROVE  CloudInv' /\ IndexInv' /\ OwnRows' /\ KnowInv' /\ Sets' /\ DirtyStays
<1>0. apart \subseteq Items
  BY DEF Sets
<1>1. CASE BeginFull \/ List \/ Snapshot \/ Diff \/ BeginDelta \/ StartToken \/ SetToken \/ Fetch \/ FetchExpired
           \/ FetchRejected \/ DeltaTombstones \/ DeltaSnapshot \/ Applied \/ PollFault \/ Restart
  <2>1. Looks /\ KnowInv'
    BY <1>0, <1>1, BeginFullKeeps, ListKeeps, SnapshotKeeps, DiffKeeps, BeginDeltaKeeps, StartTokenKeeps, SetTokenKeeps,
       FetchKeeps, FetchExpiredKeeps, FaultKeeps, DeltaTombstonesKeeps, DeltaSnapshotKeeps, AppliedKeeps, RestartKeeps
  <2> QED
    BY <2>1, LooksDone
<1>2. CASE UpsertOne \/ ApplyUpsert \/ ApplyDelete \/ Sweep
  <2>1. IndexInv' /\ OwnRows' /\ KnowInv' /\ Sets' /\ DirtyStays
    BY <1>2, UpsertOneKeeps, ApplyUpsertKeeps, ApplyDeleteKeeps, SweepKeeps
  <2>2. remote' = remote /\ clock' = clock
    BY <1>2 DEF UpsertOne, ApplyUpsert, ApplyDelete, Sweep, PollStep, cloud
  <2>3. apart \subseteq apart'
    BY <1>0, <1>2 DEF UpsertOne, ApplyUpsert, ApplyDelete, Sweep, DoUpsert, Fail
  <2> QED
    BY <2>1, <2>2, <2>3, CloudStill
<1>3. CASE MarkUnchanged \/ SetGeneration
  <2>1. Regenerated /\ IndexInv' /\ OwnRows' /\ KnowInv' /\ Sets'
    BY <1>3, MarkUnchangedKeeps, SetGenerationKeeps
  <2>2. remote' = remote /\ clock' = clock /\ apart' = apart
    BY <1>3 DEF MarkUnchanged, SetGeneration, PollStep, cloud, history
  <2> QED
    BY <2>1, <2>2, CloudStill DEF Regenerated, DirtyStays
<1> QED
  BY <1>1, <1>2, <1>3 DEF PollNext

\* The other steps.
LEMMA OthersOutside ==
  ASSUME CloudInv, IndexInv, OwnRows, LocalNext \/ CloudNext \/ (\E t \in Paths : TombstoneExpires(t))
  PROVE  (\E S : Outside(S)) /\ CloudInv' /\ IndexInv' /\ OwnRows'
<1>1. CASE LocalNext
  <2>1. CASE \E n \in Inodes : Hydrate(n) \/ LocalWrite(n) \/ Upload(n) \/ Unlink(n)
    BY <2>1, HydrateOutside, LocalWriteOutside, UploadOutside, UnlinkOutside
  <2>2. CASE \E n \in Inodes, i \in Items : UploadNew(n, i)
    BY <2>2, UploadNewOutside
  <2>3. CASE \E n \in Inodes, i \in Items, p \in ConflictNs : Conflict(n, i, p)
    BY <2>3, ConflictOutside
  <2>4. CASE UnlinkTombstone \/ UnlinkRemote \/ UnlinkDone
    BY <2>4, UnlinkRemoteOutside, QuietSteps
  <2> QED
    BY <1>1, <2>1, <2>2, <2>3, <2>4 DEF LocalNext
<1>2. CASE CloudNext
  <2>1. CASE \E i \in Items : RemoteEdit(i) \/ RemoteDelete(i)
    BY <2>1, EditOutside, RemoteDeleteOutside
  <2>2. CASE \E i \in Items, p \in Paths : RemoteCreate(i, p) \/ RemoteMove(i, p) \/ RemoteMoveDir(i, p)
    BY <2>2, CreateOutside, MoveOutside, MoveDirOutside
  <2>3. CASE ExpireTokens
    BY <2>3, QuietSteps
  <2> QED
    BY <1>2, <2>1, <2>2, <2>3 DEF CloudNext
<1>3. CASE \E t \in Paths : TombstoneExpires(t)
  BY <1>3, QuietSteps
<1> QED
  BY <1>1, <1>2, <1>3

LEMMA OthersSets ==
  ASSUME CloudInv, IndexInv, Sets, LocalNext \/ CloudNext \/ (\E t \in Paths : TombstoneExpires(t))
  PROVE  Sets'
<1>1. CASE \E n \in Inodes : Hydrate(n) \/ LocalWrite(n)
  BY <1>1 DEF Hydrate, LocalWrite, history, Sets
<1>2. CASE \E n \in Inodes : Upload(n)
  <2>1. PICK n \in Inodes : Upload(n)
    BY <1>2
  <2>2. ItemAt(rows[n].path) \in Items
    BY <2>1, TakenBy DEF Upload, Matches, LiveItems
  <2> QED
    BY <2>1, <2>2 DEF Upload, Change, Known, Sets
<1>3. CASE \E n \in Inodes : Unlink(n)
  BY <1>3 DEF Unlink, Sets, LiveItems
<1>4. CASE \E n \in Inodes, i \in Items : UploadNew(n, i)
  <2>1. PICK n \in Inodes, i \in Items : UploadNew(n, i)
    BY <1>4
  <2>2. n \in Live
    BY <2>1 DEF UploadNew, IsFile, Live
  <2>3. rows[n].item \in Items \cup {None}
    BY <2>2, LiveFacts DEF RowType
  <2> QED
    BY <2>1, <2>3 DEF UploadNew, Sets
<1>5. CASE \E n \in Inodes, i \in Items, p \in ConflictNs : Conflict(n, i, p)
  <2>1. PICK n \in Inodes, i \in Items, p \in ConflictNs : Conflict(n, i, p)
    BY <1>5
  <2>2. n \in Live
    BY <2>1 DEF Conflict, IsFile, Live
  <2>3. rows[n].item \in Items \cup {None}
    BY <2>2, LiveFacts DEF RowType
  <2>4. ItemAt(rows[n].path) \in Items
    BY <2>1, TakenBy DEF Conflict, LiveItems
  <2>5. Mixed(rows[n].item, ItemAt(rows[n].path)) \subseteq Items
    BY <2>3, <2>4 DEF Mixed
  <2> QED
    BY <2>1, <2>5 DEF Conflict, Change, Known, Sets
<1>6. CASE UnlinkTombstone \/ UnlinkDone
  BY <1>6 DEF UnlinkTombstone, UnlinkDone, Unlinking, Sets
<1>7. CASE UnlinkRemote
  <2>1. CASE Taken(unl.path)
    <3>1. ItemAt(unl.path) \in Items
      BY <2>1, TakenBy DEF LiveItems
    <3> QED
      BY <1>7, <2>1, <3>1 DEF UnlinkRemote, Unlinking, Delete, Change, Known, Sets
  <2>2. CASE ~Taken(unl.path)
    BY <1>7, <2>2 DEF UnlinkRemote, Unlinking, Sets
  <2> QED
    BY <2>1, <2>2
<1>8. CASE CloudNext
  <2>1. CASE \E i \in Items : RemoteEdit(i)
    BY <2>1 DEF RemoteEdit, Change, Known, OtherClient, Sets
  <2>2. CASE \E i \in Items : RemoteDelete(i)
    BY <2>2 DEF RemoteDelete, Delete, Change, Known, OtherClient, Sets, LiveItems
  <2>3. CASE \E i \in Items, p \in Paths : RemoteCreate(i, p) \/ RemoteMove(i, p)
    BY <2>3 DEF RemoteCreate, RemoteMove, Change, Known, OtherClient, Sets
  <2>5. CASE \E i \in Items, p \in Paths : RemoteMoveDir(i, p)
    BY <2>5 DEF RemoteMoveDir, OtherClient, Sets, LiveItems
  <2>4. CASE ExpireTokens
    BY <2>4 DEF ExpireTokens, history, Sets
  <2> QED
    BY <1>8, <2>1, <2>2, <2>3, <2>4, <2>5 DEF CloudNext
<1>9. CASE \E t \in Paths : TombstoneExpires(t)
  BY <1>9 DEF TombstoneExpires, history, Sets
<1> QED
  BY <1>1, <1>2, <1>3, <1>4, <1>5, <1>6, <1>7, <1>8, <1>9 DEF LocalNext

LEMMA UnlinkKeeps ==
  ASSUME CloudInv, IndexInv, UnlinkInv, Next PROVE UnlinkInv'
<1>0. clock \in Nat
  BY DEF CloudInv, CloudTypes
<1>1. CASE PollNext
  <2>1. UNCHANGED <<horizon, tombs, unl>>
    BY <1>1 DEF PollNext, BeginFull, List, Snapshot, Diff, UpsertOne, MarkUnchanged, Sweep, SetGeneration, BeginDelta,
                StartToken, SetToken, Fetch, FetchExpired, FetchRejected, DeltaTombstones, DeltaSnapshot, ApplyUpsert,
                ApplyDelete, Applied, PollFault, PollStep, cloud
  <2> QED
    BY <2>1 DEF UnlinkInv
<1>2. CASE Restart
  BY <1>2 DEF Restart, UnlinkInv, cloud
<1>3. CASE \E t \in Paths : TombstoneExpires(t)
  BY <1>3 DEF TombstoneExpires, UnlinkInv, cloud
<1>4. CASE CloudNext
  <2>1. CASE ExpireTokens
    BY <1>0, <2>1 DEF ExpireTokens, UnlinkInv
  <2>2. CASE ~ExpireTokens
    <3>1. OtherClient
      BY <1>4, <2>2 DEF CloudNext, RemoteEdit, RemoteDelete, RemoteCreate, RemoteMove, RemoteMoveDir
    <3> QED
      BY <3>1 DEF OtherClient, UnlinkInv
  <2> QED
    BY <2>1, <2>2
<1>5. CASE LocalNext
  <2>1. CASE \E n \in Inodes : Hydrate(n) \/ LocalWrite(n) \/ Upload(n)
    BY <2>1 DEF Hydrate, LocalWrite, Upload, LocalStep, LocalRest, UnlinkInv
  <2>2. CASE \E n \in Inodes : Unlink(n)
    <3>1. PICK n \in Inodes : Unlink(n)
      BY <2>2
    <3>2. n \in Live
      BY <3>1 DEF Unlink, IsFile, Live
    <3>3. rows[n].path \in Paths
      BY <3>2, LiveFacts
    <3> QED
      BY <3>1, <3>3 DEF Unlink, LocalStep, LocalRest, UnlinkInv
  <2>3. CASE \E n \in Inodes, i \in Items : UploadNew(n, i)
    BY <2>3 DEF UploadNew, LocalRest, UnlinkInv
  <2>4. CASE \E n \in Inodes, i \in Items, p \in ConflictNs : Conflict(n, i, p)
    BY <2>4 DEF Conflict, LocalRest, UnlinkInv
  <2>5. CASE UnlinkTombstone
    BY <2>5 DEF UnlinkTombstone, Unlinking, UnlinkInv
  <2>6. CASE UnlinkRemote
    BY <2>6 DEF UnlinkRemote, Unlinking, UnlinkInv
  <2>7. CASE UnlinkDone
    BY <2>7 DEF UnlinkDone, Unlinking, UnlinkInv
  <2> QED
    BY <1>5, <2>1, <2>2, <2>3, <2>4, <2>5, <2>6, <2>7 DEF LocalNext
<1> QED
  BY <1>1, <1>2, <1>3, <1>4, <1>5 DEF Next

LEMMA Step == ASSUME IInv, [Next]_vars PROVE IInv'
<1>1. CASE Next
  <2>1. CASE PollNext \/ Restart
    <3>1. CloudInv' /\ IndexInv' /\ OwnRows' /\ KnowInv' /\ Sets'
      BY <2>1, PollerKeeps DEF IInv
    <3>2. TimerInv'
      BY <2>1, PollTimer, TimerKeeps DEF IInv
    <3> QED
      BY <1>1, <3>1, <3>2, UnlinkKeeps DEF IInv
  <2>2. CASE LocalNext \/ CloudNext \/ \E t \in Paths : TombstoneExpires(t)
    <3>1. (\E S : Outside(S)) /\ CloudInv' /\ IndexInv' /\ OwnRows'
      BY <2>2, OthersOutside DEF IInv
    <3>2. KnowInv'
      BY <3>1, OutsideKeeps DEF IInv
    <3>3. TimerInv' /\ Sets'
      BY <2>2, LocalTimer, TimerKeeps, OthersSets DEF IInv
    <3> QED
      BY <1>1, <3>1, <3>2, <3>3, UnlinkKeeps DEF IInv
  <2> QED
    BY <1>1, <2>1, <2>2 DEF Next
<1>2. CASE UNCHANGED vars
  <2>1. /\ UNCHANGED <<mode, poll, token, rows, next, mixed>> /\ clock' = clock /\ remote' = remote /\ apart' = apart
        /\ UNCHANGED <<timer, horizon, tombs, unl>>
    BY <1>2 DEF vars
  <2>2. Outside({}) /\ CloudInv' /\ IndexInv' /\ OwnRows'
    BY <2>1, QuietOutside DEF IInv
  <2>3. KnowInv'
    BY <2>2, OutsideKeeps DEF IInv
  <2> QED
    BY <2>1, <2>2, <2>3 DEF IInv, TimerInv, PollBackoff, UnlinkInv, Sets
<1> QED
  BY <1>1, <1>2

\* The index and the cloud when the daemon starts.
LEMMA HomeFacts ==
  /\ Cardinality(Items) \in Nat /\ Cardinality(AtHome) \in Nat /\ Cardinality(AtHome) <= Cardinality(Items)
  /\ \A i \in AtHome : i \in Items /\ Home[i] \in Paths /\ HomeInode[i] \in 1 .. Cardinality(AtHome) /\ HomeInode[i] \in Inodes
  /\ \A i \in Items \ AtHome : Home[i] = None /\ HomeInode[i] = 0
<1>1. AtHome \subseteq Items /\ IsFiniteSet(Items)
  BY PollerAssumption DEF AtHome
<1>2. IsFiniteSet(AtHome) /\ Cardinality(Items) \in Nat /\ Cardinality(AtHome) \in Nat
      /\ Cardinality(AtHome) <= Cardinality(Items)
  BY <1>1, FS_Subset, FS_CardinalityType
<1>3. ASSUME NEW i \in AtHome
      PROVE  i \in Items /\ Home[i] \in Paths /\ HomeInode[i] \in 1 .. Cardinality(AtHome) /\ HomeInode[i] \in Inodes
  <2>1. i \in Items /\ Home[i] \in Paths /\ HomeInode[i] \in 0 .. Cardinality(AtHome) /\ HomeInode[i] # 0
    BY PollerAssumption DEF AtHome
  <2>2. Cardinality(AtHome) <= MaxInode /\ MaxInode \in Nat
    BY PollerAssumption
  <2> QED
    BY <1>2, <2>1, <2>2 DEF Inodes
<1>4. \A i \in Items \ AtHome : Home[i] = None /\ HomeInode[i] = 0
  BY PollerAssumption DEF AtHome
<1> QED
  BY <1>2, <1>3, <1>4

LEMMA InitCloud == ASSUME Init PROVE CloudInv
<1>0. /\ clock = Cardinality(Items) /\ clock \in Nat /\ Cardinality(AtHome) \in Nat /\ Cardinality(AtHome) <= clock
      /\ remote = [i \in Items |-> Item(Home[i], HomeInode[i], 0, Home[i] = None)]
  BY HomeFacts DEF Init
<1>1. ASSUME NEW i \in Items
      PROVE  /\ remote[i].path = Home[i] /\ remote[i].ver = HomeInode[i] /\ remote[i].seq = 0
             /\ remote[i].gone = (Home[i] = None) /\ remote[i] \in ItemType /\ HomeInode[i] <= clock
  <2>1. Home[i] \in Paths \cup {None} /\ HomeInode[i] \in Nat /\ HomeInode[i] <= clock
    BY <1>0, HomeFacts, NoneFacts
  <2> QED
    BY <1>0, <2>1 DEF Item, ItemType
<1>2. CloudTypes
  BY <1>0, <1>1 DEF CloudTypes
<1>3. CloudDates
  <2>1. ASSUME NEW i \in Items PROVE remote[i].seq <= clock /\ remote[i].ver <= clock
    BY <1>0, <1>1, HomeFacts
  <2> QED
    BY <1>0, <1>1, <2>1 DEF CloudDates, Used
<1>4. \A i, j \in Items : Home[i] # None /\ Home[j] # None /\ i # j => Home[i] # Home[j] /\ HomeInode[i] # HomeInode[j]
  BY PollerAssumption DEF AtHome
<1>5. CloudPaths
  <2> SUFFICES ASSUME NEW i \in Items, NEW j \in Items, ~remote[j].gone, remote[i].path = remote[j].path
               PROVE  ~remote[i].gone /\ i = j
    BY DEF CloudPaths
  <2>1. Home[j] # None /\ Home[i] = Home[j]
    BY <1>1
  <2>2. ~remote[i].gone
    BY <1>1, <2>1
  <2> QED
    BY <1>4, <2>1, <2>2
<1>6. CloudVers
  BY <1>1, <1>4 DEF CloudVers, Used
<1> QED
  BY <1>2, <1>3, <1>5, <1>6 DEF CloudInv

LEMMA HomeRows ==
  ASSUME mode \in Modes, NEW i \in AtHome
  PROVE  /\ HomeRow(i) \in RowType /\ HomeRow(i).path = Home[i] /\ HomeRow(i).item = ItemId(i)
         /\ HomeRow(i).etag = HomeInode[i] /\ HomeRow(i).parent \in 0 .. Cardinality(AtHome) /\ HomeRow(i).status = "cached"
         /\ HomeRow(i) # NoRow
<1>0. /\ i \in Items /\ Home[i] \in Paths /\ HomeInode[i] \in Nat /\ Home[i] # None /\ Cardinality(AtHome) \in Nat
      /\ ItemId(i) \in Items \cup {None}
  BY HomeFacts, NoneFacts DEF ItemId
<1> DEFINE par == IF ParentOf[Home[i]] = None THEN 0
                  ELSE HomeInode[CHOOSE j \in AtHome : Home[j] = ParentOf[Home[i]]]
<1>2. par \in 0 .. Cardinality(AtHome)
  <2>1. CASE ParentOf[Home[i]] = None
    BY <1>0, <2>1
  <2>2. CASE ParentOf[Home[i]] # None
    <3>1. \E j \in AtHome : Home[j] = ParentOf[Home[i]]
      BY <2>2, PollerAssumption
    <3>2. PICK k \in AtHome : k = CHOOSE j \in AtHome : Home[j] = ParentOf[Home[i]]
      BY <3>1
    <3>3. par = HomeInode[k]
      BY <2>2, <3>2
    <3> QED
      BY <1>0, <3>3, HomeFacts
  <2> QED
    BY <2>1, <2>2
<1>3. HomeRow(i) = Row(Home[i], par, ItemId(i), HomeInode[i], "cached", 1)
  BY DEF HomeRow
<1> HIDE DEF par
<1>4. /\ HomeRow(i) \in RowType /\ HomeRow(i).path = Home[i] /\ HomeRow(i).item = ItemId(i)
      /\ HomeRow(i).etag = HomeInode[i] /\ HomeRow(i).parent = par /\ HomeRow(i).status = "cached"
  BY <1>0, <1>2, <1>3 DEF Row, RowType, Statuses
<1> QED
  BY <1>0, <1>2, <1>4, PathLives

LEMMA InitIndex == ASSUME Init PROVE IndexInv /\ OwnRows /\ CurInv
<1>0. /\ mode \in Modes /\ clock = Cardinality(Items) /\ clock \in Nat /\ Cardinality(AtHome) \in Nat
      /\ Cardinality(AtHome) <= clock /\ NoRow \in RowType /\ NoRow.path = None /\ MaxInode \in Nat \ {0}
      /\ Cardinality(AtHome) <= MaxInode /\ poll.pc = "idle" /\ poll.call = "poll"
  BY HomeFacts, PollerAssumption DEF Init, NoRow, RowType, Idle
<1>1. \A i \in Items : remote[i].path = Home[i] /\ remote[i].ver = HomeInode[i] /\ remote[i].gone = (Home[i] = None)
  BY DEF Init, Item
<1>2. CASE rows = [n \in Inodes |-> NoRow] /\ next = 1 /\ token = NoToken
  <2>1. Live = {}
    BY <1>2 DEF Live
  <2>2. IndexInv
    BY <1>0, <1>2, <2>1 DEF IndexInv, IndexTypes, IndexKeys
  <2>3. OwnRows
    BY <2>1 DEF OwnRows
  <2>4. CurInv
    BY <1>0, <1>2 DEF CurInv, Due, NoToken, Pages
  <2> QED
    BY <2>2, <2>3, <2>4
<1>3. CASE /\ rows = [n \in Inodes |-> IF \E i \in Items : HomeInode[i] = n
                                       THEN HomeRow(CHOOSE i \in Items : HomeInode[i] = n) ELSE NoRow]
           /\ next = 1 + Cardinality(AtHome)
  <2>1. ASSUME NEW n \in Live
        PROVE  n \in Inodes /\ \E i \in AtHome : HomeInode[i] = n /\ rows[n] = HomeRow(i)
    <3>1. n \in Inodes /\ \E i \in Items : HomeInode[i] = n
      BY <1>3 DEF Live
    <3>2. PICK k \in Items : k = (CHOOSE i \in Items : HomeInode[i] = n) /\ HomeInode[k] = n
      BY <3>1
    <3>3. rows[n] = HomeRow(k)
      BY <1>3, <3>1, <3>2
    <3>4. k \in AtHome
      BY <3>1, <3>2, HomeFacts DEF Inodes
    <3> QED
      BY <3>1, <3>2, <3>3, <3>4
  <2>2. ASSUME NEW i \in AtHome PROVE HomeInode[i] \in Live /\ rows[HomeInode[i]] = HomeRow(i)
    <3>1. i \in Items /\ HomeInode[i] \in Inodes
      BY HomeFacts
    <3>2. PICK k \in Items : k = (CHOOSE j \in Items : HomeInode[j] = HomeInode[i]) /\ HomeInode[k] = HomeInode[i]
      BY <3>1
    <3>3. k \in AtHome
      BY <3>1, <3>2, HomeFacts DEF Inodes
    <3>4. k = i
      BY <3>2, <3>3, PollerAssumption
    <3>5. rows[HomeInode[i]] = HomeRow(i)
      BY <1>3, <3>1, <3>2, <3>4
    <3> QED
      BY <1>0, <3>1, <3>5, HomeRows DEF Live
  <2>3. \A i \in AtHome : /\ HomeRow(i) \in RowType /\ HomeRow(i).path = Home[i] /\ HomeRow(i).item = ItemId(i)
                          /\ HomeRow(i).etag = HomeInode[i] /\ HomeRow(i).parent \in 0 .. Cardinality(AtHome)
                          /\ Home[i] \in Paths /\ i \in Items /\ i # None /\ HomeInode[i] \in 1 .. Cardinality(AtHome)
    BY <1>0, HomeRows, HomeFacts, NoneFacts
  <2>4. \A i \in AtHome : ItemId(i) \in {i, None} /\ (mode = "delta" => ItemId(i) = i)
    BY DEF ItemId
  <2>5. \A i, j \in AtHome : i # j => Home[i] # Home[j] /\ HomeInode[i] # HomeInode[j]
    BY PollerAssumption
  <2>6. IndexTypes
    <3>1. \A n \in Live : n < next /\ rows[n].parent < next
      <4>1. ASSUME NEW n \in Live PROVE n < next /\ rows[n].parent < next
        <5>1. PICK i \in AtHome : HomeInode[i] = n /\ rows[n] = HomeRow(i)
          BY <2>1
        <5> QED
          BY <1>0, <1>3, <2>3, <5>1
      <4> QED
        BY <4>1
    <3>2. \A n \in Inodes : rows[n] \in RowType
      BY <1>0, <2>1, <2>3 DEF Live
    <3>3. rows \in [Inodes -> RowType]
      BY <1>3, <3>2
    <3>4. next \in 1 .. (MaxInode + 1)
      <4>1. PICK c \in Nat : c = Cardinality(AtHome) /\ c <= MaxInode /\ next = 1 + c
        BY <1>0, <1>3
      <4> QED
        BY <1>0, <4>1
    <3> QED
      BY <1>0, <3>1, <3>3, <3>4 DEF IndexTypes
  <2>7. IndexKeys
    <3>1. ASSUME NEW m \in Live, NEW n \in Live, rows[m].path = rows[n].path PROVE m = n
      BY <2>1, <2>3, <2>5, <3>1
    <3>2. ASSUME NEW m \in Live, NEW n \in Live, rows[m].item = rows[n].item, rows[m].item # None PROVE m = n
      BY <2>1, <2>3, <2>4, <3>2
    <3>3. ASSUME NEW n \in Live
          PROVE  /\ rows[n].path \in Paths /\ rows[n].etag \in 0 .. clock
                 /\ mode = "delta" /\ rows[n].item = None => rows[n].path \in ConflictNs
      <4>1. PICK i \in AtHome : HomeInode[i] = n /\ rows[n] = HomeRow(i)
        BY <2>1
      <4> QED
        BY <1>0, <2>3, <2>4, <4>1
    <3> QED
      BY <3>1, <3>2, <3>3 DEF IndexKeys
  <2>8. OwnRows
    <3> SUFFICES ASSUME NEW n \in Live, mode = "delta", NEW j \in Items, j # rows[n].item, Used(j),
                        remote[j].ver = rows[n].etag
                 PROVE  FALSE
      BY DEF OwnRows, OwnRow
    <3>1. PICK i \in AtHome : HomeInode[i] = n /\ rows[n] = HomeRow(i)
      BY <2>1
    <3>2. j \in AtHome /\ HomeInode[j] = HomeInode[i]
      BY <1>1, <2>3, <3>1 DEF Used, AtHome
    <3> QED
      BY <2>3, <2>4, <2>5, <3>1, <3>2
  <2>9. CurInv
    <3> SUFFICES ASSUME mode = "delta", NEW i \in Items PROVE Cur(i)
      BY DEF CurInv, Told
    <3>1. CASE Home[i] = None
      <4>1. ASSUME NEW n \in Live PROVE rows[n].item # i
        <5>1. PICK j \in AtHome : HomeInode[j] = n /\ rows[n] = HomeRow(j)
          BY <2>1
        <5>2. j # i /\ i # None
          BY <3>1, NoneFacts DEF AtHome
        <5> QED
          BY <2>3, <2>4, <5>1, <5>2
      <4> QED
        BY <1>1, <3>1, <4>1 DEF Cur
    <3>2. CASE Home[i] # None
      <4>1. i \in AtHome
        BY <3>2 DEF AtHome
      <4>2. /\ HomeInode[i] \in Live /\ rows[HomeInode[i]].item = i /\ rows[HomeInode[i]].path = remote[i].path
            /\ rows[HomeInode[i]].etag = remote[i].ver
        BY <1>1, <2>2, <2>3, <2>4, <4>1
      <4> QED
        BY <1>1, <3>2, <4>2 DEF Cur
    <3> QED
      BY <3>1, <3>2
  <2> QED
    BY <2>6, <2>7, <2>8, <2>9 DEF IndexInv
<1> QED
  BY <1>2, <1>3 DEF Init

LEMMA Start == ASSUME Init PROVE IInv
<1>1. CloudInv /\ IndexInv /\ OwnRows /\ CurInv
  BY InitCloud, InitIndex
<1>2. /\ Idle \in PollType /\ Idle.pc = "idle" /\ Idle.call = "poll" /\ Idle.nxt = 0
      /\ (\A p \in Dirs : Idle.map[p] < next) /\ Idle.snap = {} /\ poll = Idle
  BY <1>1, IdleType DEF Init
<1>3. /\ clock \in Nat /\ token \in TokenType /\ (token.kind = "token" => token.n <= clock)
  <2>1. clock \in Nat
    BY <1>1 DEF CloudInv, CloudTypes
  <2>2. token \in {NoToken, Gen(1), Token(clock)}
    BY DEF Init
  <2> QED
    BY <2>1, <2>2 DEF NoToken, Gen, Token, TokenType
<1>4. PollTypes /\ PhaseInv
  BY <1>2, <1>3 DEF PollTypes, PhaseInv, Pages, Full
<1>5. PageInv /\ ListInv /\ SweepInv
  BY <1>2 DEF PageInv, ListInv, SweepInv, Pages, Full
<1>6. Sets /\ UnlinkInv
  BY DEF Init, Sets, UnlinkInv
<1>7. TimerInv
  BY PollerAssumption DEF Init, TimerInv, PollBackoff, Smaller
<1> QED
  BY <1>1, <1>4, <1>5, <1>6, <1>7 DEF IInv, KnowInv

\* The inductive invariant holds in every behaviour of the poller, the local side and
\* the other clients of the account.
THEOREM Inductive == Spec => []IInv
<1>1. Init => IInv
  BY Start
<1>2. IInv /\ [Next]_vars => IInv'
  BY Step
<1> QED
  BY <1>1, <1>2, PTL DEF Spec

\* The index, the poller and its environment keep their types, and an inode is
\* given out once.
THEOREM TypeCorrect == Spec => []TypeOK
<1>1. IInv => TypeOK
  BY DEF IInv, CloudInv, CloudTypes, ItemType, IndexInv, IndexTypes, KnowInv, PollTypes, TokenType, Sets,
         TimerInv, UnlinkInv, TypeOK
<1> QED
  BY <1>1, Inductive, PTL

\* run: the interval is the configured one until the third failure in a row; from
\* then on it is ten minutes at most, and no shorter than the configured one if that
\* is not longer.
THEOREM BackoffHolds == Spec => []PollBackoff
<1>1. IInv => PollBackoff
  BY DEF IInv, TimerInv
<1> QED
  BY <1>1, Inductive, PTL

\* Between delta polls the index shows each item that changed no later than the
\* stored token: no delta poll skips a change.
THEOREM IndexIsCurrent == Spec => []IndexCurrent
<1>1. IInv => IndexCurrent
  <2> SUFFICES ASSUME IInv, mode = "delta", poll.pc = "idle", token.kind = "token",
                      NEW i \in Items \ (apart \cup mixed), remote[i].seq <= token.n,
                      remote[i].path \notin Skipped \cup {None}
               PROVE  IF remote[i].gone THEN \A n \in Live : rows[n].item = i => ~Clean(n)
                      ELSE \E n \in Live : rows[n].item = i /\ rows[n].path = remote[i].path
                                           /\ (rows[n].etag = remote[i].ver \/ ~Clean(n))
    BY DEF IndexCurrent
  <2>1. i \in Told /\ Due(i)
    BY DEF Told, Due
  <2>2. Cur(i)
    BY <2>1 DEF IInv, KnowInv, CurInv
  <2> QED
    BY <2>2 DEF Cur
<1> QED
  BY <1>1, Inductive, PTL

\* No step of the poller touches a row with local changes, unless it moves another
\* item to that path.
THEOREM LocalChangesKept == Spec => DirtyRowsKept
<1>1. ASSUME IInv, [Next]_vars
      PROVE  [poll' # poll =>
                \A n \in Live : ~Clean(n) =>
                  \/ rows'[n].status = rows[n].status
                  \/ \E m \in Live \ {n}, c \in poll.todo :
                       /\ rows[m].item = c.item /\ rows[m].path # rows[n].path /\ c.path = rows[n].path
                       /\ rows'[m] = rows[m] => poll'.pc \in {"idle", "start"}]_vars
  <2>1. CASE PollNext \/ Restart
    <3>1. DirtyStays
      BY <1>1, <2>1, PollerKeeps DEF IInv
    <3> QED
      BY <3>1 DEF DirtyStays
  <2>2. CASE LocalNext \/ CloudNext \/ \E t \in Paths : TombstoneExpires(t)
    BY <2>2, LocalTimer
  <2>3. CASE UNCHANGED vars
    BY <2>3 DEF vars
  <2> QED
    BY <1>1, <2>1, <2>2, <2>3 DEF Next
<1> QED
  BY <1>1, Inductive, PTL DEF Spec, DirtyRowsKept

\* A full poll's sweep deletes no file that its listing holds.
THEOREM ListedFilesKept == Spec => SweepSpares
<1>1. ASSUME IInv, [Next]_vars
      PROVE  [poll.pc = "sweep" /\ poll' # poll =>
                \A n \in Live : rows'[n] = NoRow =>
                  \/ \A m \in poll.listing : m.path # rows[n].path
                  \/ rows[n].path \in ConflictNs]_vars
  <2>1. CASE PollNext \/ Restart
    <3> SUFFICES ASSUME poll.pc = "sweep" PROVE Spares
      BY DEF Spares
    <3>1. CASE Sweep
      BY <1>1, <3>1, SweepKeeps DEF IInv
    <3>2. CASE PollFault \/ Restart
      BY <3>2 DEF PollFault, Restart, index, Spares, Live
    <3> QED
      BY <2>1, <3>1, <3>2 DEF PollNext, BeginFull, List, Snapshot, Diff, UpsertOne, MarkUnchanged, SetGeneration,
            BeginDelta, StartToken, SetToken, Fetch, FetchExpired, FetchRejected, DeltaTombstones, DeltaSnapshot,
            ApplyUpsert, ApplyDelete, Applied, PollStep
  <2>2. CASE LocalNext \/ CloudNext \/ \E t \in Paths : TombstoneExpires(t)
    BY <2>2, LocalTimer
  <2>3. CASE UNCHANGED vars
    BY <2>3 DEF vars
  <2> QED
    BY <1>1, <2>1, <2>2, <2>3 DEF Next
<1> QED
  BY <1>1, Inductive, PTL DEF Spec, SweepSpares
=============================================================================
