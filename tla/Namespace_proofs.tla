--------------------------- MODULE Namespace_proofs ---------------------------
(***************************************************************************)
(* Proofs about Namespace, for every set of names and every bound: the     *)
(* types and the constraints of file_index, that the constraints refuse no *)
(* write, that no two rows share a cache file, and that nothing is lost.   *)
(*                                                                         *)
(* Four invariants, each inductive with those before it, and the history   *)
(* of refusals, which RefusedInv bounds from them:                         *)
(*   SInv      the shape of every variable, the rows' constraints, and     *)
(*             what a call, an upload or a listing refers to;              *)
(*   TreeInv   a row's path is its parent's path and its name, until a     *)
(*             directory is renamed;                                       *)
(*   CacheInv  a row's cache path is its own path and has a file, until a  *)
(*             rename crosses directories;                                 *)
(*   OkInv     the calls are apart, what they destroy is not the user's,   *)
(*             what has no row is about to be listed, and what a row does  *)
(*             not share with the remote waits for its upload, until one   *)
(*             of the exceptions happens.                                  *)
(***************************************************************************)
EXTENDS Namespace, FiniteSetTheorems, TLAPS
-----------------------------------------------------------------------------
(* Paths.                                                                  *)

Dirs == DirPaths \cup {Root}

LEMMA OneName ==
  ASSUME NEW x
  PROVE  /\ <<x>> # Root /\ Front(<<x>>) = Root /\ Last(<<x>>) = x
         /\ Append(Root, x) = <<x>>
BY DEF Root, Front, Last

LEMMA TwoNames ==
  ASSUME NEW x, NEW y
  PROVE  /\ <<x, y>> # Root /\ Front(<<x, y>>) = <<x>> /\ Last(<<x, y>>) = y
         /\ Append(<<x>>, y) = <<x, y>>
<1>1. <<x, y>> # Root /\ Last(<<x, y>>) = y
  BY DEF Root, Last
<1>4. Append(<<x>>, y) = <<x, y>>
  <2>1. Append(<<x>>, y) = [i \in 1 .. 2 |-> IF i = 1 THEN x ELSE y]
    OBVIOUS
  <2>2. <<x, y>> = [i \in 1 .. 2 |-> IF i = 1 THEN x ELSE y]
    OBVIOUS
  <2> QED
    BY <2>1, <2>2
<1>2. /\ Len(Front(<<x, y>>)) = 1 /\ Front(<<x, y>>)[1] = x /\ Front(<<x, y>>) \in Seq({x, y})
  BY DEF Front
<1>3. Front(<<x, y>>) = <<x>>
  BY <1>2
<1> QED
  BY <1>1, <1>3, <1>4

LEMMA OneTwo ==
  ASSUME NEW x, NEW y, NEW z
  PROVE  /\ <<x>> # <<y, z>>
         /\ <<x>> = <<y>> => x = y
OBVIOUS

LEMMA TwoTwo ==
  ASSUME NEW x, NEW y, NEW z, NEW w, <<x, y>> = <<z, w>>
  PROVE  x = z /\ y = w
OBVIOUS

LEMMA PathKinds ==
  /\ Root \notin Paths /\ DirPaths \cap FilePaths = {}
  /\ DirPaths \subseteq Paths /\ FilePaths \subseteq Paths
  /\ \A p \in Paths : p \notin DirPaths => p \in FilePaths
<1>1. Root \notin Paths
  <2>1. \A x, y : <<x>> # Root /\ <<x, y>> # Root
    BY OneName, TwoNames
  <2> QED
    BY <2>1 DEF Paths, DirPaths, FilePaths
<1>2. ASSUME NEW p \in DirPaths, p \in FilePaths PROVE FALSE
  <2>1. PICK d \in DirNames : p = <<d>>
    BY DEF DirPaths
  <2>2. CASE \E f \in FileNames : p = <<f>>
    BY <2>1, <2>2, OneTwo, NamesAssumption
  <2>3. CASE \E e \in DirNames, f \in FileNames : p = <<e, f>>
    BY <2>1, <2>3, OneTwo
  <2> QED
    BY <1>2, <2>2, <2>3 DEF FilePaths
<1> QED
  BY <1>1, <1>2 DEF Paths

LEMMA DirFacts ==
  ASSUME NEW p \in DirPaths
  PROVE  ParentPath(p) = Root /\ Last(p) \in DirNames /\ p = <<Last(p)>>
BY OneName DEF DirPaths, ParentPath

LEMMA FileFacts ==
  ASSUME NEW p \in FilePaths
  PROVE  /\ ParentPath(p) \in Dirs /\ Last(p) \in FileNames
         /\ p = join_remote(ParentPath(p), Last(p))
<1>1. CASE \E f \in FileNames : p = <<f>>
  BY <1>1, OneName DEF ParentPath, join_remote, Dirs
<1>2. CASE \E d \in DirNames, f \in FileNames : p = <<d, f>>
  BY <1>2, TwoNames DEF ParentPath, join_remote, Dirs, DirPaths
<1> QED
  BY <1>1, <1>2 DEF FilePaths

\* A path is its directory and its name.
LEMMA SamePath ==
  ASSUME NEW p \in Paths, NEW q \in Paths, ParentPath(p) = ParentPath(q), Last(p) = Last(q)
  PROVE  p = q
<1>1. p \in DirPaths <=> q \in DirPaths
  BY DirFacts, FileFacts, PathKinds, NamesAssumption
<1> QED
  BY <1>1, DirFacts, FileFacts, PathKinds

LEMMA JoinFile ==
  ASSUME NEW q \in Dirs, NEW f \in FileNames
  PROVE  /\ join_remote(q, f) \in FilePaths
         /\ ParentPath(join_remote(q, f)) = q /\ Last(join_remote(q, f)) = f
<1>1. CASE q = Root
  <2>1. join_remote(q, f) = <<f>>
    BY <1>1, OneName DEF join_remote
  <2> QED
    BY <1>1, <2>1, OneName DEF ParentPath, FilePaths
<1>2. CASE q \in DirPaths
  <2>1. PICK d \in DirNames : q = <<d>>
    BY <1>2 DEF DirPaths
  <2>2. join_remote(q, f) = <<d, f>>
    BY <2>1, TwoNames DEF join_remote
  <2>3. <<d, f>> \in FilePaths
    BY DEF FilePaths
  <2>4. Front(<<d, f>>) = <<d>> /\ Last(<<d, f>>) = f
    BY TwoNames
  <2> QED
    BY <2>1, <2>2, <2>3, <2>4 DEF ParentPath
<1> QED
  BY <1>1, <1>2 DEF Dirs

LEMMA JoinDir ==
  ASSUME NEW d \in DirNames, NEW q \in Dirs
  PROVE  /\ join_remote(Root, d) = <<d>> /\ <<d>> \in DirPaths
         /\ q # Root => join_remote(q, d) \notin Paths
         /\ q = Root => join_remote(q, d) = <<d>>
<1>1. /\ join_remote(Root, d) = <<d>> /\ <<d>> \in DirPaths
  BY OneName DEF join_remote, DirPaths
<1>2. ASSUME q # Root, join_remote(q, d) \in Paths PROVE FALSE
  <2>1. PICK e \in DirNames : q = <<e>>
    BY <1>2 DEF Dirs, DirPaths
  <2>2. join_remote(q, d) = <<e, d>>
    BY <2>1, TwoNames DEF join_remote
  <2>3. \A x : <<e, d>> # <<x>>
    BY OneTwo
  <2>4. ASSUME NEW x \in DirNames, NEW f \in FileNames, <<e, d>> = <<x, f>> PROVE FALSE
    BY <2>4, TwoTwo, NamesAssumption
  <2> QED
    BY <1>2, <2>2, <2>3, <2>4 DEF Paths, DirPaths, FilePaths
<1> QED
  BY <1>1, <1>2

LEMMA PrefixOne ==
  ASSUME NEW x, NEW y, NEW z
  PROVE  /\ IsPrefix(<<x>>, <<y>>) <=> <<x>> = <<y>>
         /\ IsPrefix(<<x>>, <<y, z>>) <=> <<x>> = <<y>>
         /\ ~IsPrefix(<<x, y>>, <<z>>)
BY DEF IsPrefix

LEMMA PrefixTwo ==
  ASSUME NEW x, NEW y, NEW z, NEW w
  PROVE  IsPrefix(<<x, y>>, <<z, w>>) <=> <<x, y>> = <<z, w>>
BY DEF IsPrefix

\* A prefix of a path is the path or the directory it is in.
LEMMA PrefixFacts ==
  ASSUME NEW p \in Paths, NEW q \in Paths
  PROVE  IsPrefix(p, q) <=> (p = q \/ (p \in DirPaths /\ ParentPath(q) = p))
<1>1. /\ \A x, y : IsPrefix(<<x>>, <<y>>) <=> <<x>> = <<y>>
      /\ \A x, y, z : IsPrefix(<<x>>, <<y, z>>) <=> <<x>> = <<y>>
      /\ \A x, y, z : ~IsPrefix(<<x, y>>, <<z>>)
      /\ \A x, y, z, w : IsPrefix(<<x, y>>, <<z, w>>) <=> <<x, y>> = <<z, w>>
  BY PrefixOne, PrefixTwo
<1>2. \A r \in Paths : \/ r \in DirPaths /\ r = <<Last(r)>> /\ ParentPath(r) = Root
                       \/ r \in FilePaths /\ r = <<Last(r)>> /\ ParentPath(r) = Root
                       \/ \E d \in DirNames, f \in FileNames :
                            r \in FilePaths /\ r = <<d, f>> /\ ParentPath(r) = <<d>>
  <2>1. ASSUME NEW r \in FilePaths
        PROVE  \/ r = <<Last(r)>> /\ ParentPath(r) = Root
               \/ \E d \in DirNames, f \in FileNames : r = <<d, f>> /\ ParentPath(r) = <<d>>
    <3>1. CASE \E f \in FileNames : r = <<f>>
      BY <3>1, OneName DEF ParentPath
    <3>2. ASSUME NEW d \in DirNames, NEW f \in FileNames, r = <<d, f>>
          PROVE  ParentPath(r) = <<d>>
      <4>1. Front(<<d, f>>) = <<d>>
        BY TwoNames
      <4> QED
        BY <3>2, <4>1 DEF ParentPath
    <3> QED
      BY <3>1, <3>2 DEF FilePaths
  <2> QED
    BY <2>1, DirFacts DEF Paths
<1>3. p \in FilePaths => p \notin DirPaths
  BY PathKinds
<1>4. \A x, y, z : <<x>> # <<y, z>> /\ <<x>> # Root
  BY OneTwo, OneName
<1>5. CASE p = <<Last(p)>> /\ ParentPath(p) = Root
  <2>1. CASE q = <<Last(q)>> /\ ParentPath(q) = Root
    <3>1. IsPrefix(<<Last(p)>>, <<Last(q)>>) <=> <<Last(p)>> = <<Last(q)>>
      BY <1>1
    <3>2. p # Root
      BY PathKinds
    <3> QED
      BY <1>5, <2>1, <3>1, <3>2
  <2>2. CASE \E d \in DirNames, f \in FileNames : q = <<d, f>> /\ ParentPath(q) = <<d>>
    <3>1. PICK d \in DirNames, f \in FileNames : q = <<d, f>> /\ ParentPath(q) = <<d>>
      BY <2>2
    <3>2. IsPrefix(<<Last(p)>>, <<d, f>>) <=> <<Last(p)>> = <<d>>
      BY <1>1
    <3>3. <<d>> \in DirPaths /\ <<Last(p)>> # <<d, f>>
      BY <1>4 DEF DirPaths
    <3> HIDE <2>2
    <3> QED
      BY <1>5, <3>1, <3>2, <3>3
  <2> QED
    BY <1>2, <2>1, <2>2
<1>6. CASE \E d \in DirNames, f \in FileNames : p \in FilePaths /\ p = <<d, f>>
  <2>1. PICK d \in DirNames, f \in FileNames : p \in FilePaths /\ p = <<d, f>>
    BY <1>6
  <2>2. CASE q = <<Last(q)>>
    <3>1. ~IsPrefix(<<d, f>>, <<Last(q)>>) /\ <<Last(q)>> # <<d, f>>
      BY <1>1, <1>4
    <3> QED
      BY <1>3, <2>1, <2>2, <3>1
  <2>3. CASE \E e \in DirNames, g \in FileNames : q = <<e, g>>
    <3>1. PICK e \in DirNames, g \in FileNames : q = <<e, g>>
      BY <2>3
    <3>2. IsPrefix(<<d, f>>, <<e, g>>) <=> <<d, f>> = <<e, g>>
      BY <1>1
    <3> QED
      BY <1>3, <2>1, <3>1, <3>2
  <2> QED
    BY <1>2, <2>2, <2>3
<1> QED
  BY <1>2, <1>5, <1>6
-----------------------------------------------------------------------------
(* The new rows of a listing.                                              *)

LEMMA PathsFinite == IsFiniteSet(Paths)
<1>1. Len(PathOrder) \in Nat /\ DOMAIN PathOrder = 1 .. Len(PathOrder)
  BY OrderAssumption
<1>2. IsFiniteSet(1 .. Len(PathOrder))
  BY <1>1, FS_Interval
<1>3. PathOrder \in Surjection(1 .. Len(PathOrder), Paths)
  <2>1. PathOrder \in [1 .. Len(PathOrder) -> Paths]
    BY OrderAssumption
  <2> QED
    BY <1>1, <2>1, OrderAssumption DEF Surjection
<1> QED
  BY <1>2, <1>3, FS_Surjection

LEMMA PlaceFacts ==
  /\ \A p \in Paths : Place[p] \in Nat
  /\ \A p, q \in Paths : Place[p] = Place[q] => p = q
  /\ \A p \in DirPaths, q \in FilePaths : Place[p] < Place[q]
<1>1. \A p \in Paths : Place[p] \in DOMAIN PathOrder /\ PathOrder[Place[p]] = p
  BY OrderAssumption DEF Place
<1>2. \A i \in DOMAIN PathOrder : i \in Nat
  BY OrderAssumption
<1>3. \A p \in DirPaths, q \in FilePaths : Place[p] < Place[q]
  BY <1>1, PathKinds, OrderAssumption
<1> QED
  BY <1>1, <1>2, <1>3

LEMMA RankFacts ==
  ASSUME NEW N \in SUBSET Paths
  PROVE  /\ IsFiniteSet(N) /\ Cardinality(N) \in Nat
         /\ \A p \in N : Rank(p, N) \in 1 .. Cardinality(N)
         /\ \A p, q \in N : Rank(p, N) = Rank(q, N) => p = q
<1>1. IsFiniteSet(N) /\ Cardinality(N) \in Nat
  BY PathsFinite, FS_Subset, FS_CardinalityType
<1> DEFINE B(p) == {q \in N : Place[q] <= Place[p]}
<1>2. \A p \in N : /\ IsFiniteSet(B(p)) /\ Rank(p, N) = Cardinality(B(p))
                   /\ Cardinality(B(p)) \in Nat /\ Cardinality(B(p)) <= Cardinality(N)
  <2> TAKE p \in N
  <2>1. B(p) \in SUBSET N
    OBVIOUS
  <2>2. IsFiniteSet(B(p)) /\ Cardinality(B(p)) <= Cardinality(N)
    BY <1>1, <2>1, FS_Subset
  <2> QED
    BY <2>2, FS_CardinalityType DEF Rank
<1>3. \A p \in N : Cardinality(B(p)) # 0
  <2> TAKE p \in N
  <2>1. p \in B(p)
    BY PlaceFacts
  <2> QED
    BY <1>2, <2>1, FS_EmptySet
<1>4. ASSUME NEW p \in N, NEW q \in N, Place[p] < Place[q]
      PROVE  Cardinality(B(p)) # Cardinality(B(q))
  <2>1. Place[p] \in Nat /\ Place[q] \in Nat /\ \A r \in N : Place[r] \in Nat
    BY PlaceFacts
  <2>2. B(p) \in SUBSET B(q) /\ q \in B(q) /\ q \notin B(p)
    BY <1>4, <2>1
  <2>3. B(p) # B(q)
    BY <2>2
  <2> QED
    BY <1>2, <2>2, <2>3, FS_Subset
<1> HIDE DEF B
<1>5. ASSUME NEW p \in N, NEW q \in N, Rank(p, N) = Rank(q, N) PROVE p = q
  <2>1. Place[p] \in Nat /\ Place[q] \in Nat
    BY PlaceFacts
  <2>2. Place[p] = Place[q]
    BY <1>2, <1>4, <1>5, <2>1
  <2> QED
    BY <2>2, PlaceFacts
<1> QED
  BY <1>1, <1>2, <1>3, <1>5

LEMMA RankHits ==
  ASSUME NEW N \in SUBSET Paths, NEW i \in 1 .. Cardinality(N)
  PROVE  \E p \in N : Rank(p, N) = i
<1> DEFINE f == [p \in N |-> Rank(p, N)]
<1>1. f \in Injection(N, 1 .. Cardinality(N))
  BY RankFacts DEF Injection, IsInjective
<1>2. /\ IsFiniteSet(1 .. Cardinality(N)) /\ Cardinality(1 .. Cardinality(N)) = Cardinality(N)
  <2>1. Cardinality(N) \in Nat /\ Cardinality(N) \in Int /\ 1 \in Int
    BY RankFacts
  <2>2. /\ IsFiniteSet(1 .. Cardinality(N))
        /\ Cardinality(1 .. Cardinality(N)) = IF 1 > Cardinality(N) THEN 0 ELSE Cardinality(N) - 1 + 1
    BY <2>1, FS_Interval
  <2> QED
    BY <2>1, <2>2
<1>3. f \in Surjection(N, 1 .. Cardinality(N))
  BY <1>1, <1>2, FS_Injection
<1> QED
  BY <1>3 DEF Surjection

\* The rowless paths of a listing, each once.
LEMMA NewPathsFacts ==
  ASSUME NEW S \in SUBSET Paths
  PROVE  LET new == NewPaths(S) IN
         /\ Len(new) \in Nat /\ DOMAIN new = 1 .. Len(new)
         /\ \A i \in 1 .. Len(new) : new[i] \in S /\ ByPath(new[i]) = {}
         /\ \A i, j \in 1 .. Len(new) : new[i] = new[j] => i = j
         /\ \A p \in S : ByPath(p) = {} => \E i \in 1 .. Len(new) : new[i] = p
         /\ \A i \in 1 .. Len(new) : new[i] \in Rowless(S) /\ Rank(new[i], Rowless(S)) = i
         /\ \A p \in Rowless(S) : /\ Rank(p, Rowless(S)) \in 1 .. Len(new)
                                  /\ new[Rank(p, Rowless(S))] = p
<1> DEFINE N == Rowless(S)
           new == NewPaths(S)
<1>1. N \in SUBSET Paths /\ \A p : p \in N <=> p \in S /\ ByPath(p) = {}
  BY DEF Rowless
<1> HIDE DEF N
<1>2. Cardinality(N) \in Nat
  BY <1>1, RankFacts
<1>3. new = [i \in 1 .. Cardinality(N) |-> CHOOSE p \in N : Rank(p, N) = i]
  BY DEF NewPaths, N
<1>4. \A i \in 1 .. Cardinality(N) : new[i] \in N /\ Rank(new[i], N) = i
  BY <1>1, <1>3, RankHits
<1>5. /\ Len(new) = Cardinality(N) /\ DOMAIN new = 1 .. Len(new)
  <2>1. new \in [1 .. Cardinality(N) -> N]
    BY <1>3, <1>4
  <2>2. new \in Seq(N)
    BY <1>2, <2>1
  <2> QED
    BY <1>2, <1>3, <2>2
<1>6. \A p \in N : new[Rank(p, N)] = p /\ Rank(p, N) \in 1 .. Cardinality(N)
  BY <1>1, <1>4, RankFacts
<1> HIDE DEF new
<1>7. \A i, j \in 1 .. Len(new) : new[i] = new[j] => i = j
  BY <1>4, <1>5
<1>8. \A p \in S : ByPath(p) = {} => \E i \in 1 .. Len(new) : new[i] = p
  BY <1>1, <1>5, <1>6
<1> QED
  BY <1>1, <1>2, <1>4, <1>5, <1>6, <1>7, <1>8 DEF new, N
-----------------------------------------------------------------------------
(* The rows.                                                               *)

HasFile == {"cached", "dirty", "uploading"}

GoodRow(r) ==
  /\ r \in RowType /\ r.path \in Paths
  /\ r.path \in DirPaths => r.parent = 0 /\ r.cp = Root /\ r.status \notin Unsynced
  /\ r.path \in FilePaths /\ r.status \in HasFile => r.cp # Root

RowsUnique == \A m, n \in Live : rows[m].path = rows[n].path => m = n
RowsParent == \A n \in Live : rows[n].parent \in DirInodes \cup {0}
RowsNamed == \A m, n \in Live :
               rows[m].parent = rows[n].parent /\ Last(rows[m].path) = Last(rows[n].path) => m = n

\* An inode is given once; a row is a directory's or a file's; only a file's row has
\* a cache path, and it has one when the file is in the cache.
RowsInv ==
  /\ rows \in [Inodes -> RowType]
  /\ next \in 1 .. MaxInode + 1
  /\ \A n \in Inodes : rows[n] = NoRow \/ (n < next /\ GoodRow(rows[n]))
  /\ RowsUnique
  /\ RowsParent
  /\ RowsNamed

LEMMA NoRowFacts ==
  /\ NoRow \in RowType /\ NoRow.path = Root /\ NoRow.cp = Root /\ NoRow.path \notin Paths
  /\ NoRow.listed = FALSE /\ NoRow.etag = 0
  /\ Inodes \subseteq Nat \ {0} /\ MaxInode \in Nat
  /\ \A n \in Inodes : n <= MaxInode
BY BoundsAssumption, PathKinds DEF NoRow, Row, RowType, Statuses, Inodes

LEMMA LiveFacts ==
  ASSUME RowsInv
  PROVE  /\ \A n \in Inodes : n \in Live <=> rows[n].path \in Paths
         /\ \A n \in Live : /\ n \in Inodes /\ n < next /\ GoodRow(rows[n])
                            /\ IsDir(n) \/ rows[n].path \in FilePaths
                            /\ ~IsDir(n) <=> rows[n].path \in FilePaths
         /\ \A n \in DirInodes : n \in Inodes /\ n \in Live /\ rows[n].path \in DirPaths
BY NoRowFacts, PathKinds DEF RowsInv, Live, GoodRow, IsDir, DirInodes

LEMMA RowFields ==
  ASSUME RowsInv, NEW n \in Live
  PROVE  /\ n \in Inodes /\ rows[n] \in RowType /\ rows \in [Inodes -> RowType]
         /\ IsDir(n) => rows[n].cp = Root /\ rows[n].status \notin Unsynced /\ rows[n].parent = 0
         /\ ~IsDir(n) /\ rows[n].status \in HasFile => rows[n].cp # Root
         /\ ~IsDir(n) <=> rows[n].path \in FilePaths
         /\ rows[n].path \in Paths /\ rows[n].status \in Statuses
         /\ rows[n].cp \in FilePaths \cup {Root} /\ rows[n].etag \in 0 .. MaxContents
BY LiveFacts DEF GoodRow, IsDir, RowsInv, RowType

\* Steps on single rows.
TouchRow(n, r) ==
  /\ n \in Live /\ GoodRow(r) /\ r.path = rows[n].path /\ r.parent = rows[n].parent
  /\ rows' = [rows EXCEPT ![n] = r] /\ next' = next

RemoveRow(n) ==
  /\ n \in Live /\ Children(n) = {}
  /\ rows' = [rows EXCEPT ![n] = NoRow] /\ next' = next

InsertRow(r) ==
  /\ next \in Inodes /\ GoodRow(r) /\ ByPath(r.path) = {} /\ r.parent \in DirInodes \cup {0}
  /\ \A m \in Live : ~(rows[m].parent = r.parent /\ Last(rows[m].path) = Last(r.path))
  /\ rows' = [rows EXCEPT ![next] = r] /\ next' = next + 1

LEMMA TouchRows ==
  ASSUME RowsInv, NEW n, NEW r, TouchRow(n, r)
  PROVE  /\ RowsInv'
         /\ rows'[n] = r /\ \A m \in Inodes \ {n} : rows'[m] = rows[m]
         /\ Live' = Live /\ DirInodes' = DirInodes
         /\ \A m \in Live : rows'[m].path = rows[m].path /\ rows'[m].parent = rows[m].parent
<1>1. /\ n \in Inodes /\ n < next /\ rows \in [Inodes -> RowType] /\ r \in RowType
      /\ r.path \in Paths /\ rows' = [rows EXCEPT ![n] = r] /\ next' = next
      /\ GoodRow(r) /\ r # NoRow
  BY LiveFacts, NoRowFacts DEF TouchRow, RowsInv, GoodRow
<1>2. /\ rows'[n] = r /\ \A m \in Inodes \ {n} : rows'[m] = rows[m]
      /\ rows' \in [Inodes -> RowType]
  BY <1>1
<1>3. Live' = Live
  BY <1>1, <1>2 DEF Live, TouchRow
<1>4. \A m \in Live : m \in Inodes /\ rows'[m].path = rows[m].path /\ rows'[m].parent = rows[m].parent
  BY <1>1, <1>2 DEF Live, TouchRow
<1>5. DirInodes' = DirInodes
  BY <1>3, <1>4 DEF DirInodes, IsDir
<1>6. next' \in 1 .. MaxInode + 1
  BY <1>1 DEF RowsInv
<1>7. \A m \in Inodes : rows'[m] = NoRow \/ (m < next' /\ GoodRow(rows'[m]))
  BY <1>1, <1>2 DEF RowsInv
<1>8. RowsUnique' /\ RowsParent' /\ RowsNamed'
  BY <1>3, <1>4, <1>5 DEF RowsInv, RowsUnique, RowsParent, RowsNamed
<1> QED
  BY <1>2, <1>3, <1>4, <1>5, <1>6, <1>7, <1>8 DEF RowsInv

LEMMA RemoveRows ==
  ASSUME RowsInv, NEW n, RemoveRow(n)
  PROVE  /\ RowsInv'
         /\ rows'[n] = NoRow /\ \A m \in Inodes \ {n} : rows'[m] = rows[m]
         /\ Live' = Live \ {n}
<1>1. /\ n \in Inodes /\ rows \in [Inodes -> RowType]
      /\ rows' = [rows EXCEPT ![n] = NoRow] /\ next' = next
  BY LiveFacts DEF RemoveRow, RowsInv
<1>2. /\ rows'[n] = NoRow /\ \A m \in Inodes \ {n} : rows'[m] = rows[m]
      /\ rows' \in [Inodes -> RowType]
  BY <1>1, NoRowFacts
<1>3. Live' = Live \ {n}
  BY <1>1, <1>2 DEF Live
<1>4. \A m \in Live' : m \in Live /\ m \in Inodes /\ rows'[m] = rows[m] /\ rows[m].parent # n
  BY <1>2, <1>3 DEF Live, Children, RemoveRow
<1>5. DirInodes' = DirInodes \ {n}
  BY <1>2, <1>3 DEF DirInodes, IsDir, Live
<1>6. next' \in 1 .. MaxInode + 1
  BY <1>1 DEF RowsInv
<1>7. \A m \in Inodes : rows'[m] = NoRow \/ (m < next' /\ GoodRow(rows'[m]))
  BY <1>1, <1>2 DEF RowsInv
<1>8. RowsUnique' /\ RowsParent' /\ RowsNamed'
  BY <1>4, <1>5 DEF RowsInv, RowsUnique, RowsParent, RowsNamed
<1> QED
  BY <1>2, <1>3, <1>6, <1>7, <1>8 DEF RowsInv

LEMMA InsertRows ==
  ASSUME RowsInv, NEW r, InsertRow(r)
  PROVE  /\ RowsInv'
         /\ rows'[next] = r /\ \A m \in Inodes \ {next} : rows'[m] = rows[m]
         /\ Live' = Live \cup {next} /\ next \notin Live
         /\ next' = next + 1 /\ next \in Inodes
<1>1. /\ next \in Inodes /\ rows \in [Inodes -> RowType] /\ r \in RowType /\ GoodRow(r)
      /\ rows' = [rows EXCEPT ![next] = r] /\ next' = next + 1 /\ r.path \in Paths /\ r # NoRow
  BY NoRowFacts DEF InsertRow, RowsInv, GoodRow
<1>2. /\ rows'[next] = r /\ \A m \in Inodes \ {next} : rows'[m] = rows[m]
      /\ rows' \in [Inodes -> RowType]
  BY <1>1
<1>3. Live' = Live \cup {next} /\ next \notin Live
  <2>1. next \in Nat
    BY <1>1, NoRowFacts
  <2>2. next \notin Live
    BY <2>1, LiveFacts
  <2> QED
    BY <1>1, <1>2, <2>2 DEF Live
<1>4. \A m \in Live : m \in Inodes /\ rows'[m] = rows[m] /\ m # next /\ rows[m].path # r.path
  BY <1>2, <1>3 DEF Live, ByPath, InsertRow
<1>5. DirInodes \subseteq DirInodes'
  BY <1>3, <1>4 DEF DirInodes, IsDir
<1>6. next' \in 1 .. MaxInode + 1
  BY <1>1, NoRowFacts DEF Inodes
<1>7. \A m \in Inodes : rows'[m] = NoRow \/ (m < next' /\ GoodRow(rows'[m]))
  <2> TAKE m \in Inodes
  <2>1. m \in Nat /\ next \in Nat
    BY <1>1, NoRowFacts
  <2>2. rows[m] = NoRow \/ (m < next /\ GoodRow(rows[m]))
    BY DEF RowsInv
  <2>3. CASE m = next
    BY <1>1, <1>2, <2>1, <2>3
  <2>4. CASE m # next
    BY <1>1, <1>2, <2>1, <2>2, <2>4
  <2> QED
    BY <2>3, <2>4
<1>8. RowsUnique' /\ RowsParent' /\ RowsNamed'
  <2>1. RowsUnique'
    BY <1>2, <1>3, <1>4 DEF RowsInv, RowsUnique
  <2>2. RowsParent'
    BY <1>2, <1>3, <1>4, <1>5 DEF RowsInv, RowsParent, InsertRow
  <2>3. RowsNamed'
    <3>1. \A m \in Live : ~(rows[m].parent = r.parent /\ Last(rows[m].path) = Last(r.path))
      BY DEF InsertRow
    <3> QED
      BY <1>2, <1>3, <1>4, <3>1 DEF RowsInv, RowsNamed
  <2> QED
    BY <2>1, <2>2, <2>3
<1> QED
  BY <1>1, <1>2, <1>3, <1>6, <1>7, <1>8 DEF RowsInv
\* A row gets a new name; rows without children may go.
MoveRow(n, r, Z) ==
  /\ n \in Live \ Z /\ Z \subseteq Live /\ \A z \in Z : Children(z) = {}
  /\ GoodRow(r) /\ (r.path \in DirPaths <=> IsDir(n))
  /\ r.parent \in (DirInodes \ Z) \cup {0}
  /\ \A m \in Live \ (Z \cup {n}) :
       rows[m].path # r.path /\ ~(rows[m].parent = r.parent /\ Last(rows[m].path) = Last(r.path))
  /\ rows' = [m \in Inodes |-> IF m = n THEN r ELSE IF m \in Z THEN NoRow ELSE rows[m]]
  /\ next' = next

LEMMA MoveRows ==
  ASSUME RowsInv, NEW n, NEW r, NEW Z, MoveRow(n, r, Z)
  PROVE  /\ RowsInv'
         /\ rows'[n] = r /\ n \in Inodes
         /\ \A m \in Inodes \ (Z \cup {n}) : rows'[m] = rows[m]
         /\ \A m \in Z : rows'[m] = NoRow
         /\ Live' = Live \ Z
<1>1. /\ n \in Inodes /\ n < next /\ n \notin Z /\ Z \subseteq Inodes
      /\ rows \in [Inodes -> RowType] /\ r \in RowType /\ GoodRow(r)
      /\ rows' = [m \in Inodes |-> IF m = n THEN r ELSE IF m \in Z THEN NoRow ELSE rows[m]]
      /\ next' = next /\ r.path \in Paths /\ r # NoRow
  BY LiveFacts, NoRowFacts DEF MoveRow, RowsInv, GoodRow
<1>2. /\ rows'[n] = r /\ \A m \in Inodes \ (Z \cup {n}) : rows'[m] = rows[m]
      /\ \A m \in Z : rows'[m] = NoRow
      /\ rows' \in [Inodes -> RowType]
  BY <1>1, NoRowFacts
<1>3. Live' = Live \ Z
  BY <1>1, <1>2 DEF Live, MoveRow
<1>4. \A m \in Live \ (Z \cup {n}) : m \in Inodes /\ rows'[m] = rows[m] /\ rows[m].parent \notin Z
  BY <1>2 DEF Live, Children, MoveRow
<1>5. DirInodes \ Z \subseteq DirInodes'
  BY <1>2, <1>3, <1>4 DEF DirInodes, IsDir, MoveRow
<1>6. next' \in 1 .. MaxInode + 1
  BY <1>1 DEF RowsInv
<1>7. \A m \in Inodes : rows'[m] = NoRow \/ (m < next' /\ GoodRow(rows'[m]))
  BY <1>1, <1>2 DEF RowsInv
<1>8. RowsUnique' /\ RowsNamed'
  <2>1. \A m \in Live \ (Z \cup {n}) :
          rows[m].path # r.path /\ ~(rows[m].parent = r.parent /\ Last(rows[m].path) = Last(r.path))
    BY DEF MoveRow
  <2>2. RowsUnique'
    BY <1>2, <1>3, <1>4, <2>1 DEF RowsInv, RowsUnique
  <2>3. RowsNamed'
    BY <1>2, <1>3, <1>4, <2>1 DEF RowsInv, RowsNamed
  <2> QED
    BY <2>2, <2>3
<1>9. RowsParent'
  <2> SUFFICES ASSUME NEW m \in Live' PROVE rows'[m].parent \in DirInodes' \cup {0}
    BY DEF RowsParent
  <2>1. CASE m = n
    BY <1>2, <1>5, <2>1 DEF MoveRow
  <2>2. CASE m # n
    BY <1>3, <1>4, <1>5, <2>2 DEF RowsInv, RowsParent
  <2> QED
    BY <2>1, <2>2
<1> QED
  BY <1>1, <1>2, <1>3, <1>6, <1>7, <1>8, <1>9 DEF RowsInv

\* What a listing does to the index: a row for every path of S, no other row made,
\* the rows of Z gone.
NewInodes == {n \in Inodes : next <= n /\ n < next'}
ParentRow(n) == \/ rows[n].parent = 0
                \/ rows[n].parent \in Inodes /\ rows[rows[n].parent].path \in DirPaths
NamedApart ==
  \A m, n \in Inodes :
    /\ rows'[m].path \in Paths /\ rows'[n].path \in Paths
    /\ rows'[m].parent = rows'[n].parent /\ Last(rows'[m].path) = Last(rows'[n].path)
    => m = n
Refill(S, Z) ==
  /\ S \subseteq Paths /\ Z \subseteq Live
  /\ \A z \in Z : rows[z].status \notin Unsynced /\ rows[z].path \notin S
  /\ next' \in Nat /\ next <= next' /\ next' <= MaxInode + 1
  /\ rows' \in [Inodes -> RowType]
  /\ \A n \in Live \ Z :
       /\ rows'[n].path = rows[n].path /\ rows'[n].cp = rows[n].cp
       /\ \/ rows'[n].status = rows[n].status
          \/ rows[n].status \notin Unsynced /\ rows'[n].status = "stale"
       /\ IsDir(n) /\ rows[n].listed => rows'[n].listed
  /\ \A n \in Inodes \ NewInodes : n \notin Live \ Z => rows'[n] = NoRow
  /\ \A n \in NewInodes : /\ rows'[n].path \in S /\ ByPath(rows'[n].path) = {}
                          /\ rows'[n].status = "remote" /\ rows'[n].cp = Root
  /\ \A m, n \in NewInodes : rows'[m].path = rows'[n].path => m = n
  /\ \A p \in S : \E n \in Inodes : rows'[n].path = p
  /\ \A n \in Inodes : /\ rows'[n].path \in Paths => ParentRow(n)'
                       /\ rows'[n].path \in DirPaths => rows'[n].parent = 0
  /\ NamedApart

LEMMA RefillRows ==
  ASSUME RowsInv, NEW S, NEW Z, Refill(S, Z)
  PROVE  /\ RowsInv'
         /\ Live' = (Live \ Z) \cup NewInodes /\ NewInodes \cap Live = {}
<1>1. /\ next \in Nat /\ next' \in Nat /\ next <= next' /\ next' <= MaxInode + 1 /\ next >= 1
      /\ MaxInode \in Nat /\ Live \subseteq Inodes /\ Z \subseteq Live
      /\ \A n \in Inodes : n \in Nat
  BY LiveFacts, NoRowFacts DEF RowsInv, Refill
<1>2. NewInodes \cap Live = {}
  BY <1>1, LiveFacts DEF NewInodes
<1>3. \A n \in Live \ Z : GoodRow(rows'[n]) /\ n < next'
  <2> TAKE n \in Live \ Z
  <2>1. /\ n \in Inodes /\ n < next /\ GoodRow(rows[n]) /\ rows'[n] \in RowType
        /\ rows'[n].path = rows[n].path /\ rows'[n].cp = rows[n].cp
        /\ \/ rows'[n].status = rows[n].status
           \/ rows[n].status \notin Unsynced /\ rows'[n].status = "stale"
        /\ rows'[n].path \in DirPaths => rows'[n].parent = 0
    BY LiveFacts DEF Refill
  <2>2. GoodRow(rows'[n])
    BY <2>1 DEF GoodRow, Unsynced, HasFile
  <2> QED
    BY <1>1, <2>1, <2>2
<1>4. \A n \in NewInodes : GoodRow(rows'[n]) /\ n < next'
  <2> TAKE n \in NewInodes
  <2>1. /\ n \in Inodes /\ n < next' /\ rows'[n] \in RowType /\ rows'[n].path \in Paths
        /\ rows'[n].path \in DirPaths => rows'[n].parent = 0
        /\ rows'[n].status = "remote" /\ rows'[n].cp = Root
    BY DEF Refill, NewInodes
  <2> QED
    BY <2>1 DEF GoodRow, HasFile, Unsynced
<1>5. \A n : n \in Live' <=> n \in Inodes /\ rows'[n] # NoRow
  BY DEF Live
<1>6. \A n \in Inodes : GoodRow(rows'[n]) => rows'[n] # NoRow
  BY NoRowFacts DEF GoodRow
<1>7. Live' = (Live \ Z) \cup NewInodes
  <2>1. NewInodes \subseteq Inodes
    BY DEF NewInodes
  <2>2. \A n \in Inodes \ NewInodes : n \notin Live \ Z => rows'[n] = NoRow
    BY DEF Refill
  <2> QED
    BY <1>1, <1>3, <1>4, <1>5, <1>6, <2>1, <2>2
<1>8. RowsUnique'
  <2> SUFFICES ASSUME NEW m \in Live', NEW n \in Live', rows'[m].path = rows'[n].path PROVE m = n
    BY DEF RowsUnique
  <2>1. CASE m \in Live \ Z /\ n \in Live \ Z
    BY <2>1 DEF Refill, RowsInv, RowsUnique
  <2>2. CASE m \in NewInodes /\ n \in NewInodes
    BY <2>2 DEF Refill
  <2>3. ASSUME NEW k \in Live \ Z, NEW l \in NewInodes PROVE rows'[k].path # rows'[l].path
    <3>1. ByPath(rows'[l].path) = {} /\ rows'[k].path = rows[k].path
      BY <2>3 DEF Refill
    <3> QED
      BY <3>1 DEF ByPath
  <2> QED
    BY <1>7, <2>1, <2>2, <2>3
<1>9. RowsParent'
  <2> SUFFICES ASSUME NEW m \in Live' PROVE rows'[m].parent \in DirInodes' \cup {0}
    BY DEF RowsParent
  <2>1. m \in Inodes /\ rows'[m].path \in Paths
    BY <1>3, <1>4, <1>5, <1>7 DEF GoodRow
  <2>2. \/ rows'[m].parent = 0
        \/ rows'[m].parent \in Inodes /\ rows'[rows'[m].parent].path \in DirPaths
    BY <2>1 DEF Refill, ParentRow
  <2>3. \A k \in Inodes : rows'[k].path \in DirPaths => k \in DirInodes'
    BY <1>5, PathKinds, NoRowFacts DEF DirInodes, IsDir
  <2> QED
    BY <2>2, <2>3
<1>10. \A n \in Inodes : rows'[n] = NoRow \/ (n < next' /\ GoodRow(rows'[n]))
  BY <1>3, <1>4, <1>5, <1>7
<1>11. rows' \in [Inodes -> RowType] /\ next' \in 1 .. MaxInode + 1
  BY <1>1 DEF Refill
<1>12. RowsNamed'
  <2>1. \A m \in Live' : m \in Inodes /\ rows'[m].path \in Paths
    BY <1>3, <1>4, <1>5, <1>7 DEF GoodRow
  <2>2. NamedApart
    BY DEF Refill
  <2> QED
    BY <2>1, <2>2 DEF RowsNamed, NamedApart
<1> QED
  BY <1>2, <1>7, <1>8, <1>9, <1>10, <1>11, <1>12 DEF RowsInv
-----------------------------------------------------------------------------
(* Listings.                                                               *)

\* The entries of a listing are the children of the path it was made for; its inode,
\* while it has a row, is a directory's.
ListFits(l, R, N) ==
  /\ l \in ListType
  /\ l.pc = "idle" => l = NoList
  /\ l.inode < N /\ (l.inode = 0 <=> l.path = Root)
  /\ \A e \in l.files : ParentPath(e[1]) = l.path
  /\ l.dirs # {} => l.path = Root
  /\ l.inode # 0 /\ R[l.inode] # NoRow => R[l.inode].path \in DirPaths
ListInv(l) == ListFits(l, rows, next)

LEMMA EntryFacts ==
  ASSUME NEW l, ListInv(l), NEW p \in Entries(l)
  PROVE  /\ p \in Paths /\ ParentPath(p) = l.path
         /\ p \in DirPaths => l.inode = 0
         /\ p \notin DirPaths => (CHOOSE e \in l.files : e[1] = p)[2] \in Contents
<1>1. CASE p \in l.dirs
  <2>1. p \in DirPaths /\ l.path = Root /\ l.inode = 0
    BY <1>1 DEF ListInv, ListFits, ListType
  <2> QED
    BY <2>1, DirFacts, PathKinds
<1>2. CASE \E e \in l.files : e[1] = p
  <2>1. PICK e \in l.files : e[1] = p
    BY <1>2
  <2>2. \A x \in l.files : x[1] \in FilePaths /\ x[2] \in Contents /\ ParentPath(x[1]) = l.path
    BY DEF ListInv, ListFits, ListType
  <2>3. p \in FilePaths /\ ParentPath(p) = l.path
    BY <2>1, <2>2
  <2>4. (CHOOSE x \in l.files : x[1] = p) \in l.files
    BY <2>1
  <2> QED
    BY <2>2, <2>3, <2>4, PathKinds
<1> QED
  BY <1>1, <1>2 DEF Entries

LEMMA RefreshedFacts ==
  ASSUME NEW s \in Statuses
  PROVE  /\ Refreshed(s) \in Statuses
         /\ Refreshed(s) = s \/ (s \notin Unsynced /\ Refreshed(s) = "stale")
BY DEF Refreshed, Statuses, Unsynced

Upserted(l, S) ==
  /\ \A n \in NewInodes : rows'[n].parent = l.inode /\ rows'[n].listed = FALSE
  /\ \A n \in Live :
       /\ rows'[n].parent = IF rows[n].path \in S THEN l.inode ELSE rows[n].parent
       /\ rows'[n].listed = (rows[n].listed \/ n = l.inode)

LEMMA BatchRefills ==
  ASSUME RowsInv, NEW l, ListInv(l), l.inode # 0 => rows[l.inode] # NoRow,
         NEW S \in SUBSET Entries(l), ~Refuses(l, S), BatchUpsert(l, S)
  PROVE  Refill(S, {}) /\ Upserted(l, S)
<1> DEFINE new == NewPaths(S)
           etag(p) == IF p \in DirPaths THEN 0 ELSE (CHOOSE e \in l.files : e[1] = p)[2]
<1>1. S \subseteq Paths
  BY EntryFacts
<1>2. \A p \in S : /\ etag(p) \in 0 .. MaxContents
                   /\ p \in DirPaths => l.inode = 0
                   /\ ParentPath(p) = l.path
  BY EntryFacts, BoundsAssumption DEF Contents
<1>3. /\ Len(new) \in Nat
      /\ \A i \in 1 .. Len(new) : new[i] \in S /\ ByPath(new[i]) = {}
      /\ \A i, j \in 1 .. Len(new) : new[i] = new[j] => i = j
      /\ \A p \in S : ByPath(p) = {} => \E i \in 1 .. Len(new) : new[i] = p
  BY <1>1, NewPathsFacts
<1>4. /\ next + Len(new) <= MaxInode + 1
      /\ next' = next + Len(new)
      /\ rows' = [n \in Inodes |->
           IF n \in next .. next + Len(new) - 1
           THEN Row(new[n - next + 1], l.inode, "remote", etag(new[n - next + 1]), Root)
           ELSE IF n \in Live /\ rows[n].path \in S
           THEN [rows[n] EXCEPT !.parent = l.inode, !.etag = etag(rows[n].path),
                                !.status = Refreshed(@), !.polled = FALSE]
           ELSE IF n = l.inode THEN [rows[n] EXCEPT !.listed = TRUE] ELSE rows[n]]
  BY DEF BatchUpsert
<1>4a. next + Len(new) <= MaxInode + 1 /\ next' = next + Len(new)
  BY <1>4
<1> HIDE DEF new, etag
<1>5. /\ next \in Nat /\ next >= 1 /\ MaxInode \in Nat /\ Live \subseteq Inodes
      /\ \A n \in Inodes : n \in Nat /\ n <= MaxInode
      /\ \A n \in Live : n < next
      /\ l.inode \in 0 .. MaxInode /\ l.inode < next
  BY LiveFacts, NoRowFacts DEF RowsInv, ListInv, ListFits, ListType
<1>6. \A n \in Inodes : n \in NewInodes <=> n \in next .. next + Len(new) - 1
  <2>1. Len(new) \in Nat
    BY <1>3
  <2> QED
    BY <1>4a, <1>5, <2>1 DEF NewInodes
<1>7. \A n \in NewInodes : n \notin Live /\ n \in Inodes /\ n - next + 1 \in 1 .. Len(new)
  BY <1>3, <1>5, <1>6 DEF NewInodes
<1>8. \A n \in NewInodes :
        rows'[n] = Row(new[n - next + 1], l.inode, "remote", etag(new[n - next + 1]), Root)
  BY <1>4, <1>6, <1>7
<1>9. \A n \in NewInodes : /\ rows'[n].path = new[n - next + 1] /\ rows'[n].parent = l.inode
                           /\ rows'[n].status = "remote" /\ rows'[n].cp = Root
                           /\ rows'[n].listed = FALSE
                           /\ rows'[n] \in RowType
  <2> TAKE n \in NewInodes
  <2>1. new[n - next + 1] \in S
    BY <1>3, <1>7
  <2>2. etag(new[n - next + 1]) \in 0 .. MaxContents /\ new[n - next + 1] \in Paths
    BY <1>1, <1>2, <2>1
  <2>3. /\ l.inode \in 0 .. MaxInode /\ Root \in FilePaths \cup {Root}
        /\ new[n - next + 1] \in Paths \cup {Root} /\ "remote" \in Statuses
    BY <1>5, <2>2 DEF Statuses
  <2>4. rows'[n] = [path |-> new[n - next + 1], parent |-> l.inode, status |-> "remote",
                    etag |-> etag(new[n - next + 1]), cp |-> Root,
                    listed |-> FALSE, polled |-> FALSE]
    BY <1>8 DEF Row
  <2> QED
    BY <2>2, <2>3, <2>4 DEF RowType
<1>10. \A n \in Live : rows[n].path \in S =>
         /\ n # l.inode
         /\ rows'[n] = [rows[n] EXCEPT !.parent = l.inode, !.etag = etag(rows[n].path),
                                       !.status = Refreshed(rows[n].status), !.polled = FALSE]
  <2> SUFFICES ASSUME NEW n \in Live, rows[n].path \in S
               PROVE  /\ n # l.inode
                      /\ rows'[n] = [rows[n] EXCEPT !.parent = l.inode, !.etag = etag(rows[n].path),
                                       !.status = Refreshed(rows[n].status), !.polled = FALSE]
    OBVIOUS
  <2>1. n \in Inodes /\ n \notin next .. next + Len(new) - 1
    BY <1>5, <1>6, <1>7
  <2>2. n # l.inode
    <3> SUFFICES ASSUME n = l.inode PROVE FALSE
      OBVIOUS
    <3>1. IsDir(n) /\ l.inode # 0
      BY <2>1, NoRowFacts DEF ListInv, ListFits, Live, IsDir
    <3>2. l.inode = 0
      BY <1>2, <3>1 DEF IsDir
    <3> QED
      BY <3>1, <3>2
  <2> QED
    BY <1>4, <2>1, <2>2
<1>11. \A n \in Live : rows[n].path \notin S =>
         rows'[n] = IF n = l.inode THEN [rows[n] EXCEPT !.listed = TRUE] ELSE rows[n]
  BY <1>4, <1>5, <1>6, <1>7
<1>12. \A n \in Inodes \ NewInodes : n \notin Live => rows'[n] = NoRow
  <2> SUFFICES ASSUME NEW n \in Inodes \ NewInodes, n \notin Live PROVE rows'[n] = NoRow
    OBVIOUS
  <2>1. rows[n] = NoRow /\ n # l.inode
    BY NoRowFacts DEF Live
  <2> QED
    BY <1>4, <1>6, <2>1
<1>13. \A n \in Live :
         /\ rows'[n].path = rows[n].path /\ rows'[n].cp = rows[n].cp
         /\ \/ rows'[n].status = rows[n].status
            \/ rows[n].status \notin Unsynced /\ rows'[n].status = "stale"
         /\ rows'[n].parent = IF rows[n].path \in S THEN l.inode ELSE rows[n].parent
         /\ rows'[n].listed = (rows[n].listed \/ n = l.inode)
         /\ rows'[n] \in RowType
  <2> TAKE n \in Live
  <2>1. rows[n] \in RowType
    BY <1>5 DEF RowsInv
  <2>2. CASE rows[n].path \in S
    <3>1. /\ Refreshed(rows[n].status) \in Statuses
          /\ \/ Refreshed(rows[n].status) = rows[n].status
             \/ rows[n].status \notin Unsynced /\ Refreshed(rows[n].status) = "stale"
      BY <2>1, RefreshedFacts DEF RowType
    <3>2. etag(rows[n].path) \in 0 .. MaxContents /\ n # l.inode
      BY <1>2, <1>10, <2>2
    <3>3. rows'[n] = [rows[n] EXCEPT !.parent = l.inode, !.etag = etag(rows[n].path),
                                     !.status = Refreshed(rows[n].status), !.polled = FALSE]
      BY <1>10, <2>2
    <3>4. rows'[n] \in RowType
      BY <1>5, <2>1, <3>1, <3>2, <3>3 DEF RowType
    <3>5. /\ rows'[n].path = rows[n].path /\ rows'[n].cp = rows[n].cp
          /\ rows'[n].status = Refreshed(rows[n].status)
          /\ rows'[n].parent = l.inode /\ rows'[n].listed = rows[n].listed
      BY <2>1, <3>3 DEF RowType
    <3> QED
      BY <2>1, <2>2, <3>1, <3>2, <3>4, <3>5 DEF RowType
  <2>3. CASE rows[n].path \notin S /\ n = l.inode
    <3>1. rows'[n] = [rows[n] EXCEPT !.listed = TRUE]
      BY <1>11, <2>3
    <3>2. rows'[n] \in RowType
      BY <2>1, <3>1 DEF RowType
    <3>3. /\ rows'[n].path = rows[n].path /\ rows'[n].cp = rows[n].cp
          /\ rows'[n].status = rows[n].status /\ rows'[n].parent = rows[n].parent
          /\ rows'[n].listed = TRUE
      BY <2>1, <3>1 DEF RowType
    <3> QED
      BY <2>3, <3>2, <3>3
  <2>4. CASE rows[n].path \notin S /\ n # l.inode
    <3>1. rows'[n] = rows[n] /\ rows[n].listed \in BOOLEAN
      BY <1>11, <2>1, <2>4 DEF RowType
    <3> QED
      BY <2>1, <2>4, <3>1
  <2> QED
    BY <2>2, <2>3, <2>4
<1>14. Upserted(l, S)
  BY <1>9, <1>13 DEF Upserted
<1>15. rows' \in [Inodes -> RowType]
  <2>1. DOMAIN rows' = Inodes /\ rows' = [n \in Inodes |-> rows'[n]]
    BY <1>4
  <2>2. \A n \in Inodes : rows'[n] \in RowType
    BY <1>9, <1>12, <1>13, NoRowFacts
  <2> QED
    BY <2>1, <2>2
<1>16. \A m, n \in NewInodes : rows'[m].path = rows'[n].path => m = n
  <2> SUFFICES ASSUME NEW m \in NewInodes, NEW n \in NewInodes, rows'[m].path = rows'[n].path
               PROVE  m = n
    OBVIOUS
  <2>1. new[m - next + 1] = new[n - next + 1]
    BY <1>9
  <2>2. m - next + 1 = n - next + 1
    BY <1>3, <1>7, <2>1
  <2>3. m \in Nat /\ n \in Nat /\ next \in Nat
    BY <1>5, <1>7
  <2> QED
    BY <2>2, <2>3
<1>17. \A p \in S : \E n \in Inodes : rows'[n].path = p
  <2> SUFFICES ASSUME NEW p \in S PROVE \E n \in Inodes : rows'[n].path = p
    OBVIOUS
  <2>1. CASE ByPath(p) # {}
    BY <1>5, <1>13, <2>1 DEF ByPath
  <2>2. CASE ByPath(p) = {}
    <3>1. PICK i \in 1 .. Len(new) : new[i] = p
      BY <1>3, <2>2
    <3>2. /\ next + i - 1 \in Inodes /\ next + i - 1 \in next .. next + Len(new) - 1
          /\ (next + i - 1) - next + 1 = i
      <4>1. Len(new) \in Nat /\ i \in 1 .. Len(new)
        BY <1>3, <3>1
      <4> QED
        BY <1>4a, <1>5, <4>1 DEF Inodes
    <3> QED
      BY <1>6, <1>9, <3>1, <3>2
  <2> QED
    BY <2>1, <2>2
<1>18. \A n \in Inodes : /\ rows'[n].path \in Paths => ParentRow(n)'
                         /\ rows'[n].path \in DirPaths => rows'[n].parent = 0
  <2> SUFFICES ASSUME NEW n \in Inodes, rows'[n].path \in Paths
               PROVE  ParentRow(n)' /\ (rows'[n].path \in DirPaths => rows'[n].parent = 0)
    BY PathKinds
  <2>1. n \in NewInodes \/ n \in Live
    BY <1>12, NoRowFacts
  <2>2. \A m \in DirInodes : m \in Inodes /\ rows'[m].path \in DirPaths
    BY <1>13, LiveFacts
  <2>3. l.inode # 0 => l.inode \in DirInodes
    BY <1>5 DEF ListInv, ListFits, DirInodes, Live, Inodes, IsDir
  <2>4. CASE n \in NewInodes
    <3>1. rows'[n].parent = l.inode /\ rows'[n].path \in S
      BY <1>3, <1>7, <1>9, <2>4
    <3> QED
      BY <1>2, <2>2, <2>3, <3>1 DEF ParentRow
  <2>5. CASE n \in Live
    <3>1. /\ rows'[n].path = rows[n].path
          /\ rows'[n].parent = IF rows[n].path \in S THEN l.inode ELSE rows[n].parent
      BY <1>13, <2>5
    <3>2. rows[n].parent \in DirInodes \cup {0} /\ (IsDir(n) => rows[n].parent = 0)
      BY <2>5, LiveFacts DEF RowsInv, RowsParent, GoodRow, IsDir
    <3> QED
      BY <1>2, <2>2, <2>3, <3>1, <3>2 DEF ParentRow, IsDir
  <2> QED
    BY <2>1, <2>4, <2>5
<1>19. next' \in Nat /\ next <= next' /\ next' <= MaxInode + 1
  <2>1. Len(new) \in Nat
    BY <1>3
  <2> QED
    BY <1>4a, <1>5, <2>1
<1>20. ASSUME NEW n \in NewInodes PROVE rows'[n].path \in S /\ ByPath(rows'[n].path) = {}
  <2>1. n - next + 1 \in 1 .. Len(new)
    BY <1>7
  <2>2. new[n - next + 1] \in S /\ ByPath(new[n - next + 1]) = {}
    BY <1>3, <2>1
  <2>3. rows'[n].path = new[n - next + 1]
    BY <1>9
  <2> QED
    BY <2>2, <2>3
<1>21. \A n \in Live : rows[n].listed => rows'[n].listed
  BY <1>13
<1>22. NamedApart
  <2>1. \A p \in S, k \in Live :
          rows[k].parent = l.inode /\ Last(rows[k].path) = Last(p) => rows[k].path = p
    BY DEF Refuses, Clashes, Named, Name, ByPath
  <2>2. \A n \in Inodes : rows'[n].path \in Paths =>
          \/ rows'[n].path \in S /\ rows'[n].parent = l.inode
          \/ n \in Live /\ rows[n].path \notin S
             /\ rows'[n].path = rows[n].path /\ rows'[n].parent = rows[n].parent
    <3> SUFFICES ASSUME NEW n \in Inodes, rows'[n].path \in Paths
                 PROVE  \/ rows'[n].path \in S /\ rows'[n].parent = l.inode
                        \/ n \in Live /\ rows[n].path \notin S
                           /\ rows'[n].path = rows[n].path /\ rows'[n].parent = rows[n].parent
      OBVIOUS
    <3>1. n \in NewInodes \/ n \in Live
      BY <1>12, NoRowFacts
    <3> QED
      BY <1>9, <1>13, <1>20, <3>1
  <2>3. \A m, n \in Inodes : rows'[m].path \in Paths /\ rows'[m].path = rows'[n].path => m = n
    <3> SUFFICES ASSUME NEW m \in Inodes, NEW n \in Inodes, rows'[m].path \in Paths,
                        rows'[m].path = rows'[n].path
                 PROVE  m = n
      OBVIOUS
    <3>1. (m \in NewInodes \/ m \in Live) /\ (n \in NewInodes \/ n \in Live)
      BY <1>12, NoRowFacts
    <3>2. \A k \in Live : rows'[k].path = rows[k].path
      BY <1>13
    <3> QED
      BY <1>16, <1>20, <3>1, <3>2 DEF RowsInv, RowsUnique, ByPath
  <2> SUFFICES ASSUME NEW m \in Inodes, NEW n \in Inodes,
                      rows'[m].path \in Paths, rows'[n].path \in Paths,
                      rows'[m].parent = rows'[n].parent, Last(rows'[m].path) = Last(rows'[n].path)
               PROVE  m = n
    BY DEF NamedApart
  <2>4. CASE rows'[m].path \in S /\ rows'[n].path \in S
    <3>1. rows'[m].path = rows'[n].path
      BY <1>2, <2>4, SamePath
    <3> QED
      BY <2>3, <3>1
  <2>5. ASSUME NEW j \in Inodes, NEW k \in Live, rows'[j].path \in S, rows'[j].parent = l.inode,
               rows[k].path \notin S, rows[k].parent = l.inode,
               Last(rows[k].path) = Last(rows'[j].path)
        PROVE  FALSE
    BY <2>1, <2>5
  <2>6. CASE /\ m \in Live /\ rows'[m].path = rows[m].path /\ rows'[m].parent = rows[m].parent
             /\ n \in Live /\ rows'[n].path = rows[n].path /\ rows'[n].parent = rows[n].parent
    BY <2>6 DEF RowsInv, RowsNamed
  <2> QED
    BY <2>2, <2>4, <2>5, <2>6
<1>23. Refill(S, {})
  BY <1>1, <1>9, <1>12, <1>13, <1>15, <1>16, <1>17, <1>18, <1>19, <1>20, <1>21, <1>22 DEF Refill
<1> QED
  BY <1>14, <1>23
-----------------------------------------------------------------------------
(* The full poll.                                                          *)

LEMMA BeforeFacts ==
  ASSUME RowsInv
  PROVE  /\ \A n \in Live : ~Before(n, n)
         /\ \A m, n \in Live : m = n \/ Before(m, n) \/ Before(n, m)
         /\ \A k, m, n \in Live : Before(k, m) /\ Before(m, n) => Before(k, n)
<1>1. \A n \in Live : n \in Nat /\ rows[n].polled \in BOOLEAN
  BY LiveFacts, NoRowFacts DEF GoodRow, RowType
<1> QED
  BY <1>1 DEF Before

\* delete_stale_entries leaves no row without its parent.
LEMMA SweptFacts ==
  ASSUME RowsInv, NEW Z0 \in SUBSET Live, NEW R
  PROVE  /\ Swept(Z0, R) \subseteq Z0
         /\ \A n \in Swept(Z0, R) : \A c \in Children(n) : c \in R \/ c \in Swept(Z0, R)
<1> DEFINE stuck(n) == \E c \in Children(n) \ R : c \notin Z0 \/ Before(n, c)
           Z == {n \in Z0 : \A m \in Z0 : stuck(m) => Before(n, m)}
<1>1. Swept(Z0, R) = Z
  BY DEF Swept
<1>2. ASSUME NEW n \in Z, NEW c \in Children(n), c \notin R PROVE c \in Z
  <2>1. n \in Live /\ n \in Z0 /\ c \in Live
    BY DEF Children
  <2>2. ~stuck(n)
    BY <2>1, BeforeFacts
  <2>3. c \in Z0 /\ ~Before(n, c)
    BY <1>2, <2>2
  <2>4. c = n \/ Before(c, n)
    BY <2>1, <2>3, BeforeFacts
  <2>5. ASSUME NEW m \in Z0, stuck(m) PROVE Before(c, m)
    <3>1. Before(n, m) /\ m \in Live
      BY <2>5
    <3> HIDE DEF stuck
    <3> QED
      BY <2>1, <2>4, <3>1, BeforeFacts
  <2> HIDE DEF stuck
  <2> QED
    BY <2>3, <2>5
<1> HIDE DEF stuck
<1> QED
  BY <1>1, <1>2

TreeOf(F, D) == \A p \in FilePaths : F[p] # 0 => ParentPath(p) \in D \cup {Root}
PollInv == poll \in PollType /\ TreeOf(poll.files, poll.dirs)

\* The directory of a path the poll has seen was seen, too.
LEMMA SeenParent ==
  ASSUME PollInv, tombs \subseteq Paths, NEW p \in Seen
  PROVE  ParentPath(p) = Root \/ (ParentPath(p) \in Seen /\ ParentPath(p) \in DirPaths)
<1>1. p \in Paths /\ ~IsTombstoned(p, tombs)
  BY DEF Seen
<1>2. CASE p \in DirPaths
  BY <1>2, DirFacts
<1>3. CASE p \in FilePaths /\ ParentPath(p) # Root
  <2> DEFINE q == ParentPath(p)
  <2>1. poll.files[p] # 0
    BY <1>3, PathKinds DEF Seen, PollInv, PollType
  <2>2. q \in poll.dirs /\ q \in DirPaths
    BY <1>3, <2>1 DEF PollInv, TreeOf, PollType
  <2>3. ~IsTombstoned(q, tombs)
    <3> SUFFICES ASSUME NEW t \in tombs, IsPrefix(t, q) PROVE FALSE
      BY DEF IsTombstoned
    <3>1. t \in Paths /\ q \in Paths /\ ParentPath(q) = Root
      BY <2>2, PathKinds, DirFacts
    <3>2. t = q
      BY <3>1, PrefixFacts, PathKinds
    <3>3. IsPrefix(t, p)
      BY <1>1, <2>2, <3>1, <3>2, PrefixFacts
    <3> QED
      BY <1>1, <3>3 DEF IsTombstoned
  <2> QED
    BY <2>2, <2>3, PathKinds DEF Seen
<1> QED
  BY <1>1, <1>2, <1>3, PathKinds

\* to_upsert: what was seen and has no row, and the rows whose file has changed.
LEMMA TodoFacts ==
  ASSUME RowsInv, PollInv
  PROVE  /\ Seen \subseteq Paths /\ Todo \subseteq Seen
         /\ \A p \in Seen : PollEtag(p) \in 0 .. MaxContents
         /\ \A p \in Seen : ByPath(p) = {} => p \in Todo
         /\ Stales \subseteq Olds /\ Olds \subseteq Live /\ \A n \in Stales : ~IsDir(n)
         /\ \A n \in Live : /\ rows[n].path \in Todo <=> n \in Stales
                            /\ rows[n].path \in Seen <=> n \in Olds
<1>1. Seen \subseteq Paths
  BY DEF Seen
<1>2. \A p \in Seen : PollEtag(p) \in 0 .. MaxContents
  <2> TAKE p \in Seen
  <2>1. p \in DirPaths \/ p \in FilePaths
    BY <1>1, PathKinds
  <2> QED
    BY <2>1, BoundsAssumption DEF PollEtag, PollInv, PollType
<1>3. /\ Stales \subseteq Olds /\ Olds \subseteq Live /\ \A n \in Stales : ~IsDir(n)
      /\ \A n \in Live : rows[n].path \in Seen <=> n \in Olds
  BY DEF Stales, Olds
<1>4. Todo \subseteq Seen /\ \A p \in Seen : ByPath(p) = {} => p \in Todo
  BY <1>3 DEF Todo, Rowless, Olds
<1>5. ASSUME NEW n \in Live, rows[n].path \in Todo PROVE n \in Stales
  <2>1. ByPath(rows[n].path) # {}
    BY DEF ByPath
  <2>2. PICK m \in Stales : rows[m].path = rows[n].path
    BY <1>5, <2>1 DEF Todo, Rowless
  <2>3. m = n
    BY <1>3, <2>2 DEF RowsInv, RowsUnique
  <2> QED
    BY <2>3
<1>6. \A n \in Stales : rows[n].path \in Todo
  BY DEF Todo
<1> QED
  BY <1>1, <1>2, <1>3, <1>4, <1>5, <1>6

\* A part of to_upsert that can be written: the directory of each of its paths is
\* the root, has a row, or is written with it.
Closed(P) ==
  /\ P \subseteq Todo
  /\ \A p \in P : ParentPath(p) = Root \/ ByPath(ParentPath(p)) # {} \/ ParentPath(p) \in P

LEMMA TodoClosed ==
  ASSUME RowsInv, PollInv, tombs \subseteq Paths
  PROVE  Closed(Todo) /\ \A x \in Todo : Closed(Earlier(x, Todo))
<1>1. ASSUME NEW p \in Todo
      PROVE  \/ ParentPath(p) = Root \/ ByPath(ParentPath(p)) # {}
             \/ ParentPath(p) \in Todo /\ ParentPath(p) \in DirPaths
  BY TodoFacts, SeenParent
<1>2. Closed(Todo)
  BY <1>1 DEF Closed
<1>3. ASSUME NEW x \in Todo PROVE Closed(Earlier(x, Todo))
  <2>1. Earlier(x, Todo) \subseteq Todo
    BY DEF Earlier
  <2>2. ASSUME NEW p \in Earlier(x, Todo), ParentPath(p) # Root, ByPath(ParentPath(p)) = {}
        PROVE  ParentPath(p) \in Earlier(x, Todo)
    <3> DEFINE q == ParentPath(p)
    <3>1. q \in Todo /\ q \in DirPaths
      BY <1>1, <2>1, <2>2
    <3>2. p \in Paths /\ x \in Paths /\ q \in Paths
      BY <2>1, <3>1, TodoFacts
    <3>3. p \in FilePaths
      BY <2>2, <3>2, DirFacts, PathKinds
    <3>4. Place[q] < Place[p] /\ Place[p] < Place[x]
      BY <3>1, <3>3, PlaceFacts DEF Earlier
    <3>5. Place[q] \in Nat /\ Place[p] \in Nat /\ Place[x] \in Nat
      BY <3>2, PlaceFacts
    <3>6. Place[q] < Place[x]
      BY <3>4, <3>5
    <3> QED
      BY <3>1, <3>6 DEF Earlier
  <2> QED
    BY <2>1, <2>2 DEF Closed
<1> QED
  BY <1>2, <1>3

\* The path of the parent a, new being the rowless paths.
PathAt(a, new) == IF a = 0 THEN Root ELSE IF a < next THEN rows[a].path ELSE new[a - next + 1]

LEMMA AtFacts ==
  ASSUME RowsInv, PollInv, NEW P, Closed(P), NEW p \in P
  PROVE  LET new == NewPaths(P)
             a == At(p, new)
         IN /\ PathAt(a, new) = ParentPath(p)
            /\ ParentPath(p) = Root => a = 0
            /\ ParentPath(p) # Root =>
                 /\ ParentPath(p) \in DirPaths
                 /\ \/ a \in Live /\ rows[a].path = ParentPath(p)
                    \/ \E i \in 1 .. Len(new) : a = next + i - 1 /\ new[i] = ParentPath(p)
<1> DEFINE new == NewPaths(P)
           a == At(p, new)
           q == ParentPath(p)
<1>1. P \in SUBSET Paths /\ p \in Paths
  BY TodoFacts DEF Closed
<1>2. /\ Len(new) \in Nat /\ DOMAIN new = 1 .. Len(new)
      /\ \A r \in P : ByPath(r) = {} => \E i \in 1 .. Len(new) : new[i] = r
  BY <1>1, NewPathsFacts
<1>3. next \in Nat /\ next >= 1 /\ \A n \in Live : n \in Nat /\ n # 0 /\ n < next
  <2>1. next \in Nat /\ next >= 1
    BY BoundsAssumption DEF RowsInv
  <2>2. \A n \in Live : n \in Inodes /\ n < next
    BY LiveFacts
  <2> QED
    BY <2>1, <2>2, NoRowFacts
<1>4. q \in Dirs
  BY <1>1, PathKinds, DirFacts, FileFacts DEF Dirs
<1>5. CASE q = Root
  <2>1. a = 0
    BY <1>5 DEF At, InodeOf
  <2> QED
    BY <1>5, <2>1 DEF PathAt
<1>6. CASE q # Root /\ ByPath(q) # {}
  <2>1. a = CHOOSE n \in ByPath(q) : TRUE
    BY <1>6 DEF At, InodeOf
  <2>2. a \in Live /\ rows[a].path = q
    BY <1>6, <2>1 DEF ByPath
  <2> QED
    BY <1>3, <1>4, <1>6, <2>2 DEF PathAt, Dirs
<1>7. CASE q # Root /\ ByPath(q) = {}
  <2>1. q \in P
    BY <1>7 DEF Closed
  <2>2. PICK j \in 1 .. Len(new) : new[j] = q
    BY <1>2, <1>7, <2>1
  <2>3. PICK i : i = CHOOSE k \in DOMAIN new : new[k] = q
    OBVIOUS
  <2> HIDE DEF new
  <2>4. i \in 1 .. Len(new) /\ new[i] = q
    BY <1>2, <2>2, <2>3
  <2>5. a = next + i - 1
    BY <1>2, <1>7, <2>2, <2>3 DEF At, InodeOf
  <2>6. i \in Nat /\ i >= 1
    BY <1>2, <2>4
  <2>7. a # 0 /\ ~(a < next) /\ a - next + 1 = i
    BY <1>3, <2>5, <2>6
  <2>8. PathAt(a, new) = q
    BY <2>4, <2>7 DEF PathAt
  <2> QED
    BY <1>4, <1>7, <2>4, <2>5, <2>8 DEF Dirs, new
<1> QED
  BY <1>5, <1>6, <1>7

\* What the upserts of P make of the index: R, with the inodes N new.
Written(P, new, R, N) ==
  /\ N = {n \in Inodes : next <= n /\ n < next + Len(new)} /\ N \cap Live = {}
  /\ R \in [Inodes -> RowType]
  /\ \A n \in N : /\ R[n].path \in P /\ ByPath(R[n].path) = {}
                  /\ R[n].status = "remote" /\ R[n].cp = Root
                  /\ R[n].parent = At(R[n].path, new)
  /\ \A m, n \in N : R[m].path = R[n].path => m = n
  /\ \A p \in P : ByPath(p) = {} => \E n \in N : R[n].path = p
  /\ \A n \in Live :
       /\ R[n].path = rows[n].path /\ R[n].cp = rows[n].cp /\ R[n].listed = rows[n].listed
       /\ \/ R[n].status = rows[n].status
          \/ rows[n].status \notin Unsynced /\ R[n].status = "stale"
       /\ R[n].parent = IF rows[n].path \in P THEN At(rows[n].path, new) ELSE rows[n].parent
  /\ \A n \in Inodes : n \notin N /\ n \notin Live => R[n] = NoRow
  /\ \A p \in P : /\ ParentPath(p) = Root => At(p, new) = 0
                  /\ ParentPath(p) # Root => /\ ParentPath(p) \in DirPaths
                                             /\ At(p, new) \in N \cup Live
                                             /\ R[At(p, new)].path = ParentPath(p)

LEMMA UpsertFacts ==
  ASSUME RowsInv, PollInv, NEW P, Closed(P), next + Len(NewPaths(P)) <= MaxInode + 1
  PROVE  /\ Len(NewPaths(P)) \in Nat
         /\ Written(P, NewPaths(P), Upserts(P, NewPaths(P)),
                    {n \in Inodes : next <= n /\ n < next + Len(NewPaths(P))})
<1> DEFINE new == NewPaths(P)
           R == Upserts(P, new)
           N == {n \in Inodes : next <= n /\ n < next + Len(new)}
           fresh(n) == [Row(new[n - next + 1], At(new[n - next + 1], new), "remote",
                            PollEtag(new[n - next + 1]), Root) EXCEPT !.polled = TRUE]
           again(n) == [rows[n] EXCEPT !.parent = At(rows[n].path, new),
                                       !.etag = PollEtag(rows[n].path),
                                       !.status = Refreshed(@), !.polled = TRUE]
<1>1. /\ P \in SUBSET Paths /\ \A p \in P : PollEtag(p) \in 0 .. MaxContents
      /\ \A p \in P : p \in Paths
  BY TodoFacts DEF Closed
<1>2. /\ Len(new) \in Nat /\ DOMAIN new = 1 .. Len(new)
      /\ \A i \in 1 .. Len(new) : new[i] \in P /\ ByPath(new[i]) = {}
      /\ \A i, j \in 1 .. Len(new) : new[i] = new[j] => i = j
      /\ \A p \in P : ByPath(p) = {} => \E i \in 1 .. Len(new) : new[i] = p
  BY <1>1, NewPathsFacts
<1>3. /\ next \in Nat /\ next >= 1 /\ MaxInode \in Nat /\ next + Len(new) <= MaxInode + 1
      /\ Live \subseteq Inodes /\ \A n \in Inodes : n \in Nat /\ n <= MaxInode
      /\ \A n \in Nat : n >= 1 /\ n <= MaxInode => n \in Inodes
      /\ \A n \in Live : n < next
  BY LiveFacts, NoRowFacts DEF RowsInv, Inodes
<1>4. R = [n \in Inodes |-> IF n \in next .. next + Len(new) - 1 THEN fresh(n)
                            ELSE IF n \in Live /\ rows[n].path \in P THEN again(n) ELSE rows[n]]
  BY DEF Upserts
<1>5. \A p \in P : /\ ParentPath(p) = Root => At(p, new) = 0
                   /\ ParentPath(p) # Root =>
                        /\ ParentPath(p) \in DirPaths
                        /\ \/ At(p, new) \in Live /\ rows[At(p, new)].path = ParentPath(p)
                           \/ \E i \in 1 .. Len(new) : At(p, new) = next + i - 1 /\ new[i] = ParentPath(p)
  BY AtFacts
<1> HIDE DEF new, R
<1>6. \A n \in Inodes : n \in N <=> n \in next .. next + Len(new) - 1
  BY <1>2, <1>3
<1>7. \A n \in N : n \in Inodes /\ n \notin Live /\ n - next + 1 \in 1 .. Len(new)
  BY <1>2, <1>3
<1>8. \A i \in 1 .. Len(new) : next + i - 1 \in N /\ (next + i - 1) - next + 1 = i
  <2> TAKE i \in 1 .. Len(new)
  <2>1. i \in Nat /\ i >= 1 /\ i <= Len(new)
    BY <1>2
  <2>2. next + i - 1 \in Nat /\ next + i - 1 >= 1 /\ next + i - 1 <= MaxInode
    BY <1>2, <1>3, <2>1
  <2> QED
    BY <1>2, <1>3, <2>1, <2>2
<1> HIDE DEF N
<1>9. \A p \in P : At(p, new) \in 0 .. MaxInode
  <2> TAKE p \in P
  <2>1. \A n \in N \cup Live : n \in 0 .. MaxInode
    BY <1>3, <1>7
  <2> QED
    BY <1>3, <1>5, <1>8, <2>1
<1>10. ASSUME NEW n \in N
       PROVE  /\ R[n].path = new[n - next + 1] /\ R[n].parent = At(R[n].path, new)
              /\ R[n].status = "remote" /\ R[n].cp = Root /\ R[n] \in RowType
  <2>1. PICK p : p = new[n - next + 1]
    OBVIOUS
  <2>2. p \in P
    BY <1>2, <1>7, <2>1
  <2>3. /\ p \in Paths \cup {Root} /\ At(p, new) \in 0 .. MaxInode /\ PollEtag(p) \in 0 .. MaxContents
        /\ "remote" \in Statuses /\ Root \in FilePaths \cup {Root}
    BY <1>1, <1>9, <2>2 DEF Statuses
  <2>4. R[n] = fresh(n)
    BY <1>4, <1>6, <1>7
  <2>5. R[n] = [path |-> p, parent |-> At(p, new), status |-> "remote", etag |-> PollEtag(p),
                cp |-> Root, listed |-> FALSE, polled |-> TRUE]
    BY <2>1, <2>4 DEF Row
  <2> QED
    BY <2>1, <2>3, <2>5 DEF RowType
<1>11. \A n \in Live : R[n] = IF rows[n].path \in P THEN again(n) ELSE rows[n]
  BY <1>3, <1>4, <1>6, <1>7
<1>12. \A n \in Inodes : n \notin N /\ n \notin Live => R[n] = NoRow
  <2> SUFFICES ASSUME NEW n \in Inodes, n \notin N, n \notin Live PROVE R[n] = NoRow
    OBVIOUS
  <2>1. rows[n] = NoRow
    BY DEF Live
  <2> QED
    BY <1>4, <1>6, <2>1
<1>13. ASSUME NEW n \in Live
       PROVE  /\ R[n].path = rows[n].path /\ R[n].cp = rows[n].cp /\ R[n].listed = rows[n].listed
              /\ \/ R[n].status = rows[n].status
                 \/ rows[n].status \notin Unsynced /\ R[n].status = "stale"
              /\ R[n].parent = IF rows[n].path \in P THEN At(rows[n].path, new) ELSE rows[n].parent
              /\ R[n] \in RowType
  <2>1. rows[n] \in RowType /\ rows[n].status \in Statuses
    BY <1>3 DEF RowsInv, RowType
  <2>2. CASE rows[n].path \notin P
    BY <1>11, <2>1, <2>2
  <2>3. CASE rows[n].path \in P
    <3>1. PICK a, e, s : a = At(rows[n].path, new) /\ e = PollEtag(rows[n].path)
                         /\ s = Refreshed(rows[n].status)
      OBVIOUS
    <3>2. a \in 0 .. MaxInode /\ e \in 0 .. MaxContents /\ s \in Statuses
      BY <1>1, <1>9, <2>1, <2>3, <3>1, RefreshedFacts
    <3>3. R[n] = [rows[n] EXCEPT !.parent = a, !.etag = e, !.status = s, !.polled = TRUE]
      BY <1>11, <2>3, <3>1
    <3>4. /\ R[n] \in RowType /\ R[n].path = rows[n].path /\ R[n].cp = rows[n].cp
          /\ R[n].listed = rows[n].listed /\ R[n].status = s /\ R[n].parent = a
      BY <2>1, <3>2, <3>3 DEF RowType
    <3>5. s = rows[n].status \/ (rows[n].status \notin Unsynced /\ s = "stale")
      BY <2>1, <3>1, RefreshedFacts
    <3> QED
      BY <2>3, <3>1, <3>4, <3>5
  <2> QED
    BY <2>2, <2>3
<1>14. R \in [Inodes -> RowType]
  <2>1. DOMAIN R = Inodes /\ R = [n \in Inodes |-> R[n]]
    BY <1>4
  <2>2. \A n \in Inodes : R[n] \in RowType
    BY <1>10, <1>12, <1>13, NoRowFacts
  <2> QED
    BY <2>1, <2>2
<1>15. \A n \in N : R[n].path \in P /\ ByPath(R[n].path) = {}
  BY <1>2, <1>7, <1>10
<1>16. ASSUME NEW m \in N, NEW n \in N, R[m].path = R[n].path PROVE m = n
  <2>1. m - next + 1 = n - next + 1
    BY <1>2, <1>7, <1>10, <1>16
  <2>2. m \in Nat /\ n \in Nat /\ next \in Nat
    BY <1>3, <1>7
  <2> QED
    BY <2>1, <2>2
<1>17. \A p \in P : ByPath(p) = {} => \E n \in N : R[n].path = p
  BY <1>2, <1>8, <1>10
<1>18. ASSUME NEW p \in P, ParentPath(p) # Root
       PROVE  /\ ParentPath(p) \in DirPaths /\ At(p, new) \in N \cup Live
              /\ R[At(p, new)].path = ParentPath(p)
  BY <1>5, <1>8, <1>10, <1>13, <1>18
<1>19. Written(P, new, R, N)
  <2>1. N = {n \in Inodes : next <= n /\ n < next + Len(new)} /\ N \cap Live = {}
    BY <1>7 DEF N
  <2> QED
    BY <1>5, <1>10, <1>12, <1>13, <1>14, <1>15, <1>16, <1>17, <1>18, <2>1 DEF Written
<1> QED
  BY <1>2, <1>19 DEF new, R, N

\* The upserts that are not refused give no two rows one name under one parent: the
\* later of two would have been.
LEMMA UpsertNames ==
  ASSUME RowsInv, PollInv, NEW P, Closed(P), NEW new, NEW R, NEW N, Written(P, new, R, N),
         NEW all, \A p \in P : At(p, all) = At(p, new) /\ ~Refused(p, Todo, all),
         \A p \in P, q \in Todo : Place[q] < Place[p] => q \in P,
         NEW m \in Inodes, NEW n \in Inodes, R[m].path \in Paths, R[n].path \in Paths,
         R[m].parent = R[n].parent, Last(R[m].path) = Last(R[n].path)
  PROVE  m = n
<1>1. \A k \in Inodes : R[k].path \in Paths =>
        \/ R[k].path \in P /\ R[k].parent = At(R[k].path, all)
        \/ /\ R[k].path \notin P /\ k \in Live
           /\ R[k].path = rows[k].path /\ R[k].parent = rows[k].parent
  <2> SUFFICES ASSUME NEW k \in Inodes, R[k].path \in Paths
               PROVE  \/ R[k].path \in P /\ R[k].parent = At(R[k].path, all)
                      \/ /\ R[k].path \notin P /\ k \in Live
                         /\ R[k].path = rows[k].path /\ R[k].parent = rows[k].parent
    OBVIOUS
  <2>1. k \in N \/ k \in Live
    BY NoRowFacts DEF Written
  <2> QED
    BY <2>1 DEF Written
<1>2. ASSUME NEW j \in Inodes, NEW k \in Inodes, R[j].path \in Paths, R[j].path = R[k].path
      PROVE  j = k
  <2>1. (j \in N \/ j \in Live) /\ (k \in N \/ k \in Live)
    BY <1>2, NoRowFacts DEF Written
  <2>2. \A i \in Live : R[i].path = rows[i].path
    BY DEF Written
  <2>3. \A i \in N : ByPath(R[i].path) = {}
    BY DEF Written
  <2>4. \A i, h \in N : R[i].path = R[h].path => i = h
    BY DEF Written
  <2> QED
    BY <1>2, <2>1, <2>2, <2>3, <2>4 DEF RowsInv, RowsUnique, ByPath
<1>3. \A p \in P : /\ p \in Paths /\ p \in Todo
                   /\ \A q \in Paths \ {p} : Last(q) = Last(p) =>
                        IF q \in Earlier(p, Todo) THEN At(q, all) # At(p, all)
                        ELSE \A i \in ByPath(q) : rows[i].parent # At(p, all)
  BY TodoFacts DEF Refused, Closed
<1>4. \A p \in Todo, q \in Todo : q \in Earlier(p, Todo) <=> Place[q] < Place[p]
  BY DEF Earlier
<1>5. ASSUME NEW j \in Inodes, NEW k \in Inodes, R[j].path \in P, R[j].parent = At(R[j].path, all),
             k \in Live, R[k].path \in Paths, R[k].path \notin P,
             R[k].path = rows[k].path, R[k].parent = rows[k].parent,
             R[j].parent = R[k].parent, Last(R[j].path) = Last(R[k].path)
      PROVE  FALSE
  <2>1. PICK p, q : p = R[j].path /\ q = R[k].path
    OBVIOUS
  <2>2. p \in P /\ q \in Paths \ {p} /\ Last(q) = Last(p) /\ k \in ByPath(q)
    BY <1>5, <2>1 DEF ByPath
  <2>3. q \notin Earlier(p, Todo)
    BY <1>3, <1>5, <2>1, <2>2 DEF Earlier
  <2> QED
    BY <1>3, <1>5, <2>1, <2>2, <2>3
<1>6. ASSUME NEW p \in P, NEW q \in P, p # q, At(p, all) = At(q, all), Last(p) = Last(q)
      PROVE  FALSE
  <2>1. Place[p] \in Nat /\ Place[q] \in Nat /\ Place[p] # Place[q]
    BY <1>3, <1>6, PlaceFacts
  <2>2. q \in Earlier(p, Todo) \/ p \in Earlier(q, Todo)
    BY <1>3, <1>4, <2>1
  <2> QED
    BY <1>3, <1>6, <2>2
<1>7. CASE R[m].path \notin P /\ R[n].path \notin P
  BY <1>1, <1>7 DEF RowsInv, RowsNamed
<1>8. CASE R[m].path \in P /\ R[n].path \in P
  <2>1. R[m].path = R[n].path
    BY <1>1, <1>6, <1>8
  <2> QED
    BY <1>2, <2>1
<1> QED
  BY <1>1, <1>5, <1>7, <1>8

Polled ==
  /\ \A n \in Live' : rows'[n].path \in DirPaths => rows'[n].listed
  /\ \A n \in Live' :
       \/ n \in Live \ Sweep /\ rows'[n].parent = rows[n].parent
       \/ PathOf(rows[n].parent)' = ParentPath(rows'[n].path)

\* PollApply, its parts named.
LEMMA PollParts ==
  ASSUME PollApply
  PROVE  LET new == NewPaths(Todo)
             R == Upserts(Todo, new)
         IN /\ \A p \in Todo : ~Refused(p, Todo, new)
            /\ next + Len(new) <= MaxInode + 1 /\ next' = next + Len(new)
            /\ rows' = [n \in Inodes |->
                 IF n \in Sweep \/ R[n] = NoRow THEN NoRow
                 ELSE Marked(R[n], n \in Olds)]
            /\ cache' = [p \in FilePaths |-> IF \E n \in Sweep : rows[n].cp = p THEN 0 ELSE cache[p]]
            /\ causes' = causes \cup
                 Cause("vanished", \E n \in Sweep : /\ rows[n].status \notin Unsynced
                                                /\ ContentsOf(n) \cap live # {})
            /\ listed' = TRUE /\ poll' = NoPoll
<1>1. PICK T \in {Todo}, Z \in {Sweep}, old \in {Olds} : \E new \in {NewPaths(T)} :
        \E R \in {Upserts(T, new)} :
          /\ \A p \in T : ~Refused(p, T, new)
          /\ next + Len(new) <= MaxInode + 1 /\ next' = next + Len(new)
          /\ rows' = [n \in Inodes |->
               IF n \in Z \/ R[n] = NoRow THEN NoRow
               ELSE Marked(R[n], n \in old)]
          /\ cache' = [p \in FilePaths |-> IF \E n \in Z : rows[n].cp = p THEN 0 ELSE cache[p]]
          /\ causes' = causes \cup
               Cause("vanished", \E n \in Z : /\ rows[n].status \notin Unsynced
                                          /\ ContentsOf(n) \cap live # {})
  BY DEF PollApply
<1>2. T = Todo /\ Z = Sweep /\ old = Olds
  OBVIOUS
<1>3. PICK new \in {NewPaths(Todo)} : \E R \in {Upserts(Todo, new)} :
          /\ \A p \in Todo : ~Refused(p, Todo, new)
          /\ next + Len(new) <= MaxInode + 1 /\ next' = next + Len(new)
          /\ rows' = [n \in Inodes |->
               IF n \in Sweep \/ R[n] = NoRow THEN NoRow
               ELSE Marked(R[n], n \in Olds)]
          /\ cache' = [p \in FilePaths |-> IF \E n \in Sweep : rows[n].cp = p THEN 0 ELSE cache[p]]
          /\ causes' = causes \cup
               Cause("vanished", \E n \in Sweep : /\ rows[n].status \notin Unsynced
                                              /\ ContentsOf(n) \cap live # {})
  BY <1>1, <1>2
<1>4. new = NewPaths(Todo)
  OBVIOUS
<1>5. listed' = TRUE /\ poll' = NoPoll
  BY DEF PollApply
<1> QED
  BY <1>3, <1>4, <1>5


LEMMA MarkedFacts ==
  ASSUME NEW r \in RowType, NEW b
  PROVE  LET m == Marked(r, b) IN
         /\ m.path = r.path /\ m.cp = r.cp /\ m.status = r.status /\ m.parent = r.parent
         /\ m.listed = (r.path \in DirPaths) /\ m \in RowType
<1>1. PICK x, y : x = (r.polled \/ b) /\ y = (r.path \in DirPaths)
  OBVIOUS
<1>2. x \in BOOLEAN /\ y \in BOOLEAN
  BY <1>1
<1>3. Marked(r, b) = [r EXCEPT !.polled = x, !.listed = y]
  BY <1>1 DEF Marked
<1> QED
  BY <1>1, <1>2, <1>3 DEF RowType

LEMMA PollRefills ==
  ASSUME RowsInv, PollInv, tombs \subseteq Paths, PollApply
  PROVE  Refill(Seen, Sweep) /\ Polled
<1> DEFINE new == NewPaths(Todo)
           R == Upserts(Todo, new)
           N == {n \in Inodes : next <= n /\ n < next + Len(new)}
<1>1. /\ \A p \in Todo : ~Refused(p, Todo, new)
      /\ next + Len(new) <= MaxInode + 1 /\ next' = next + Len(new)
      /\ rows' = [n \in Inodes |->
           IF n \in Sweep \/ R[n] = NoRow THEN NoRow
           ELSE Marked(R[n], n \in Olds)]
  BY PollParts
<1>2. Closed(Todo)
  BY TodoClosed
<1>3. Len(new) \in Nat /\ Written(Todo, new, R, N)
  BY <1>1, <1>2, UpsertFacts
<1> HIDE DEF new, R, N
<1>4. ASSUME NEW m \in Inodes, NEW n \in Inodes, R[m].path \in Paths, R[n].path \in Paths,
             R[m].parent = R[n].parent, Last(R[m].path) = Last(R[n].path)
      PROVE  m = n
  BY <1>1, <1>2, <1>3, <1>4, UpsertNames
<1>5. /\ next \in Nat /\ next' \in Nat /\ next <= next' /\ next' <= MaxInode + 1
      /\ NewInodes = N /\ Live \subseteq Inodes /\ N \subseteq Inodes /\ N \cap Live = {}
  <2>1. next \in Nat /\ MaxInode \in Nat
    BY BoundsAssumption DEF RowsInv
  <2>2. next' \in Nat /\ next <= next' /\ next' <= MaxInode + 1
    BY <1>1, <1>3, <2>1
  <2>3. N = {n \in Inodes : next <= n /\ n < next'} /\ N \cap Live = {}
    BY <1>1, <1>3 DEF Written
  <2> QED
    BY <2>1, <2>2, <2>3, LiveFacts DEF NewInodes
<1>6. /\ Sweep \subseteq Live \ Olds
      /\ \A n \in Sweep : rows[n].status \notin Unsynced
      /\ \A n \in Sweep : \A c \in Children(n) : c \in Stales \/ c \in Sweep
  <2>1. {n \in Live \ Olds : Sweepable(rows[n])} \in SUBSET Live
    OBVIOUS
  <2> QED
    BY <2>1, SweptFacts DEF Sweep, Sweepable
<1>7. /\ R \in [Inodes -> RowType]
      /\ \A n \in N : /\ R[n].path \in Todo /\ ByPath(R[n].path) = {}
                      /\ R[n].status = "remote" /\ R[n].cp = Root
                      /\ R[n].parent = At(R[n].path, new)
      /\ \A m, n \in N : R[m].path = R[n].path => m = n
      /\ \A p \in Todo : ByPath(p) = {} => \E n \in N : R[n].path = p
      /\ \A n \in Inodes : n \notin N /\ n \notin Live => R[n] = NoRow
  BY <1>3 DEF Written
<1>8. \A n \in Live :
        /\ R[n].path = rows[n].path /\ R[n].cp = rows[n].cp
        /\ \/ R[n].status = rows[n].status
           \/ rows[n].status \notin Unsynced /\ R[n].status = "stale"
        /\ n \in Stales => R[n].parent = At(R[n].path, new) /\ R[n].path \in Todo
        /\ n \notin Stales => R[n].parent = rows[n].parent
  <2>1. \A n \in Live : rows[n].path \in Todo <=> n \in Stales
    BY TodoFacts
  <2> QED
    BY <1>3, <2>1 DEF Written
<1>9. \A n \in N \cup Live : R[n] # NoRow /\ R[n].path \in Paths
  <2>1. \A n \in N \cup Live : R[n].path \in Paths
    BY <1>7, <1>8, TodoFacts, RowFields
  <2> QED
    BY <2>1, NoRowFacts
<1>10. \A n \in N \cup (Live \ Sweep) :
         /\ rows'[n].path = R[n].path /\ rows'[n].cp = R[n].cp /\ rows'[n].status = R[n].status
         /\ rows'[n].parent = R[n].parent /\ rows'[n].listed = (R[n].path \in DirPaths)
         /\ rows'[n] \in RowType
  <2> TAKE n \in N \cup (Live \ Sweep)
  <2>1. n \in Inodes /\ n \notin Sweep /\ R[n] # NoRow /\ R[n] \in RowType
    BY <1>5, <1>6, <1>7, <1>9
  <2>2. rows'[n] = Marked(R[n], n \in Olds)
    BY <1>1, <2>1
  <2> QED
    BY <2>1, <2>2, MarkedFacts
<1>11. \A n \in Inodes \ N : n \notin Live \ Sweep => rows'[n] = NoRow
  BY <1>1, <1>7
<1>12. rows' \in [Inodes -> RowType]
  <2>1. DOMAIN rows' = Inodes /\ rows' = [n \in Inodes |-> rows'[n]]
    BY <1>1
  <2>2. \A n \in Inodes : rows'[n] \in RowType
    BY <1>10, <1>11, NoRowFacts
  <2> QED
    BY <2>1, <2>2
<1>13. \A n \in Inodes : rows'[n].path \in Paths => n \in N \/ n \in Live \ Sweep
  BY <1>11, NoRowFacts
<1>14. \A p \in Todo : /\ ParentPath(p) = Root => At(p, new) = 0
                       /\ ParentPath(p) # Root =>
                            /\ ParentPath(p) \in DirPaths /\ At(p, new) \in Inodes
                            /\ rows'[At(p, new)].path = ParentPath(p)
  <2> TAKE p \in Todo
  <2>1. ASSUME ParentPath(p) # Root
        PROVE  /\ ParentPath(p) \in DirPaths /\ At(p, new) \in Inodes
               /\ rows'[At(p, new)].path = ParentPath(p)
    <3>1. PICK a : a = At(p, new)
      OBVIOUS
    <3>2. ParentPath(p) \in DirPaths /\ a \in N \cup Live /\ R[a].path = ParentPath(p)
      BY <1>3, <2>1, <3>1 DEF Written
    <3>3. ParentPath(p) \in Seen
      BY <2>1, TodoFacts, SeenParent
    <3>4. a \notin Sweep
      BY <1>6, <1>8, <3>2, <3>3, TodoFacts
    <3> QED
      BY <1>5, <1>10, <3>1, <3>2, <3>4
  <2>2. ParentPath(p) = Root => At(p, new) = 0
    BY <1>3 DEF Written
  <2> QED
    BY <2>1, <2>2
<1>15. \A n \in Inodes : rows'[n].path \in Paths =>
         \/ n \in Live \ Sweep /\ rows'[n].parent = rows[n].parent /\ n \notin Stales
         \/ rows'[n].parent = At(rows'[n].path, new) /\ rows'[n].path \in Todo
  BY <1>7, <1>8, <1>10, <1>13
<1>16. \A n \in Inodes : /\ rows'[n].path \in Paths => ParentRow(n)'
                         /\ rows'[n].path \in DirPaths => rows'[n].parent = 0
  <2> SUFFICES ASSUME NEW n \in Inodes, rows'[n].path \in Paths
               PROVE  ParentRow(n)' /\ (rows'[n].path \in DirPaths => rows'[n].parent = 0)
    BY PathKinds
  <2>1. CASE rows'[n].parent = At(rows'[n].path, new) /\ rows'[n].path \in Todo
    <3>1. rows'[n].path \in DirPaths => ParentPath(rows'[n].path) = Root
      BY DirFacts
    <3> QED
      BY <1>14, <2>1, <3>1 DEF ParentRow
  <2>2. CASE n \in Live \ Sweep /\ rows'[n].parent = rows[n].parent /\ n \notin Stales
    <3>1. rows[n].parent \in DirInodes \cup {0} /\ (IsDir(n) => rows[n].parent = 0)
      BY <2>2, LiveFacts DEF RowsInv, RowsParent, GoodRow, IsDir
    <3>2. ASSUME rows[n].parent # 0
          PROVE  rows[n].parent \in Inodes /\ rows'[rows[n].parent].path \in DirPaths
      <4>1. rows[n].parent \in Live /\ rows[rows[n].parent].path \in DirPaths
        BY <3>1, <3>2, LiveFacts
      <4>2. n \in Children(rows[n].parent)
        BY <2>2 DEF Children
      <4>3. rows[n].parent \notin Sweep
        BY <1>6, <2>2, <4>2
      <4> QED
        BY <1>5, <1>8, <1>10, <4>1, <4>3
    <3>3. rows'[n].path = rows[n].path
      BY <1>8, <1>10, <2>2
    <3> QED
      BY <2>2, <3>1, <3>2, <3>3 DEF ParentRow, IsDir
  <2> QED
    BY <1>15, <2>1, <2>2
<1>17. \A p \in Seen : \E n \in Inodes : rows'[n].path = p
  <2> SUFFICES ASSUME NEW p \in Seen PROVE \E n \in Inodes : rows'[n].path = p
    OBVIOUS
  <2>1. CASE ByPath(p) # {}
    <3>1. PICK n \in Live : rows[n].path = p
      BY <2>1 DEF ByPath
    <3>2. n \in Live \ Sweep
      BY <1>6, <3>1 DEF Olds
    <3> QED
      BY <1>5, <1>8, <1>10, <3>1, <3>2
  <2>2. CASE ByPath(p) = {}
    <3>1. PICK n \in N : R[n].path = p
      BY <1>7, <2>2, TodoFacts
    <3> QED
      BY <1>5, <1>10, <3>1
  <2> QED
    BY <2>1, <2>2
<1>18. NamedApart
  <2>1. \A n \in Inodes : rows'[n].path \in Paths =>
          rows'[n].path = R[n].path /\ rows'[n].parent = R[n].parent
    BY <1>10, <1>13
  <2> QED
    BY <1>4, <2>1 DEF NamedApart
<1>19. Refill(Seen, Sweep)
  <2>1. /\ Seen \subseteq Paths /\ Sweep \subseteq Live /\ Todo \subseteq Seen
        /\ \A n \in Inodes \ NewInodes : n \notin Live \ Sweep => rows'[n] = NoRow
    BY <1>5, <1>6, <1>11, TodoFacts
  <2>2. \A n \in Live \ Sweep :
          /\ rows'[n].path = rows[n].path /\ rows'[n].cp = rows[n].cp
          /\ \/ rows'[n].status = rows[n].status
             \/ rows[n].status \notin Unsynced /\ rows'[n].status = "stale"
          /\ IsDir(n) /\ rows[n].listed => rows'[n].listed
    BY <1>8, <1>10 DEF IsDir
  <2>3. \A n \in NewInodes : /\ rows'[n].path \in Seen /\ ByPath(rows'[n].path) = {}
                             /\ rows'[n].status = "remote" /\ rows'[n].cp = Root
    BY <1>5, <1>7, <1>10, <2>1
  <2>4. \A m, n \in NewInodes : rows'[m].path = rows'[n].path => m = n
    BY <1>5, <1>7, <1>10
  <2>5. \A z \in Sweep : rows[z].status \notin Unsynced /\ rows[z].path \notin Seen
    BY <1>6 DEF Olds
  <2> QED
    BY <1>5, <1>12, <1>16, <1>17, <1>18, <2>1, <2>2, <2>3, <2>4, <2>5 DEF Refill
<1>20. \A n \in Live' : n \in Inodes /\ rows'[n].path \in Paths
  <2>1. RowsInv'
    BY <1>19, RefillRows
  <2> QED
    BY <2>1, NoRowFacts DEF RowsInv, Live, GoodRow
<1>21. Polled
  <2>1. ASSUME NEW n \in Live', rows'[n].path \in DirPaths PROVE rows'[n].listed
    BY <1>10, <1>13, <1>20, <2>1
  <2>2. ASSUME NEW n \in Live'
        PROVE  \/ n \in Live \ Sweep /\ rows'[n].parent = rows[n].parent
               \/ PathOf(rows[n].parent)' = ParentPath(rows'[n].path)
    <3>1. CASE rows'[n].parent = At(rows'[n].path, new) /\ rows'[n].path \in Todo
      <4>1. CASE ParentPath(rows'[n].path) = Root
        BY <1>14, <3>1, <4>1 DEF PathOf
      <4>2. CASE ParentPath(rows'[n].path) # Root
        <5>1. /\ rows'[n].parent \in Inodes
              /\ rows'[rows'[n].parent].path = ParentPath(rows'[n].path)
          BY <1>14, <3>1, <4>2
        <5>2. rows'[n].parent # 0
          BY <5>1, NoRowFacts
        <5> QED
          BY <5>1, <5>2 DEF PathOf
      <4> QED
        BY <4>1, <4>2
    <3> QED
      BY <1>15, <1>20, <3>1
  <2> QED
    BY <2>1, <2>2 DEF Polled
<1> QED
  BY <1>19, <1>21

\* A poll that stops at p has given the paths before it the rows, and the parents,
\* that the whole poll would have.
LEMMA PrefixNew ==
  ASSUME NEW T \in SUBSET Paths, NEW x \in Paths, NEW i \in 1 .. Len(NewPaths(Earlier(x, T)))
  PROVE  i \in 1 .. Len(NewPaths(T)) /\ NewPaths(T)[i] = NewPaths(Earlier(x, T))[i]
<1> DEFINE P == Earlier(x, T)
           p == NewPaths(P)[i]
<1>1. P \in SUBSET Paths /\ P \subseteq T
  BY DEF Earlier
<1>2. p \in Rowless(P) /\ Rank(p, Rowless(P)) = i
  BY <1>1, NewPathsFacts
<1>3. p \in Rowless(T) /\ p \in P /\ p \in Paths
  BY <1>1, <1>2 DEF Rowless
<1>4. {q \in Rowless(T) : Place[q] <= Place[p]} = {q \in Rowless(P) : Place[q] <= Place[p]}
  <2>1. Place[p] < Place[x] /\ Place[p] \in Nat /\ Place[x] \in Nat /\ \A q \in T : Place[q] \in Nat
    BY <1>3, PlaceFacts DEF Earlier
  <2>2. ASSUME NEW q \in Rowless(T), Place[q] <= Place[p] PROVE q \in Rowless(P)
    <3>1. q \in T /\ ByPath(q) = {}
      BY DEF Rowless
    <3>2. Place[q] < Place[x]
      BY <2>1, <2>2, <3>1
    <3> QED
      BY <3>1, <3>2 DEF Rowless, Earlier
  <2>3. Rowless(P) \subseteq Rowless(T)
    BY <1>1 DEF Rowless
  <2> QED
    BY <2>2, <2>3
<1>5. Rank(p, Rowless(T)) = i
  BY <1>2, <1>4 DEF Rank
<1> QED
  BY <1>3, <1>5, NewPathsFacts

LEMMA PrefixAt ==
  ASSUME RowsInv, PollInv, NEW x \in Todo, Closed(Earlier(x, Todo)), NEW p \in Earlier(x, Todo)
  PROVE  At(p, NewPaths(Earlier(x, Todo))) = At(p, NewPaths(Todo))
<1> DEFINE P == Earlier(x, Todo)
           new == NewPaths(P)
           all == NewPaths(Todo)
           q == ParentPath(p)
<1>1. CASE q = Root \/ ByPath(q) # {}
  BY <1>1 DEF At, InodeOf
<1>2. CASE q # Root /\ ByPath(q) = {}
  <2>1. q \in P /\ Todo \in SUBSET Paths /\ P \in SUBSET Paths /\ x \in Paths
    BY <1>2, TodoFacts DEF Closed, Earlier
  <2>2. /\ DOMAIN new = 1 .. Len(new)
        /\ \A i, j \in 1 .. Len(new) : new[i] = new[j] => i = j
        /\ \E i \in 1 .. Len(new) : new[i] = q
    BY <1>2, <2>1, NewPathsFacts
  <2>3. DOMAIN all = 1 .. Len(all) /\ \A i, j \in 1 .. Len(all) : all[i] = all[j] => i = j
    BY <2>1, NewPathsFacts
  <2>4. \A i \in 1 .. Len(new) : i \in 1 .. Len(all) /\ all[i] = new[i]
    BY <2>1, PrefixNew
  <2> HIDE DEF new, all
  <2>5. PICK i \in 1 .. Len(new) : new[i] = q
    BY <2>2
  <2>6. (CHOOSE k \in DOMAIN new : new[k] = q) = i
    BY <2>2, <2>5
  <2>7. (CHOOSE k \in DOMAIN all : all[k] = q) = i
    BY <2>3, <2>4, <2>5
  <2>8. InodeOf(q, new) = next + i - 1
    BY <1>2, <2>2, <2>5, <2>6 DEF InodeOf
  <2>9. InodeOf(q, all) = next + i - 1
    BY <1>2, <2>3, <2>4, <2>5, <2>7 DEF InodeOf
  <2> QED
    BY <2>8, <2>9 DEF At, new, all
<1> QED
  BY <1>1, <1>2

LEMMA RefusedRefills ==
  ASSUME RowsInv, PollInv, tombs \subseteq Paths, PollRefused
  PROVE  \E P : Refill(P, {})
<1>1. PICK x \in Todo :
        LET P == Earlier(x, Todo)
            new == NewPaths(P)
        IN /\ \A q \in P : ~Refused(q, Todo, NewPaths(Todo))
           /\ next + Len(new) <= MaxInode + 1 /\ next' = next + Len(new)
           /\ rows' = Upserts(P, new)
  BY DEF PollRefused
<1> DEFINE P == Earlier(x, Todo)
           new == NewPaths(P)
           R == Upserts(P, new)
           N == {n \in Inodes : next <= n /\ n < next + Len(new)}
           all == NewPaths(Todo)
<1>2. Closed(P)
  BY TodoClosed
<1>3. /\ next + Len(new) <= MaxInode + 1 /\ next' = next + Len(new) /\ rows' = R
      /\ \A q \in P : ~Refused(q, Todo, all)
  BY <1>1
<1>4. Len(new) \in Nat /\ Written(P, new, R, N)
  BY <1>2, <1>3, UpsertFacts
<1>5. \A p \in P : At(p, all) = At(p, new)
  BY <1>2, PrefixAt
<1>6. \A p \in P, q \in Todo : Place[q] < Place[p] => q \in P
  <2> SUFFICES ASSUME NEW p \in P, NEW q \in Todo, Place[q] < Place[p] PROVE q \in P
    OBVIOUS
  <2>1. Place[p] < Place[x] /\ p \in Todo
    BY DEF Earlier
  <2>2. Place[p] \in Nat /\ Place[q] \in Nat /\ Place[x] \in Nat
    BY <2>1, PlaceFacts, TodoFacts
  <2>3. Place[q] < Place[x]
    BY <2>1, <2>2
  <2> QED
    BY <2>3 DEF Earlier
<1> HIDE DEF new, R, N, all, P
<1>7. ASSUME NEW m \in Inodes, NEW n \in Inodes, R[m].path \in Paths, R[n].path \in Paths,
             R[m].parent = R[n].parent, Last(R[m].path) = Last(R[n].path)
      PROVE  m = n
  BY <1>2, <1>3, <1>4, <1>5, <1>6, <1>7, UpsertNames
<1>8. NamedApart
  BY <1>3, <1>7 DEF NamedApart
<1>9. /\ next \in Nat /\ next' \in Nat /\ next <= next' /\ next' <= MaxInode + 1
      /\ NewInodes = N /\ Live \subseteq Inodes /\ N \subseteq Inodes
  BY <1>3, <1>4, LiveFacts DEF RowsInv, NewInodes, Written
<1>10. \A p \in P : p \in Paths
  BY <1>2, TodoFacts DEF Closed
<1>11. \A n \in Live : R[n].path = rows[n].path
  BY <1>4 DEF Written
<1>12. \A p \in P : \E n \in Inodes : R[n].path = p
  <2> SUFFICES ASSUME NEW p \in P PROVE \E n \in Inodes : R[n].path = p
    OBVIOUS
  <2>1. CASE ByPath(p) # {}
    BY <1>9, <1>11, <2>1 DEF ByPath
  <2>2. CASE ByPath(p) = {}
    BY <1>4, <1>9, <2>2 DEF Written
  <2> QED
    BY <2>1, <2>2
<1>13. \A n \in Inodes : R[n].path \in Paths => n \in N \/ n \in Live
  BY <1>4, NoRowFacts DEF Written
<1>14. ASSUME NEW n \in Inodes, R[n].path \in Paths
       PROVE  /\ R[n].parent = 0 \/ (R[n].parent \in Inodes /\ R[R[n].parent].path \in DirPaths)
              /\ R[n].path \in DirPaths => R[n].parent = 0
  <2>1. CASE R[n].path \in P /\ R[n].parent = At(R[n].path, new)
    <3>1. PICK p, a : p = R[n].path /\ a = R[n].parent
      OBVIOUS
    <3>2. /\ ParentPath(p) = Root => a = 0
          /\ ParentPath(p) # Root => ParentPath(p) \in DirPaths /\ a \in N \cup Live
                                     /\ R[a].path = ParentPath(p)
      BY <1>4, <2>1, <3>1 DEF Written
    <3>3. p \in DirPaths => ParentPath(p) = Root
      BY DirFacts
    <3> QED
      BY <1>9, <3>1, <3>2, <3>3
  <2>2. CASE n \in Live /\ R[n].parent = rows[n].parent
    <3>1. rows[n].parent \in DirInodes \cup {0} /\ (IsDir(n) => rows[n].parent = 0)
      BY <2>2, LiveFacts DEF RowsInv, RowsParent, GoodRow, IsDir
    <3>2. \A d \in DirInodes : d \in Inodes /\ R[d].path \in DirPaths
      BY <1>11, LiveFacts
    <3> QED
      BY <1>11, <2>2, <3>1, <3>2 DEF IsDir
  <2> QED
    BY <1>4, <1>13, <1>14, <2>1, <2>2 DEF Written
<1>15. \A n \in Inodes : /\ rows'[n].path \in Paths => ParentRow(n)'
                         /\ rows'[n].path \in DirPaths => rows'[n].parent = 0
  BY <1>3, <1>14, PathKinds DEF ParentRow
<1>16. \A n \in Live :
         /\ rows'[n].path = rows[n].path /\ rows'[n].cp = rows[n].cp
         /\ \/ rows'[n].status = rows[n].status
            \/ rows[n].status \notin Unsynced /\ rows'[n].status = "stale"
         /\ rows[n].listed => rows'[n].listed
  BY <1>3, <1>4 DEF Written
<1>17. /\ rows' \in [Inodes -> RowType]
       /\ \A n \in Inodes \ NewInodes : n \notin Live => rows'[n] = NoRow
       /\ \A n \in NewInodes : /\ rows'[n].path \in P /\ ByPath(rows'[n].path) = {}
                               /\ rows'[n].status = "remote" /\ rows'[n].cp = Root
       /\ \A m, n \in NewInodes : rows'[m].path = rows'[n].path => m = n
  BY <1>3, <1>4, <1>9 DEF Written
<1>18. \A p \in P : \E n \in Inodes : rows'[n].path = p
  BY <1>3, <1>12
<1>19. Refill(P, {})
  BY <1>8, <1>9, <1>10, <1>15, <1>16, <1>17, <1>18 DEF Refill
<1> QED
  BY <1>19
-----------------------------------------------------------------------------
(* The invariant of the other variables.                                   *)

SameKind(p, q) == (p \in DirPaths /\ q \in DirPaths) \/ (p \in FilePaths /\ q \in FilePaths)

GoodJob(J) ==
  /\ J \in JobType
  /\ J.op = "none" => J = NoJob
  /\ J.op \in {"mkdir", "rmdir"} => J.path \in DirPaths /\ J.to = Root /\ J.dest = Root
  /\ J.op = "delete" => J.path \in FilePaths /\ J.to = Root /\ J.dest = Root
  /\ J.op = "move" => J.path \in Paths /\ J.dest = Root
  /\ J.op \in {"move", "replace"} /\ J.path # Root => SameKind(J.path, J.to)

\* Operation k's task is jobs[k].
JobsInv ==
  /\ jobs \in [1 .. MaxEvents -> JobType] /\ events \in 0 .. MaxEvents
  /\ \A j \in 1 .. MaxEvents : GoodJob(jobs[j]) /\ (j > events => jobs[j] = NoJob)

UpFits(u, R, N) ==
  /\ u \in UpType
  /\ u # NoUpload =>
       /\ u.inode \in Inodes /\ u.inode < N /\ u.path \in FilePaths /\ u.cp \in FilePaths
       /\ R[u.inode] # NoRow => R[u.inode].path \in FilePaths /\ R[u.inode].cp # Root
UpInv == UpFits(up, rows, next)

ListsInv ==
  /\ ListInv(pop) /\ pop.pc # "list"
  /\ pre \in [Inodes -> ListType]
  /\ \A n \in Inodes : ListInv(pre[n]) /\ (pre[n] # NoList => pre[n].inode = n)

\* A remote file is in a remote directory; contents are numbered as they are made.
StoreInv ==
  /\ cache \in [FilePaths -> 0 .. MaxContents] /\ files \in [FilePaths -> 0 .. MaxContents]
  /\ dirs \subseteq DirPaths /\ TreeOf(files, dirs)
  /\ siblings \subseteq Contents /\ tombs \subseteq Paths
  /\ last \in Contents /\ live \subseteq 1 .. last
  /\ \A p \in FilePaths : files[p] <= last /\ cache[p] <= last

MiscInv ==
  /\ listed \in BOOLEAN /\ faults \in 0 .. MaxFaults
  /\ causes \subseteq {"order", "purge", "dir", "cross", "unsent", "failed", "vanished"}
  /\ refused \in BOOLEAN

SInv == RowsInv /\ JobsInv /\ UpInv /\ PollInv /\ ListsInv /\ StoreInv /\ MiscInv

LEMMA SInvTypes == SInv => TypeOK
<1> SUFFICES ASSUME SInv PROVE TypeOK
  OBVIOUS
<1>1. /\ rows \in [Inodes -> RowType] /\ next \in 1 .. MaxInode + 1
      /\ \A m, n \in Live : rows[m].path = rows[n].path => m = n
      /\ \A m, n \in Live : rows[m].parent = rows[n].parent /\ Name(m) = Name(n) => m = n
      /\ \A n \in Live : rows[n].parent \in DirInodes \cup {0}
  BY DEF SInv, RowsInv, RowsUnique, RowsParent, RowsNamed, Name
<1>2. jobs \in [1 .. MaxEvents -> JobType] /\ events \in 0 .. MaxEvents
  BY DEF SInv, JobsInv
<1>3. up \in UpType /\ poll \in PollType
  BY DEF SInv, UpInv, UpFits, PollInv
<1>4. pop \in ListType /\ pre \in [Inodes -> ListType]
  BY DEF SInv, ListsInv, ListInv, ListFits
<1>5. /\ cache \in [FilePaths -> 0 .. MaxContents] /\ files \in [FilePaths -> 0 .. MaxContents]
      /\ dirs \subseteq DirPaths /\ siblings \subseteq Contents /\ tombs \subseteq Paths
      /\ last \in Contents
  BY DEF SInv, StoreInv
<1>6. live \subseteq Contents
  BY BoundsAssumption DEF SInv, StoreInv, Contents
<1>7. /\ listed \in BOOLEAN /\ faults \in 0 .. MaxFaults
      /\ causes \subseteq {"order", "purge", "dir", "cross", "unsent", "failed", "vanished"}
      /\ refused \in BOOLEAN
  BY DEF SInv, MiscInv
<1> QED
  BY <1>1, <1>2, <1>3, <1>4, <1>5, <1>6, <1>7 DEF TypeOK
-----------------------------------------------------------------------------
(* What each action does to the rows.                                      *)

\* An inode keeps its kind, and the row of an upload its cache path.
RowsKept ==
  /\ next <= next'
  /\ \A n \in Inodes : n < next /\ rows'[n] # NoRow =>
       /\ rows[n] # NoRow
       /\ rows[n].path \in DirPaths => rows'[n].path \in DirPaths
       /\ rows[n].path \in FilePaths => rows'[n].path \in FilePaths
       /\ rows[n].cp # Root => rows'[n].cp # Root \/ up.inode # n

LEMMA SameRowsKept ==
  ASSUME RowsInv, rows' = rows, next' = next PROVE RowsInv' /\ RowsKept
<1>1. next \in Nat
  BY BoundsAssumption DEF RowsInv
<1>2. RowsKept
  BY <1>1 DEF RowsKept
<1>3. RowsInv'
  BY DEF RowsInv, RowsUnique, RowsParent, RowsNamed, Live, DirInodes, IsDir
<1> QED
  BY <1>2, <1>3

LEMMA TouchKept ==
  ASSUME RowsInv, NEW n, NEW r, TouchRow(n, r), rows[n].cp # Root => r.cp # Root \/ up.inode # n
  PROVE  RowsInv' /\ RowsKept
<1>1. RowsInv' /\ rows'[n] = r /\ \A m \in Inodes \ {n} : rows'[m] = rows[m]
  BY TouchRows
<1>2. n \in Live /\ r.path = rows[n].path /\ next' = next /\ next \in Nat
  BY BoundsAssumption DEF TouchRow, RowsInv
<1> QED
  BY <1>1, <1>2 DEF RowsKept, Live

LEMMA RemoveKept ==
  ASSUME RowsInv, NEW n, RemoveRow(n)
  PROVE  RowsInv' /\ RowsKept
<1>1. RowsInv' /\ rows'[n] = NoRow /\ \A m \in Inodes \ {n} : rows'[m] = rows[m]
  BY RemoveRows
<1>2. next' = next /\ next \in Nat
  BY BoundsAssumption DEF RemoveRow, RowsInv
<1> QED
  BY <1>1, <1>2 DEF RowsKept

LEMMA InsertKept ==
  ASSUME RowsInv, NEW r, InsertRow(r)
  PROVE  RowsInv' /\ RowsKept
<1>1. RowsInv' /\ next' = next + 1 /\ next \in Nat /\ \A m \in Inodes \ {next} : rows'[m] = rows[m]
  BY InsertRows, NoRowFacts
<1>2. \A m \in Inodes : m < next => m # next
  BY <1>1, NoRowFacts
<1> QED
  BY <1>1, <1>2 DEF RowsKept

LEMMA MoveKept ==
  ASSUME RowsInv, NEW n, NEW r, NEW Z, MoveRow(n, r, Z), rows[n].cp # Root => r.cp # Root
  PROVE  RowsInv' /\ RowsKept
<1>1. /\ RowsInv' /\ rows'[n] = r
      /\ \A m \in Inodes \ (Z \cup {n}) : rows'[m] = rows[m]
      /\ \A m \in Z : rows'[m] = NoRow
  BY MoveRows
<1>2. /\ n \in Live /\ next' = next /\ next \in Nat /\ (r.path \in DirPaths <=> IsDir(n))
      /\ r.path \in Paths
  BY BoundsAssumption DEF MoveRow, RowsInv, GoodRow
<1>3. rows[n] # NoRow /\ (r.path \in DirPaths <=> rows[n].path \in DirPaths)
  BY <1>2 DEF Live, IsDir
<1>4. r.path \in DirPaths \/ r.path \in FilePaths
  BY <1>2, PathKinds
<1> QED
  BY <1>1, <1>2, <1>3, <1>4, PathKinds DEF RowsKept

LEMMA RefillKept ==
  ASSUME RowsInv, NEW S, NEW Z, Refill(S, Z)
  PROVE  RowsInv' /\ RowsKept
<1>1. RowsInv' /\ Live' = (Live \ Z) \cup NewInodes
  BY RefillRows
<1>2. next <= next' /\ next \in Nat
  BY BoundsAssumption DEF Refill, RowsInv
<1>3. ASSUME NEW n \in Inodes, n < next, rows'[n] # NoRow
      PROVE  n \in Live \ Z /\ rows[n] # NoRow
  <2>1. n \in Live' /\ n \notin NewInodes
    BY <1>2, <1>3, NoRowFacts DEF Live, NewInodes
  <2> QED
    BY <1>1, <2>1 DEF Live
<1>4. \A n \in Live \ Z : rows'[n].path = rows[n].path /\ rows'[n].cp = rows[n].cp
  BY DEF Refill
<1> QED
  BY <1>1, <1>2, <1>3, <1>4 DEF RowsKept

LEMMA LookupFacts ==
  ASSUME NEW parent, NEW name, Named(parent, name) # {}
  PROVE  Lookup(parent, name) \in Named(parent, name)
BY DEF Lookup

LEMMA PathOfFacts ==
  ASSUME RowsInv, NEW parent \in DirInodes \cup {0}
  PROVE  /\ PathOf(parent) \in Dirs /\ (PathOf(parent) = Root <=> parent = 0)
         /\ parent \in 0 .. MaxInode
<1>1. parent # 0 => parent \in Inodes /\ rows[parent].path \in DirPaths
  BY LiveFacts
<1>2. Root \notin DirPaths /\ MaxInode \in Nat /\ \A n \in Inodes : n \in 0 .. MaxInode
  BY PathKinds, NoRowFacts
<1> QED
  BY <1>1, <1>2 DEF PathOf, Dirs
LEMMA CreateRows ==
  ASSUME SInv, NEW parent \in DirInodes \cup {0}, NEW name \in FileNames, Create(parent, name)
  PROVE  LET q == join_remote(PathOf(parent), name) IN
         /\ q \in FilePaths /\ ParentPath(q) = PathOf(parent) /\ Last(q) = name
         /\ ByPath(q) # {} => rows' = rows /\ next' = next
         /\ ByPath(q) = {} => InsertRow(Row(q, parent, "dirty", 0, q))
<1> DEFINE q == join_remote(PathOf(parent), name)
           r == Row(q, parent, "dirty", 0, q)
<1>1. q \in FilePaths /\ ParentPath(q) = PathOf(parent) /\ Last(q) = name
  BY PathOfFacts, JoinFile DEF SInv
<1>2. r.path = q /\ r.parent = parent /\ r.cp = q
  BY DEF Row
<1>3. GoodRow(r)
  <2>1. /\ q \in Paths \cup {Root} /\ parent \in 0 .. MaxInode /\ "dirty" \in Statuses
        /\ 0 \in 0 .. MaxContents /\ q \in FilePaths \cup {Root}
        /\ q \notin DirPaths /\ q # Root /\ q \in Paths
    BY <1>1, PathKinds, PathOfFacts, BoundsAssumption DEF SInv, Statuses
  <2> HIDE DEF q
  <2>2. r \in RowType
    BY <2>1 DEF Row, RowType
  <2> QED
    BY <1>2, <2>1, <2>2 DEF GoodRow
<1>4. ASSUME ByPath(q) = {} PROVE InsertRow(r)
  <2>1. \A m \in Live : ~(rows[m].parent = parent /\ Last(rows[m].path) = name)
    BY DEF Create, Named, Name
  <2> QED
    BY <1>1, <1>2, <1>3, <1>4, <2>1 DEF Create, Insert, InsertRow
<1>5. ASSUME ByPath(q) # {} PROVE rows' = rows /\ next' = next
  BY <1>5 DEF Create
<1> QED
  BY <1>1, <1>4, <1>5

\* Rows that stay where they are and change otherwise.
LEMMA Touched ==
  ASSUME RowsInv, NEW n \in Live, NEW r \in RowType, next' = next,
         rows' = [rows EXCEPT ![n] = r],
         r.path = rows[n].path, r.parent = rows[n].parent,
         IsDir(n) => r.cp = Root /\ r.status \notin Unsynced,
         ~IsDir(n) /\ r.status \in HasFile => r.cp # Root
  PROVE  TouchRow(n, r)
<1>1. /\ rows[n].path \in Paths /\ (IsDir(n) => rows[n].parent = 0)
      /\ ~IsDir(n) <=> rows[n].path \in FilePaths
  BY LiveFacts DEF GoodRow, IsDir
<1>2. GoodRow(r)
  BY <1>1 DEF GoodRow, IsDir
<1> QED
  BY <1>2 DEF TouchRow

LEMMA StatusTouch ==
  ASSUME RowsInv, NEW n \in Live, NEW s \in Statuses, next' = next,
         rows' = [rows EXCEPT ![n].status = s],
         IsDir(n) => s \notin Unsynced,
         ~IsDir(n) /\ s \in HasFile => rows[n].cp # Root
  PROVE  TouchRow(n, [rows[n] EXCEPT !.status = s])
<1> DEFINE r == [rows[n] EXCEPT !.status = s]
<1>1. rows[n] \in RowType /\ (IsDir(n) => rows[n].cp = Root)
  BY RowFields
<1>2. /\ r \in RowType /\ r.path = rows[n].path /\ r.parent = rows[n].parent
      /\ r.cp = rows[n].cp /\ r.status = s
  BY <1>1 DEF RowType
<1>3. rows' = [rows EXCEPT ![n] = r]
  OBVIOUS
<1> HIDE DEF r
<1>4. TouchRow(n, r)
  BY <1>1, <1>2, <1>3, Touched
<1> QED
  BY <1>4 DEF r

LEMMA WriteRows ==
  ASSUME SInv, NEW n \in Live, Write(n)
  PROVE  /\ TouchRow(n, [rows[n] EXCEPT !.status = "dirty"])
         /\ rows[n].path \in FilePaths /\ rows[n].cp \in FilePaths
<1>1. ~IsDir(n) /\ rows[n].status \in HasFile
  BY DEF Write, HasFile
<1>2. rows[n].path \in FilePaths /\ rows[n].cp \in FilePaths
  BY <1>1, RowFields DEF SInv
<1>3. "dirty" \in Statuses /\ rows[n].cp # Root
  BY <1>1, RowFields DEF SInv, Statuses
<1>4. TouchRow(n, [rows[n] EXCEPT !.status = "dirty"])
  BY <1>1, <1>3, StatusTouch DEF SInv, Write
<1> QED
  BY <1>2, <1>4

LEMMA MkdirRows ==
  ASSUME SInv, NEW name \in DirNames, handle_mkdir(name)
  PROVE  /\ ByPath(<<name>>) = {} => InsertRow(Row(<<name>>, 0, "cached", 0, Root))
         /\ ByPath(<<name>>) # {} => rows' = rows /\ next' = next
         /\ <<name>> \in DirPaths
<1> DEFINE r == Row(<<name>>, 0, "cached", 0, Root)
<1>1. <<name>> \in DirPaths /\ <<name>> \notin FilePaths /\ <<name>> \in Paths
  BY PathKinds DEF DirPaths
<1>2. r \in RowType
  BY <1>1, BoundsAssumption DEF Row, RowType, Statuses
<1>3. r.path = <<name>> /\ r.parent = 0 /\ r.cp = Root /\ r.status = "cached"
  BY DEF Row
<1>4. GoodRow(r)
  BY <1>1, <1>2, <1>3 DEF GoodRow, Unsynced
<1>5. \A m \in Live : ~(rows[m].parent = 0 /\ Last(rows[m].path) = Last(<<name>>))
  BY OneName DEF handle_mkdir, Named, Name
<1>6. ASSUME ByPath(<<name>>) = {} PROVE InsertRow(r)
  BY <1>1, <1>3, <1>4, <1>5, <1>6 DEF handle_mkdir, Insert, InsertRow
<1>7. ASSUME ByPath(<<name>>) # {} PROVE rows' = rows /\ next' = next
  BY <1>7 DEF handle_mkdir
<1> QED
  BY <1>1, <1>6, <1>7

LEMMA NoChildren ==
  ASSUME RowsInv, NEW n \in Live, ~IsDir(n)
  PROVE  Children(n) = {}
<1>1. n \notin DirInodes /\ n # 0
  BY LiveFacts, NoRowFacts DEF DirInodes
<1> QED
  BY <1>1 DEF RowsInv, RowsParent, Children

LEMMA UnlinkRows ==
  ASSUME SInv, NEW n \in Live, handle_unlink(n)
  PROVE  RemoveRow(n) /\ rows[n].path \in FilePaths
<1>1. rows[n].path \in FilePaths /\ Children(n) = {}
  BY NoChildren, RowFields DEF SInv, handle_unlink
<1> QED
  BY <1>1 DEF handle_unlink, RemoveRow

LEMMA RmdirRows ==
  ASSUME SInv, NEW n \in Live, handle_rmdir(n)
  PROVE  RemoveRow(n) /\ rows[n].path \in DirPaths
BY DEF handle_rmdir, RemoveRow, CanDelete, IsDir

LEMMA PruneRows ==
  ASSUME SInv, NEW n \in Live, HydratePrunes(n)
  PROVE  RemoveRow(n) /\ rows[n].path \in FilePaths
<1>1. rows[n].path \in FilePaths /\ Children(n) = {}
  BY NoChildren, RowFields DEF SInv, HydratePrunes
<1> QED
  BY <1>1 DEF HydratePrunes, RemoveRow

LEMMA HydrateRows ==
  ASSUME SInv, NEW n \in Live, Hydrate(n)
  PROVE  /\ TouchRow(n, [rows[n] EXCEPT !.status = "cached", !.cp = rows[n].path])
         /\ rows[n].path \in FilePaths
<1> DEFINE r == [rows[n] EXCEPT !.status = "cached", !.cp = rows[n].path]
<1>1. ~IsDir(n) /\ rows[n].path \in FilePaths /\ rows[n] \in RowType
  BY RowFields DEF SInv, Hydrate
<1>2. rows[n].path # Root /\ "cached" \in Statuses
  BY <1>1, PathKinds DEF Statuses
<1>3. /\ r \in RowType /\ r.path = rows[n].path /\ r.parent = rows[n].parent /\ r.cp = rows[n].path
  BY <1>1, <1>2 DEF RowType
<1>4. rows' = [rows EXCEPT ![n] = r] /\ next' = next
  BY DEF Hydrate
<1> HIDE DEF r
<1>5. TouchRow(n, r)
  BY <1>1, <1>2, <1>3, <1>4, Touched DEF SInv
<1> QED
  BY <1>1, <1>5 DEF r
LEMMA StartRows ==
  ASSUME SInv, NEW n \in Live, UploadStart(n)
  PROVE  /\ TouchRow(n, [rows[n] EXCEPT !.status = "uploading"])
         /\ rows[n].path \in FilePaths /\ rows[n].cp \in FilePaths
<1>1. ~IsDir(n) /\ rows[n].status \in HasFile
  BY RowFields DEF SInv, UploadStart, Unsynced, HasFile
<1>2. rows[n].path \in FilePaths /\ rows[n].cp \in FilePaths
  BY <1>1, RowFields DEF SInv
<1>3. "uploading" \in Statuses /\ rows[n].cp # Root
  BY <1>1, RowFields DEF SInv, Statuses
<1>4. TouchRow(n, [rows[n] EXCEPT !.status = "uploading"])
  BY <1>1, <1>3, StatusTouch DEF SInv, UploadStart
<1> QED
  BY <1>2, <1>4

LEMMA RevertRows ==
  ASSUME SInv, NEW n \in Live, UploadReverts(n)
  PROVE  /\ TouchRow(n, [rows[n] EXCEPT !.status = "remote", !.cp = Root])
         /\ rows[n].path \in FilePaths /\ rows[n].cp \in FilePaths
<1> DEFINE r == [rows[n] EXCEPT !.status = "remote", !.cp = Root]
<1>1. ~IsDir(n) /\ rows[n].status \in HasFile
  BY RowFields DEF SInv, UploadReverts, Unsynced, HasFile
<1>2. rows[n].path \in FilePaths /\ rows[n].cp \in FilePaths /\ rows[n] \in RowType
  BY <1>1, RowFields DEF SInv
<1>3. /\ r \in RowType /\ r.path = rows[n].path /\ r.parent = rows[n].parent /\ r.cp = Root
      /\ r.status = "remote"
  BY <1>2 DEF RowType, Statuses
<1>4. rows' = [rows EXCEPT ![n] = r] /\ next' = next
  BY DEF UploadReverts
<1> HIDE DEF r
<1>5. TouchRow(n, r)
  BY <1>1, <1>2, <1>3, <1>4, Touched DEF SInv, HasFile
<1> QED
  BY <1>2, <1>5 DEF r

LEMMA UpRow ==
  ASSUME SInv, up # NoUpload
  PROVE  /\ up.inode \in Inodes /\ up.path \in FilePaths /\ up.cp \in FilePaths
         /\ rows[up.inode] # NoRow =>
              /\ up.inode \in Live /\ rows[up.inode].path \in FilePaths /\ ~IsDir(up.inode)
              /\ rows[up.inode].cp # Root /\ rows[up.inode].cp \in FilePaths
              /\ rows[up.inode] \in RowType
<1>1. /\ up.inode \in Inodes /\ up.path \in FilePaths /\ up.cp \in FilePaths
      /\ rows[up.inode] # NoRow => rows[up.inode].path \in FilePaths /\ rows[up.inode].cp # Root
  BY DEF SInv, UpInv, UpFits
<1>2. rows[up.inode] # NoRow => up.inode \in Live
  BY <1>1 DEF Live
<1>3. \A n \in Live : rows[n] \in RowType /\ rows[n].cp \in FilePaths \cup {Root}
                      /\ (~IsDir(n) <=> rows[n].path \in FilePaths)
  BY RowFields DEF SInv
<1> QED
  BY <1>1, <1>2, <1>3

\* set_uploaded, and what resolve leaves.
Settled(e) == [rows[up.inode] EXCEPT !.status = "cached", !.etag = e]

LEMMA SettledRows ==
  ASSUME SInv, up # NoUpload, rows[up.inode] # NoRow, NEW e \in 0 .. MaxContents,
         rows' = [rows EXCEPT ![up.inode].status = "cached", ![up.inode].etag = e], next' = next
  PROVE  TouchRow(up.inode, Settled(e))
<1> DEFINE n == up.inode
           r == Settled(e)
<1>1. n \in Live /\ ~IsDir(n) /\ rows[n].cp # Root /\ rows[n] \in RowType
  BY UpRow
<1>2. /\ r \in RowType /\ r.path = rows[n].path /\ r.parent = rows[n].parent
      /\ r.cp = rows[n].cp /\ r.status = "cached"
  BY <1>1 DEF RowType, Statuses, Settled
<1>3. rows' = [rows EXCEPT ![n] = r]
  BY DEF Settled
<1> HIDE DEF r, n
<1>4. TouchRow(n, r)
  BY <1>1, <1>2, <1>3, Touched DEF SInv
<1> QED
  BY <1>4 DEF r, n

LEMMA LandsRows ==
  ASSUME SInv, UploadLands
  PROVE  /\ rows[up.inode] = NoRow => rows' = rows /\ next' = next
         /\ rows[up.inode] # NoRow => TouchRow(up.inode, Settled(cache[up.cp]))
<1>1. up # NoUpload /\ next' = next /\ SetUploaded(cache[up.cp])
  BY DEF UploadLands, UploadEnds
<1>2. cache[up.cp] \in 0 .. MaxContents
  BY <1>1, UpRow DEF SInv, StoreInv
<1>3. rows[up.inode] = NoRow => rows' = rows
  BY <1>1 DEF SetUploaded
<1>4. rows[up.inode] # NoRow =>
        rows' = [rows EXCEPT ![up.inode].status = "cached", ![up.inode].etag = cache[up.cp]]
  BY <1>1 DEF SetUploaded
<1> QED
  BY <1>1, <1>2, <1>3, <1>4, SettledRows

LEMMA ConflictRows ==
  ASSUME SInv, UploadConflict
  PROVE  LET r == rows[up.inode] IN
         \/ rows' = rows /\ next' = next /\ cache' = cache
         \/ /\ r # NoRow /\ r.cp # Root /\ files[r.path] # 0 /\ cache[r.cp] # 0
            /\ TouchRow(up.inode, Settled(files[r.path]))
            /\ cache' = [cache EXCEPT ![r.cp] = files[r.path]]
            /\ siblings' = siblings \cup ({cache[r.cp]} \ {files[r.path]})
<1> DEFINE r == rows[up.inode]
<1>1. up # NoUpload /\ next' = next
  BY DEF UploadConflict, UploadEnds
<1>2. CASE r = NoRow \/ r.cp = Root \/ cache[r.cp] = 0
  BY <1>1, <1>2 DEF UploadConflict
<1>3. CASE ~(r = NoRow \/ r.cp = Root \/ cache[r.cp] = 0) /\ files[r.path] = 0
  BY <1>1, <1>3 DEF UploadConflict
<1>4. CASE ~(r = NoRow \/ r.cp = Root \/ cache[r.cp] = 0) /\ files[r.path] # 0
  <2>1. /\ rows' = [rows EXCEPT ![up.inode].status = "cached", ![up.inode].etag = files[r.path]]
        /\ cache' = [cache EXCEPT ![r.cp] = files[r.path]]
        /\ siblings' = siblings \cup ({cache[r.cp]} \ {files[r.path]})
    BY <1>4 DEF UploadConflict
  <2>2. files[r.path] \in 0 .. MaxContents
    BY <1>1, <1>4, UpRow DEF SInv, StoreInv
  <2>3. TouchRow(up.inode, Settled(files[r.path]))
    BY <1>1, <1>4, <2>1, <2>2, SettledRows
  <2> QED
    BY <1>4, <2>1, <2>3
<1> QED
  BY <1>2, <1>3, <1>4

LEMMA FailsRows ==
  ASSUME SInv, UploadFails
  PROVE  /\ rows[up.inode] = NoRow => rows' = rows /\ next' = next
         /\ rows[up.inode] # NoRow => TouchRow(up.inode, [rows[up.inode] EXCEPT !.status = "dirty"])
<1>1. up # NoUpload /\ next' = next
  BY DEF UploadFails, UploadEnds
<1>2. rows[up.inode] = NoRow => rows' = rows
  BY DEF UploadFails
<1>3. ASSUME rows[up.inode] # NoRow
      PROVE  TouchRow(up.inode, [rows[up.inode] EXCEPT !.status = "dirty"])
  <2> DEFINE n == up.inode
  <2>1. n \in Live /\ ~IsDir(n) /\ rows[n].cp # Root
    BY <1>1, <1>3, UpRow
  <2>2. rows' = [rows EXCEPT ![n].status = "dirty"] /\ "dirty" \in Statuses
    BY <1>3 DEF UploadFails, Statuses
  <2> HIDE DEF n
  <2>3. TouchRow(n, [rows[n] EXCEPT !.status = "dirty"])
    BY <1>1, <2>1, <2>2, StatusTouch DEF SInv
  <2> QED
    BY <2>3 DEF n
<1> QED
  BY <1>1, <1>2, <1>3

LEMMA LocalRows ==
  ASSUME SInv, NEW n \in DirInodes, PopulateLocal(n)
  PROVE  TouchRow(n, [rows[n] EXCEPT !.listed = TRUE])
<1> DEFINE r == [rows[n] EXCEPT !.listed = TRUE]
<1>1. n \in Live /\ IsDir(n)
  BY DEF DirInodes
<1>2. rows[n] \in RowType /\ rows[n].cp = Root /\ rows[n].status \notin Unsynced
  BY <1>1, RowFields DEF SInv
<1>3. /\ r \in RowType /\ r.path = rows[n].path /\ r.parent = rows[n].parent
      /\ r.cp = Root /\ r.status = rows[n].status
  BY <1>2 DEF RowType
<1>4. rows' = [rows EXCEPT ![n] = r] /\ next' = next
  BY DEF PopulateLocal
<1> HIDE DEF r
<1>5. TouchRow(n, r)
  BY <1>1, <1>2, <1>3, <1>4, Touched DEF SInv
<1> QED
  BY <1>5 DEF r

LEMMA PopulateRows ==
  ASSUME SInv, PopulateApply
  PROVE  /\ Refill(Wanted(pop), {}) /\ Upserted(pop, Wanted(pop))
         /\ Wanted(pop) \subseteq Entries(pop)
<1>1. Wanted(pop) \in SUBSET Entries(pop)
  BY DEF Wanted
<1>2. /\ ListInv(pop) /\ RowsInv /\ (pop.inode # 0 => rows[pop.inode] # NoRow)
      /\ ~Refuses(pop, Wanted(pop)) /\ BatchUpsert(pop, Wanted(pop))
  BY DEF SInv, ListsInv, PopulateApply
<1> QED
  BY <1>1, <1>2, BatchRefills

LEMMA PrefetchRows ==
  ASSUME SInv, NEW n \in Inodes, PrefetchApply(n)
  PROVE  LET stays == rows[n] = NoRow \/ Refuses(pre[n], Entries(pre[n])) IN
         /\ stays => rows' = rows /\ next' = next
         /\ ~stays => /\ Refill(Entries(pre[n]), {}) /\ Upserted(pre[n], Entries(pre[n]))
                      /\ rows[n] # NoRow
         /\ pre[n].inode = n
<1> DEFINE stays == rows[n] = NoRow \/ Refuses(pre[n], Entries(pre[n]))
<1>1. stays => rows' = rows /\ next' = next
  BY DEF PrefetchApply
<1>2. pre[n].inode = n
  <2>1. pre[n] # NoList
    BY DEF PrefetchApply, NoList
  <2> QED
    BY <2>1 DEF SInv, ListsInv
<1>3. ASSUME ~stays
      PROVE  Refill(Entries(pre[n]), {}) /\ Upserted(pre[n], Entries(pre[n]))
  <2>1. ListInv(pre[n]) /\ RowsInv /\ BatchUpsert(pre[n], Entries(pre[n]))
    BY <1>3 DEF SInv, ListsInv, PrefetchApply
  <2>2. Entries(pre[n]) \in SUBSET Entries(pre[n])
    OBVIOUS
  <2> QED
    BY <1>2, <1>3, <2>1, <2>2, BatchRefills
<1> QED
  BY <1>1, <1>2, <1>3

\* The parts of handle_rename.
Target(parent, name) == join_remote(PathOf(parent), name)
Gone(parent, name) ==
  IF Named(parent, name) # {} /\ CanDelete(Lookup(parent, name)) THEN {Lookup(parent, name)} ELSE {}
CacheMoves(n) == rows[n].cp # Root /\ cache[rows[n].cp] # 0
NewCp(n, name) == IF CacheMoves(n) THEN NewCachePath(rows[n].cp, name) ELSE rows[n].cp
Renamed(n, parent, name) ==
  [rows[n] EXCEPT !.path = Target(parent, name), !.parent = parent, !.cp = NewCp(n, name)]
Taken(n, parent, name) ==
  \E m \in Live \ (Gone(parent, name) \cup {n}) :
    rows[m].path = Target(parent, name) \/ (rows[m].parent = parent /\ Last(rows[m].path) = name)

LEMMA GoneFacts ==
  ASSUME RowsInv, NEW n \in Live, NEW parent \in DirInodes \cup {0}, NEW name,
         n \notin Named(parent, name)
  PROVE  /\ Gone(parent, name) \subseteq Named(parent, name) /\ Gone(parent, name) \subseteq Live
         /\ n \notin Gone(parent, name) /\ parent \notin Gone(parent, name)
         /\ \A z \in Gone(parent, name) : Children(z) = {}
<1>1. Gone(parent, name) \subseteq Named(parent, name)
  BY LookupFacts DEF Gone
<1>2. Named(parent, name) \subseteq Live
  BY DEF Named
<1>3. \A z \in Gone(parent, name) : Children(z) = {}
  BY DEF Gone, CanDelete
<1>4. parent \notin Gone(parent, name)
  <2> SUFFICES ASSUME parent \in Gone(parent, name) PROVE FALSE
    OBVIOUS
  <2>1. parent \in Live /\ rows[parent].parent = parent
    BY <1>1, <1>2 DEF Named
  <2>2. parent # 0
    BY <2>1, LiveFacts, NoRowFacts
  <2>3. IsDir(parent)
    BY <2>2 DEF DirInodes
  <2>4. rows[parent].parent = 0
    BY <2>1, <2>3, RowFields
  <2> QED
    BY <2>1, <2>2, <2>4
<1> QED
  BY <1>1, <1>2, <1>3, <1>4

LEMMA RenameTarget ==
  ASSUME SInv, NEW n \in Live, NEW parent \in DirInodes \cup {0}, NEW name \in FileNames \cup DirNames,
         handle_rename(n, parent, name)
  PROVE  LET to == Target(parent, name) IN
         /\ IsDir(n) => to \in DirPaths /\ parent = 0 /\ NewCp(n, name) = Root
         /\ ~IsDir(n) => to \in FilePaths /\ name \in FileNames
         /\ ParentPath(to) = PathOf(parent) /\ Last(to) = name
         /\ NewCp(n, name) \in FilePaths \cup {Root} /\ (rows[n].cp # Root <=> NewCp(n, name) # Root)
<1> DEFINE to == Target(parent, name)
<1>1. PathOf(parent) \in Dirs /\ (PathOf(parent) = Root <=> parent = 0)
  BY PathOfFacts DEF SInv
<1>2. to \in (IF IsDir(n) THEN DirPaths ELSE FilePaths)
  BY DEF handle_rename, Target
<1>3. ASSUME name \in FileNames PROVE to \in FilePaths /\ ParentPath(to) = PathOf(parent) /\ Last(to) = name
  BY <1>1, <1>3, JoinFile DEF Target
<1>4. ASSUME name \in DirNames
      PROVE  /\ parent = 0 /\ to \in DirPaths /\ ParentPath(to) = PathOf(parent) /\ Last(to) = name
  <2>1. to \in Paths
    BY <1>2, PathKinds
  <2>2. PathOf(parent) = Root
    BY <1>1, <1>4, <2>1, JoinDir DEF Target
  <2>3. to = <<name>> /\ <<name>> \in DirPaths
    BY <1>4, <2>2, JoinDir DEF Target, Dirs
  <2> QED
    BY <1>1, <2>2, <2>3, DirFacts, OneName
<1>5. IsDir(n) => to \in DirPaths /\ parent = 0
  BY <1>2, <1>3, <1>4, PathKinds
<1>6. ~IsDir(n) => to \in FilePaths /\ name \in FileNames
  BY <1>2, <1>3, <1>4, PathKinds
<1>7. /\ NewCp(n, name) \in FilePaths \cup {Root} /\ (rows[n].cp # Root <=> NewCp(n, name) # Root)
      /\ IsDir(n) => NewCp(n, name) = Root
  <2>1. rows[n].cp \in FilePaths \cup {Root} /\ (IsDir(n) => rows[n].cp = Root)
    BY RowFields DEF SInv
  <2>2. CASE CacheMoves(n)
    <3>1. rows[n].cp \in FilePaths /\ ~IsDir(n) /\ rows[n].cp # Root
      BY <2>1, <2>2 DEF CacheMoves
    <3>2. name \in FileNames /\ ParentPath(rows[n].cp) \in Dirs
      BY <1>6, <3>1, FileFacts
    <3>3. NewCp(n, name) \in FilePaths
      BY <2>2, <3>2, JoinFile DEF NewCp, NewCachePath
    <3> QED
      BY <3>1, <3>3, PathKinds
  <2>3. CASE ~CacheMoves(n)
    BY <2>1, <2>3 DEF NewCp
  <2> QED
    BY <2>2, <2>3
<1> QED
  BY <1>3, <1>4, <1>5, <1>6, <1>7

LEMMA RenameRows ==
  ASSUME SInv, NEW n \in Live, NEW parent \in DirInodes \cup {0}, NEW name \in FileNames \cup DirNames,
         handle_rename(n, parent, name)
  PROVE  /\ Taken(n, parent, name) =>
              \/ rows' = rows /\ next' = next /\ Gone(parent, name) = {}
              \/ \E z : Gone(parent, name) = {z} /\ RemoveRow(z)
         /\ ~Taken(n, parent, name) =>
              MoveRow(n, Renamed(n, parent, name), Gone(parent, name))
         /\ refused' = (refused \/ Taken(n, parent, name))
<1> DEFINE to == Target(parent, name)
           D == Named(parent, name)
           dest == Lookup(parent, name)
           Z == Gone(parent, name)
           r == Renamed(n, parent, name)
           kept == IF D # {} /\ CanDelete(dest) THEN [rows EXCEPT ![dest] = NoRow] ELSE rows
<1>1. /\ RowsInv /\ n \in Inodes /\ rows[n] \in RowType /\ rows \in [Inodes -> RowType]
  BY RowFields DEF SInv
<1>2. n \notin D
  BY DEF handle_rename
<1>3. /\ Z \subseteq D /\ Z \subseteq Live /\ n \notin Z /\ parent \notin Z
      /\ \A z \in Z : Children(z) = {}
  BY <1>1, <1>2, GoneFacts
<1>4. /\ next' = next
      /\ IF \E m \in Inodes \ {n} :
              /\ kept[m] # NoRow
              /\ kept[m].path = to \/ (kept[m].parent = parent /\ Last(kept[m].path) = name)
         THEN rows' = kept
         ELSE rows' = [kept EXCEPT ![n].path = to, ![n].parent = parent, ![n].cp = NewCp(n, name)]
      /\ refused' = (refused \/ \E m \in Inodes \ {n} :
              /\ kept[m] # NoRow
              /\ kept[m].path = to \/ (kept[m].parent = parent /\ Last(kept[m].path) = name))
  BY DEF handle_rename, Target, NewCp, CacheMoves
<1>5. kept = [m \in Inodes |-> IF m \in Z THEN NoRow ELSE rows[m]]
  <2>1. CASE D # {} /\ CanDelete(dest)
    <3>1. Z = {dest}
      BY <2>1 DEF Gone
    <3> QED
      BY <1>1, <2>1, <3>1
  <2>2. CASE ~(D # {} /\ CanDelete(dest))
    <3>1. Z = {}
      BY <2>2 DEF Gone
    <3> QED
      BY <1>1, <2>2, <3>1
  <2> QED
    BY <2>1, <2>2
<1> HIDE DEF kept, D, dest, Z
<1>6. Taken(n, parent, name) <=>
        \E m \in Inodes \ {n} :
          /\ kept[m] # NoRow
          /\ kept[m].path = to \/ (kept[m].parent = parent /\ Last(kept[m].path) = name)
  BY <1>5 DEF Taken, Live, Z
<1>7. ASSUME Taken(n, parent, name)
      PROVE  \/ rows' = rows /\ next' = next /\ Z = {}
             \/ \E z : Z = {z} /\ RemoveRow(z)
  <2>1. rows' = kept /\ next' = next
    BY <1>4, <1>6, <1>7
  <2>2. Z = {} \/ Z = {dest}
    BY DEF Z, Gone, dest, D
  <2>3. CASE Z = {}
    <3>1. kept = rows
      BY <1>1, <1>5, <2>3
    <3> QED
      BY <2>1, <2>3, <3>1
  <2>4. CASE Z = {dest}
    <3>1. rows' = [rows EXCEPT ![dest] = NoRow]
      BY <1>1, <1>5, <2>1, <2>4
    <3>2. dest \in Live /\ Children(dest) = {}
      BY <1>3, <2>4
    <3>3. RemoveRow(dest)
      BY <2>1, <3>1, <3>2 DEF RemoveRow
    <3> QED
      BY <2>4, <3>3
  <2> QED
    BY <2>2, <2>3, <2>4
<1>8. ASSUME ~Taken(n, parent, name) PROVE MoveRow(n, r, Z)
  <2>1. rows' = [kept EXCEPT ![n].path = to, ![n].parent = parent, ![n].cp = NewCp(n, name)]
    BY <1>4, <1>6, <1>8
  <2>2. kept[n] = rows[n]
    BY <1>1, <1>3, <1>5
  <2>3. rows' = [kept EXCEPT ![n] = r]
    BY <2>1, <2>2 DEF Renamed
  <2>4. rows' = [m \in Inodes |-> IF m = n THEN r ELSE IF m \in Z THEN NoRow ELSE rows[m]]
    BY <1>1, <1>5, <2>3
  <2>5. /\ IsDir(n) => to \in DirPaths /\ parent = 0 /\ NewCp(n, name) = Root
        /\ ~IsDir(n) => to \in FilePaths
        /\ NewCp(n, name) \in FilePaths \cup {Root} /\ (rows[n].cp # Root <=> NewCp(n, name) # Root)
    BY RenameTarget
  <2>6. /\ r.path = to /\ r.parent = parent /\ r.cp = NewCp(n, name) /\ r.status = rows[n].status
        /\ r \in RowType
    <3>1. to \in Paths \cup {Root} /\ parent \in 0 .. MaxInode
      BY <1>1, <2>5, PathKinds, PathOfFacts
    <3> QED
      BY <1>1, <2>5, <3>1 DEF Renamed, RowType
  <2>7. GoodRow(r)
    <3>1. /\ IsDir(n) => rows[n].status \notin Unsynced
          /\ ~IsDir(n) /\ rows[n].status \in HasFile => rows[n].cp # Root
      BY <1>1, RowFields
    <3>2. to \in Paths /\ (to \in DirPaths <=> IsDir(n)) /\ (to \in FilePaths <=> ~IsDir(n))
      BY <2>5, PathKinds
    <3> HIDE DEF r, to
    <3> QED
      BY <2>5, <2>6, <3>1, <3>2 DEF GoodRow
  <2>8. r.path \in DirPaths <=> IsDir(n)
    BY <2>5, <2>6, PathKinds
  <2>9. \A m \in Live \ (Z \cup {n}) :
          rows[m].path # r.path /\ ~(rows[m].parent = r.parent /\ Last(rows[m].path) = Last(r.path))
    <3>1. Last(to) = name
      BY RenameTarget
    <3> QED
      BY <1>8, <2>6, <3>1 DEF Taken, Z
  <2>10. r.parent \in (DirInodes \ Z) \cup {0}
    BY <1>3, <2>6
  <2> HIDE DEF r
  <2> QED
    BY <1>3, <1>4, <2>4, <2>7, <2>8, <2>9, <2>10 DEF MoveRow
<1>9. refused' = (refused \/ Taken(n, parent, name))
  BY <1>4, <1>6
<1> QED
  BY <1>7, <1>8, <1>9 DEF Z
\* set_uploaded keeps the cache path.
LEMMA SettledKept ==
  ASSUME SInv, up # NoUpload, rows[up.inode] # NoRow, NEW e, TouchRow(up.inode, Settled(e))
  PROVE  RowsInv' /\ RowsKept
<1>1. Settled(e).cp = rows[up.inode].cp
  BY UpRow DEF Settled, RowType
<1> QED
  BY <1>1, TouchKept DEF SInv

\* No step breaks the constraints of file_index or gives an inode twice.
LEMMA RowsStep ==
  ASSUME SInv, [Next]_vars
  PROVE  RowsInv' /\ RowsKept
<1>1. ASSUME NEW parent \in DirInodes \cup {0}, NEW name \in FileNames, Create(parent, name)
      PROVE  RowsInv' /\ RowsKept
  BY <1>1, CreateRows, InsertKept, SameRowsKept DEF SInv
<1>2. ASSUME NEW n \in Live, Write(n) PROVE RowsInv' /\ RowsKept
  <2>1. TouchRow(n, [rows[n] EXCEPT !.status = "dirty"]) /\ RowsInv /\ rows[n] \in RowType
    BY <1>2, WriteRows, RowFields DEF SInv
  <2>2. [rows[n] EXCEPT !.status = "dirty"].cp = rows[n].cp
    BY <2>1 DEF RowType
  <2> QED
    BY <2>1, <2>2, TouchKept
<1>3. ASSUME NEW name \in DirNames, handle_mkdir(name) PROVE RowsInv' /\ RowsKept
  BY <1>3, MkdirRows, InsertKept, SameRowsKept DEF SInv
<1>4. ASSUME NEW n \in Live, handle_unlink(n) PROVE RowsInv' /\ RowsKept
  BY <1>4, UnlinkRows, RemoveKept DEF SInv
<1>5. ASSUME NEW n \in Live, handle_rmdir(n) PROVE RowsInv' /\ RowsKept
  BY <1>5, RmdirRows, RemoveKept DEF SInv
<1>6. ASSUME NEW n \in Live, NEW parent \in DirInodes \cup {0}, NEW name \in FileNames \cup DirNames, handle_rename(n, parent, name)
      PROVE  RowsInv' /\ RowsKept
  <2>1. CASE Taken(n, parent, name)
    BY <1>6, <2>1, RenameRows, RemoveKept, SameRowsKept DEF SInv
  <2>2. CASE ~Taken(n, parent, name)
    <3>1. MoveRow(n, Renamed(n, parent, name), Gone(parent, name)) /\ RowsInv /\ rows[n] \in RowType
      BY <1>6, <2>2, RenameRows, RowFields DEF SInv
    <3>2. Renamed(n, parent, name).cp = NewCp(n, name)
      BY <3>1 DEF Renamed, RowType
    <3>3. rows[n].cp # Root <=> NewCp(n, name) # Root
      BY <1>6, RenameTarget
    <3> QED
      BY <3>1, <3>2, <3>3, MoveKept
  <2> QED
    BY <2>1, <2>2
<1>7. ASSUME NEW j \in Pending, JobMkdir(j) PROVE RowsInv' /\ RowsKept
  BY <1>7, SameRowsKept DEF SInv, JobMkdir, JobStep, local
<1>8. ASSUME NEW j \in Pending, JobDelete(j) PROVE RowsInv' /\ RowsKept
  BY <1>8, SameRowsKept DEF SInv, JobDelete, JobStep, local
<1>9. ASSUME NEW j \in Pending, JobRmdir(j) PROVE RowsInv' /\ RowsKept
  BY <1>9, SameRowsKept DEF SInv, JobRmdir, JobStep, local
<1>10. ASSUME NEW j \in Pending, JobReplace(j) PROVE RowsInv' /\ RowsKept
  BY <1>10, SameRowsKept DEF SInv, JobReplace, JobStep, local
<1>11. ASSUME NEW j \in Pending, JobMove(j) PROVE RowsInv' /\ RowsKept
  BY <1>11, SameRowsKept DEF SInv, JobMove, JobStep, local
<1>12. ASSUME NEW j \in Pending, JobFails(j) PROVE RowsInv' /\ RowsKept
  BY <1>12, SameRowsKept DEF SInv, JobFails, local
<1>13. ASSUME NEW t \in tombs, TombstoneExpires(t) PROVE RowsInv' /\ RowsKept
  BY <1>13, SameRowsKept DEF SInv, TombstoneExpires, local
<1>14. ASSUME Restart PROVE RowsInv' /\ RowsKept
  BY <1>14, SameRowsKept DEF SInv, Restart, local
<1>15. ASSUME NEW n \in Live, Hydrate(n) PROVE RowsInv' /\ RowsKept
  <2>1. /\ TouchRow(n, [rows[n] EXCEPT !.status = "cached", !.cp = rows[n].path])
        /\ rows[n].path \in FilePaths /\ RowsInv /\ rows[n] \in RowType
    BY <1>15, HydrateRows, RowFields DEF SInv
  <2>2. [rows[n] EXCEPT !.status = "cached", !.cp = rows[n].path].cp # Root
    BY <2>1, PathKinds DEF RowType
  <2> QED
    BY <2>1, <2>2, TouchKept
<1>16. ASSUME NEW n \in Live, HydratePrunes(n) PROVE RowsInv' /\ RowsKept
  BY <1>16, PruneRows, RemoveKept DEF SInv
<1>17. ASSUME NEW n \in Live, UploadStart(n) PROVE RowsInv' /\ RowsKept
  <2>1. TouchRow(n, [rows[n] EXCEPT !.status = "uploading"]) /\ RowsInv /\ rows[n] \in RowType
    BY <1>17, StartRows, RowFields DEF SInv
  <2>2. [rows[n] EXCEPT !.status = "uploading"].cp = rows[n].cp
    BY <2>1 DEF RowType
  <2> QED
    BY <2>1, <2>2, TouchKept
<1>18. ASSUME NEW n \in Live, UploadReverts(n) PROVE RowsInv' /\ RowsKept
  <2>1. TouchRow(n, [rows[n] EXCEPT !.status = "remote", !.cp = Root]) /\ RowsInv
    BY <1>18, RevertRows DEF SInv
  <2>2. up.inode # n
    BY <1>18 DEF UploadReverts
  <2> QED
    BY <2>1, <2>2, TouchKept
<1>19. ASSUME UploadLands PROVE RowsInv' /\ RowsKept
  <2>1. CASE rows[up.inode] = NoRow
    BY <1>19, <2>1, LandsRows, SameRowsKept DEF SInv
  <2>2. CASE rows[up.inode] # NoRow
    BY <1>19, <2>2, LandsRows, SettledKept DEF SInv, UploadLands
  <2> QED
    BY <2>1, <2>2
<1>20. ASSUME UploadConflict PROVE RowsInv' /\ RowsKept
  BY <1>20, ConflictRows, SettledKept, SameRowsKept DEF SInv, UploadConflict
<1>21. ASSUME UploadFails PROVE RowsInv' /\ RowsKept
  <2>1. CASE rows[up.inode] = NoRow
    BY <1>21, <2>1, FailsRows, SameRowsKept DEF SInv
  <2>2. CASE rows[up.inode] # NoRow
    <3>1. TouchRow(up.inode, [rows[up.inode] EXCEPT !.status = "dirty"]) /\ rows[up.inode] \in RowType
      BY <1>21, <2>2, FailsRows, UpRow DEF UploadFails
    <3>2. [rows[up.inode] EXCEPT !.status = "dirty"].cp = rows[up.inode].cp
      BY <3>1 DEF RowType
    <3> QED
      BY <3>1, <3>2, TouchKept DEF SInv
  <2> QED
    BY <2>1, <2>2
<1>22. ASSUME PollList PROVE RowsInv' /\ RowsKept
  BY <1>22, SameRowsKept DEF SInv, PollList, local
<1>23. ASSUME PollApply PROVE RowsInv' /\ RowsKept
  BY <1>23, PollRefills, RefillKept DEF SInv, StoreInv
<1>24. ASSUME NEW n \in DirInodes \cup {0}, Populate(n) PROVE RowsInv' /\ RowsKept
  BY <1>24, SameRowsKept DEF SInv, Populate, local
<1>25. ASSUME NEW n \in DirInodes, PopulateLocal(n) PROVE RowsInv' /\ RowsKept
  <2>1. TouchRow(n, [rows[n] EXCEPT !.listed = TRUE]) /\ RowsInv /\ rows[n] \in RowType
    BY <1>25, LocalRows, RowFields DEF SInv, DirInodes
  <2>2. [rows[n] EXCEPT !.listed = TRUE].cp = rows[n].cp
    BY <2>1 DEF RowType
  <2> QED
    BY <2>1, <2>2, TouchKept
<1>26. ASSUME PopulateApply PROVE RowsInv' /\ RowsKept
  BY <1>26, PopulateRows, RefillKept DEF SInv
<1>27. ASSUME PopulateFails PROVE RowsInv' /\ RowsKept
  BY <1>27, SameRowsKept DEF SInv, PopulateFails, local
<1>28. ASSUME NEW n \in Inodes, PrefetchList(n) PROVE RowsInv' /\ RowsKept
  BY <1>28, SameRowsKept DEF SInv, PrefetchList, local
<1>29. ASSUME NEW n \in Inodes, PrefetchApply(n) PROVE RowsInv' /\ RowsKept
  BY <1>29, PrefetchRows, RefillKept, SameRowsKept DEF SInv
<1>31. ASSUME PollRefused PROVE RowsInv' /\ RowsKept
  BY <1>31, RefusedRefills, RefillKept DEF SInv, StoreInv
<1>30. CASE UNCHANGED vars
  BY <1>30, SameRowsKept DEF SInv, vars
<1> QED
  BY <1>1, <1>2, <1>3, <1>4, <1>5, <1>6, <1>7, <1>8, <1>9, <1>10, <1>11, <1>12,
     <1>13, <1>14, <1>15, <1>16, <1>17, <1>18, <1>19, <1>20, <1>21, <1>22,
     <1>23, <1>24, <1>25, <1>26, <1>27, <1>28, <1>29, <1>30, <1>31 DEF Next
\* The tasks of the operations.
LEMMA GoodJobs ==
  /\ GoodJob(NoJob)
  /\ \A p \in DirPaths : GoodJob(Job("mkdir", p)) /\ GoodJob(Job("rmdir", p))
  /\ \A p \in FilePaths : GoodJob(Job("delete", p))
  /\ \A J : GoodJob(J) /\ J.op = "replace" /\ J.path # Root =>
       GoodJob([J EXCEPT !.op = "move", !.dest = Root])
<1>1. GoodJob(NoJob)
  BY DEF GoodJob, NoJob, JobType
<1>2. ASSUME NEW p \in DirPaths PROVE GoodJob(Job("mkdir", p)) /\ GoodJob(Job("rmdir", p))
  <2>1. p \in Paths
    BY PathKinds
  <2>2. \A op \in {"mkdir", "rmdir"} :
          /\ Job(op, p).op = op /\ Job(op, p).path = p /\ Job(op, p) \in JobType
          /\ Job(op, p).to = Root /\ Job(op, p).dest = Root
    BY <2>1 DEF Job, NoJob, JobType
  <2> QED
    BY <2>2 DEF GoodJob
<1>3. ASSUME NEW p \in FilePaths PROVE GoodJob(Job("delete", p))
  <2>1. p \in Paths
    BY PathKinds
  <2>2. /\ Job("delete", p).op = "delete" /\ Job("delete", p).path = p
        /\ Job("delete", p).to = Root /\ Job("delete", p).dest = Root
        /\ Job("delete", p) \in JobType
    BY <2>1 DEF Job, NoJob, JobType
  <2> QED
    BY <2>2 DEF GoodJob
<1>4. ASSUME NEW J, GoodJob(J), J.op = "replace", J.path # Root
      PROVE  GoodJob([J EXCEPT !.op = "move", !.dest = Root])
  <2> DEFINE K == [J EXCEPT !.op = "move", !.dest = Root]
  <2>1. J \in JobType /\ SameKind(J.path, J.to)
    BY <1>4 DEF GoodJob
  <2>2. K \in JobType /\ K.op = "move" /\ K.path = J.path /\ K.to = J.to /\ K.dest = Root
    BY <2>1 DEF JobType
  <2>3. J.path \in Paths
    BY <2>1, PathKinds DEF SameKind
  <2> HIDE DEF K
  <2>4. GoodJob(K)
    BY <2>1, <2>2, <2>3 DEF GoodJob
  <2> QED
    BY <2>4 DEF K
<1> QED
  BY <1>1, <1>2, <1>3, <1>4

LEMMA SameJobs ==
  ASSUME JobsInv, jobs' = jobs, events' = events PROVE JobsInv'
BY DEF JobsInv

LEMMA NextJobs ==
  ASSUME JobsInv, jobs' = jobs, UserStep PROVE JobsInv'
<1>1. events' \in 0 .. MaxEvents /\ events' >= events /\ events' \in Nat /\ events \in Nat
  BY BoundsAssumption DEF JobsInv, UserStep
<1>2. \A j \in 1 .. MaxEvents : j > events' => j > events
  BY <1>1, BoundsAssumption
<1> QED
  BY <1>1, <1>2 DEF JobsInv

LEMMA Spawned ==
  ASSUME JobsInv, events < MaxEvents, events' = events + 1, NEW J, GoodJob(J), Spawn(J)
  PROVE  JobsInv'
<1>1. events' \in 0 .. MaxEvents /\ events + 1 \in 1 .. MaxEvents /\ events \in Nat
  BY BoundsAssumption DEF JobsInv
<1>2. jobs' = [jobs EXCEPT ![events + 1] = J] /\ J \in JobType
  BY DEF Spawn, GoodJob
<1>3. jobs' \in [1 .. MaxEvents -> JobType]
  BY <1>2 DEF JobsInv
<1>4. \A j \in 1 .. MaxEvents : jobs'[j] = IF j = events + 1 THEN J ELSE jobs[j]
  BY <1>1, <1>2 DEF JobsInv
<1>5. \A j \in 1 .. MaxEvents : j > events' => j > events /\ j # events + 1
  BY <1>1, BoundsAssumption
<1> QED
  BY <1>1, <1>3, <1>4, <1>5 DEF JobsInv

LEMMA JobChanged ==
  ASSUME JobsInv, NEW j \in Pending, NEW J, GoodJob(J), events' = events,
         jobs' = [jobs EXCEPT ![j] = J]
  PROVE  JobsInv'
<1>1. j \in 1 .. MaxEvents /\ jobs[j] # NoJob
  BY DEF Pending, JobsInv, NoJob
<1>2. J \in JobType
  BY DEF GoodJob
<1>3. jobs' \in [1 .. MaxEvents -> JobType]
  BY <1>2 DEF JobsInv
<1>4. \A k \in 1 .. MaxEvents : jobs'[k] = IF k = j THEN J ELSE jobs[k]
  BY <1>1 DEF JobsInv
<1>5. ~(j > events)
  BY <1>1 DEF JobsInv
<1> QED
  BY <1>3, <1>4, <1>5 DEF JobsInv

LEMMA PendingJob ==
  ASSUME JobsInv, NEW j \in Pending
  PROVE  j \in 1 .. MaxEvents /\ GoodJob(jobs[j]) /\ jobs[j] \in JobType /\ j <= events
<1>1. j \in 1 .. MaxEvents /\ jobs[j] # NoJob
  BY DEF Pending, JobsInv, NoJob
<1>2. ~(j > events)
  BY <1>1 DEF JobsInv
<1> QED
  BY <1>1, <1>2, BoundsAssumption DEF JobsInv

\* The task of a rename, if there is one.
RenameJob(n, parent, name) ==
  [op   |-> IF Named(parent, name) # {} THEN "replace" ELSE "move",
   path |-> IF NeedsRemoteRename(rows[n].status) THEN rows[n].path ELSE Root,
   to   |-> IF NeedsRemoteRename(rows[n].status) THEN Target(parent, name) ELSE Root,
   dest |-> IF Named(parent, name) # {} THEN rows[Lookup(parent, name)].path ELSE Root]

LEMMA RenameJobs ==
  ASSUME SInv, NEW n \in Live, NEW parent \in DirInodes \cup {0}, NEW name \in FileNames \cup DirNames,
         handle_rename(n, parent, name)
  PROVE  \/ jobs' = jobs /\ tombs' \in {tombs, tombs \cup {rows[n].path}}
         \/ /\ GoodJob(RenameJob(n, parent, name)) /\ Spawn(RenameJob(n, parent, name))
            /\ tombs' \in {tombs, tombs \cup {rows[n].path}}
<1> DEFINE D == Named(parent, name)
           sends == NeedsRemoteRename(rows[n].status)
           J == RenameJob(n, parent, name)
           to == Target(parent, name)
<1>1. /\ jobs' = jobs \/ ((sends \/ D # {}) /\ Spawn(J))
      /\ tombs' \in {tombs, tombs \cup {rows[n].path}}
  BY DEF handle_rename, RenameJob, Target
<1>2. ASSUME sends \/ D # {} PROVE GoodJob(J)
  <2>1. SameKind(rows[n].path, to) /\ rows[n].path \in Paths /\ to \in Paths /\ Root \notin Paths
    BY RenameTarget, RowFields, PathKinds DEF SInv, SameKind, IsDir
  <2>2. D # {} => rows[Lookup(parent, name)].path \in Paths
    BY LookupFacts, RowFields DEF SInv, Named
  <2>3. /\ J.op = IF D # {} THEN "replace" ELSE "move"
        /\ J.path = IF sends THEN rows[n].path ELSE Root
        /\ J.to = IF sends THEN to ELSE Root
        /\ J.dest = IF D # {} THEN rows[Lookup(parent, name)].path ELSE Root
        /\ J = [op |-> J.op, path |-> J.path, to |-> J.to, dest |-> J.dest]
    BY DEF RenameJob
  <2> HIDE DEF J, D, sends, to
  <2>4. J \in JobType
    BY <2>1, <2>2, <2>3 DEF JobType
  <2>5. J.op = "move" => sends
    BY <1>2, <2>3
  <2> QED
    BY <2>1, <2>3, <2>4, <2>5 DEF GoodJob
<1> QED
  BY <1>1, <1>2

LEMMA JobsStep ==
  ASSUME SInv, [Next]_vars
  PROVE  JobsInv'
<1>1. ASSUME NEW parent \in DirInodes \cup {0}, NEW name \in FileNames, Create(parent, name)
      PROVE  JobsInv'
  BY <1>1, NextJobs DEF SInv, Create
<1>2. ASSUME NEW n \in Live, Write(n) PROVE JobsInv'
  BY <1>2, NextJobs DEF SInv, Write
<1>3. ASSUME NEW name \in DirNames, handle_mkdir(name) PROVE JobsInv'
  <2>1. UserStep /\ JobsInv
    BY <1>3 DEF handle_mkdir, SInv
  <2>2. events < MaxEvents /\ events' = events + 1
    BY <2>1 DEF UserStep
  <2>3. jobs' = jobs \/ Spawn(Job("mkdir", <<name>>))
    BY <1>3 DEF handle_mkdir
  <2>4. GoodJob(Job("mkdir", <<name>>))
    BY <1>3, MkdirRows, GoodJobs
  <2> QED
    BY <2>1, <2>2, <2>3, <2>4, Spawned, NextJobs
<1>4. ASSUME NEW n \in Live, handle_unlink(n) PROVE JobsInv'
  BY <1>4, UnlinkRows, GoodJobs, Spawned DEF SInv, handle_unlink, UserStep
<1>5. ASSUME NEW n \in Live, handle_rmdir(n) PROVE JobsInv'
  BY <1>5, RmdirRows, GoodJobs, Spawned DEF SInv, handle_rmdir, UserStep
<1>6. ASSUME NEW n \in Live, NEW parent \in DirInodes \cup {0}, NEW name \in FileNames \cup DirNames, handle_rename(n, parent, name)
      PROVE  JobsInv'
  <2>1. UserStep /\ JobsInv
    BY <1>6 DEF handle_rename, SInv
  <2>2. events < MaxEvents /\ events' = events + 1
    BY <2>1 DEF UserStep
  <2> QED
    BY <1>6, <2>1, <2>2, RenameJobs, Spawned, NextJobs
<1>7. ASSUME NEW j \in Pending, JobMkdir(j) PROVE JobsInv'
  BY <1>7, GoodJobs, JobChanged DEF SInv, JobMkdir, JobStep
<1>8. ASSUME NEW j \in Pending, JobDelete(j) PROVE JobsInv'
  BY <1>8, GoodJobs, JobChanged DEF SInv, JobDelete, JobStep
<1>9. ASSUME NEW j \in Pending, JobRmdir(j) PROVE JobsInv'
  BY <1>9, GoodJobs, JobChanged DEF SInv, JobRmdir, JobStep
<1>10. ASSUME NEW j \in Pending, JobReplace(j) PROVE JobsInv'
  <2> DEFINE J == IF jobs[j].path = Root THEN NoJob
                ELSE [jobs[j] EXCEPT !.op = "move", !.dest = Root]
  <2>1. jobs' = [jobs EXCEPT ![j] = J] /\ events' = events /\ JobsInv /\ jobs[j].op = "replace"
    BY <1>10 DEF JobReplace, JobStep, SInv
  <2>2. GoodJob(J)
    BY <1>10, <2>1, PendingJob, GoodJobs
  <2> HIDE DEF J
  <2> QED
    BY <1>10, <2>1, <2>2, JobChanged
<1>11. ASSUME NEW j \in Pending, JobMove(j) PROVE JobsInv'
  BY <1>11, GoodJobs, JobChanged DEF SInv, JobMove, JobStep
<1>12. ASSUME NEW j \in Pending, JobFails(j) PROVE JobsInv'
  <2> DEFINE J == IF jobs[j].op = "replace" /\ jobs[j].path # Root
                THEN [jobs[j] EXCEPT !.op = "move", !.dest = Root] ELSE NoJob
  <2>1. jobs' = [jobs EXCEPT ![j] = J] /\ events' = events /\ JobsInv
    BY <1>12 DEF JobFails, SInv
  <2>2. GoodJob(J)
    BY <1>12, <2>1, PendingJob, GoodJobs
  <2> HIDE DEF J
  <2> QED
    BY <1>12, <2>1, <2>2, JobChanged
<1>13. ASSUME NEW t \in tombs, TombstoneExpires(t) PROVE JobsInv'
  BY <1>13, SameJobs DEF SInv, TombstoneExpires
<1>14. ASSUME Restart PROVE JobsInv'
  <2>1. jobs' = [j \in 1 .. MaxEvents |-> NoJob] /\ events' = events
    BY <1>14 DEF Restart, SInv, JobsInv
  <2>2. GoodJob(NoJob) /\ NoJob \in JobType
    BY GoodJobs DEF GoodJob
  <2> QED
    BY <2>1, <2>2 DEF SInv, JobsInv
<1>15. ASSUME NEW n \in Live, Hydrate(n) PROVE JobsInv'
  BY <1>15, NextJobs DEF SInv, Hydrate
<1>16. ASSUME NEW n \in Live, HydratePrunes(n) PROVE JobsInv'
  BY <1>16, NextJobs DEF SInv, HydratePrunes
<1>17. ASSUME NEW n \in Live, UploadStart(n) PROVE JobsInv'
  BY <1>17, SameJobs DEF SInv, UploadStart
<1>18. ASSUME NEW n \in Live, UploadReverts(n) PROVE JobsInv'
  BY <1>18, SameJobs DEF SInv, UploadReverts
<1>19. ASSUME UploadLands PROVE JobsInv'
  BY <1>19, SameJobs DEF SInv, UploadLands, UploadEnds
<1>20. ASSUME UploadConflict PROVE JobsInv'
  BY <1>20, SameJobs DEF SInv, UploadConflict, UploadEnds
<1>21. ASSUME UploadFails PROVE JobsInv'
  BY <1>21, SameJobs DEF SInv, UploadFails, UploadEnds
<1>22. ASSUME PollList PROVE JobsInv'
  BY <1>22, SameJobs DEF SInv, PollList
<1>23. ASSUME PollApply PROVE JobsInv'
  BY <1>23, SameJobs DEF SInv, PollApply
<1>24. ASSUME NEW n \in DirInodes \cup {0}, Populate(n) PROVE JobsInv'
  BY <1>24, SameJobs DEF SInv, Populate
<1>25. ASSUME NEW n \in DirInodes, PopulateLocal(n) PROVE JobsInv'
  BY <1>25, SameJobs DEF SInv, PopulateLocal
<1>26. ASSUME PopulateApply PROVE JobsInv'
  BY <1>26, SameJobs DEF SInv, PopulateApply
<1>27. ASSUME PopulateFails PROVE JobsInv'
  BY <1>27, SameJobs DEF SInv, PopulateFails
<1>28. ASSUME NEW n \in Inodes, PrefetchList(n) PROVE JobsInv'
  BY <1>28, SameJobs DEF SInv, PrefetchList
<1>29. ASSUME NEW n \in Inodes, PrefetchApply(n) PROVE JobsInv'
  BY <1>29, SameJobs DEF SInv, PrefetchApply
<1>31. ASSUME PollRefused PROVE JobsInv'
  BY <1>31, SameJobs DEF SInv, PollRefused
<1>30. CASE UNCHANGED vars
  BY <1>30, SameJobs DEF SInv, vars
<1> QED
  BY <1>1, <1>2, <1>3, <1>4, <1>5, <1>6, <1>7, <1>8, <1>9, <1>10, <1>11, <1>12,
     <1>13, <1>14, <1>15, <1>16, <1>17, <1>18, <1>19, <1>20, <1>21, <1>22,
     <1>23, <1>24, <1>25, <1>26, <1>27, <1>28, <1>29, <1>30, <1>31 DEF Next
LEMMA UpKept ==
  ASSUME SInv, RowsKept, RowsInv', up' = up PROVE UpInv'
<1>1. CASE up = NoUpload
  BY <1>1 DEF SInv, UpInv, UpFits
<1>2. CASE up # NoUpload
  <2>0. next \in 1 .. MaxInode + 1 /\ next' \in 1 .. MaxInode + 1 /\ next <= next'
    BY DEF SInv, RowsInv, RowsKept
  <2>1. up.inode \in Inodes /\ up.inode < next
    BY <1>2 DEF SInv, UpInv, UpFits
  <2>2. up.inode < next'
    BY <2>0, <2>1, BoundsAssumption DEF Inodes
  <2>3. rows'[up.inode] # NoRow => rows'[up.inode].path \in FilePaths /\ rows'[up.inode].cp # Root
    BY <1>2, <2>1 DEF SInv, UpInv, UpFits, RowsKept
  <2>4. up \in UpType /\ up.path \in FilePaths /\ up.cp \in FilePaths
    BY <1>2 DEF SInv, UpInv, UpFits
  <2> QED
    BY <1>2, <2>1, <2>2, <2>3, <2>4 DEF UpInv, UpFits
<1> QED
  BY <1>1, <1>2

LEMMA UpDone == ASSUME up' = NoUpload PROVE UpInv'
BY BoundsAssumption DEF UpInv, UpFits, UpType, NoUpload

LEMMA UpStep ==
  ASSUME SInv, [Next]_vars, RowsKept, RowsInv'
  PROVE  UpInv'
<1>1. ASSUME NEW parent \in DirInodes \cup {0}, NEW name \in FileNames, Create(parent, name)
      PROVE  UpInv'
  BY <1>1, UpKept DEF Create, UserStep
<1>2. ASSUME NEW n \in Live, Write(n) PROVE UpInv'
  BY <1>2, UpKept DEF Write, UserStep
<1>3. ASSUME NEW name \in DirNames, handle_mkdir(name) PROVE UpInv'
  BY <1>3, UpKept DEF handle_mkdir, UserStep
<1>4. ASSUME NEW n \in Live, handle_unlink(n) PROVE UpInv'
  BY <1>4, UpKept DEF handle_unlink, UserStep
<1>5. ASSUME NEW n \in Live, handle_rmdir(n) PROVE UpInv'
  BY <1>5, UpKept DEF handle_rmdir, UserStep
<1>6. ASSUME NEW n \in Live, NEW parent \in DirInodes \cup {0}, NEW name \in FileNames \cup DirNames, handle_rename(n, parent, name)
      PROVE  UpInv'
  BY <1>6, UpKept DEF handle_rename, UserStep
<1>7. ASSUME NEW j \in Pending, JobMkdir(j) PROVE UpInv'
  BY <1>7, UpKept DEF JobMkdir, JobStep, tasks
<1>8. ASSUME NEW j \in Pending, JobDelete(j) PROVE UpInv'
  BY <1>8, UpKept DEF JobDelete, JobStep, tasks
<1>9. ASSUME NEW j \in Pending, JobRmdir(j) PROVE UpInv'
  BY <1>9, UpKept DEF JobRmdir, JobStep, tasks
<1>10. ASSUME NEW j \in Pending, JobReplace(j) PROVE UpInv'
  BY <1>10, UpKept DEF JobReplace, JobStep, tasks
<1>11. ASSUME NEW j \in Pending, JobMove(j) PROVE UpInv'
  BY <1>11, UpKept DEF JobMove, JobStep, tasks
<1>12. ASSUME NEW j \in Pending, JobFails(j) PROVE UpInv'
  BY <1>12, UpKept DEF JobFails, tasks
<1>13. ASSUME NEW t \in tombs, TombstoneExpires(t) PROVE UpInv'
  BY <1>13, UpKept DEF TombstoneExpires, tasks
<1>14. ASSUME Restart PROVE UpInv'
  BY <1>14, UpDone DEF Restart
<1>15. ASSUME NEW n \in Live, Hydrate(n) PROVE UpInv'
  BY <1>15, UpKept DEF Hydrate, UserStep
<1>16. ASSUME NEW n \in Live, HydratePrunes(n) PROVE UpInv'
  BY <1>16, UpKept DEF HydratePrunes, UserStep
<1>17. ASSUME NEW n \in Live, UploadStart(n) PROVE UpInv'
  <2> DEFINE r == [rows[n] EXCEPT !.status = "uploading"]
  <2>1. /\ TouchRow(n, r) /\ rows[n].path \in FilePaths /\ rows[n].cp \in FilePaths
        /\ RowsInv /\ n \in Live
    BY <1>17, StartRows DEF SInv
  <2>2. n \in Inodes /\ n < next /\ rows[n] \in RowType
    BY <2>1, LiveFacts, RowFields
  <2>3. rows'[n] = r /\ next' = next
    BY <2>1, TouchRows DEF TouchRow
  <2>4. r.path = rows[n].path /\ r.cp = rows[n].cp
    BY <2>2 DEF RowType
  <2>5. up' = [inode |-> n, path |-> rows[n].path, cp |-> rows[n].cp, etag |-> rows[n].etag]
    BY <1>17 DEF UploadStart
  <2>6. /\ up'.inode = n /\ up'.path \in FilePaths /\ up'.cp \in FilePaths /\ up' \in UpType
    BY <2>1, <2>2, <2>5, RowFields, NoRowFacts DEF UpType, Inodes
  <2> HIDE DEF r
  <2> QED
    BY <2>1, <2>2, <2>3, <2>4, <2>6, PathKinds DEF UpInv, UpFits
<1>18. ASSUME NEW n \in Live, UploadReverts(n) PROVE UpInv'
  BY <1>18, UpKept DEF UploadReverts, tasks
<1>19. ASSUME UploadLands PROVE UpInv'
  BY <1>19, UpDone DEF UploadLands, UploadEnds
<1>20. ASSUME UploadConflict PROVE UpInv'
  BY <1>20, UpDone DEF UploadConflict, UploadEnds
<1>21. ASSUME UploadFails PROVE UpInv'
  BY <1>21, UpDone DEF UploadFails, UploadEnds
<1>22. ASSUME PollList PROVE UpInv'
  BY <1>22, UpKept DEF PollList
<1>23. ASSUME PollApply PROVE UpInv'
  BY <1>23, UpKept DEF PollApply
<1>24. ASSUME NEW n \in DirInodes \cup {0}, Populate(n) PROVE UpInv'
  BY <1>24, UpKept DEF Populate
<1>25. ASSUME NEW n \in DirInodes, PopulateLocal(n) PROVE UpInv'
  BY <1>25, UpKept DEF PopulateLocal, tasks
<1>26. ASSUME PopulateApply PROVE UpInv'
  BY <1>26, UpKept DEF PopulateApply
<1>27. ASSUME PopulateFails PROVE UpInv'
  BY <1>27, UpKept DEF PopulateFails
<1>28. ASSUME NEW n \in Inodes, PrefetchList(n) PROVE UpInv'
  BY <1>28, UpKept DEF PrefetchList
<1>29. ASSUME NEW n \in Inodes, PrefetchApply(n) PROVE UpInv'
  BY <1>29, UpKept DEF PrefetchApply
<1>31. ASSUME PollRefused PROVE UpInv'
  BY <1>31, UpKept DEF PollRefused
<1>30. CASE UNCHANGED vars
  BY <1>30, UpKept DEF vars
<1> QED
  BY <1>1, <1>2, <1>3, <1>4, <1>5, <1>6, <1>7, <1>8, <1>9, <1>10, <1>11, <1>12,
     <1>13, <1>14, <1>15, <1>16, <1>17, <1>18, <1>19, <1>20, <1>21, <1>22,
     <1>23, <1>24, <1>25, <1>26, <1>27, <1>28, <1>29, <1>30, <1>31 DEF Next

LEMMA PollSame == ASSUME PollInv, poll' = poll PROVE PollInv'
BY DEF PollInv

LEMMA PollDone == ASSUME poll' = NoPoll PROVE PollInv'
BY BoundsAssumption DEF PollInv, PollType, NoPoll, TreeOf

LEMMA PollStep ==
  ASSUME SInv, [Next]_vars
  PROVE  PollInv'
<1>1. ASSUME NEW parent \in DirInodes \cup {0}, NEW name \in FileNames, Create(parent, name)
      PROVE  PollInv'
  BY <1>1, PollSame DEF SInv, Create, UserStep
<1>2. ASSUME NEW n \in Live, Write(n) PROVE PollInv'
  BY <1>2, PollSame DEF SInv, Write, UserStep
<1>3. ASSUME NEW name \in DirNames, handle_mkdir(name) PROVE PollInv'
  BY <1>3, PollSame DEF SInv, handle_mkdir, UserStep
<1>4. ASSUME NEW n \in Live, handle_unlink(n) PROVE PollInv'
  BY <1>4, PollSame DEF SInv, handle_unlink, UserStep
<1>5. ASSUME NEW n \in Live, handle_rmdir(n) PROVE PollInv'
  BY <1>5, PollSame DEF SInv, handle_rmdir, UserStep
<1>6. ASSUME NEW n \in Live, NEW parent \in DirInodes \cup {0}, NEW name \in FileNames \cup DirNames, handle_rename(n, parent, name)
      PROVE  PollInv'
  BY <1>6, PollSame DEF SInv, handle_rename, UserStep
<1>7. ASSUME NEW j \in Pending, JobMkdir(j) PROVE PollInv'
  BY <1>7, PollSame DEF SInv, JobMkdir, JobStep, tasks
<1>8. ASSUME NEW j \in Pending, JobDelete(j) PROVE PollInv'
  BY <1>8, PollSame DEF SInv, JobDelete, JobStep, tasks
<1>9. ASSUME NEW j \in Pending, JobRmdir(j) PROVE PollInv'
  BY <1>9, PollSame DEF SInv, JobRmdir, JobStep, tasks
<1>10. ASSUME NEW j \in Pending, JobReplace(j) PROVE PollInv'
  BY <1>10, PollSame DEF SInv, JobReplace, JobStep, tasks
<1>11. ASSUME NEW j \in Pending, JobMove(j) PROVE PollInv'
  BY <1>11, PollSame DEF SInv, JobMove, JobStep, tasks
<1>12. ASSUME NEW j \in Pending, JobFails(j) PROVE PollInv'
  BY <1>12, PollSame DEF SInv, JobFails, tasks
<1>13. ASSUME NEW t \in tombs, TombstoneExpires(t) PROVE PollInv'
  BY <1>13, PollSame DEF SInv, TombstoneExpires, tasks
<1>14. ASSUME Restart PROVE PollInv'
  BY <1>14, PollDone DEF Restart
<1>15. ASSUME NEW n \in Live, Hydrate(n) PROVE PollInv'
  BY <1>15, PollSame DEF SInv, Hydrate, UserStep
<1>16. ASSUME NEW n \in Live, HydratePrunes(n) PROVE PollInv'
  BY <1>16, PollSame DEF SInv, HydratePrunes, UserStep
<1>17. ASSUME NEW n \in Live, UploadStart(n) PROVE PollInv'
  BY <1>17, PollSame DEF SInv, UploadStart
<1>18. ASSUME NEW n \in Live, UploadReverts(n) PROVE PollInv'
  BY <1>18, PollSame DEF SInv, UploadReverts, tasks
<1>19. ASSUME UploadLands PROVE PollInv'
  BY <1>19, PollSame DEF SInv, UploadLands, UploadEnds
<1>20. ASSUME UploadConflict PROVE PollInv'
  BY <1>20, PollSame DEF SInv, UploadConflict, UploadEnds
<1>21. ASSUME UploadFails PROVE PollInv'
  BY <1>21, PollSame DEF SInv, UploadFails, UploadEnds
<1>22. ASSUME PollList PROVE PollInv'
  <2>1. poll' = [pc |-> "apply", files |-> files, dirs |-> dirs] /\ StoreInv
    BY <1>22 DEF PollList, SInv
  <2>2. poll'.files = files /\ poll'.dirs = dirs /\ poll' \in PollType
    BY <2>1 DEF PollType, StoreInv
  <2> QED
    BY <2>1, <2>2 DEF PollInv, StoreInv
<1>23. ASSUME PollApply PROVE PollInv'
  BY <1>23, PollDone DEF PollApply
<1>24. ASSUME NEW n \in DirInodes \cup {0}, Populate(n) PROVE PollInv'
  BY <1>24, PollSame DEF SInv, Populate
<1>25. ASSUME NEW n \in DirInodes, PopulateLocal(n) PROVE PollInv'
  BY <1>25, PollSame DEF SInv, PopulateLocal, tasks
<1>26. ASSUME PopulateApply PROVE PollInv'
  BY <1>26, PollSame DEF SInv, PopulateApply
<1>27. ASSUME PopulateFails PROVE PollInv'
  BY <1>27, PollSame DEF SInv, PopulateFails
<1>28. ASSUME NEW n \in Inodes, PrefetchList(n) PROVE PollInv'
  BY <1>28, PollSame DEF SInv, PrefetchList
<1>29. ASSUME NEW n \in Inodes, PrefetchApply(n) PROVE PollInv'
  BY <1>29, PollSame DEF SInv, PrefetchApply
<1>31. ASSUME PollRefused PROVE PollInv'
  BY <1>31, PollDone DEF PollRefused
<1>30. CASE UNCHANGED vars
  BY <1>30, PollSame DEF SInv, vars
<1> QED
  BY <1>1, <1>2, <1>3, <1>4, <1>5, <1>6, <1>7, <1>8, <1>9, <1>10, <1>11, <1>12,
     <1>13, <1>14, <1>15, <1>16, <1>17, <1>18, <1>19, <1>20, <1>21, <1>22,
     <1>23, <1>24, <1>25, <1>26, <1>27, <1>28, <1>29, <1>30, <1>31 DEF Next

LEMMA MiscStep ==
  ASSUME SInv, [Next]_vars
  PROVE  MiscInv'
<1>1. ASSUME NEW parent \in DirInodes \cup {0}, NEW name \in FileNames, Create(parent, name)
      PROVE  MiscInv'
  <2>1. causes' \subseteq causes \cup {"order"}
    BY <1>1 DEF Create, Cause
  <2>2. listed' \in BOOLEAN /\ faults' = faults /\ refused' \in BOOLEAN
    BY <1>1 DEF Create, UserStep, SInv, MiscInv
  <2> QED
    BY <2>1, <2>2 DEF SInv, MiscInv
<1>2. ASSUME NEW n \in Live, Write(n) PROVE MiscInv'
  <2>1. causes' \subseteq causes \cup {"order"}
    BY <1>2 DEF Write, Cause
  <2>2. listed' \in BOOLEAN /\ faults' = faults /\ refused' \in BOOLEAN
    BY <1>2 DEF Write, UserStep, SInv, MiscInv
  <2> QED
    BY <2>1, <2>2 DEF SInv, MiscInv
<1>3. ASSUME NEW name \in DirNames, handle_mkdir(name) PROVE MiscInv'
  <2>1. causes' \subseteq causes \cup {"order"}
    BY <1>3 DEF handle_mkdir, Cause
  <2>2. listed' \in BOOLEAN /\ faults' = faults /\ refused' \in BOOLEAN
    BY <1>3 DEF handle_mkdir, UserStep, SInv, MiscInv
  <2> QED
    BY <2>1, <2>2 DEF SInv, MiscInv
<1>4. ASSUME NEW n \in Live, handle_unlink(n) PROVE MiscInv'
  <2>1. causes' \subseteq causes \cup {"order"}
    BY <1>4 DEF handle_unlink, Cause
  <2>2. listed' \in BOOLEAN /\ faults' = faults /\ refused' \in BOOLEAN
    BY <1>4 DEF handle_unlink, UserStep, SInv, MiscInv
  <2> QED
    BY <2>1, <2>2 DEF SInv, MiscInv
<1>5. ASSUME NEW n \in Live, handle_rmdir(n) PROVE MiscInv'
  <2>1. causes' \subseteq causes \cup {"order", "purge"}
    BY <1>5 DEF handle_rmdir, Cause
  <2>2. listed' \in BOOLEAN /\ faults' = faults /\ refused' \in BOOLEAN
    BY <1>5 DEF handle_rmdir, UserStep, SInv, MiscInv
  <2> QED
    BY <2>1, <2>2 DEF SInv, MiscInv
<1>6. ASSUME NEW n \in Live, NEW parent \in DirInodes \cup {0}, NEW name \in FileNames \cup DirNames, handle_rename(n, parent, name)
      PROVE  MiscInv'
  <2>1. causes' \subseteq causes \cup {"order", "dir", "cross", "unsent"}
    BY <1>6 DEF handle_rename, Cause
  <2>2. listed' \in BOOLEAN /\ faults' = faults /\ refused' \in BOOLEAN
    BY <1>6 DEF handle_rename, UserStep, SInv, MiscInv
  <2> QED
    BY <2>1, <2>2 DEF SInv, MiscInv
<1>7. ASSUME NEW j \in Pending, JobMkdir(j) PROVE MiscInv'
  BY <1>7 DEF SInv, MiscInv, JobMkdir, JobStep, local, history
<1>8. ASSUME NEW j \in Pending, JobDelete(j) PROVE MiscInv'
  BY <1>8 DEF SInv, MiscInv, JobDelete, JobStep, local, history
<1>9. ASSUME NEW j \in Pending, JobRmdir(j) PROVE MiscInv'
  BY <1>9 DEF SInv, MiscInv, JobRmdir, JobStep, local, history
<1>10. ASSUME NEW j \in Pending, JobReplace(j) PROVE MiscInv'
  BY <1>10 DEF SInv, MiscInv, JobReplace, JobStep, local, history
<1>11. ASSUME NEW j \in Pending, JobMove(j) PROVE MiscInv'
  BY <1>11 DEF SInv, MiscInv, JobMove, JobStep, local, history
<1>12. ASSUME NEW j \in Pending, JobFails(j) PROVE MiscInv'
  BY <1>12, BoundsAssumption DEF SInv, MiscInv, JobFails, local
<1>13. ASSUME NEW t \in tombs, TombstoneExpires(t) PROVE MiscInv'
  BY <1>13 DEF SInv, MiscInv, TombstoneExpires, local, history
<1>14. ASSUME Restart PROVE MiscInv'
  <2>1. causes' \subseteq causes \cup {"failed"}
    BY <1>14 DEF Restart, Cause
  <2>2. listed' \in BOOLEAN /\ faults' \in 0 .. MaxFaults /\ refused' \in BOOLEAN
    BY <1>14, BoundsAssumption DEF Restart, local, SInv, MiscInv
  <2> QED
    BY <2>1, <2>2 DEF SInv, MiscInv
<1>15. ASSUME NEW n \in Live, Hydrate(n) PROVE MiscInv'
  <2>1. causes' \subseteq causes \cup {"order"}
    BY <1>15 DEF Hydrate, Cause
  <2>2. listed' \in BOOLEAN /\ faults' = faults /\ refused' \in BOOLEAN
    BY <1>15 DEF Hydrate, UserStep, SInv, MiscInv
  <2> QED
    BY <2>1, <2>2 DEF SInv, MiscInv
<1>16. ASSUME NEW n \in Live, HydratePrunes(n) PROVE MiscInv'
  <2>1. causes' \subseteq causes \cup {"vanished"}
    BY <1>16 DEF HydratePrunes, Cause
  <2>2. listed' \in BOOLEAN /\ faults' = faults /\ refused' \in BOOLEAN
    BY <1>16 DEF HydratePrunes, UserStep, SInv, MiscInv
  <2> QED
    BY <2>1, <2>2 DEF SInv, MiscInv
<1>17. ASSUME NEW n \in Live, UploadStart(n) PROVE MiscInv'
  <2>1. causes' \subseteq causes \cup {"order"}
    BY <1>17 DEF UploadStart, Cause
  <2>2. listed' \in BOOLEAN /\ faults' = faults /\ refused' \in BOOLEAN
    BY <1>17 DEF UploadStart, SInv, MiscInv
  <2> QED
    BY <2>1, <2>2 DEF SInv, MiscInv
<1>18. ASSUME NEW n \in Live, UploadReverts(n) PROVE MiscInv'
  BY <1>18 DEF SInv, MiscInv, UploadReverts, history
<1>19. ASSUME UploadLands PROVE MiscInv'
  BY <1>19 DEF SInv, MiscInv, UploadLands, UploadEnds, history
<1>20. ASSUME UploadConflict PROVE MiscInv'
  BY <1>20 DEF SInv, MiscInv, UploadConflict, UploadEnds, history
<1>21. ASSUME UploadFails PROVE MiscInv'
  BY <1>21 DEF SInv, MiscInv, UploadFails, UploadEnds, history
<1>22. ASSUME PollList PROVE MiscInv'
  BY <1>22 DEF SInv, MiscInv, PollList, local, history
<1>23. ASSUME PollApply PROVE MiscInv'
  <2>1. causes' \subseteq causes \cup {"vanished"}
    BY <1>23 DEF PollApply, Cause
  <2>2. listed' \in BOOLEAN /\ faults' = faults /\ refused' \in BOOLEAN
    BY <1>23 DEF PollApply, SInv, MiscInv
  <2> QED
    BY <2>1, <2>2 DEF SInv, MiscInv
<1>24. ASSUME NEW n \in DirInodes \cup {0}, Populate(n) PROVE MiscInv'
  BY <1>24 DEF SInv, MiscInv, Populate, local, history
<1>25. ASSUME NEW n \in DirInodes, PopulateLocal(n) PROVE MiscInv'
  BY <1>25 DEF SInv, MiscInv, PopulateLocal, history
<1>26. ASSUME PopulateApply PROVE MiscInv'
  BY <1>26 DEF SInv, MiscInv, PopulateApply, history
<1>27. ASSUME PopulateFails PROVE MiscInv'
  BY <1>27 DEF SInv, MiscInv, PopulateFails, local
<1>28. ASSUME NEW n \in Inodes, PrefetchList(n) PROVE MiscInv'
  BY <1>28 DEF SInv, MiscInv, PrefetchList, local, history
<1>29. ASSUME NEW n \in Inodes, PrefetchApply(n) PROVE MiscInv'
  BY <1>29 DEF SInv, MiscInv, PrefetchApply
<1>31. ASSUME PollRefused PROVE MiscInv'
  BY <1>31 DEF SInv, MiscInv, PollRefused
<1>30. CASE UNCHANGED vars
  BY <1>30 DEF SInv, MiscInv, vars
<1> QED
  BY <1>1, <1>2, <1>3, <1>4, <1>5, <1>6, <1>7, <1>8, <1>9, <1>10, <1>11, <1>12,
     <1>13, <1>14, <1>15, <1>16, <1>17, <1>18, <1>19, <1>20, <1>21, <1>22,
     <1>23, <1>24, <1>25, <1>26, <1>27, <1>28, <1>29, <1>30, <1>31 DEF Next
\* Below(p) holds what is directly in the directory p.
LEMMA BelowFacts ==
  ASSUME NEW p \in Dirs, NEW q \in Paths
  PROVE  q \in Below(p) <=> ParentPath(q) = p
<1>1. CASE q \in DirPaths
  <2>1. PICK d \in DirNames : q = <<d>>
    BY <1>1 DEF DirPaths
  <2>2. Len(q) = 1 /\ ParentPath(q) = Root
    BY <1>1, <2>1, DirFacts
  <2>3. CASE p = Root
    <3>1. Len(p) = 0 /\ IsPrefix(p, q)
      BY <2>1, <2>3 DEF Root, IsPrefix
    <3> QED
      BY <2>2, <2>3, <3>1 DEF Below
  <2>4. CASE p \in DirPaths
    <3>1. Len(p) = 1
      BY <2>4 DEF DirPaths
    <3> QED
      BY <2>2, <2>4, <3>1, PathKinds DEF Below
  <2> QED
    BY <2>3, <2>4 DEF Dirs
<1>2. CASE q \in FilePaths
  <2>1. CASE \E f \in FileNames : q = <<f>>
    <3>1. PICK f \in FileNames : q = <<f>>
      BY <2>1
    <3>2. Len(q) = 1 /\ ParentPath(q) = Root
      BY <3>1, OneName DEF ParentPath
    <3>3. CASE p = Root
      <4>1. Len(p) = 0 /\ IsPrefix(p, q)
        BY <3>1, <3>3 DEF Root, IsPrefix
      <4> QED
        BY <3>2, <3>3, <4>1 DEF Below
    <3>4. CASE p \in DirPaths
      <4>1. Len(p) = 1
        BY <3>4 DEF DirPaths
      <4> QED
        BY <3>2, <3>4, <4>1, PathKinds DEF Below
    <3> QED
      BY <3>3, <3>4 DEF Dirs
  <2>2. CASE \E d \in DirNames, f \in FileNames : q = <<d, f>>
    <3>1. PICK d \in DirNames, f \in FileNames : q = <<d, f>>
      BY <2>2
    <3>2. Len(q) = 2 /\ ParentPath(q) = <<d>> /\ <<d>> \in DirPaths
      BY <3>1, TwoNames DEF ParentPath, DirPaths
    <3>3. CASE p = Root
      <4>1. Len(p) = 0
        BY <3>3 DEF Root
      <4> QED
        BY <3>2, <3>3, <4>1, PathKinds DEF Below
    <3>4. CASE p \in DirPaths
      <4>1. Len(p) = 1 /\ p \in Paths
        BY <3>4, PathKinds DEF DirPaths
      <4>2. p # q
        BY <3>2, <4>1
      <4> QED
        BY <3>2, <3>4, <4>1, <4>2, PrefixFacts DEF Below
    <3> QED
      BY <3>3, <3>4 DEF Dirs
  <2> QED
    BY <1>2, <2>1, <2>2 DEF FilePaths
<1> QED
  BY <1>1, <1>2, PathKinds

LEMMA NoListFits ==
  /\ NoList \in ListType /\ NoList.inode = 0 /\ NoList.path = Root /\ NoList.pc = "idle"
  /\ RowsInv => ListInv(NoList)
<1>1. /\ NoList \in ListType /\ NoList.inode = 0 /\ NoList.path = Root /\ NoList.pc = "idle"
      /\ NoList.files = {} /\ NoList.dirs = {}
  BY BoundsAssumption DEF NoList, ListType
<1>2. RowsInv => 0 < next
  BY BoundsAssumption DEF RowsInv
<1> QED
  BY <1>1, <1>2 DEF ListInv, ListFits

LEMMA ListKept ==
  ASSUME RowsInv, RowsInv', RowsKept, NEW l, ListFits(l, rows, next)
  PROVE  ListFits(l, rows', next')
<1>1. next \in 1 .. MaxInode + 1 /\ next' \in 1 .. MaxInode + 1 /\ next <= next'
  BY DEF RowsInv, RowsKept
<1>2. l.inode \in 0 .. MaxInode /\ l.inode < next
  BY DEF ListFits, ListType
<1>3. l.inode < next'
  BY <1>1, <1>2, BoundsAssumption
<1>4. l.inode # 0 => l.inode \in Inodes
  BY <1>2, BoundsAssumption DEF Inodes
<1>5. l.inode # 0 /\ rows'[l.inode] # NoRow => rows'[l.inode].path \in DirPaths
  BY <1>2, <1>4 DEF RowsKept, ListFits
<1> QED
  BY <1>3, <1>5 DEF ListFits

LEMMA ListsKept ==
  ASSUME SInv, RowsKept, RowsInv', pop' = pop, pre' = pre PROVE ListsInv'
<1>1. ListFits(pop, rows, next) /\ pop.pc # "list" /\ RowsInv
  BY DEF SInv, ListsInv, ListInv
<1>2. ListFits(pop, rows', next')
  BY <1>1, ListKept
<1>3. ASSUME NEW n \in Inodes PROVE ListFits(pre[n], rows', next')
  BY <1>1, <1>3, ListKept DEF SInv, ListsInv, ListInv
<1> QED
  BY <1>1, <1>2, <1>3 DEF SInv, ListsInv, ListInv

LEMMA ListingFits ==
  ASSUME SInv, NEW n \in 0 .. MaxInode, n < next, NEW p \in Dirs, n = 0 <=> p = Root,
         n # 0 /\ rows[n] # NoRow => rows[n].path \in DirPaths
  PROVE  /\ ListInv(Listing(n, p)) /\ Listing(n, p) \in ListType
         /\ Listing(n, p).pc = "apply" /\ Listing(n, p).inode = n /\ Listing(n, p).path = p
<1> DEFINE l == Listing(n, p)
<1>1. /\ l = [inode |-> n, pc |-> "apply", path |-> p, files |-> l.files, dirs |-> l.dirs]
      /\ l.inode = n /\ l.pc = "apply" /\ l.path = p
      /\ l.files = {<<q, files[q]>> : q \in {q \in Below(p) \cap FilePaths : files[q] # 0}}
      /\ l.dirs = Below(p) \cap dirs
  BY DEF Listing
<1>2. \A q \in FilePaths : files[q] # 0 => files[q] \in Contents
  BY BoundsAssumption DEF SInv, StoreInv, Contents
<1>3. \A q \in Below(p) : q \in Paths /\ ParentPath(q) = p
  BY BelowFacts DEF Below
<1> HIDE DEF l
<1>4. l.files \in SUBSET (FilePaths \X Contents)
  BY <1>1, <1>2
<1>5. \A e \in l.files : ParentPath(e[1]) = l.path
  BY <1>1, <1>3
<1>6. l.dirs \in SUBSET DirPaths /\ (l.dirs # {} => l.path = Root)
  <2>1. dirs \subseteq DirPaths
    BY DEF SInv, StoreInv
  <2> QED
    BY <1>1, <1>3, <2>1, DirFacts
<1>7. l \in ListType
  BY <1>1, <1>4, <1>6 DEF ListType, Dirs
<1>8. l.pc # "idle"
  BY <1>1
<1>9. ListFits(l, rows, next)
  BY <1>1, <1>5, <1>6, <1>7, <1>8 DEF ListFits
<1> QED
  BY <1>1, <1>7, <1>9 DEF l, ListInv

LEMMA ListsStep ==
  ASSUME SInv, [Next]_vars, RowsKept, RowsInv'
  PROVE  ListsInv'
<1>1. ASSUME NEW parent \in DirInodes \cup {0}, NEW name \in FileNames, Create(parent, name)
      PROVE  ListsInv'
  BY <1>1, ListsKept DEF Create, UserStep
<1>2. ASSUME NEW n \in Live, Write(n) PROVE ListsInv'
  BY <1>2, ListsKept DEF Write, UserStep
<1>3. ASSUME NEW name \in DirNames, handle_mkdir(name) PROVE ListsInv'
  BY <1>3, ListsKept DEF handle_mkdir, UserStep
<1>4. ASSUME NEW n \in Live, handle_unlink(n) PROVE ListsInv'
  BY <1>4, ListsKept DEF handle_unlink, UserStep
<1>5. ASSUME NEW n \in Live, handle_rmdir(n) PROVE ListsInv'
  BY <1>5, ListsKept DEF handle_rmdir, UserStep
<1>6. ASSUME NEW n \in Live, NEW parent \in DirInodes \cup {0}, NEW name \in FileNames \cup DirNames, handle_rename(n, parent, name)
      PROVE  ListsInv'
  BY <1>6, ListsKept DEF handle_rename, UserStep
<1>7. ASSUME NEW j \in Pending, JobMkdir(j) PROVE ListsInv'
  BY <1>7, ListsKept DEF JobMkdir, JobStep, tasks
<1>8. ASSUME NEW j \in Pending, JobDelete(j) PROVE ListsInv'
  BY <1>8, ListsKept DEF JobDelete, JobStep, tasks
<1>9. ASSUME NEW j \in Pending, JobRmdir(j) PROVE ListsInv'
  BY <1>9, ListsKept DEF JobRmdir, JobStep, tasks
<1>10. ASSUME NEW j \in Pending, JobReplace(j) PROVE ListsInv'
  BY <1>10, ListsKept DEF JobReplace, JobStep, tasks
<1>11. ASSUME NEW j \in Pending, JobMove(j) PROVE ListsInv'
  BY <1>11, ListsKept DEF JobMove, JobStep, tasks
<1>12. ASSUME NEW j \in Pending, JobFails(j) PROVE ListsInv'
  BY <1>12, ListsKept DEF JobFails, tasks
<1>13. ASSUME NEW t \in tombs, TombstoneExpires(t) PROVE ListsInv'
  BY <1>13, ListsKept DEF TombstoneExpires, tasks
<1>14. ASSUME Restart PROVE ListsInv'
  <2>1. pop' = NoList /\ pre' = [n \in Inodes |-> NoList]
    BY <1>14 DEF Restart
  <2>2. ListInv(NoList)' /\ NoList \in ListType /\ NoList.pc # "list"
    <3>1. next' > 0
      BY BoundsAssumption DEF RowsInv
    <3>2. ListFits(NoList, rows', next')
      BY <3>1, NoListFits DEF ListFits, NoList
    <3> QED
      BY <3>2, NoListFits DEF ListInv
  <2> QED
    BY <2>1, <2>2 DEF ListsInv, ListInv
<1>15. ASSUME NEW n \in Live, Hydrate(n) PROVE ListsInv'
  BY <1>15, ListsKept DEF Hydrate, UserStep
<1>16. ASSUME NEW n \in Live, HydratePrunes(n) PROVE ListsInv'
  BY <1>16, ListsKept DEF HydratePrunes, UserStep
<1>17. ASSUME NEW n \in Live, UploadStart(n) PROVE ListsInv'
  BY <1>17, ListsKept DEF UploadStart
<1>18. ASSUME NEW n \in Live, UploadReverts(n) PROVE ListsInv'
  BY <1>18, ListsKept DEF UploadReverts, tasks
<1>19. ASSUME UploadLands PROVE ListsInv'
  BY <1>19, ListsKept DEF UploadLands, UploadEnds
<1>20. ASSUME UploadConflict PROVE ListsInv'
  BY <1>20, ListsKept DEF UploadConflict, UploadEnds
<1>21. ASSUME UploadFails PROVE ListsInv'
  BY <1>21, ListsKept DEF UploadFails, UploadEnds
<1>22. ASSUME PollList PROVE ListsInv'
  BY <1>22, ListsKept DEF PollList
<1>23. ASSUME PollApply PROVE ListsInv'
  BY <1>23, ListsKept DEF PollApply
<1>24. ASSUME NEW n \in DirInodes \cup {0}, Populate(n) PROVE ListsInv'
  <2>1. pop' = Listing(n, PathOf(n)) /\ pre' = pre /\ rows' = rows /\ next' = next
    BY <1>24 DEF Populate, local
  <2>2. PathOf(n) \in Dirs /\ (PathOf(n) = Root <=> n = 0) /\ n \in 0 .. MaxInode
    BY <1>24, PathOfFacts DEF SInv
  <2>3. n < next
    <3>1. CASE n = 0
      BY <3>1, BoundsAssumption DEF SInv, RowsInv
    <3>2. CASE n # 0
      BY <1>24, <3>2, LiveFacts DEF SInv
    <3> QED
      BY <3>1, <3>2
  <2>4. n # 0 => rows[n].path \in DirPaths
    BY <1>24 DEF DirInodes, IsDir
  <2>5. ListInv(Listing(n, PathOf(n))) /\ Listing(n, PathOf(n)).pc = "apply"
    BY <2>2, <2>3, <2>4, ListingFits
  <2>6. ListFits(pop', rows', next') /\ pop'.pc # "list"
    BY <2>1, <2>5 DEF ListInv
  <2> QED
    BY <2>1, <2>6 DEF SInv, ListsInv, ListInv
<1>25. ASSUME NEW n \in DirInodes, PopulateLocal(n) PROVE ListsInv'
  BY <1>25, ListsKept DEF PopulateLocal, tasks
<1>26. ASSUME PopulateApply PROVE ListsInv'
  <2>1. /\ pop' = NoList
        /\ pre' = [n \in Inodes |->
             IF pre[n] = NoList /\ rows'[n] # NoRow /\ rows'[n].path \in DirPaths
                /\ rows'[n].parent = pop.inode /\ ~rows'[n].listed
             THEN [NoList EXCEPT !.inode = n, !.pc = "list", !.path = rows'[n].path]
             ELSE pre[n]]
    BY <1>26 DEF PopulateApply
  <2>2. ASSUME NEW n \in Inodes, rows'[n] # NoRow, rows'[n].path \in DirPaths
        PROVE  LET l == [NoList EXCEPT !.inode = n, !.pc = "list", !.path = rows'[n].path]
               IN l \in ListType /\ ListFits(l, rows', next') /\ l.inode = n
    <3> DEFINE l == [NoList EXCEPT !.inode = n, !.pc = "list", !.path = rows'[n].path]
    <3>0. n \in 0 .. MaxInode
      BY BoundsAssumption DEF Inodes
    <3>1. /\ l.inode = n /\ l.pc = "list" /\ l.path = rows'[n].path
          /\ l.files = {} /\ l.dirs = {} /\ l \in ListType
      <4>1. l \in ListType
        BY <2>2, <3>0, NoListFits DEF ListType
      <4> QED
        BY <4>1 DEF NoList
    <3>2. n < next'
      BY <2>2 DEF RowsInv
    <3>3. n # 0 /\ rows'[n].path # Root
      BY <2>2, NoRowFacts, PathKinds
    <3> HIDE DEF l
    <3>4. ListFits(l, rows', next')
      BY <2>2, <3>1, <3>2, <3>3 DEF ListFits
    <3> QED
      BY <3>1, <3>4 DEF l
  <2>3. \A n \in Inodes : /\ pre[n] \in ListType /\ ListFits(pre[n], rows', next')
                          /\ pre[n] # NoList => pre[n].inode = n
    BY ListKept DEF SInv, ListsInv, ListInv
  <2>4. \A n \in Inodes : /\ pre'[n] \in ListType /\ ListFits(pre'[n], rows', next')
                          /\ pre'[n] # NoList => pre'[n].inode = n
    <3> SUFFICES ASSUME NEW n \in Inodes
                 PROVE  /\ pre'[n] \in ListType /\ ListFits(pre'[n], rows', next')
                        /\ pre'[n] # NoList => pre'[n].inode = n
      OBVIOUS
    <3>1. \/ pre'[n] = pre[n]
          \/ /\ rows'[n] # NoRow /\ rows'[n].path \in DirPaths
             /\ pre'[n] = [NoList EXCEPT !.inode = n, !.pc = "list", !.path = rows'[n].path]
      BY <2>1
    <3> QED
      BY <2>2, <2>3, <3>1
  <2>5. pre' \in [Inodes -> ListType]
    <3>1. DOMAIN pre' = Inodes /\ pre' = [n \in Inodes |-> pre'[n]]
      BY <2>1
    <3> QED
      BY <2>4, <3>1
  <2>6. ListFits(NoList, rows', next') /\ NoList.pc # "list"
    <3>1. next' > 0
      BY BoundsAssumption DEF RowsInv
    <3> QED
      BY <3>1, NoListFits DEF ListFits, NoList
  <2> QED
    BY <2>1, <2>4, <2>5, <2>6 DEF ListsInv, ListInv
<1>27. ASSUME PopulateFails PROVE ListsInv'
  <2>1. pop' = NoList /\ pre' = pre /\ rows' = rows /\ next' = next
    BY <1>27 DEF PopulateFails, local
  <2>2. ListFits(NoList, rows, next) /\ NoList.pc # "list"
    BY NoListFits DEF SInv, ListInv
  <2> QED
    BY <2>1, <2>2 DEF SInv, ListsInv, ListInv
<1>28. ASSUME NEW n \in Inodes, PrefetchList(n) PROVE ListsInv'
  <2> DEFINE l == IF CanList(pre[n].path) THEN Listing(n, pre[n].path) ELSE NoList
  <2>1. pre' = [pre EXCEPT ![n] = l] /\ pre[n].pc = "list" /\ pop' = pop /\ rows' = rows /\ next' = next
    BY <1>28 DEF PrefetchList, local
  <2>2. pre[n] # NoList
    BY <2>1, NoListFits
  <2>3. ListFits(pre[n], rows, next) /\ pre[n].inode = n /\ pre[n] \in ListType
    BY <1>28, <2>2 DEF SInv, ListsInv, ListInv
  <2>4. /\ n < next /\ (n = 0 <=> pre[n].path = Root) /\ pre[n].path \in Dirs /\ n \in 0 .. MaxInode
        /\ n # 0 /\ rows[n] # NoRow => rows[n].path \in DirPaths
    BY <2>3 DEF ListFits, ListType, Dirs
  <2>5. ListFits(l, rows, next) /\ l \in ListType /\ (l # NoList => l.inode = n)
    BY <2>4, ListingFits, NoListFits DEF SInv, ListInv
  <2> HIDE DEF l
  <2>6. pre' \in [Inodes -> ListType] /\ \A m \in Inodes : pre'[m] = IF m = n THEN l ELSE pre[m]
    BY <1>28, <2>1, <2>5 DEF SInv, ListsInv
  <2> QED
    BY <2>1, <2>5, <2>6 DEF SInv, ListsInv, ListInv
<1>29. ASSUME NEW n \in Inodes, PrefetchApply(n) PROVE ListsInv'
  <2>1. pre' = [pre EXCEPT ![n] = NoList] /\ pop' = pop
    BY <1>29 DEF PrefetchApply
  <2>2. ListFits(pop, rows', next') /\ pop.pc # "list"
    BY ListKept DEF SInv, ListsInv, ListInv
  <2>3. \A m \in Inodes : /\ pre[m] \in ListType /\ ListFits(pre[m], rows', next')
                          /\ pre[m] # NoList => pre[m].inode = m
    BY ListKept DEF SInv, ListsInv, ListInv
  <2>4. ListFits(NoList, rows', next') /\ NoList \in ListType
    <3>1. next' > 0
      BY BoundsAssumption DEF RowsInv
    <3> QED
      BY <3>1, NoListFits DEF ListFits, NoList
  <2>5. pre' \in [Inodes -> ListType] /\ \A m \in Inodes : pre'[m] = IF m = n THEN NoList ELSE pre[m]
    BY <1>29, <2>1, <2>4 DEF SInv, ListsInv
  <2> QED
    BY <2>1, <2>2, <2>3, <2>4, <2>5 DEF ListsInv, ListInv
<1>31. ASSUME PollRefused PROVE ListsInv'
  BY <1>31, ListsKept DEF PollRefused
<1>30. CASE UNCHANGED vars
  BY <1>30, ListsKept DEF vars
<1> QED
  BY <1>1, <1>2, <1>3, <1>4, <1>5, <1>6, <1>7, <1>8, <1>9, <1>10, <1>11, <1>12,
     <1>13, <1>14, <1>15, <1>16, <1>17, <1>18, <1>19, <1>20, <1>21, <1>22,
     <1>23, <1>24, <1>25, <1>26, <1>27, <1>28, <1>29, <1>30, <1>31 DEF Next
LEMMA PathNames ==
  ASSUME NEW p \in FilePaths PROVE p \in Seq(DirNames \cup FileNames)
<1>1. CASE \E f \in FileNames : p = <<f>>
  BY <1>1
<1>2. CASE \E d \in DirNames, f \in FileNames : p = <<d, f>>
  <2>1. PICK d \in DirNames, f \in FileNames : p = <<d, f>>
    BY <1>2
  <2> QED
    BY <2>1
<1> QED
  BY <1>1, <1>2 DEF FilePaths

\* What moveto does to a path: a file gets the new name, a file in a directory goes
\* with it.
LEMMA MovedFile ==
  ASSUME NEW a \in FilePaths, NEW b \in FilePaths
  PROVE  Moved(a, a, b) = b
<1> DEFINE S == DirNames \cup FileNames
<1>1. a \in Seq(S) /\ b \in Seq(S)
  BY PathNames
<1> HIDE DEF S
<1>2. SubSeq(a, Len(a) + 1, Len(a)) = << >>
  BY <1>1
<1>3. b \o << >> = b
  BY <1>1
<1> QED
  BY <1>2, <1>3 DEF Moved

LEMMA MovedDir ==
  ASSUME NEW a \in DirPaths, NEW b \in DirPaths, NEW q \in FilePaths, ParentPath(q) = a
  PROVE  Moved(q, a, b) \in FilePaths => ParentPath(Moved(q, a, b)) = b
<1>1. PICK d \in DirNames, e \in DirNames : a = <<d>> /\ b = <<e>>
  BY DEF DirPaths
<1>2. PICK c \in DirNames, f \in FileNames : q = <<c, f>>
  <2>1. ASSUME NEW f \in FileNames, q = <<f>> PROVE FALSE
    BY <2>1, OneName, PathKinds DEF ParentPath
  <2> QED
    BY <2>1 DEF FilePaths
<1> DEFINE s == SubSeq(q, Len(a) + 1, Len(q))
           S == DirNames \cup FileNames
<1>3. q \in Seq(S) /\ Len(q) = 2 /\ Len(a) = 1 /\ q[2] = f
  BY <1>1, <1>2, PathNames
<1>4. s \in Seq(S) /\ Len(s) = 1 /\ s[1] = f
  BY <1>3
<1> HIDE DEF s, S
<1>5. s = <<f>>
  BY <1>4
<1>6. <<e>> \o <<f>> = <<e, f>>
  <2>1. <<e>> \o <<f>> = [i \in 1 .. 2 |-> IF i = 1 THEN e ELSE f]
    OBVIOUS
  <2>2. <<e, f>> = [i \in 1 .. 2 |-> IF i = 1 THEN e ELSE f]
    OBVIOUS
  <2> QED
    BY <2>1, <2>2
<1>7. Moved(q, a, b) = <<e, f>>
  BY <1>1, <1>5, <1>6 DEF Moved, s
<1> QED
  BY <1>1, <1>7, TwoNames DEF ParentPath

LEMMA WithParentFacts ==
  ASSUME NEW D \in SUBSET DirPaths, NEW p \in FilePaths
  PROVE  /\ WithParent(D, p) \subseteq DirPaths /\ D \subseteq WithParent(D, p)
         /\ ParentPath(p) \in WithParent(D, p) \cup {Root}
BY FileFacts DEF WithParent, Dirs

\* The remote file system after moveto.
LEMMA MoveRemote ==
  ASSUME SInv, NEW j \in Pending, JobMove(j)
  PROVE  /\ files' \in [FilePaths -> 0 .. last] /\ dirs' \subseteq DirPaths
         /\ TreeOf(files', dirs')
         /\ jobs[j].path \in FilePaths =>
              \A p \in FilePaths :
                files'[p] = IF p = jobs[j].to /\ files[jobs[j].path] # 0 THEN files[jobs[j].path]
                            ELSE IF p = jobs[j].path THEN 0 ELSE files[p]
<1> DEFINE a == jobs[j].path
           b == jobs[j].to
           from(p) == {q \in FilePaths : IsPrefix(a, q) /\ files[q] # 0 /\ Moved(q, a, b) = p}
<1>1. jobs[j].op = "move" /\ GoodJob(jobs[j])
  BY PendingJob DEF SInv, JobMove
<1>2. a \in Paths /\ SameKind(a, b)
  BY <1>1, PathKinds DEF GoodJob
<1>3. files' = [p \in FilePaths |->
        IF from(p) # {} THEN files[CHOOSE q \in from(p) : TRUE]
        ELSE IF IsPrefix(a, p) THEN 0 ELSE files[p]]
  BY DEF JobMove
<1>4. dirs' = IF a \in DirPaths
              THEN IF a \in dirs THEN (dirs \ {a}) \cup {b} ELSE dirs
              ELSE IF files[a] # 0 THEN WithParent(dirs, b) ELSE dirs
  BY DEF JobMove
<1>5. /\ files \in [FilePaths -> 0 .. MaxContents] /\ \A p \in FilePaths : files[p] <= last
      /\ dirs \subseteq DirPaths /\ TreeOf(files, dirs) /\ last \in Contents
  BY DEF SInv, StoreInv
<1>6. \A p \in FilePaths : files[p] \in 0 .. last
  BY <1>5, BoundsAssumption DEF Contents
<1>7. \A p \in FilePaths : \/ from(p) # {} /\ \E q \in from(p) : files'[p] = files[q]
                           \/ from(p) = {} /\ files'[p] = IF IsPrefix(a, p) THEN 0 ELSE files[p]
  BY <1>3
<1>8. \A p \in FilePaths : 0 \in 0 .. last /\ files'[p] \in 0 .. last
  BY <1>5, <1>6, <1>7, BoundsAssumption DEF Contents
<1>9. files' \in [FilePaths -> 0 .. last]
  BY <1>3, <1>8
<1> HIDE DEF a, b
<1>10. CASE a \in DirPaths
  <2>1. b \in DirPaths /\ a # Root /\ a \notin FilePaths
    BY <1>2, <1>10, PathKinds DEF SameKind
  <2>2. dirs' \subseteq DirPaths /\ (a \in dirs => b \in dirs') /\ \A d \in dirs : d # a => d \in dirs'
    BY <1>4, <1>5, <1>10, <2>1
  <2>3. \A q \in FilePaths : IsPrefix(a, q) <=> ParentPath(q) = a
    BY <1>2, <1>10, <2>1, PrefixFacts, PathKinds
  <2>4. ASSUME NEW p \in FilePaths, files'[p] # 0 PROVE ParentPath(p) \in dirs' \cup {Root}
    <3>1. CASE from(p) # {}
      <4>1. PICK q \in from(p) : TRUE
        BY <3>1
      <4>2. ParentPath(q) = a /\ files[q] # 0 /\ Moved(q, a, b) = p /\ q \in FilePaths
        BY <2>3, <4>1
      <4>3. a \in dirs
        BY <1>5, <2>1, <4>2 DEF TreeOf
      <4>4. ParentPath(p) = b
        BY <1>10, <2>1, <2>4, <4>2, MovedDir
      <4> QED
        BY <2>2, <4>3, <4>4
    <3>2. CASE from(p) = {}
      <4>1. ~IsPrefix(a, p) /\ files[p] # 0
        BY <1>7, <2>4, <3>2
      <4>2. ParentPath(p) \in dirs \cup {Root} /\ ParentPath(p) # a
        BY <1>5, <2>3, <2>4, <4>1 DEF TreeOf
      <4> QED
        BY <2>2, <4>2
    <3> QED
      BY <3>1, <3>2
  <2>5. TreeOf(files', dirs')
    BY <2>4 DEF TreeOf
  <2> QED
    BY <1>9, <2>1, <2>2, <2>5 DEF a
<1>11. CASE a \in FilePaths
  <2>1. b \in FilePaths /\ a \notin DirPaths /\ b \notin DirPaths /\ Moved(a, a, b) = b
    BY <1>2, <1>11, PathKinds, MovedFile DEF SameKind
  <2>2. \A q \in FilePaths : IsPrefix(a, q) <=> q = a
    BY <1>2, <2>1, PrefixFacts, PathKinds
  <2>3. \A p \in FilePaths : \A q \in from(p) : q = a /\ p = b /\ files[a] # 0
    BY <2>1, <2>2
  <2>4. files[a] # 0 => a \in from(b)
    BY <1>11, <2>1, <2>2
  <2>5. \A p \in FilePaths : files'[p] = IF p = b /\ files[a] # 0 THEN files[a]
                                         ELSE IF p = a THEN 0 ELSE files[p]
    BY <1>7, <2>2, <2>3, <2>4
  <2>6. /\ dirs' \subseteq DirPaths /\ dirs \subseteq dirs'
        /\ files[a] # 0 => ParentPath(b) \in dirs' \cup {Root}
    BY <1>4, <1>5, <2>1, WithParentFacts
  <2>7. TreeOf(files', dirs')
    BY <1>5, <2>5, <2>6 DEF TreeOf
  <2> QED
    BY <1>9, <2>5, <2>6, <2>7 DEF a, b
<1> QED
  BY <1>2, <1>10, <1>11, PathKinds

LEMMA StoreFacts ==
  ASSUME StoreInv
  PROVE  /\ cache \in [FilePaths -> 0 .. last] /\ files \in [FilePaths -> 0 .. last]
         /\ last \in Contents /\ 0 \in 0 .. last /\ 0 .. last \subseteq 0 .. MaxContents
         /\ last \in Nat /\ last >= 1
<1>1. last \in Nat /\ last >= 1 /\ last <= MaxContents /\ MaxContents \in Nat /\ last \in Contents
  BY BoundsAssumption DEF StoreInv, Contents
<1>2. \A p \in FilePaths : cache[p] \in 0 .. MaxContents /\ cache[p] <= last
  BY DEF StoreInv
<1>3. \A p \in FilePaths : files[p] \in 0 .. MaxContents /\ files[p] <= last
  BY DEF StoreInv
<1>4. \A p \in FilePaths : cache[p] \in 0 .. last
  BY <1>1, <1>2
<1>5. \A p \in FilePaths : files[p] \in 0 .. last
  BY <1>1, <1>3
<1>6. cache \in [FilePaths -> 0 .. last] /\ files \in [FilePaths -> 0 .. last]
  BY <1>4, <1>5 DEF StoreInv
<1>7. 0 \in 0 .. last /\ 0 .. last \subseteq 0 .. MaxContents
  BY <1>1
<1> QED
  BY <1>1, <1>6, <1>7

LEMMA StoreNext ==
  ASSUME cache' \in [FilePaths -> 0 .. last'], files' \in [FilePaths -> 0 .. last'],
         dirs' \subseteq DirPaths, TreeOf(files', dirs'), siblings' \subseteq Contents,
         tombs' \subseteq Paths, last' \in Contents, live' \subseteq 1 .. last'
  PROVE  StoreInv'
<1>1. 0 .. last' \subseteq 0 .. MaxContents
  BY BoundsAssumption DEF Contents
<1>2. cache' \in [FilePaths -> 0 .. MaxContents] /\ files' \in [FilePaths -> 0 .. MaxContents]
  BY <1>1
<1>3. \A p \in FilePaths : cache'[p] \in 0 .. last' /\ files'[p] \in 0 .. last'
  OBVIOUS
<1>4. \A p \in FilePaths : files'[p] <= last' /\ cache'[p] <= last'
  BY <1>3
<1> QED
  BY <1>2, <1>4 DEF StoreInv

\* The remote is as it was; a new content may have been written.
LEMMA StoreLocal ==
  ASSUME SInv, files' = files, dirs' = dirs, siblings' = siblings,
         tombs' \subseteq Paths, last' \in {last, last + 1} \cap Contents,
         cache' \in [FilePaths -> 0 .. last'], live' \subseteq 1 .. last'
  PROVE  StoreInv'
<1>1. /\ files \in [FilePaths -> 0 .. last] /\ last \in Nat /\ StoreInv
  BY StoreFacts DEF SInv
<1>2. 0 .. last \subseteq 0 .. last' /\ last' \in Contents
  BY <1>1
<1>3. files' \in [FilePaths -> 0 .. last']
  BY <1>1, <1>2
<1>4. dirs' \subseteq DirPaths /\ TreeOf(files', dirs') /\ siblings' \subseteq Contents
  BY DEF SInv, StoreInv
<1> QED
  BY <1>2, <1>3, <1>4, StoreNext

\* Only cache files, tombstones and the user's contents change.
LEMMA StoreUser ==
  ASSUME SInv, files' = files, dirs' = dirs, siblings' = siblings, last' = last,
         tombs' \subseteq Paths, cache' \in [FilePaths -> 0 .. last], live' \subseteq live
  PROVE  StoreInv'
<1>1. last \in Contents /\ live \subseteq 1 .. last
  BY DEF SInv, StoreInv
<1> QED
  BY <1>1, StoreLocal

LEMMA StoreRemote ==
  ASSUME SInv, cache' = cache, siblings' = siblings, last' = last, live' = live,
         tombs' \subseteq Paths, files' \in [FilePaths -> 0 .. last],
         dirs' \subseteq DirPaths, TreeOf(files', dirs')
  PROVE  StoreInv'
<1>1. cache \in [FilePaths -> 0 .. last] /\ StoreInv
  BY StoreFacts DEF SInv
<1>2. siblings' \subseteq Contents /\ last' \in Contents /\ live' \subseteq 1 .. last'
  BY <1>1 DEF StoreInv
<1> QED
  BY <1>1, <1>2, StoreNext

LEMMA StoreStep ==
  ASSUME SInv, [Next]_vars
  PROVE  StoreInv'
<1>1. ASSUME NEW parent \in DirInodes \cup {0}, NEW name \in FileNames, Create(parent, name)
      PROVE  StoreInv'
  <2> DEFINE q == join_remote(PathOf(parent), name)
  <2>1. q \in FilePaths
    BY <1>1, CreateRows
  <2>2. /\ files' = files /\ dirs' = dirs /\ siblings' = siblings /\ tombs' = tombs
        /\ last \in Nat /\ last < MaxContents
    BY <1>1, StoreFacts DEF Create, UserStep, SInv
  <2>3. tombs' \subseteq Paths /\ live \subseteq 1 .. last /\ cache \in [FilePaths -> 0 .. last]
    BY <2>2, StoreFacts DEF SInv, StoreInv
  <2>4. CASE ByPath(q) # {}
    <3>1. cache' = [cache EXCEPT ![q] = 0] /\ last' = last /\ live' = live
      BY <1>1, <2>4 DEF Create
    <3>2. cache' \in [FilePaths -> 0 .. last]
      BY <2>1, <2>3, <3>1, StoreFacts DEF SInv
    <3> QED
      BY <2>2, <2>3, <3>1, <3>2, StoreUser
  <2>5. CASE ByPath(q) = {}
    <3>1. cache' = [cache EXCEPT ![q] = last + 1] /\ last' = last + 1 /\ live' = live \cup {last + 1}
      BY <1>1, <2>5 DEF Create
    <3>2. last + 1 \in Contents /\ last + 1 \in 0 .. last + 1 /\ 0 .. last \subseteq 0 .. last + 1
      BY <2>2, BoundsAssumption DEF Contents
    <3>3. cache' \in [FilePaths -> 0 .. last']
      BY <2>1, <2>3, <3>1, <3>2
    <3>4. live' \subseteq 1 .. last'
      BY <2>2, <2>3, <3>1
    <3> QED
      BY <2>2, <2>3, <3>1, <3>2, <3>3, <3>4, StoreLocal
  <2> QED
    BY <2>4, <2>5
<1>2. ASSUME NEW n \in Live, Write(n) PROVE StoreInv'
  <2>1. rows[n].cp \in FilePaths
    BY <1>2, WriteRows
  <2>2. /\ files' = files /\ dirs' = dirs /\ siblings' = siblings /\ tombs' = tombs
        /\ last \in Nat /\ last < MaxContents
    BY <1>2, StoreFacts DEF Write, UserStep, SInv
  <2>3. tombs' \subseteq Paths /\ live \subseteq 1 .. last /\ cache \in [FilePaths -> 0 .. last]
    BY <2>2, StoreFacts DEF SInv, StoreInv
  <2>4. /\ cache' = [cache EXCEPT ![rows[n].cp] = last + 1] /\ last' = last + 1
        /\ live' \subseteq live \cup {last + 1}
    BY <1>2 DEF Write
  <2>5. last + 1 \in Contents /\ last + 1 \in 0 .. last + 1 /\ 0 .. last \subseteq 0 .. last + 1
    BY <2>2, BoundsAssumption DEF Contents
  <2>6. cache' \in [FilePaths -> 0 .. last']
    BY <2>1, <2>3, <2>4, <2>5
  <2>7. live' \subseteq 1 .. last'
    BY <2>2, <2>3, <2>4
  <2> QED
    BY <2>2, <2>3, <2>4, <2>5, <2>6, <2>7, StoreLocal
<1>3. ASSUME NEW name \in DirNames, handle_mkdir(name) PROVE StoreInv'
  BY <1>3 DEF SInv, StoreInv, handle_mkdir, UserStep
<1>4. ASSUME NEW n \in Live, handle_unlink(n) PROVE StoreInv'
  <2>1. rows[n].cp \in FilePaths \cup {Root} /\ rows[n].path \in Paths
    BY <1>4, RowFields DEF SInv
  <2>2. /\ files' = files /\ dirs' = dirs /\ siblings' = siblings /\ last' = last
        /\ tombs' = tombs \cup {rows[n].path} /\ live' \subseteq live
        /\ cache' = IF rows[n].cp = Root THEN cache ELSE [cache EXCEPT ![rows[n].cp] = 0]
    BY <1>4 DEF handle_unlink, UserStep
  <2>3. cache' \in [FilePaths -> 0 .. last]
    BY <2>1, <2>2, StoreFacts DEF SInv
  <2>4. tombs' \subseteq Paths
    BY <2>1, <2>2 DEF SInv, StoreInv
  <2> QED
    BY <2>2, <2>3, <2>4, StoreUser
<1>5. ASSUME NEW n \in Live, handle_rmdir(n) PROVE StoreInv'
  <2>1. /\ files' = files /\ dirs' = dirs /\ siblings' = siblings /\ last' = last
        /\ tombs' = tombs \cup {rows[n].path} /\ live' = live /\ cache' = cache
    BY <1>5 DEF handle_rmdir, UserStep
  <2>2. cache' \in [FilePaths -> 0 .. last]
    BY <2>1, StoreFacts DEF SInv
  <2>3. tombs' \subseteq Paths
    BY <1>5, <2>1, RowFields DEF SInv, StoreInv
  <2> QED
    BY <2>1, <2>2, <2>3, StoreUser
<1>6. ASSUME NEW n \in Live, NEW parent \in DirInodes \cup {0}, NEW name \in FileNames \cup DirNames, handle_rename(n, parent, name)
      PROVE  StoreInv'
  <2>1. /\ files' = files /\ dirs' = dirs /\ siblings' = siblings /\ last' = last /\ live' \subseteq live
        /\ cache' = IF CacheMoves(n) /\ NewCp(n, name) # rows[n].cp
                    THEN [cache EXCEPT ![NewCp(n, name)] = cache[rows[n].cp], ![rows[n].cp] = 0]
                    ELSE cache
    BY <1>6 DEF handle_rename, UserStep, CacheMoves, NewCp
  <2>2. cache' \in [FilePaths -> 0 .. last]
    <3>1. CacheMoves(n) => rows[n].cp \in FilePaths /\ NewCp(n, name) \in FilePaths
      BY <1>6, RenameTarget, RowFields DEF CacheMoves, SInv
    <3>2. cache \in [FilePaths -> 0 .. last] /\ 0 \in 0 .. last
      BY StoreFacts DEF SInv
    <3>3. CASE CacheMoves(n) /\ NewCp(n, name) # rows[n].cp
      BY <2>1, <3>1, <3>2, <3>3
    <3>4. CASE ~(CacheMoves(n) /\ NewCp(n, name) # rows[n].cp)
      BY <2>1, <3>2, <3>4
    <3> QED
      BY <3>3, <3>4
  <2>3. tombs' \subseteq Paths
    BY <1>6, RenameJobs, RowFields DEF SInv, StoreInv
  <2> QED
    BY <2>1, <2>2, <2>3, StoreUser
<1>7. ASSUME NEW j \in Pending, JobMkdir(j) PROVE StoreInv'
  <2>1. cache' = cache /\ siblings' = siblings /\ last' = last /\ live' = live
    BY <1>7 DEF JobMkdir, JobStep, history
  <2>2. files' = files /\ dirs' = dirs \cup {jobs[j].path} /\ tombs' = tombs
    BY <1>7 DEF JobMkdir
  <2>3. jobs[j].path \in DirPaths
    BY <1>7, PendingJob DEF SInv, JobMkdir, GoodJob
  <2>4. dirs' \subseteq DirPaths /\ TreeOf(files', dirs') /\ tombs' \subseteq Paths
    BY <2>2, <2>3 DEF SInv, StoreInv, TreeOf
  <2>5. files' \in [FilePaths -> 0 .. last]
    BY <2>2, StoreFacts DEF SInv
  <2> QED
    BY <2>1, <2>4, <2>5, StoreRemote
<1>8. ASSUME NEW j \in Pending, JobDelete(j) PROVE StoreInv'
  <2>1. cache' = cache /\ siblings' = siblings /\ last' = last /\ live' = live
    BY <1>8 DEF JobDelete, JobStep, history
  <2>2. files' = [files EXCEPT ![jobs[j].path] = 0] /\ dirs' = dirs /\ tombs' \subseteq tombs
    BY <1>8 DEF JobDelete
  <2>3. files' \in [FilePaths -> 0 .. last] /\ files \in [FilePaths -> 0 .. last]
    BY <2>2, StoreFacts DEF SInv
  <2>4. \A p \in FilePaths : files'[p] # 0 => files[p] # 0
    BY <2>2, <2>3
  <2>5. dirs' \subseteq DirPaths /\ TreeOf(files', dirs') /\ tombs' \subseteq Paths
    BY <2>2, <2>4 DEF SInv, StoreInv, TreeOf
  <2> QED
    BY <2>1, <2>3, <2>5, StoreRemote
<1>9. ASSUME NEW j \in Pending, JobRmdir(j) PROVE StoreInv'
  <2>1. cache' = cache /\ siblings' = siblings /\ last' = last /\ live' = live
    BY <1>9 DEF JobRmdir, JobStep, history
  <2>2. /\ files' = [p \in FilePaths |-> IF IsPrefix(jobs[j].path, p) THEN 0 ELSE files[p]]
        /\ dirs' = dirs \ {jobs[j].path} /\ tombs' \subseteq tombs
    BY <1>9 DEF JobRmdir
  <2>3. jobs[j].path \in DirPaths
    BY <1>9, PendingJob DEF SInv, JobRmdir, GoodJob
  <2>4. files' \in [FilePaths -> 0 .. last]
    BY <2>2, StoreFacts DEF SInv
  <2>5. \A p \in FilePaths : files'[p] # 0 => files[p] # 0 /\ ParentPath(p) # jobs[j].path
    BY <2>2, <2>3, PrefixFacts, PathKinds
  <2>6. dirs' \subseteq DirPaths /\ TreeOf(files', dirs') /\ tombs' \subseteq Paths
    BY <2>2, <2>5 DEF SInv, StoreInv, TreeOf
  <2> QED
    BY <2>1, <2>4, <2>6, StoreRemote
<1>10. ASSUME NEW j \in Pending, JobReplace(j) PROVE StoreInv'
  <2>1. cache' = cache /\ siblings' = siblings /\ last' = last /\ live' = live
    BY <1>10 DEF JobReplace, JobStep, history
  <2>2. /\ files' = [p \in FilePaths |-> IF p = jobs[j].dest THEN 0 ELSE files[p]]
        /\ dirs' = dirs /\ tombs' = tombs
    BY <1>10 DEF JobReplace
  <2>3. files' \in [FilePaths -> 0 .. last]
    BY <2>2, StoreFacts DEF SInv
  <2>4. \A p \in FilePaths : files'[p] # 0 => files[p] # 0
    BY <2>2
  <2>5. dirs' \subseteq DirPaths /\ TreeOf(files', dirs') /\ tombs' \subseteq Paths
    BY <2>2, <2>4 DEF SInv, StoreInv, TreeOf
  <2> QED
    BY <2>1, <2>3, <2>5, StoreRemote
<1>11. ASSUME NEW j \in Pending, JobMove(j) PROVE StoreInv'
  <2>1. cache' = cache /\ siblings' = siblings /\ last' = last /\ live' = live
    BY <1>11 DEF JobMove, JobStep, history
  <2>2. tombs' \subseteq Paths
    BY <1>11 DEF JobMove, SInv, StoreInv
  <2>3. files' \in [FilePaths -> 0 .. last] /\ dirs' \subseteq DirPaths /\ TreeOf(files', dirs')
    BY <1>11, MoveRemote
  <2> QED
    BY <2>1, <2>2, <2>3, StoreRemote
<1>12. ASSUME NEW j \in Pending, JobFails(j) PROVE StoreInv'
  BY <1>12 DEF SInv, StoreInv, JobFails, remote
<1>13. ASSUME NEW t \in tombs, TombstoneExpires(t) PROVE StoreInv'
  BY <1>13 DEF SInv, StoreInv, TombstoneExpires, remote, history
<1>14. ASSUME Restart PROVE StoreInv'
  BY <1>14 DEF SInv, StoreInv, Restart, remote
<1>15. ASSUME NEW n \in Live, Hydrate(n) PROVE StoreInv'
  <2>1. /\ files' = files /\ dirs' = dirs /\ siblings' = siblings /\ last' = last
        /\ tombs' = tombs /\ live' = live
        /\ cache' = [cache EXCEPT ![rows[n].path] = files[rows[n].path]]
    BY <1>15 DEF Hydrate, UserStep
  <2>2. rows[n].path \in FilePaths
    BY <1>15, HydrateRows
  <2>3. cache' \in [FilePaths -> 0 .. last] /\ tombs' \subseteq Paths
    BY <2>1, <2>2, StoreFacts DEF SInv, StoreInv
  <2> QED
    BY <2>1, <2>3, StoreUser
<1>16. ASSUME NEW n \in Live, HydratePrunes(n) PROVE StoreInv'
  BY <1>16 DEF SInv, StoreInv, HydratePrunes, UserStep
<1>17. ASSUME NEW n \in Live, UploadStart(n) PROVE StoreInv'
  BY <1>17 DEF SInv, StoreInv, UploadStart, remote
<1>18. ASSUME NEW n \in Live, UploadReverts(n) PROVE StoreInv'
  BY <1>18 DEF SInv, StoreInv, UploadReverts, remote, history
<1>19. ASSUME UploadLands PROVE StoreInv'
  <2>1. /\ cache' = cache /\ siblings' = siblings /\ last' = last /\ live' = live /\ tombs' = tombs
        /\ files' = [files EXCEPT ![up.path] = cache[up.cp]] /\ dirs' = WithParent(dirs, up.path)
        /\ up # NoUpload
    BY <1>19 DEF UploadLands, UploadEnds, history
  <2>2. up.path \in FilePaths /\ up.cp \in FilePaths
    BY <2>1, UpRow
  <2>3. /\ files \in [FilePaths -> 0 .. last] /\ files' \in [FilePaths -> 0 .. last]
    BY <2>1, <2>2, StoreFacts DEF SInv
  <2>4. \A p \in FilePaths : p # up.path => files'[p] = files[p]
    BY <2>1, <2>3
  <2>5. /\ dirs' \subseteq DirPaths /\ dirs \subseteq dirs' /\ ParentPath(up.path) \in dirs' \cup {Root}
    BY <2>1, <2>2, WithParentFacts DEF SInv, StoreInv
  <2>6. TreeOf(files', dirs') /\ tombs' \subseteq Paths
    BY <2>1, <2>4, <2>5 DEF SInv, StoreInv, TreeOf
  <2> QED
    BY <2>1, <2>3, <2>5, <2>6, StoreRemote
<1>20. ASSUME UploadConflict PROVE StoreInv'
  <2> DEFINE r == rows[up.inode]
  <2>1. /\ files' = files /\ dirs' = dirs /\ last' = last /\ live' = live /\ tombs' = tombs
        /\ up # NoUpload
    BY <1>20 DEF UploadConflict, UploadEnds, history
  <2>2. cache \in [FilePaths -> 0 .. last] /\ files \in [FilePaths -> 0 .. last] /\ last \in Nat
    BY StoreFacts DEF SInv
  <2>3. CASE r = NoRow \/ r.cp = Root \/ cache[r.cp] = 0
    BY <1>20, <2>1, <2>3 DEF UploadConflict, SInv, StoreInv
  <2>4. CASE ~(r = NoRow \/ r.cp = Root \/ cache[r.cp] = 0)
    <3>1. /\ siblings' = siblings \cup ({cache[r.cp]} \ {files[r.path]})
          /\ cache' = cache \/ cache' = [cache EXCEPT ![r.cp] = files[r.path]]
      BY <1>20, <2>4 DEF UploadConflict
    <3>2. r.cp \in FilePaths /\ r.path \in FilePaths
      BY <2>1, <2>4, UpRow
    <3>3. cache[r.cp] \in Contents
      BY <2>2, <2>4, <3>2, StoreFacts, BoundsAssumption DEF SInv, Contents
    <3>4. siblings' \subseteq Contents
      BY <3>1, <3>3 DEF SInv, StoreInv
    <3>5. cache' \in [FilePaths -> 0 .. last]
      BY <2>2, <3>1, <3>2
    <3>6. /\ dirs' \subseteq DirPaths /\ TreeOf(files', dirs') /\ tombs' \subseteq Paths
          /\ last' \in Contents /\ live' \subseteq 1 .. last'
      BY <2>1 DEF SInv, StoreInv
    <3> QED
      BY <2>1, <2>2, <3>4, <3>5, <3>6, StoreNext
  <2> QED
    BY <2>3, <2>4
<1>21. ASSUME UploadFails PROVE StoreInv'
  BY <1>21 DEF SInv, StoreInv, UploadFails, UploadEnds, remote, history
<1>22. ASSUME PollList PROVE StoreInv'
  BY <1>22 DEF SInv, StoreInv, PollList, remote, history
<1>23. ASSUME PollApply PROVE StoreInv'
  <2>1. /\ files' = files /\ dirs' = dirs /\ siblings' = siblings /\ last' = last
        /\ tombs' = tombs /\ live' = live
        /\ cache' = [p \in FilePaths |-> IF \E n \in Sweep : rows[n].cp = p THEN 0 ELSE cache[p]]
    BY <1>23, PollParts DEF PollApply, remote
  <2>2. cache' \in [FilePaths -> 0 .. last] /\ tombs' \subseteq Paths
    BY <2>1, StoreFacts DEF SInv, StoreInv
  <2> QED
    BY <2>1, <2>2, StoreUser
<1>24. ASSUME NEW n \in DirInodes \cup {0}, Populate(n) PROVE StoreInv'
  BY <1>24 DEF SInv, StoreInv, Populate, remote, history
<1>25. ASSUME NEW n \in DirInodes, PopulateLocal(n) PROVE StoreInv'
  BY <1>25 DEF SInv, StoreInv, PopulateLocal, remote, history
<1>26. ASSUME PopulateApply PROVE StoreInv'
  BY <1>26 DEF SInv, StoreInv, PopulateApply, remote, history
<1>27. ASSUME PopulateFails PROVE StoreInv'
  BY <1>27 DEF SInv, StoreInv, PopulateFails, remote
<1>28. ASSUME NEW n \in Inodes, PrefetchList(n) PROVE StoreInv'
  BY <1>28 DEF SInv, StoreInv, PrefetchList, remote, history
<1>29. ASSUME NEW n \in Inodes, PrefetchApply(n) PROVE StoreInv'
  BY <1>29 DEF SInv, StoreInv, PrefetchApply, remote
<1>31. ASSUME PollRefused PROVE StoreInv'
  BY <1>31 DEF SInv, StoreInv, PollRefused, remote
<1>30. CASE UNCHANGED vars
  BY <1>30 DEF SInv, StoreInv, vars
<1> QED
  BY <1>1, <1>2, <1>3, <1>4, <1>5, <1>6, <1>7, <1>8, <1>9, <1>10, <1>11, <1>12,
     <1>13, <1>14, <1>15, <1>16, <1>17, <1>18, <1>19, <1>20, <1>21, <1>22,
     <1>23, <1>24, <1>25, <1>26, <1>27, <1>28, <1>29, <1>30, <1>31 DEF Next
\* The two initial states.
InitRemote(d, f) ==
  /\ files = [p \in FilePaths |-> IF p = <<f>> THEN 1 ELSE IF p = <<d, f>> THEN 2 ELSE 0]
  /\ dirs = {<<d>>}
FreshMount ==
  /\ rows = [n \in Inodes |-> NoRow] /\ next = 1 /\ listed = FALSE
  /\ cache = [p \in FilePaths |-> 0]
  /\ live = {1, 2} /\ last = 2
KnownMount(d, f, g) ==
  /\ rows \in [Inodes -> RowType] /\ Live = {1, 2, 3, 4} /\ next = 5 /\ listed = TRUE
  /\ rows[1].path = <<d>> /\ rows[1].parent = 0 /\ rows[1].status = "remote" /\ rows[1].cp = Root
  /\ rows[2].path = <<f>> /\ rows[2].parent = 0 /\ rows[2].status = "cached" /\ rows[2].cp = <<f>>
  /\ rows[3].path = <<d, f>> /\ rows[3].parent = 1 /\ rows[3].status = "remote" /\ rows[3].cp = Root
  /\ rows[4].path = <<g>> /\ rows[4].parent = 0 /\ rows[4].status = "dirty" /\ rows[4].cp = <<g>>
  /\ cache = [p \in FilePaths |-> IF p = <<f>> THEN 1 ELSE IF p = <<g>> THEN 3 ELSE 0]
  /\ live = {1, 2, 3} /\ last = 3

LEMMA SmallNumbers ==
  /\ 1 \in Inodes /\ 2 \in Inodes /\ 3 \in Inodes /\ 4 \in Inodes
  /\ 1 \in Contents /\ 2 \in Contents /\ 3 \in Contents
  /\ 1 \in 0 .. MaxContents /\ 2 \in 0 .. MaxContents /\ 0 \in 0 .. MaxContents
  /\ 0 \in 0 .. MaxInode /\ 1 \in 0 .. MaxInode /\ 3 \in 0 .. MaxContents
  /\ 1 \in 1 .. MaxInode + 1 /\ 5 \in 1 .. MaxInode + 1
  /\ 0 \in 0 .. MaxEvents /\ 0 \in 0 .. MaxFaults
BY BoundsAssumption DEF Inodes, Contents

LEMMA InitPaths ==
  ASSUME NEW d \in DirNames, NEW f \in FileNames, NEW g \in FileNames, f # g
  PROVE  /\ <<d>> \in DirPaths /\ <<f>> \in FilePaths /\ <<g>> \in FilePaths /\ <<d, f>> \in FilePaths
         /\ <<d>> \in Paths /\ <<f>> \in Paths /\ <<g>> \in Paths /\ <<d, f>> \in Paths
         /\ <<d>> \notin FilePaths /\ <<f>> \notin DirPaths /\ <<g>> \notin DirPaths
         /\ <<d, f>> \notin DirPaths /\ Root \notin Paths /\ Root \notin FilePaths
         /\ <<f>> # <<g>> /\ <<f>> # <<d, f>> /\ <<g>> # <<d, f>> /\ <<d>> # <<f>> /\ <<d>> # <<g>>
         /\ <<d>> # <<d, f>>
<1>1. <<d>> \in DirPaths /\ <<f>> \in FilePaths /\ <<g>> \in FilePaths /\ <<d, f>> \in FilePaths
  BY DEF DirPaths, FilePaths
<1>2. /\ <<d>> \in Paths /\ <<f>> \in Paths /\ <<g>> \in Paths /\ <<d, f>> \in Paths
      /\ <<d>> \notin FilePaths /\ <<f>> \notin DirPaths /\ <<g>> \notin DirPaths
      /\ <<d, f>> \notin DirPaths /\ Root \notin Paths /\ Root \notin FilePaths
  BY <1>1, PathKinds
<1>3. <<f>> # <<g>> /\ <<f>> # <<d, f>> /\ <<g>> # <<d, f>> /\ <<d>> # <<f>> /\ <<d>> # <<g>>
  BY <1>1, <1>2, OneTwo
<1> QED
  BY <1>1, <1>2, <1>3, OneTwo

LEMMA InitCases ==
  ASSUME Init
  PROVE  \E d \in DirNames, f \in FileNames, g \in FileNames :
           f # g /\ InitRemote(d, f) /\ (FreshMount \/ KnownMount(d, f, g))
<1> DEFINE d == CHOOSE x \in DirNames : TRUE
           f == CHOOSE x \in FileNames : TRUE
           g == CHOOSE x \in FileNames \ {f} : TRUE
           synced(r) == [r EXCEPT !.polled = TRUE, !.listed = (r.path \in DirPaths)]
           r1 == synced(Row(<<d>>, 0, "remote", 0, Root))
           r2 == synced(Row(<<f>>, 0, "cached", 1, <<f>>))
           r3 == synced(Row(<<d, f>>, 1, "remote", 2, Root))
           r4 == Row(<<g>>, 0, "dirty", 0, <<g>>)
           Old == /\ rows = [n \in Inodes |-> CASE n = 1 -> r1 [] n = 2 -> r2 [] n = 3 -> r3
                                                [] n = 4 -> r4 [] OTHER -> NoRow]
                  /\ next = 5 /\ listed = TRUE
                  /\ cache = [p \in FilePaths |-> IF p = <<f>> THEN 1 ELSE IF p = <<g>> THEN 3 ELSE 0]
                  /\ live = {1, 2, 3} /\ last = 3
<1>1. d \in DirNames /\ f \in FileNames /\ g \in FileNames /\ g # f
  <2>1. PICK x \in FileNames, y \in FileNames : x # y
    BY NamesAssumption
  <2>2. f \in FileNames /\ d \in DirNames
    BY <2>1, NamesAssumption
  <2> HIDE DEF f, d
  <2>3. FileNames \ {f} # {}
    BY <2>1, <2>2
  <2> QED
    BY <2>2, <2>3
<1>2. InitRemote(d, f) /\ (FreshMount \/ Old)
  BY DEF Init, InitRemote, FreshMount
<1> HIDE DEF d, f, g
<1>3. ASSUME Old PROVE KnownMount(d, f, g)
  <2>1. /\ Row(<<d>>, 0, "remote", 0, Root) \in RowType
        /\ Row(<<f>>, 0, "cached", 1, <<f>>) \in RowType
        /\ Row(<<d, f>>, 1, "remote", 2, Root) \in RowType
    BY <1>1, InitPaths, SmallNumbers DEF Row, RowType, Statuses
  <2>2. ASSUME NEW r \in RowType
        PROVE  /\ synced(r) \in RowType /\ synced(r).path = r.path /\ synced(r).parent = r.parent
               /\ synced(r).status = r.status /\ synced(r).cp = r.cp
    <3> DEFINE b == (r.path \in DirPaths)
    <3>1. synced(r) = [r EXCEPT !.polled = TRUE, !.listed = b]
      OBVIOUS
    <3>2. b \in BOOLEAN
      OBVIOUS
    <3> HIDE DEF b, synced
    <3> QED
      BY <2>2, <3>1, <3>2 DEF RowType
  <2> HIDE DEF synced
  <2>3. /\ r1 \in RowType /\ r1.path = <<d>> /\ r1.parent = 0 /\ r1.status = "remote" /\ r1.cp = Root
        /\ r2 \in RowType /\ r2.path = <<f>> /\ r2.parent = 0 /\ r2.status = "cached" /\ r2.cp = <<f>>
        /\ r3 \in RowType /\ r3.path = <<d, f>> /\ r3.parent = 1 /\ r3.status = "remote" /\ r3.cp = Root
    BY <2>1, <2>2 DEF Row
  <2>4. /\ r4 \in RowType /\ r4.path = <<g>> /\ r4.parent = 0 /\ r4.status = "dirty" /\ r4.cp = <<g>>
    BY <1>1, InitPaths, SmallNumbers DEF Row, RowType, Statuses
  <2> HIDE DEF r1, r2, r3, r4
  <2>5. /\ rows[1] = r1 /\ rows[2] = r2 /\ rows[3] = r3 /\ rows[4] = r4
        /\ \A n \in Inodes \ {1, 2, 3, 4} : rows[n] = NoRow
    BY <1>3, SmallNumbers
  <2>6. rows \in [Inodes -> RowType]
    BY <1>3, <2>3, <2>4, NoRowFacts
  <2>7. \A n \in {1, 2, 3, 4} : rows[n].path # Root
    <3>1. <<d>> # Root /\ <<f>> # Root /\ <<g>> # Root /\ <<d, f>> # Root
      BY OneName, TwoNames
    <3> QED
      BY <2>3, <2>4, <2>5, <3>1
  <2>8. Live = {1, 2, 3, 4}
    BY <2>5, <2>7, NoRowFacts, SmallNumbers DEF Live
  <2> QED
    BY <1>3, <2>3, <2>4, <2>5, <2>6, <2>8 DEF KnownMount
<1> HIDE DEF Old
<1> QED
  BY <1>1, <1>2, <1>3

LEMMA InitRows ==
  ASSUME Init PROVE RowsInv
<1>1. PICK d \in DirNames, f \in FileNames, g \in FileNames :
        f # g /\ InitRemote(d, f) /\ (FreshMount \/ KnownMount(d, f, g))
  BY InitCases
<1>2. CASE FreshMount
  BY <1>2, NoRowFacts, SmallNumbers DEF FreshMount, RowsInv, RowsUnique, RowsParent, RowsNamed, Live
<1>3. CASE KnownMount(d, f, g)
  <2>1. /\ rows \in [Inodes -> RowType] /\ Live = {1, 2, 3, 4} /\ next = 5
        /\ rows[1].path = <<d>> /\ rows[1].parent = 0 /\ rows[1].status = "remote" /\ rows[1].cp = Root
        /\ rows[2].path = <<f>> /\ rows[2].parent = 0 /\ rows[2].cp = <<f>>
        /\ rows[3].path = <<d, f>> /\ rows[3].parent = 1 /\ rows[3].status = "remote"
        /\ rows[4].path = <<g>> /\ rows[4].parent = 0 /\ rows[4].cp = <<g>>
    BY <1>3 DEF KnownMount
  <2>2. GoodRow(rows[1]) /\ GoodRow(rows[2]) /\ GoodRow(rows[3]) /\ GoodRow(rows[4])
    BY <1>1, <2>1, InitPaths, SmallNumbers DEF GoodRow, Unsynced, HasFile
  <2>3. RowsUnique
    <3> SUFFICES ASSUME NEW m \in {1, 2, 3, 4}, NEW n \in {1, 2, 3, 4}, rows[m].path = rows[n].path
                 PROVE  m = n
      BY <2>1 DEF RowsUnique
    <3>1. /\ <<f>> # <<g>> /\ <<f>> # <<d, f>> /\ <<g>> # <<d, f>> /\ <<d>> # <<f>> /\ <<d>> # <<g>>
          /\ <<d>> # <<d, f>>
      BY <1>1, InitPaths
    <3> QED
      BY <2>1, <3>1
  <2>4. RowsParent
    <3>1. 1 \in DirInodes
      <4>1. <<d>> \in DirPaths
        BY DEF DirPaths
      <4> QED
        BY <2>1, <4>1 DEF DirInodes, IsDir
    <3>2. \A n \in {1, 2, 3, 4} : rows[n].parent \in {0, 1}
      BY <2>1
    <3> QED
      BY <2>1, <3>1, <3>2 DEF RowsParent
  <2>5. \A n \in Inodes : rows[n] = NoRow \/ (n < next /\ GoodRow(rows[n]))
    <3>1. \A n \in {1, 2, 3, 4} : n < next
      BY <2>1
    <3>2. \A n \in Inodes : rows[n] = NoRow \/ n \in {1, 2, 3, 4}
      BY <2>1 DEF Live
    <3> QED
      BY <2>2, <3>1, <3>2
  <2>6. RowsNamed
    <3> SUFFICES ASSUME NEW m \in {1, 2, 3, 4}, NEW n \in {1, 2, 3, 4}, rows[m].parent = rows[n].parent,
                        Last(rows[m].path) = Last(rows[n].path)
                 PROVE  m = n
      BY <2>1 DEF RowsNamed
    <3>1. Last(<<d>>) = d /\ Last(<<f>>) = f /\ Last(<<g>>) = g /\ d # f /\ d # g
      BY OneName, NamesAssumption
    <3> QED
      BY <1>1, <2>1, <3>1
  <2> QED
    BY <2>1, <2>3, <2>4, <2>5, <2>6, SmallNumbers DEF RowsInv
<1> QED
  BY <1>1, <1>2, <1>3

LEMMA InitStore ==
  ASSUME Init PROVE StoreInv
<1>1. PICK d \in DirNames, f \in FileNames, g \in FileNames :
        f # g /\ InitRemote(d, f) /\ (FreshMount \/ KnownMount(d, f, g))
  BY InitCases
<1>2. files \in [FilePaths -> 0 .. MaxContents] /\ dirs \subseteq DirPaths
  BY <1>1, InitPaths, SmallNumbers DEF InitRemote
<1>3. TreeOf(files, dirs)
  <2>1. ParentPath(<<f>>) = Root /\ ParentPath(<<d, f>>) = <<d>>
    BY OneName, TwoNames DEF ParentPath
  <2> QED
    BY <1>1, <2>1 DEF TreeOf, InitRemote
<1>4. cache \in [FilePaths -> 0 .. MaxContents]
  BY <1>1, SmallNumbers DEF FreshMount, KnownMount
<1>5. last \in Contents /\ live \subseteq 1 .. last
  BY <1>1, SmallNumbers DEF FreshMount, KnownMount
<1>6. \A p \in FilePaths : files[p] \in {0, 1, 2}
  BY <1>1 DEF InitRemote
<1>7. \/ last = 2 /\ \A p \in FilePaths : cache[p] = 0
      \/ last = 3 /\ \A p \in FilePaths : cache[p] \in {0, 1, 3}
  BY <1>1 DEF FreshMount, KnownMount
<1>8. \A p \in FilePaths : files[p] <= last /\ cache[p] <= last
  BY <1>6, <1>7
<1>9. siblings = {} /\ tombs = {}
  BY DEF Init
<1> QED
  BY <1>2, <1>3, <1>4, <1>5, <1>8, <1>9 DEF StoreInv

LEMMA InitSInv == Init => SInv
<1> SUFFICES ASSUME Init PROVE SInv
  OBVIOUS
<1>1. /\ jobs = [j \in 1 .. MaxEvents |-> NoJob] /\ causes = {} /\ events = 0 /\ faults = 0
      /\ up = NoUpload /\ poll = NoPoll /\ pop = NoList /\ pre = [n \in Inodes |-> NoList]
      /\ listed \in BOOLEAN /\ refused = FALSE
  BY DEF Init
<1>2. RowsInv /\ StoreInv
  BY InitRows, InitStore
<1>3. JobsInv
  BY <1>1, GoodJobs, SmallNumbers DEF JobsInv, GoodJob
<1>4. UpInv
  BY <1>1, SmallNumbers DEF UpInv, UpFits, UpType, NoUpload
<1>5. PollInv
  BY <1>1, SmallNumbers DEF PollInv, PollType, NoPoll, TreeOf
<1>6. ListsInv
  <2>1. ListInv(NoList) /\ NoList \in ListType /\ NoList.pc # "list"
    BY <1>2, NoListFits
  <2> QED
    BY <1>1, <2>1 DEF ListsInv
<1>7. MiscInv
  BY <1>1, SmallNumbers DEF MiscInv
<1> QED
  BY <1>2, <1>3, <1>4, <1>5, <1>6, <1>7 DEF SInv

LEMMA SInvStep ==
  ASSUME SInv, [Next]_vars PROVE SInv'
<1>1. RowsInv' /\ RowsKept
  BY RowsStep
<1>2. JobsInv' /\ PollInv' /\ StoreInv' /\ MiscInv'
  BY JobsStep, PollStep, StoreStep, MiscStep
<1>3. UpInv' /\ ListsInv'
  BY <1>1, UpStep, ListsStep
<1> QED
  BY <1>1, <1>2, <1>3 DEF SInv

\* The tree stays well formed for any names, orders and bounds: whatever creates,
\* renames, deletes, polls, listings and failing calls do to the tables, no two rows
\* have one path or one name under a parent (the two UNIQUE constraints of file_index;
\* the write that would break one is refused), and a row's parent is a directory's row.
THEOREM TypeCorrect == Spec => []TypeOK
<1>1. Spec => []SInv
  <2>1. SInv /\ [Next]_vars => SInv'
    BY SInvStep
  <2> QED
    BY InitSInv, <2>1, PTL DEF Spec
<1> QED
  BY <1>1, SInvTypes, PTL
-----------------------------------------------------------------------------
(* The rows form the tree that their paths say, until a directory is       *)
(* renamed: its row moves, the paths of its children stay.                 *)

Placed == \A n \in Live : PathOf(rows[n].parent) = ParentPath(rows[n].path)
ListPlaced(l, R) == l.inode # 0 /\ R[l.inode] # NoRow => R[l.inode].path = l.path
ListsPlaced == ListPlaced(pop, rows) /\ \A n \in Inodes : ListPlaced(pre[n], rows)
TreeInv == "dir" \notin causes => Placed /\ ListsPlaced

\* In such a tree no upsert of a poll or of a listing finds its name taken.
LEMMA PollFine ==
  ASSUME RowsInv, PollInv, tombs \subseteq Paths, Placed, NEW p \in Todo
  PROVE  ~Refused(p, Todo, NewPaths(Todo))
<1> DEFINE new == NewPaths(Todo)
<1>1. Closed(Todo) /\ Todo \subseteq Paths
  BY TodoClosed, TodoFacts
<1> SUFFICES ASSUME NEW q \in Paths \ {p}, Last(q) = Last(p),
                    IF q \in Earlier(p, Todo) THEN At(q, new) = At(p, new)
                    ELSE \E n \in ByPath(q) : rows[n].parent = At(p, new)
             PROVE  FALSE
  BY DEF Refused
<1>2. CASE q \in Earlier(p, Todo)
  <2>1. q \in Todo /\ At(q, new) = At(p, new)
    BY <1>2 DEF Earlier
  <2>2. PathAt(At(p, new), new) = ParentPath(p) /\ PathAt(At(q, new), new) = ParentPath(q)
    BY <1>1, <2>1, AtFacts
  <2> QED
    BY <1>1, <2>1, <2>2, SamePath
<1>3. CASE q \notin Earlier(p, Todo)
  <2>1. PICK n \in Live : rows[n].path = q /\ rows[n].parent = At(p, new)
    BY <1>3 DEF ByPath
  <2>2. PICK a : a = At(p, new)
    OBVIOUS
  <2>3. a \in DirInodes \cup {0} /\ PathOf(a) = ParentPath(q)
    BY <2>1, <2>2 DEF Placed, RowsInv, RowsParent
  <2>4. /\ ParentPath(p) = Root => a = 0
        /\ ParentPath(p) # Root =>
             \/ a \in Live /\ rows[a].path = ParentPath(p)
             \/ \E i \in 1 .. Len(new) : a = next + i - 1
    BY <1>1, <2>2, AtFacts
  <2>5. /\ next \in Nat /\ Len(new) \in Nat /\ next >= 1
        /\ \A d \in DirInodes : d \in Nat /\ d # 0 /\ d < next
    <3>1. next \in Nat /\ next >= 1
      BY BoundsAssumption DEF RowsInv
    <3>2. Len(new) \in Nat
      BY <1>1, NewPathsFacts
    <3>3. \A d \in DirInodes : d \in Inodes /\ d < next
      BY LiveFacts
    <3> QED
      BY <3>1, <3>2, <3>3, NoRowFacts
  <2> HIDE DEF new
  <2>6. ASSUME NEW i \in 1 .. Len(new), a = next + i - 1 PROVE FALSE
    BY <2>3, <2>5, <2>6
  <2>7. PathOf(a) = ParentPath(p)
    <3>1. CASE ParentPath(p) = Root
      BY <2>4, <3>1 DEF PathOf
    <3>2. CASE ParentPath(p) # Root
      <4>1. a \in Live /\ rows[a].path = ParentPath(p)
        BY <2>4, <2>6, <3>2
      <4>2. a # 0
        BY <4>1, LiveFacts, NoRowFacts
      <4> QED
        BY <4>1, <4>2 DEF PathOf
    <3> QED
      BY <3>1, <3>2
  <2> QED
    BY <1>1, <2>3, <2>7, SamePath
<1> QED
  BY <1>2, <1>3

LEMMA ListFine ==
  ASSUME RowsInv, Placed, NEW l, ListInv(l), ListPlaced(l, rows), NEW S \in SUBSET Entries(l)
  PROVE  ~Refuses(l, S)
<1> SUFFICES ASSUME NEW p \in S, NEW n \in Named(l.inode, Last(p)) \ ByPath(p) PROVE FALSE
  BY DEF Refuses, Clashes
<1>1. p \in Paths /\ ParentPath(p) = l.path
  BY EntryFacts
<1>2. n \in Live /\ rows[n].parent = l.inode /\ Last(rows[n].path) = Last(p) /\ rows[n].path # p
  BY DEF Named, Name, ByPath
<1>3. rows[n].path \in Paths
  BY <1>2, RowFields
<1>4. l.inode \in DirInodes \cup {0} /\ PathOf(l.inode) = ParentPath(rows[n].path)
  BY <1>2 DEF Placed, RowsInv, RowsParent
<1>5. PathOf(l.inode) = l.path
  <2>1. CASE l.inode = 0
    BY <2>1 DEF ListInv, ListFits, PathOf
  <2>2. CASE l.inode # 0
    BY <1>4, <2>2 DEF PathOf, ListPlaced, DirInodes, Live
  <2> QED
    BY <2>1, <2>2
<1> QED
  BY <1>1, <1>2, <1>3, <1>4, <1>5, SamePath

\* A directory's row keeps its path.
DirsStay == \A n \in Live : IsDir(n) /\ n \in Live' => rows'[n].path = rows[n].path

LEMMA PlacedKept ==
  ASSUME RowsInv, RowsInv', Placed, DirsStay,
         \A m \in Live' : \/ /\ m \in Live /\ rows'[m].parent = rows[m].parent
                             /\ rows'[m].path = rows[m].path
                          \/ PathOf(rows[m].parent)' = ParentPath(rows'[m].path)
  PROVE  Placed'
<1> SUFFICES ASSUME NEW m \in Live' PROVE PathOf(rows[m].parent)' = ParentPath(rows'[m].path)
  BY DEF Placed
<1> DEFINE q == rows[m].parent
<1>1. CASE m \in Live /\ rows'[m].parent = rows[m].parent /\ rows'[m].path = rows[m].path
  <2>1. q \in DirInodes \cup {0} /\ PathOf(q) = ParentPath(rows[m].path)
    BY <1>1 DEF RowsInv, RowsParent, Placed
  <2>2. q \in DirInodes' \cup {0}
    BY <1>1 DEF RowsInv, RowsParent
  <2>3. q # 0 => rows'[q].path = rows[q].path
    BY <2>1, <2>2 DEF DirsStay, DirInodes
  <2> QED
    BY <1>1, <2>1, <2>3 DEF PathOf
<1>2. CASE PathOf(rows[m].parent)' = ParentPath(rows'[m].path)
  BY <1>2
<1> QED
  BY <1>1, <1>2

LEMMA SamePlaces ==
  ASSUME RowsInv, Placed, rows' = rows PROVE DirsStay /\ Placed'
BY DEF DirsStay, Placed, Live, PathOf

LEMMA TouchPlaces ==
  ASSUME RowsInv, Placed, NEW n, NEW r, TouchRow(n, r) PROVE DirsStay /\ Placed'
<1>1. /\ RowsInv' /\ Live' = Live
      /\ \A m \in Live : rows'[m].path = rows[m].path /\ rows'[m].parent = rows[m].parent
  BY TouchRows
<1>2. DirsStay
  BY <1>1 DEF DirsStay
<1> QED
  BY <1>1, <1>2, PlacedKept

LEMMA RemovePlaces ==
  ASSUME RowsInv, Placed, NEW n, RemoveRow(n) PROVE DirsStay /\ Placed'
<1>1. /\ RowsInv' /\ Live' = Live \ {n} /\ \A m \in Inodes \ {n} : rows'[m] = rows[m]
  BY RemoveRows
<1>2. \A m \in Live' : m \in Live /\ rows'[m] = rows[m]
  BY <1>1 DEF Live
<1>3. DirsStay
  BY <1>2 DEF DirsStay
<1> QED
  BY <1>1, <1>2, <1>3, PlacedKept

LEMMA InsertPlaces ==
  ASSUME RowsInv, Placed, NEW r, InsertRow(r), PathOf(r.parent) = ParentPath(r.path)
  PROVE  DirsStay /\ Placed'
<1>1. /\ RowsInv' /\ Live' = Live \cup {next} /\ \A m \in Inodes \ {next} : rows'[m] = rows[m]
      /\ next \notin Live /\ rows'[next] = r
  BY InsertRows
<1>2. \A m \in Live : rows'[m] = rows[m]
  BY <1>1 DEF Live
<1>3. DirsStay
  BY <1>2 DEF DirsStay
<1>4. r.parent \in DirInodes \cup {0} /\ (r.parent # 0 => rows'[r.parent] = rows[r.parent])
  BY <1>2 DEF InsertRow, DirInodes
<1>5. PICK k : k = next
  OBVIOUS
<1>6. PathOf(rows[k].parent)' = ParentPath(rows'[k].path)
  BY <1>1, <1>4, <1>5 DEF PathOf
<1> QED
  BY <1>1, <1>2, <1>3, <1>5, <1>6, PlacedKept

LEMMA MovePlaces ==
  ASSUME RowsInv, Placed, NEW n, NEW r, NEW Z, MoveRow(n, r, Z), ~IsDir(n),
         PathOf(r.parent) = ParentPath(r.path)
  PROVE  DirsStay /\ Placed'
<1>1. /\ RowsInv' /\ Live' = Live \ Z /\ rows'[n] = r
      /\ \A m \in Inodes \ (Z \cup {n}) : rows'[m] = rows[m]
  BY MoveRows
<1>2. \A m \in Live' : m \in Live /\ (m # n => rows'[m] = rows[m])
  BY <1>1 DEF Live
<1>3. DirsStay
  BY <1>2 DEF DirsStay
<1>4. r.parent \in (DirInodes \ Z) \cup {0}
  BY DEF MoveRow
<1>5. r.parent # 0 => rows'[r.parent] = rows[r.parent]
  BY <1>1, <1>2, <1>4 DEF DirInodes
<1>6. PathOf(rows[n].parent)' = ParentPath(rows'[n].path)
  BY <1>1, <1>5 DEF PathOf
<1> QED
  BY <1>1, <1>2, <1>3, <1>6, PlacedKept

LEMMA RefillDirs ==
  ASSUME RowsInv, NEW S, NEW Z, Refill(S, Z) PROVE DirsStay
<1>1. \A n \in Live \ Z : rows'[n].path = rows[n].path
  BY DEF Refill
<1>2. Live' = (Live \ Z) \cup NewInodes /\ NewInodes \cap Live = {}
  BY RefillRows
<1> QED
  BY <1>1, <1>2 DEF DirsStay

LEMMA PollPlaces ==
  ASSUME RowsInv, Placed, Refill(Seen, Sweep), Polled PROVE DirsStay /\ Placed'
<1>1. DirsStay /\ RowsInv' /\ \A n \in Live \ Sweep : rows'[n].path = rows[n].path
  <2>1. DirsStay
    BY RefillDirs
  <2>2. RowsInv'
    BY RefillRows
  <2>3. \A n \in Live \ Sweep : rows'[n].path = rows[n].path
    BY DEF Refill
  <2> QED
    BY <2>1, <2>2, <2>3
<1>2. \A m \in Live' : \/ /\ m \in Live /\ rows'[m].parent = rows[m].parent
                          /\ rows'[m].path = rows[m].path
                       \/ PathOf(rows[m].parent)' = ParentPath(rows'[m].path)
  BY <1>1 DEF Polled
<1> QED
  BY <1>1, <1>2, PlacedKept

LEMMA BatchPlaces ==
  ASSUME RowsInv, Placed, NEW l, ListInv(l), ListPlaced(l, rows), l.inode # 0 => rows[l.inode] # NoRow,
         NEW S \in SUBSET Entries(l), Refill(S, {}), Upserted(l, S)
  PROVE  DirsStay /\ Placed'
<1>1. DirsStay /\ RowsInv' /\ Live' = Live \cup NewInodes /\ \A n \in Live : rows'[n].path = rows[n].path
  <2>1. DirsStay /\ RowsInv' /\ Live' = (Live \ {}) \cup NewInodes
    BY RefillDirs, RefillRows
  <2>2. \A n \in Live \ {} : rows'[n].path = rows[n].path
    BY DEF Refill
  <2> QED
    BY <2>1, <2>2
<1>2. \A n \in NewInodes : rows'[n].path \in S /\ rows'[n].parent = l.inode
  BY DEF Refill, Upserted
<1>3. \A n \in Live : rows'[n].parent = IF rows[n].path \in S THEN l.inode ELSE rows[n].parent
  BY DEF Upserted
<1>4. \A p \in S : ParentPath(p) = l.path
  BY EntryFacts
<1>5. l.inode # 0 => l.inode \in Live
  <2>1. l.inode \in 0 .. MaxInode
    BY DEF ListInv, ListFits, ListType
  <2> QED
    BY <2>1, BoundsAssumption DEF Live, Inodes
<1>6. l.inode = 0 => l.path = Root
  BY DEF ListInv, ListFits
<1>7. ASSUME NEW m \in Live', rows'[m].parent = l.inode, rows'[m].path \in S
      PROVE  PathOf(rows[m].parent)' = ParentPath(rows'[m].path)
  <2>1. CASE l.inode = 0
    BY <1>4, <1>6, <1>7, <2>1 DEF PathOf
  <2>2. CASE l.inode # 0
    <3>1. rows'[l.inode].path = l.path
      BY <1>1, <1>5, <2>2 DEF ListPlaced
    <3> QED
      BY <1>4, <1>7, <2>2, <3>1 DEF PathOf
  <2> QED
    BY <2>1, <2>2
<1>8. \A m \in Live' : \/ /\ m \in Live /\ rows'[m].parent = rows[m].parent
                          /\ rows'[m].path = rows[m].path
                       \/ PathOf(rows[m].parent)' = ParentPath(rows'[m].path)
  BY <1>1, <1>2, <1>3, <1>7
<1> QED
  BY <1>1, <1>8, PlacedKept

LEMMA CausesGrow ==
  ASSUME [Next]_vars
  PROVE  causes \subseteq causes'
<1>1. ASSUME NEW parent \in DirInodes \cup {0}, NEW name \in FileNames, Create(parent, name)
      PROVE  causes \subseteq causes'
  BY <1>1 DEF Create, UserStep
<1>2. ASSUME NEW n \in Live, Write(n) PROVE causes \subseteq causes'
  BY <1>2 DEF Write, UserStep
<1>3. ASSUME NEW name \in DirNames, handle_mkdir(name) PROVE causes \subseteq causes'
  BY <1>3 DEF handle_mkdir, UserStep
<1>4. ASSUME NEW n \in Live, handle_unlink(n) PROVE causes \subseteq causes'
  BY <1>4 DEF handle_unlink, UserStep
<1>5. ASSUME NEW n \in Live, handle_rmdir(n) PROVE causes \subseteq causes'
  BY <1>5 DEF handle_rmdir, UserStep
<1>6. ASSUME NEW n \in Live, NEW parent \in DirInodes \cup {0}, NEW name \in FileNames \cup DirNames, handle_rename(n, parent, name)
      PROVE  causes \subseteq causes'
  BY <1>6 DEF handle_rename, UserStep
<1>7. ASSUME NEW j \in Pending, JobMkdir(j) PROVE causes \subseteq causes'
  BY <1>7 DEF JobMkdir, JobStep, history
<1>8. ASSUME NEW j \in Pending, JobDelete(j) PROVE causes \subseteq causes'
  BY <1>8 DEF JobDelete, JobStep, history
<1>9. ASSUME NEW j \in Pending, JobRmdir(j) PROVE causes \subseteq causes'
  BY <1>9 DEF JobRmdir, JobStep, history
<1>10. ASSUME NEW j \in Pending, JobReplace(j) PROVE causes \subseteq causes'
  BY <1>10 DEF JobReplace, JobStep, history
<1>11. ASSUME NEW j \in Pending, JobMove(j) PROVE causes \subseteq causes'
  BY <1>11 DEF JobMove, JobStep, history
<1>12. ASSUME NEW j \in Pending, JobFails(j) PROVE causes \subseteq causes'
  BY <1>12 DEF JobFails
<1>13. ASSUME NEW t \in tombs, TombstoneExpires(t) PROVE causes \subseteq causes'
  BY <1>13 DEF TombstoneExpires, history
<1>14. ASSUME Restart PROVE causes \subseteq causes'
  BY <1>14 DEF Restart
<1>15. ASSUME NEW n \in Live, Hydrate(n) PROVE causes \subseteq causes'
  BY <1>15 DEF Hydrate, UserStep
<1>16. ASSUME NEW n \in Live, HydratePrunes(n) PROVE causes \subseteq causes'
  BY <1>16 DEF HydratePrunes, UserStep
<1>17. ASSUME NEW n \in Live, UploadStart(n) PROVE causes \subseteq causes'
  BY <1>17 DEF UploadStart
<1>18. ASSUME NEW n \in Live, UploadReverts(n) PROVE causes \subseteq causes'
  BY <1>18 DEF UploadReverts, history
<1>19. ASSUME UploadLands PROVE causes \subseteq causes'
  BY <1>19 DEF UploadLands, UploadEnds, history
<1>20. ASSUME UploadConflict PROVE causes \subseteq causes'
  BY <1>20 DEF UploadConflict, UploadEnds, history
<1>21. ASSUME UploadFails PROVE causes \subseteq causes'
  BY <1>21 DEF UploadFails, UploadEnds, history
<1>22. ASSUME PollList PROVE causes \subseteq causes'
  BY <1>22 DEF PollList, history
<1>23. ASSUME PollApply PROVE causes \subseteq causes'
  BY <1>23 DEF PollApply
<1>24. ASSUME NEW n \in DirInodes \cup {0}, Populate(n) PROVE causes \subseteq causes'
  BY <1>24 DEF Populate, history
<1>25. ASSUME NEW n \in DirInodes, PopulateLocal(n) PROVE causes \subseteq causes'
  BY <1>25 DEF PopulateLocal, history
<1>26. ASSUME PopulateApply PROVE causes \subseteq causes'
  BY <1>26 DEF PopulateApply, history
<1>27. ASSUME PopulateFails PROVE causes \subseteq causes'
  BY <1>27 DEF PopulateFails
<1>28. ASSUME NEW n \in Inodes, PrefetchList(n) PROVE causes \subseteq causes'
  BY <1>28 DEF PrefetchList, history
<1>29. ASSUME NEW n \in Inodes, PrefetchApply(n) PROVE causes \subseteq causes'
  BY <1>29 DEF PrefetchApply
<1>31. ASSUME PollRefused PROVE causes \subseteq causes'
  BY <1>31 DEF PollRefused
<1>30. CASE UNCHANGED vars
  BY <1>30 DEF vars
<1> QED
  BY <1>1, <1>2, <1>3, <1>4, <1>5, <1>6, <1>7, <1>8, <1>9, <1>10, <1>11, <1>12,
     <1>13, <1>14, <1>15, <1>16, <1>17, <1>18, <1>19, <1>20, <1>21, <1>22,
     <1>23, <1>24, <1>25, <1>26, <1>27, <1>28, <1>29, <1>30, <1>31 DEF Next

LEMMA PlacesStep ==
  ASSUME SInv, RowsInv, [Next]_vars, Placed, ListsPlaced, "dir" \notin causes'
  PROVE  DirsStay /\ Placed'
<1>1. ASSUME NEW parent \in DirInodes \cup {0}, NEW name \in FileNames, Create(parent, name)
      PROVE  DirsStay /\ Placed'
  <2> DEFINE q == join_remote(PathOf(parent), name)
              r == Row(q, parent, "dirty", 0, q)
  <2>1. CASE ByPath(q) # {}
    BY <1>1, <2>1, CreateRows, SamePlaces
  <2>2. CASE ByPath(q) = {}
    <3>1. InsertRow(r) /\ ParentPath(q) = PathOf(parent)
      BY <1>1, <2>2, CreateRows
    <3>2. r.parent = parent /\ r.path = q
      BY DEF Row
    <3> HIDE DEF r, q
    <3> QED
      BY <3>1, <3>2, InsertPlaces
  <2> QED
    BY <2>1, <2>2
<1>2. ASSUME NEW n \in Live, Write(n) PROVE DirsStay /\ Placed'
  BY <1>2, WriteRows, TouchPlaces
<1>3. ASSUME NEW name \in DirNames, handle_mkdir(name) PROVE DirsStay /\ Placed'
  <2> DEFINE r == Row(<<name>>, 0, "cached", 0, Root)
  <2>1. (rows' = rows \/ InsertRow(r)) /\ <<name>> \in DirPaths
    BY <1>3, MkdirRows
  <2>2. r.parent = 0 /\ r.path = <<name>>
    BY DEF Row
  <2>3. PathOf(0) = Root /\ ParentPath(<<name>>) = Root
    BY <2>1, DirFacts DEF PathOf
  <2> HIDE DEF r
  <2> QED
    BY <2>1, <2>2, <2>3, InsertPlaces, SamePlaces
<1>4. ASSUME NEW n \in Live, handle_unlink(n) PROVE DirsStay /\ Placed'
  BY <1>4, UnlinkRows, RemovePlaces
<1>5. ASSUME NEW n \in Live, handle_rmdir(n) PROVE DirsStay /\ Placed'
  BY <1>5, RmdirRows, RemovePlaces
<1>6. ASSUME NEW n \in Live, NEW parent \in DirInodes \cup {0}, NEW name \in FileNames \cup DirNames, handle_rename(n, parent, name)
      PROVE  DirsStay /\ Placed'
  <2>1. CASE Taken(n, parent, name)
    BY <1>6, <2>1, RenameRows, RemovePlaces, SamePlaces
  <2>2. CASE ~Taken(n, parent, name)
    <3>1. ~IsDir(n)
      BY <1>6 DEF handle_rename, Cause
    <3>2. MoveRow(n, Renamed(n, parent, name), Gone(parent, name)) /\ rows[n] \in RowType
      BY <1>6, <2>2, RenameRows, RowFields DEF SInv
    <3>3. /\ Renamed(n, parent, name).parent = parent
          /\ Renamed(n, parent, name).path = Target(parent, name)
      BY <3>2 DEF Renamed, RowType
    <3>4. ParentPath(Target(parent, name)) = PathOf(parent)
      BY <1>6, RenameTarget
    <3> QED
      BY <3>1, <3>2, <3>3, <3>4, MovePlaces
  <2> QED
    BY <2>1, <2>2
<1>7. ASSUME NEW j \in Pending, JobMkdir(j) PROVE DirsStay /\ Placed'
  BY <1>7, SamePlaces DEF JobMkdir, JobStep, local
<1>8. ASSUME NEW j \in Pending, JobDelete(j) PROVE DirsStay /\ Placed'
  BY <1>8, SamePlaces DEF JobDelete, JobStep, local
<1>9. ASSUME NEW j \in Pending, JobRmdir(j) PROVE DirsStay /\ Placed'
  BY <1>9, SamePlaces DEF JobRmdir, JobStep, local
<1>10. ASSUME NEW j \in Pending, JobReplace(j) PROVE DirsStay /\ Placed'
  BY <1>10, SamePlaces DEF JobReplace, JobStep, local
<1>11. ASSUME NEW j \in Pending, JobMove(j) PROVE DirsStay /\ Placed'
  BY <1>11, SamePlaces DEF JobMove, JobStep, local
<1>12. ASSUME NEW j \in Pending, JobFails(j) PROVE DirsStay /\ Placed'
  BY <1>12, SamePlaces DEF JobFails, local
<1>13. ASSUME NEW t \in tombs, TombstoneExpires(t) PROVE DirsStay /\ Placed'
  BY <1>13, SamePlaces DEF TombstoneExpires, local
<1>14. ASSUME Restart PROVE DirsStay /\ Placed'
  BY <1>14, SamePlaces DEF Restart, local
<1>15. ASSUME NEW n \in Live, Hydrate(n) PROVE DirsStay /\ Placed'
  BY <1>15, HydrateRows, TouchPlaces
<1>16. ASSUME NEW n \in Live, HydratePrunes(n) PROVE DirsStay /\ Placed'
  BY <1>16, PruneRows, RemovePlaces
<1>17. ASSUME NEW n \in Live, UploadStart(n) PROVE DirsStay /\ Placed'
  BY <1>17, StartRows, TouchPlaces
<1>18. ASSUME NEW n \in Live, UploadReverts(n) PROVE DirsStay /\ Placed'
  BY <1>18, RevertRows, TouchPlaces
<1>19. ASSUME UploadLands PROVE DirsStay /\ Placed'
  BY <1>19, LandsRows, TouchPlaces, SamePlaces
<1>20. ASSUME UploadConflict PROVE DirsStay /\ Placed'
  BY <1>20, ConflictRows, TouchPlaces, SamePlaces
<1>21. ASSUME UploadFails PROVE DirsStay /\ Placed'
  BY <1>21, FailsRows, TouchPlaces, SamePlaces
<1>22. ASSUME PollList PROVE DirsStay /\ Placed'
  BY <1>22, SamePlaces DEF PollList, local
<1>23. ASSUME PollApply PROVE DirsStay /\ Placed'
  BY <1>23, PollRefills, PollPlaces DEF SInv, StoreInv
<1>24. ASSUME NEW n \in DirInodes \cup {0}, Populate(n) PROVE DirsStay /\ Placed'
  BY <1>24, SamePlaces DEF Populate, local
<1>25. ASSUME NEW n \in DirInodes, PopulateLocal(n) PROVE DirsStay /\ Placed'
  BY <1>25, LocalRows, TouchPlaces
<1>26. ASSUME PopulateApply PROVE DirsStay /\ Placed'
  <2>1. Refill(Wanted(pop), {}) /\ Upserted(pop, Wanted(pop)) /\ Wanted(pop) \subseteq Entries(pop)
    BY <1>26, PopulateRows
  <2>2. ListInv(pop) /\ ListPlaced(pop, rows) /\ (pop.inode # 0 => rows[pop.inode] # NoRow)
    BY <1>26 DEF SInv, ListsInv, ListsPlaced, PopulateApply
  <2> QED
    BY <2>1, <2>2, BatchPlaces
<1>27. ASSUME PopulateFails PROVE DirsStay /\ Placed'
  BY <1>27, SamePlaces DEF PopulateFails, local
<1>28. ASSUME NEW n \in Inodes, PrefetchList(n) PROVE DirsStay /\ Placed'
  BY <1>28, SamePlaces DEF PrefetchList, local
<1>29. ASSUME NEW n \in Inodes, PrefetchApply(n) PROVE DirsStay /\ Placed'
  <2> DEFINE stays == rows[n] = NoRow \/ Refuses(pre[n], Entries(pre[n]))
  <2>1. CASE stays
    BY <1>29, <2>1, PrefetchRows, SamePlaces
  <2>2. CASE ~stays
    <3>1. /\ Refill(Entries(pre[n]), {}) /\ Upserted(pre[n], Entries(pre[n])) /\ pre[n].inode = n
      BY <1>29, <2>2, PrefetchRows
    <3>2. ListInv(pre[n]) /\ ListPlaced(pre[n], rows) /\ (pre[n].inode # 0 => rows[pre[n].inode] # NoRow)
      BY <1>29, <2>2, <3>1 DEF SInv, ListsInv, ListsPlaced
    <3> QED
      BY <3>1, <3>2, BatchPlaces
  <2> QED
    BY <2>1, <2>2
<1>31. ASSUME PollRefused PROVE DirsStay /\ Placed'
  BY <1>31, PollFine DEF SInv, StoreInv, PollRefused
<1>30. CASE UNCHANGED vars
  BY <1>30, SamePlaces DEF vars
<1> QED
  BY <1>1, <1>2, <1>3, <1>4, <1>5, <1>6, <1>7, <1>8, <1>9, <1>10, <1>11, <1>12,
     <1>13, <1>14, <1>15, <1>16, <1>17, <1>18, <1>19, <1>20, <1>21, <1>22,
     <1>23, <1>24, <1>25, <1>26, <1>27, <1>28, <1>29, <1>30, <1>31 DEF Next

LEMMA ListPlacedKept ==
  ASSUME RowsInv, RowsKept, RowsInv', DirsStay, NEW l, ListFits(l, rows, next), ListPlaced(l, rows)
  PROVE  ListPlaced(l, rows')
<1> SUFFICES ASSUME l.inode # 0, rows'[l.inode] # NoRow PROVE rows'[l.inode].path = l.path
  BY DEF ListPlaced
<1>1. l.inode \in Inodes /\ l.inode < next
  BY BoundsAssumption DEF ListFits, ListType, Inodes
<1>2. rows[l.inode] # NoRow
  BY <1>1 DEF RowsKept
<1>3. l.inode \in Live /\ l.inode \in Live' /\ IsDir(l.inode) /\ rows[l.inode].path = l.path
  BY <1>1, <1>2 DEF Live, ListFits, ListPlaced, IsDir
<1> QED
  BY <1>3 DEF DirsStay

LEMMA NoListPlaced == ASSUME NEW R PROVE ListPlaced(NoList, R)
BY NoListFits DEF ListPlaced

LEMMA ListsPlacedStep ==
  ASSUME SInv, [Next]_vars, RowsKept, RowsInv', ListsPlaced, DirsStay
  PROVE  ListsPlaced'
<1>0. ListPlaced(pop, rows') /\ \A n \in Inodes : ListPlaced(pre[n], rows')
  BY ListPlacedKept DEF SInv, ListsInv, ListInv, ListsPlaced
<1>1. ASSUME NEW parent \in DirInodes \cup {0}, NEW name \in FileNames, Create(parent, name)
      PROVE  ListsPlaced'
  BY <1>1, <1>0 DEF ListsPlaced, Create, UserStep
<1>2. ASSUME NEW n \in Live, Write(n) PROVE ListsPlaced'
  BY <1>2, <1>0 DEF ListsPlaced, Write, UserStep
<1>3. ASSUME NEW name \in DirNames, handle_mkdir(name) PROVE ListsPlaced'
  BY <1>3, <1>0 DEF ListsPlaced, handle_mkdir, UserStep
<1>4. ASSUME NEW n \in Live, handle_unlink(n) PROVE ListsPlaced'
  BY <1>4, <1>0 DEF ListsPlaced, handle_unlink, UserStep
<1>5. ASSUME NEW n \in Live, handle_rmdir(n) PROVE ListsPlaced'
  BY <1>5, <1>0 DEF ListsPlaced, handle_rmdir, UserStep
<1>6. ASSUME NEW n \in Live, NEW parent \in DirInodes \cup {0}, NEW name \in FileNames \cup DirNames, handle_rename(n, parent, name)
      PROVE  ListsPlaced'
  BY <1>6, <1>0 DEF ListsPlaced, handle_rename, UserStep
<1>7. ASSUME NEW j \in Pending, JobMkdir(j) PROVE ListsPlaced'
  BY <1>7, <1>0 DEF ListsPlaced, JobMkdir, JobStep, tasks
<1>8. ASSUME NEW j \in Pending, JobDelete(j) PROVE ListsPlaced'
  BY <1>8, <1>0 DEF ListsPlaced, JobDelete, JobStep, tasks
<1>9. ASSUME NEW j \in Pending, JobRmdir(j) PROVE ListsPlaced'
  BY <1>9, <1>0 DEF ListsPlaced, JobRmdir, JobStep, tasks
<1>10. ASSUME NEW j \in Pending, JobReplace(j) PROVE ListsPlaced'
  BY <1>10, <1>0 DEF ListsPlaced, JobReplace, JobStep, tasks
<1>11. ASSUME NEW j \in Pending, JobMove(j) PROVE ListsPlaced'
  BY <1>11, <1>0 DEF ListsPlaced, JobMove, JobStep, tasks
<1>12. ASSUME NEW j \in Pending, JobFails(j) PROVE ListsPlaced'
  BY <1>12, <1>0 DEF ListsPlaced, JobFails, tasks
<1>13. ASSUME NEW t \in tombs, TombstoneExpires(t) PROVE ListsPlaced'
  BY <1>13, <1>0 DEF ListsPlaced, TombstoneExpires, tasks
<1>14. ASSUME Restart PROVE ListsPlaced'
  BY <1>14, NoListPlaced DEF Restart, ListsPlaced
<1>15. ASSUME NEW n \in Live, Hydrate(n) PROVE ListsPlaced'
  BY <1>15, <1>0 DEF ListsPlaced, Hydrate, UserStep
<1>16. ASSUME NEW n \in Live, HydratePrunes(n) PROVE ListsPlaced'
  BY <1>16, <1>0 DEF ListsPlaced, HydratePrunes, UserStep
<1>17. ASSUME NEW n \in Live, UploadStart(n) PROVE ListsPlaced'
  BY <1>17, <1>0 DEF ListsPlaced, UploadStart
<1>18. ASSUME NEW n \in Live, UploadReverts(n) PROVE ListsPlaced'
  BY <1>18, <1>0 DEF ListsPlaced, UploadReverts, tasks
<1>19. ASSUME UploadLands PROVE ListsPlaced'
  BY <1>19, <1>0 DEF ListsPlaced, UploadLands, UploadEnds
<1>20. ASSUME UploadConflict PROVE ListsPlaced'
  BY <1>20, <1>0 DEF ListsPlaced, UploadConflict, UploadEnds
<1>21. ASSUME UploadFails PROVE ListsPlaced'
  BY <1>21, <1>0 DEF ListsPlaced, UploadFails, UploadEnds
<1>22. ASSUME PollList PROVE ListsPlaced'
  BY <1>22, <1>0 DEF ListsPlaced, PollList
<1>23. ASSUME PollApply PROVE ListsPlaced'
  BY <1>23, <1>0 DEF ListsPlaced, PollApply
<1>24. ASSUME NEW n \in DirInodes \cup {0}, Populate(n) PROVE ListsPlaced'
  <2>1. pop' = Listing(n, PathOf(n)) /\ pre' = pre
    BY <1>24 DEF Populate
  <2>2. Listing(n, PathOf(n)).inode = n /\ Listing(n, PathOf(n)).path = PathOf(n) /\ rows' = rows
    BY <1>24 DEF Listing, Populate, local
  <2>3. ListPlaced(pop', rows')
    BY <2>1, <2>2 DEF ListPlaced, PathOf
  <2> QED
    BY <1>0, <2>1, <2>3 DEF ListsPlaced
<1>25. ASSUME NEW n \in DirInodes, PopulateLocal(n) PROVE ListsPlaced'
  BY <1>25, <1>0 DEF ListsPlaced, PopulateLocal, tasks
<1>26. ASSUME PopulateApply PROVE ListsPlaced'
  <2>1. ASSUME NEW n \in Inodes PROVE ListPlaced(pre'[n], rows')
    <3>1. \/ pre'[n] = pre[n]
          \/ pre'[n] = [NoList EXCEPT !.inode = n, !.pc = "list", !.path = rows'[n].path]
      BY <1>26 DEF PopulateApply
    <3>2. CASE pre'[n] = pre[n]
      BY <1>0, <3>2
    <3>3. CASE pre'[n] = [NoList EXCEPT !.inode = n, !.pc = "list", !.path = rows'[n].path]
      <4>1. pre'[n].inode = n /\ pre'[n].path = rows'[n].path
        BY <3>3 DEF NoList
      <4> QED
        BY <4>1 DEF ListPlaced
    <3> QED
      BY <3>1, <3>2, <3>3
  <2>2. pop' = NoList
    BY <1>26 DEF PopulateApply
  <2> QED
    BY <2>1, <2>2, NoListPlaced DEF ListsPlaced
<1>27. ASSUME PopulateFails PROVE ListsPlaced'
  BY <1>27, <1>0, NoListPlaced DEF ListsPlaced, PopulateFails
<1>28. ASSUME NEW n \in Inodes, PrefetchList(n) PROVE ListsPlaced'
  <2> DEFINE l == IF CanList(pre[n].path) THEN Listing(n, pre[n].path) ELSE NoList
  <2>1. pre' = [pre EXCEPT ![n] = l] /\ pre[n].pc = "list" /\ pop' = pop /\ rows' = rows
    BY <1>28 DEF PrefetchList, local
  <2>2. pre[n].inode = n /\ ListPlaced(pre[n], rows)
    BY <1>28, <2>1, NoListFits DEF SInv, ListsInv, ListsPlaced
  <2>3. ListPlaced(l, rows')
    <3>1. Listing(n, pre[n].path).inode = n /\ Listing(n, pre[n].path).path = pre[n].path
      BY DEF Listing
    <3>2. ListPlaced(Listing(n, pre[n].path), rows')
      BY <2>1, <2>2, <3>1 DEF ListPlaced
    <3> QED
      BY <3>2, NoListPlaced
  <2> HIDE DEF l
  <2>4. \A m \in Inodes : pre'[m] = IF m = n THEN l ELSE pre[m]
    BY <1>28, <2>1 DEF SInv, ListsInv
  <2> QED
    BY <1>0, <2>1, <2>3, <2>4 DEF ListsPlaced
<1>29. ASSUME NEW n \in Inodes, PrefetchApply(n) PROVE ListsPlaced'
  <2>1. pre' = [pre EXCEPT ![n] = NoList] /\ pop' = pop
    BY <1>29 DEF PrefetchApply
  <2>2. \A m \in Inodes : pre'[m] = IF m = n THEN NoList ELSE pre[m]
    BY <1>29, <2>1 DEF SInv, ListsInv
  <2> QED
    BY <1>0, <2>1, <2>2, NoListPlaced DEF ListsPlaced
<1>31. ASSUME PollRefused PROVE ListsPlaced'
  BY <1>31, <1>0 DEF ListsPlaced, PollRefused
<1>30. CASE UNCHANGED vars
  BY <1>30, <1>0 DEF vars, ListsPlaced
<1> QED
  BY <1>1, <1>2, <1>3, <1>4, <1>5, <1>6, <1>7, <1>8, <1>9, <1>10, <1>11, <1>12,
     <1>13, <1>14, <1>15, <1>16, <1>17, <1>18, <1>19, <1>20, <1>21, <1>22,
     <1>23, <1>24, <1>25, <1>26, <1>27, <1>28, <1>29, <1>30, <1>31 DEF Next

LEMMA TreeStep ==
  ASSUME SInv, TreeInv, [Next]_vars PROVE TreeInv'
<1> SUFFICES ASSUME "dir" \notin causes' PROVE Placed' /\ ListsPlaced'
  BY DEF TreeInv
<1>1. Placed /\ ListsPlaced /\ RowsInv
  BY CausesGrow DEF TreeInv, SInv
<1>2. DirsStay /\ Placed'
  BY <1>1, PlacesStep
<1> QED
  BY <1>1, <1>2, RowsStep, ListsPlacedStep

LEMMA InitTree == Init => TreeInv
<1> SUFFICES ASSUME Init PROVE Placed /\ ListsPlaced
  BY DEF TreeInv
<1>1. ListsPlaced
  BY NoListPlaced DEF Init, ListsPlaced
<1>3. Placed
  <2> SUFFICES ASSUME NEW n \in Live PROVE PathOf(rows[n].parent) = ParentPath(rows[n].path)
    BY DEF Placed
  <2>1. n \in Inodes /\ rows[n] # NoRow
    BY DEF Live
  <2>2. PICK d \in DirNames, f \in FileNames, g \in FileNames : FreshMount \/ KnownMount(d, f, g)
    BY InitCases
  <2>3. KnownMount(d, f, g)
    BY <2>1, <2>2 DEF FreshMount
  <2>4. n \in {1, 2, 3, 4}
    BY <2>3 DEF KnownMount
  <2>5. /\ ParentPath(<<d>>) = Root /\ ParentPath(<<f>>) = Root /\ ParentPath(<<g>>) = Root
        /\ ParentPath(<<d, f>>) = <<d>>
    BY OneName, TwoNames DEF ParentPath
  <2> QED
    BY <2>3, <2>4, <2>5 DEF KnownMount, PathOf
<1> QED
  BY <1>1, <1>3

\* Looking a name up finds the row of the path.
LEMMA NamedPath ==
  ASSUME RowsInv, Placed, NEW parent \in DirInodes \cup {0}, NEW name \in FileNames \cup DirNames,
         NEW q \in Paths, q = join_remote(PathOf(parent), name)
  PROVE  Named(parent, name) = ByPath(q)
<1>1. PathOf(parent) \in Dirs /\ (PathOf(parent) = Root <=> parent = 0)
  BY PathOfFacts
<1>2. ParentPath(q) = PathOf(parent) /\ Last(q) = name
  <2>1. CASE name \in FileNames
    BY <1>1, <2>1, JoinFile
  <2>2. CASE name \in DirNames
    <3>1. PathOf(parent) = Root /\ q = <<name>>
      BY <1>1, <2>2, JoinDir
    <3> QED
      BY <3>1, OneName DEF ParentPath
  <2> QED
    BY <2>1, <2>2
<1>3. ASSUME NEW n \in Named(parent, name) PROVE n \in ByPath(q)
  <2>1. n \in Live /\ rows[n].parent = parent /\ Last(rows[n].path) = name
    BY DEF Named, Name
  <2>2. ParentPath(rows[n].path) = PathOf(parent) /\ rows[n].path \in Paths
    BY <2>1, RowFields DEF Placed
  <2>3. CASE rows[n].path \in DirPaths
    <3>1. rows[n].path = <<name>> /\ PathOf(parent) = Root /\ name \in DirNames
      BY <2>1, <2>2, <2>3, DirFacts
    <3>2. q = <<name>>
      BY <3>1, JoinDir DEF Dirs
    <3> QED
      BY <2>1, <3>1, <3>2 DEF ByPath
  <2>4. CASE rows[n].path \in FilePaths
    BY <2>1, <2>2, <2>4, FileFacts DEF ByPath
  <2> QED
    BY <2>2, <2>3, <2>4, PathKinds
<1>4. ASSUME NEW n \in ByPath(q) PROVE n \in Named(parent, name)
  <2>1. n \in Live /\ rows[n].path = q
    BY DEF ByPath
  <2>2. rows[n].parent \in DirInodes \cup {0} /\ PathOf(rows[n].parent) = PathOf(parent)
    BY <1>2, <2>1 DEF Placed, RowsInv, RowsParent
  <2>3. PathOf(rows[n].parent) = Root <=> rows[n].parent = 0
    BY <2>2, PathOfFacts
  <2>4. rows[n].parent = parent
    BY <1>1, <2>2, <2>3 DEF PathOf, RowsInv, RowsUnique, DirInodes
  <2> QED
    BY <1>2, <2>1, <2>4 DEF Named, Name
<1> QED
  BY <1>3, <1>4

LEMMA CreateFree ==
  ASSUME SInv, Placed, NEW parent \in DirInodes \cup {0}, NEW name \in FileNames, Create(parent, name)
  PROVE  LET q == join_remote(PathOf(parent), name) IN
         /\ q \in FilePaths /\ ByPath(q) = {}
         /\ InsertRow(Row(q, parent, "dirty", 0, q))
         /\ cache' = [cache EXCEPT ![q] = last + 1]
         /\ last' = last + 1 /\ live' = live \cup {last + 1}
<1> DEFINE q == join_remote(PathOf(parent), name)
<1>1. q \in FilePaths /\ q \in Paths
  BY CreateRows, PathKinds
<1>2. Named(parent, name) = {}
  BY DEF Create
<1>3. ByPath(q) = {}
  BY <1>1, <1>2, NamedPath DEF SInv
<1>4. InsertRow(Row(q, parent, "dirty", 0, q))
  BY <1>3, CreateRows
<1>5. cache' = [cache EXCEPT ![q] = last + 1] /\ last' = last + 1 /\ live' = live \cup {last + 1}
  BY <1>3 DEF Create
<1> QED
  BY <1>1, <1>3, <1>4, <1>5

LEMMA MkdirFree ==
  ASSUME SInv, Placed, NEW name \in DirNames, handle_mkdir(name)
  PROVE  /\ ByPath(<<name>>) = {} /\ InsertRow(Row(<<name>>, 0, "cached", 0, Root))
         /\ Spawn(Job("mkdir", <<name>>))
<1>1. <<name>> \in DirPaths /\ <<name>> \in Paths
  BY MkdirRows, PathKinds
<1>2. <<name>> = join_remote(PathOf(0), name)
  BY JoinDir DEF PathOf, Dirs
<1>3. Named(0, name) = {}
  BY DEF handle_mkdir
<1>4. ByPath(<<name>>) = {}
  BY <1>1, <1>2, <1>3, NamedPath DEF SInv
<1> QED
  BY <1>4, MkdirRows DEF handle_mkdir

\* The new name of a file is free, or a file's that goes.
LEMMA RenameUntaken ==
  ASSUME SInv, Placed, NEW n \in Live, NEW parent \in DirInodes \cup {0},
         NEW name \in FileNames \cup DirNames, handle_rename(n, parent, name), ~IsDir(n)
  PROVE  LET to == Target(parent, name) IN
         /\ Named(parent, name) = ByPath(to) /\ Gone(parent, name) = ByPath(to)
         /\ ~Taken(n, parent, name)
<1> DEFINE to == Target(parent, name)
<1>1. /\ to \in FilePaths /\ RowsInv /\ to \in Paths
  BY RenameTarget, PathKinds DEF SInv
<1>2. Named(parent, name) = ByPath(to)
  BY <1>1, NamedPath DEF Target
<1>3. Gone(parent, name) = ByPath(to)
  <2>1. CASE ByPath(to) = {}
    BY <1>2, <2>1 DEF Gone
  <2>2. CASE ByPath(to) # {}
    <3> DEFINE dest == Lookup(parent, name)
    <3>1. dest \in ByPath(to)
      BY <1>1, <1>2, <2>2, LookupFacts
    <3>2. ByPath(to) = {dest}
      BY <1>1, <3>1 DEF ByPath, RowsInv, RowsUnique
    <3>3. dest \in Live /\ ~IsDir(dest)
      BY <1>1, <3>1, PathKinds DEF ByPath, IsDir
    <3>4. CanDelete(dest)
      BY <1>1, <3>3, NoChildren DEF CanDelete
    <3> QED
      BY <1>2, <2>2, <3>2, <3>4 DEF Gone
  <2> QED
    BY <2>1, <2>2
<1>4. \A m \in Live : rows[m].path = to \/ (rows[m].parent = parent /\ Last(rows[m].path) = name)
                      => m \in ByPath(to)
  BY <1>2 DEF Named, Name, ByPath
<1>5. ~Taken(n, parent, name)
  BY <1>3, <1>4 DEF Taken
<1> QED
  BY <1>2, <1>3, <1>5

RefusedInv == refused => "dir" \in causes

\* An operation that a UNIQUE constraint refuses comes after the rename of a directory.
LEMMA RefusedStep ==
  ASSUME SInv, TreeInv, RefusedInv, [Next]_vars PROVE RefusedInv'
<1> SUFFICES ASSUME "dir" \notin causes' PROVE ~refused'
  BY DEF RefusedInv
<1>0. ~refused /\ Placed /\ ListsPlaced /\ RowsInv /\ PollInv /\ tombs \subseteq Paths
  BY CausesGrow DEF RefusedInv, TreeInv, SInv, StoreInv
<1>1. ASSUME NEW parent \in DirInodes \cup {0}, NEW name \in FileNames, Create(parent, name)
      PROVE  ~refused'
  BY <1>1, <1>0, CreateFree DEF Create
<1>2. ASSUME NEW n \in Live, Write(n) PROVE ~refused'
  BY <1>2, <1>0 DEF Write
<1>3. ASSUME NEW name \in DirNames, handle_mkdir(name) PROVE ~refused'
  BY <1>3, <1>0, MkdirFree DEF handle_mkdir
<1>4. ASSUME NEW n \in Live, handle_unlink(n) PROVE ~refused'
  BY <1>4, <1>0 DEF handle_unlink
<1>5. ASSUME NEW n \in Live, handle_rmdir(n) PROVE ~refused'
  BY <1>5, <1>0 DEF handle_rmdir
<1>6. ASSUME NEW n \in Live, NEW parent \in DirInodes \cup {0}, NEW name \in FileNames \cup DirNames, handle_rename(n, parent, name)
      PROVE  ~refused'
  <2>1. ~IsDir(n)
    BY <1>6 DEF handle_rename, Cause
  <2>2. ~Taken(n, parent, name)
    BY <1>6, <2>1, <1>0, RenameUntaken
  <2>3. refused' = (refused \/ Taken(n, parent, name))
    BY <1>6, RenameRows
  <2> QED
    BY <1>0, <2>2, <2>3
<1>7. ASSUME NEW j \in Pending, JobMkdir(j) PROVE ~refused'
  BY <1>7, <1>0 DEF JobMkdir, JobStep, history
<1>8. ASSUME NEW j \in Pending, JobDelete(j) PROVE ~refused'
  BY <1>8, <1>0 DEF JobDelete, JobStep, history
<1>9. ASSUME NEW j \in Pending, JobRmdir(j) PROVE ~refused'
  BY <1>9, <1>0 DEF JobRmdir, JobStep, history
<1>10. ASSUME NEW j \in Pending, JobReplace(j) PROVE ~refused'
  BY <1>10, <1>0 DEF JobReplace, JobStep, history
<1>11. ASSUME NEW j \in Pending, JobMove(j) PROVE ~refused'
  BY <1>11, <1>0 DEF JobMove, JobStep, history
<1>12. ASSUME NEW j \in Pending, JobFails(j) PROVE ~refused'
  BY <1>12, <1>0 DEF JobFails
<1>13. ASSUME NEW t \in tombs, TombstoneExpires(t) PROVE ~refused'
  BY <1>13, <1>0 DEF TombstoneExpires, history
<1>14. ASSUME Restart PROVE ~refused'
  BY <1>14, <1>0 DEF Restart
<1>15. ASSUME NEW n \in Live, Hydrate(n) PROVE ~refused'
  BY <1>15, <1>0 DEF Hydrate
<1>16. ASSUME NEW n \in Live, HydratePrunes(n) PROVE ~refused'
  BY <1>16, <1>0 DEF HydratePrunes
<1>17. ASSUME NEW n \in Live, UploadStart(n) PROVE ~refused'
  BY <1>17, <1>0 DEF UploadStart
<1>18. ASSUME NEW n \in Live, UploadReverts(n) PROVE ~refused'
  BY <1>18, <1>0 DEF UploadReverts, history
<1>19. ASSUME UploadLands PROVE ~refused'
  BY <1>19, <1>0 DEF UploadLands, UploadEnds, history
<1>20. ASSUME UploadConflict PROVE ~refused'
  BY <1>20, <1>0 DEF UploadConflict, UploadEnds, history
<1>21. ASSUME UploadFails PROVE ~refused'
  BY <1>21, <1>0 DEF UploadFails, UploadEnds, history
<1>22. ASSUME PollList PROVE ~refused'
  BY <1>22, <1>0 DEF PollList, history
<1>23. ASSUME PollApply PROVE ~refused'
  BY <1>23, <1>0 DEF PollApply
<1>24. ASSUME NEW n \in DirInodes \cup {0}, Populate(n) PROVE ~refused'
  BY <1>24, <1>0 DEF Populate, history
<1>25. ASSUME NEW n \in DirInodes, PopulateLocal(n) PROVE ~refused'
  BY <1>25, <1>0 DEF PopulateLocal, history
<1>26. ASSUME PopulateApply PROVE ~refused'
  BY <1>26, <1>0 DEF PopulateApply, history
<1>27. ASSUME PopulateFails PROVE ~refused'
  <2>1. Wanted(pop) \in SUBSET Entries(pop) /\ ListInv(pop) /\ ListPlaced(pop, rows)
    BY <1>0 DEF Wanted, SInv, ListsInv, ListsPlaced
  <2>2. ~Refuses(pop, Wanted(pop))
    BY <1>0, <2>1, ListFine
  <2> QED
    BY <1>0, <1>27, <2>2 DEF PopulateFails
<1>28. ASSUME NEW n \in Inodes, PrefetchList(n) PROVE ~refused'
  BY <1>28, <1>0 DEF PrefetchList, history
<1>29. ASSUME NEW n \in Inodes, PrefetchApply(n) PROVE ~refused'
  <2>1. Entries(pre[n]) \in SUBSET Entries(pre[n]) /\ ListInv(pre[n]) /\ ListPlaced(pre[n], rows)
    BY <1>0 DEF SInv, ListsInv, ListsPlaced
  <2>2. ~Refuses(pre[n], Entries(pre[n]))
    BY <1>0, <2>1, ListFine
  <2> QED
    BY <1>0, <1>29, <2>2 DEF PrefetchApply
<1>31. ASSUME PollRefused PROVE ~refused'
  BY <1>31, <1>0, PollFine DEF PollRefused
<1>30. CASE UNCHANGED vars
  BY <1>30, <1>0 DEF vars
<1> QED
  BY <1>1, <1>2, <1>3, <1>4, <1>5, <1>6, <1>7, <1>8, <1>9, <1>10, <1>11, <1>12,
     <1>13, <1>14, <1>15, <1>16, <1>17, <1>18, <1>19, <1>20, <1>21, <1>22,
     <1>23, <1>24, <1>25, <1>26, <1>27, <1>28, <1>29, <1>30, <1>31 DEF Next

\* As long as no directory is renamed, no operation fails on a UNIQUE constraint of
\* file_index: no poll ends at the upsert of an entry, no listing is rolled back and no
\* create, mkdir or rename gets EIO for a name that another row has.  Whatever a poll
\* or a listing read before, and however it interleaves with creates, renames and
\* deletes, it puts a row under the parent that its remote_path names.
THEOREM NothingIsRefused == Spec => []NeverRefused
<1>1. SInv /\ TreeInv /\ RefusedInv /\ [Next]_vars => (SInv /\ TreeInv /\ RefusedInv)'
  BY SInvStep, TreeStep, RefusedStep
<1>2. Init => RefusedInv
  BY DEF Init, RefusedInv
<1>3. RefusedInv => NeverRefused
  BY DEF RefusedInv, NeverRefused
<1> QED
  BY InitSInv, InitTree, <1>1, <1>2, <1>3, PTL DEF Spec
-----------------------------------------------------------------------------
(* A row's cache file is the one its path names, and is there, until a     *)
(* directory is renamed or a file changes its directory.                   *)

CacheGood == \A n \in Live : rows[n].cp # Root => rows[n].cp = rows[n].path /\ cache[rows[n].cp] # 0
CacheInv == causes \cap {"dir", "cross"} = {} => CacheGood

\* A rename of a file within its directory: the new name is free, or a file's that
\* goes; the cache file gets the new name, too.
LEMMA RenameFree ==
  ASSUME SInv, Placed, CacheGood, NEW n \in Live, NEW parent \in DirInodes \cup {0},
         NEW name \in FileNames \cup DirNames, handle_rename(n, parent, name),
         ~IsDir(n), parent = rows[n].parent
  PROVE  LET to == Target(parent, name) IN
         /\ to \in FilePaths /\ to # rows[n].path /\ ~Taken(n, parent, name)
         /\ Named(parent, name) = ByPath(to) /\ Gone(parent, name) = ByPath(to)
         /\ rows[n].cp # Root => rows[n].cp = rows[n].path /\ NewCp(n, name) = to
         /\ rows[n].cp = Root => NewCp(n, name) = Root
         /\ cache' = IF rows[n].cp = Root THEN cache
                     ELSE [cache EXCEPT ![to] = cache[rows[n].path], ![rows[n].path] = 0]
         /\ MoveRow(n, Renamed(n, parent, name), ByPath(to))
<1> DEFINE to == Target(parent, name)
<1>1. /\ to \in FilePaths /\ name \in FileNames /\ RowsInv /\ to \in Paths
      /\ ParentPath(to) = PathOf(parent) /\ Last(to) = name
  BY RenameTarget, PathKinds DEF SInv
<1>2. Named(parent, name) = ByPath(to)
  BY RenameUntaken
<1>3. n \notin Named(parent, name)
  BY DEF handle_rename
<1>4. to # rows[n].path
  BY <1>2, <1>3 DEF ByPath
<1>5. Gone(parent, name) = ByPath(to)
  BY RenameUntaken
<1>6. ~Taken(n, parent, name)
  BY RenameUntaken
<1>7. rows[n].cp # Root => rows[n].cp = rows[n].path /\ CacheMoves(n)
  BY DEF CacheGood, CacheMoves
<1>8. rows[n].cp # Root => NewCp(n, name) = to
  <2> SUFFICES ASSUME rows[n].cp # Root PROVE NewCp(n, name) = to
    OBVIOUS
  <2>1. ParentPath(rows[n].path) = PathOf(parent)
    BY DEF Placed
  <2> QED
    BY <1>7, <2>1 DEF NewCp, NewCachePath, Target
<1>9. rows[n].cp = Root => NewCp(n, name) = Root /\ ~CacheMoves(n)
  BY DEF NewCp, CacheMoves
<1>10. cache' = IF CacheMoves(n) /\ NewCp(n, name) # rows[n].cp
                THEN [cache EXCEPT ![NewCp(n, name)] = cache[rows[n].cp], ![rows[n].cp] = 0]
                ELSE cache
  BY DEF handle_rename, CacheMoves, NewCp
<1>11. cache' = IF rows[n].cp = Root THEN cache
                ELSE [cache EXCEPT ![to] = cache[rows[n].path], ![rows[n].path] = 0]
  <2> HIDE DEF to
  <2>1. CASE rows[n].cp = Root
    BY <1>9, <1>10, <2>1
  <2>2. CASE rows[n].cp # Root
    BY <1>4, <1>7, <1>8, <1>10, <2>2
  <2> QED
    BY <2>1, <2>2
<1>12. MoveRow(n, Renamed(n, parent, name), ByPath(to))
  BY <1>5, <1>6, RenameRows
<1> HIDE DEF to
<1> QED
  BY <1>1, <1>2, <1>4, <1>5, <1>6, <1>7, <1>8, <1>9, <1>11, <1>12 DEF to

LEMMA CacheKept ==
  ASSUME CacheGood,
         \A m \in Live' :
           \/ /\ m \in Live /\ rows'[m].path = rows[m].path /\ rows'[m].cp = rows[m].cp
              /\ rows[m].cp # Root => cache'[rows[m].cp] # 0
           \/ rows'[m].cp # Root => rows'[m].cp = rows'[m].path /\ cache'[rows'[m].cp] # 0
  PROVE  CacheGood'
BY DEF CacheGood

\* The cache files are as they were.
LEMMA CacheSame ==
  ASSUME CacheGood, cache' = cache,
         \A m \in Live' : \/ m \in Live /\ rows'[m].path = rows[m].path /\ rows'[m].cp = rows[m].cp
                          \/ rows'[m].cp = Root
  PROVE  CacheGood'
BY DEF CacheGood

LEMMA CacheUntouched ==
  ASSUME CacheGood, cache' = cache, rows' = rows PROVE CacheGood'
BY DEF CacheGood, Live

LEMMA CacheTouched ==
  ASSUME RowsInv, CacheGood, cache' = cache, NEW n, NEW r, TouchRow(n, r), r.cp = rows[n].cp
  PROVE  CacheGood'
<1>1. /\ Live' = Live /\ rows'[n] = r /\ \A m \in Inodes \ {n} : rows'[m] = rows[m]
      /\ \A m \in Live : rows'[m].path = rows[m].path
  BY TouchRows
<1>2. \A m \in Live : rows'[m].cp = rows[m].cp
  BY <1>1 DEF Live
<1> QED
  BY <1>1, <1>2, CacheSame

LEMMA CacheRefilled ==
  ASSUME RowsInv, CacheGood, cache' = cache, NEW S, Refill(S, {})
  PROVE  CacheGood'
<1>1. Live' = (Live \ {}) \cup NewInodes
  BY RefillRows
<1>2. \A m \in Live \ {} : rows'[m].path = rows[m].path /\ rows'[m].cp = rows[m].cp
  BY DEF Refill
<1>3. \A m \in NewInodes : rows'[m].cp = Root
  BY DEF Refill
<1> QED
  BY <1>1, <1>2, <1>3, CacheSame

\* Two rows have different cache files.
LEMMA CacheApart ==
  ASSUME RowsInv, CacheGood, NEW m \in Live, NEW n \in Live, m # n,
         rows[m].cp # Root
  PROVE  rows[m].cp # rows[n].cp /\ rows[m].cp # rows[n].path
<1>1. rows[m].cp = rows[m].path /\ rows[m].path # rows[n].path
  BY DEF CacheGood, RowsInv, RowsUnique
<1> QED
  BY <1>1 DEF CacheGood

LEMMA CacheStep ==
  ASSUME SInv, RowsInv, Placed, CacheGood, [Next]_vars, causes' \cap {"dir", "cross"} = {}
  PROVE  CacheGood'
<1>1. ASSUME NEW parent \in DirInodes \cup {0}, NEW name \in FileNames, Create(parent, name)
      PROVE  CacheGood'
  <2> DEFINE q == join_remote(PathOf(parent), name)
              r == Row(q, parent, "dirty", 0, q)
  <2>1. /\ q \in FilePaths /\ ByPath(q) = {} /\ InsertRow(r)
        /\ cache' = [cache EXCEPT ![q] = last + 1]
    BY <1>1, CreateFree
  <2>2. cache \in [FilePaths -> 0 .. MaxContents] /\ last + 1 # 0
    BY StoreFacts DEF SInv, StoreInv
  <2>3. r.path = q /\ r.cp = q
    BY DEF Row
  <2> HIDE DEF r, q
  <2>4. /\ Live' = Live \cup {next} /\ rows'[next] = r /\ \A m \in Inodes \ {next} : rows'[m] = rows[m]
        /\ next \notin Live
    BY <2>1, InsertRows
  <2>5. \A m \in Live : rows'[m] = rows[m] /\ rows[m].path # q
    BY <2>1, <2>4 DEF Live, ByPath
  <2>6. \A m \in Live : rows[m].cp # Root => cache'[rows[m].cp] # 0
    BY <2>1, <2>2, <2>5 DEF CacheGood
  <2>7. cache'[q] # 0
    BY <2>1, <2>2
  <2> QED
    BY <2>3, <2>4, <2>5, <2>6, <2>7, CacheKept
<1>2. ASSUME NEW n \in Live, Write(n) PROVE CacheGood'
  <2> DEFINE r == [rows[n] EXCEPT !.status = "dirty"]
  <2>1. TouchRow(n, r) /\ cache' = [cache EXCEPT ![rows[n].cp] = last + 1] /\ rows[n].cp \in FilePaths
    BY <1>2, WriteRows DEF Write
  <2>2. r.cp = rows[n].cp
    BY <1>2, RowFields DEF RowType
  <2>3. cache \in [FilePaths -> 0 .. MaxContents] /\ last + 1 # 0
    BY StoreFacts DEF SInv, StoreInv
  <2> HIDE DEF r
  <2>4. /\ Live' = Live /\ rows'[n] = r /\ \A m \in Inodes \ {n} : rows'[m] = rows[m]
        /\ \A m \in Live : rows'[m].path = rows[m].path
    BY <2>1, TouchRows
  <2>5. \A m \in Live : rows'[m].cp = rows[m].cp
    BY <2>2, <2>4 DEF Live
  <2>6. \A m \in Live : rows[m].cp # Root => cache'[rows[m].cp] # 0
    BY <2>1, <2>3 DEF CacheGood
  <2> QED
    BY <2>4, <2>5, <2>6, CacheKept
<1>3. ASSUME NEW name \in DirNames, handle_mkdir(name) PROVE CacheGood'
  <2> DEFINE r == Row(<<name>>, 0, "cached", 0, Root)
  <2>1. InsertRow(r) /\ cache' = cache
    BY <1>3, MkdirFree DEF handle_mkdir
  <2>2. r.cp = Root
    BY DEF Row
  <2> HIDE DEF r
  <2>3. /\ Live' = Live \cup {next} /\ rows'[next] = r /\ \A m \in Inodes \ {next} : rows'[m] = rows[m]
        /\ next \notin Live
    BY <2>1, InsertRows
  <2>4. \A m \in Live : rows'[m] = rows[m]
    BY <2>3 DEF Live
  <2> QED
    BY <2>1, <2>2, <2>3, <2>4, CacheSame
<1>4. ASSUME NEW n \in Live, handle_unlink(n) PROVE CacheGood'
  <2>1. /\ RemoveRow(n)
        /\ cache' = IF rows[n].cp = Root THEN cache ELSE [cache EXCEPT ![rows[n].cp] = 0]
    BY <1>4, UnlinkRows DEF handle_unlink
  <2>2. cache \in [FilePaths -> 0 .. MaxContents]
    BY DEF SInv, StoreInv
  <2>3. Live' = Live \ {n} /\ \A m \in Inodes \ {n} : rows'[m] = rows[m]
    BY <2>1, RemoveRows
  <2>4. \A m \in Live' : m \in Live /\ m # n /\ rows'[m] = rows[m]
    BY <2>3 DEF Live
  <2>5. \A m \in Live : m # n /\ rows[m].cp # Root => cache'[rows[m].cp] # 0
    <3> SUFFICES ASSUME NEW m \in Live, m # n, rows[m].cp # Root PROVE cache'[rows[m].cp] # 0
      OBVIOUS
    <3>1. rows[m].cp # rows[n].cp /\ cache[rows[m].cp] # 0 /\ rows[m].cp \in FilePaths
      BY <1>4, CacheApart, RowFields DEF CacheGood
    <3> QED
      BY <2>1, <2>2, <3>1
  <2> QED
    BY <2>4, <2>5, CacheKept
<1>5. ASSUME NEW n \in Live, handle_rmdir(n) PROVE CacheGood'
  <2>1. RemoveRow(n) /\ cache' = cache
    BY <1>5, RmdirRows DEF handle_rmdir
  <2>2. Live' = Live \ {n} /\ \A m \in Inodes \ {n} : rows'[m] = rows[m]
    BY <2>1, RemoveRows
  <2>3. \A m \in Live' : m \in Live /\ rows'[m] = rows[m]
    BY <2>2 DEF Live
  <2> QED
    BY <2>1, <2>3, CacheSame
<1>6. ASSUME NEW n \in Live, NEW parent \in DirInodes \cup {0}, NEW name \in FileNames \cup DirNames, handle_rename(n, parent, name)
      PROVE  CacheGood'
  <2> DEFINE to == Target(parent, name)
              r == Renamed(n, parent, name)
  <2>1. ~IsDir(n) /\ parent = rows[n].parent
    BY <1>6 DEF handle_rename, Cause
  <2>2. /\ to \in FilePaths /\ to # rows[n].path
        /\ rows[n].cp # Root => rows[n].cp = rows[n].path /\ NewCp(n, name) = to
        /\ rows[n].cp = Root => NewCp(n, name) = Root
        /\ cache' = IF rows[n].cp = Root THEN cache
                    ELSE [cache EXCEPT ![to] = cache[rows[n].path], ![rows[n].path] = 0]
        /\ MoveRow(n, r, ByPath(to))
    BY <1>6, <2>1, RenameFree
  <2>3. r.path = to /\ r.cp = NewCp(n, name)
    BY <1>6, RowFields DEF Renamed, RowType
  <2>4. cache \in [FilePaths -> 0 .. MaxContents] /\ rows[n].path \in FilePaths
    BY <1>6, <2>1, RowFields DEF SInv, StoreInv
  <2> HIDE DEF to, r
  <2>5. /\ Live' = Live \ ByPath(to) /\ rows'[n] = r
        /\ \A m \in Inodes \ (ByPath(to) \cup {n}) : rows'[m] = rows[m]
    BY <2>2, MoveRows
  <2>6. \A m \in Live' : m \in Live /\ (m # n => rows'[m] = rows[m] /\ rows[m].path # to)
    BY <2>5 DEF Live, ByPath
  <2>7. rows'[n].cp # Root => rows'[n].cp = rows'[n].path /\ cache'[rows'[n].cp] # 0
    <3> SUFFICES ASSUME rows[n].cp # Root PROVE cache'[to] # 0
      BY <2>2, <2>3, <2>5
    <3>1. cache[rows[n].path] # 0
      BY <2>2 DEF CacheGood
    <3> QED
      BY <2>2, <2>4, <3>1
  <2>8. ASSUME NEW m \in Live', m # n, rows[m].cp # Root PROVE cache'[rows[m].cp] # 0
    <3>1. rows[m].cp = rows[m].path /\ cache[rows[m].path] # 0 /\ rows[m].path # rows[n].path
      BY <2>6, <2>8, CacheApart DEF CacheGood
    <3>2. rows[m].path # to /\ rows[m].path \in FilePaths
      BY <2>6, <2>8, <3>1, RowFields
    <3> QED
      BY <2>2, <2>4, <3>1, <3>2
  <2> QED
    BY <2>6, <2>7, <2>8, CacheKept
<1>7. ASSUME NEW j \in Pending, JobMkdir(j) PROVE CacheGood'
  BY <1>7, CacheUntouched DEF JobMkdir, JobStep, local
<1>8. ASSUME NEW j \in Pending, JobDelete(j) PROVE CacheGood'
  BY <1>8, CacheUntouched DEF JobDelete, JobStep, local
<1>9. ASSUME NEW j \in Pending, JobRmdir(j) PROVE CacheGood'
  BY <1>9, CacheUntouched DEF JobRmdir, JobStep, local
<1>10. ASSUME NEW j \in Pending, JobReplace(j) PROVE CacheGood'
  BY <1>10, CacheUntouched DEF JobReplace, JobStep, local
<1>11. ASSUME NEW j \in Pending, JobMove(j) PROVE CacheGood'
  BY <1>11, CacheUntouched DEF JobMove, JobStep, local
<1>12. ASSUME NEW j \in Pending, JobFails(j) PROVE CacheGood'
  BY <1>12, CacheUntouched DEF JobFails, local
<1>13. ASSUME NEW t \in tombs, TombstoneExpires(t) PROVE CacheGood'
  BY <1>13, CacheUntouched DEF TombstoneExpires, local
<1>14. ASSUME Restart PROVE CacheGood'
  BY <1>14, CacheUntouched DEF Restart, local
<1>15. ASSUME NEW n \in Live, Hydrate(n) PROVE CacheGood'
  <2> DEFINE r == [rows[n] EXCEPT !.status = "cached", !.cp = rows[n].path]
  <2>1. /\ TouchRow(n, r) /\ rows[n].path \in FilePaths
        /\ cache' = [cache EXCEPT ![rows[n].path] = files[rows[n].path]] /\ files[rows[n].path] # 0
    BY <1>15, HydrateRows DEF Hydrate
  <2>2. r.cp = rows[n].path /\ r.path = rows[n].path
    BY <1>15, RowFields DEF RowType
  <2>3. cache \in [FilePaths -> 0 .. MaxContents]
    BY DEF SInv, StoreInv
  <2> HIDE DEF r
  <2>4. /\ Live' = Live /\ rows'[n] = r /\ \A m \in Inodes \ {n} : rows'[m] = rows[m]
    BY <2>1, TouchRows
  <2>5. \A m \in Live : m # n => rows'[m] = rows[m]
    BY <2>4 DEF Live
  <2>6. \A m \in Live : rows[m].cp # Root => cache'[rows[m].cp] # 0
    BY <2>1, <2>3 DEF CacheGood
  <2>7. cache'[rows[n].path] # 0
    BY <2>1, <2>3
  <2> QED
    BY <2>2, <2>4, <2>5, <2>6, <2>7, CacheKept
<1>16. ASSUME NEW n \in Live, HydratePrunes(n) PROVE CacheGood'
  <2>1. RemoveRow(n) /\ cache' = cache
    BY <1>16, PruneRows DEF HydratePrunes
  <2>2. Live' = Live \ {n} /\ \A m \in Inodes \ {n} : rows'[m] = rows[m]
    BY <2>1, RemoveRows
  <2>3. \A m \in Live' : m \in Live /\ rows'[m] = rows[m]
    BY <2>2 DEF Live
  <2> QED
    BY <2>1, <2>3, CacheSame
<1>17. ASSUME NEW n \in Live, UploadStart(n) PROVE CacheGood'
  <2> DEFINE r == [rows[n] EXCEPT !.status = "uploading"]
  <2>1. TouchRow(n, r) /\ cache' = cache /\ r.cp = rows[n].cp
    BY <1>17, StartRows, RowFields DEF UploadStart, RowType
  <2> HIDE DEF r
  <2> QED
    BY <2>1, CacheTouched
<1>18. ASSUME NEW n \in Live, UploadReverts(n) PROVE CacheGood'
  <2>1. rows[n].cp # Root /\ cache[rows[n].cp] = 0
    BY <1>18, RevertRows, PathKinds DEF UploadReverts
  <2> QED
    BY <1>18, <2>1 DEF CacheGood
<1>19. ASSUME UploadLands PROVE CacheGood'
  <2>1. cache' = cache /\ up # NoUpload
    BY <1>19 DEF UploadLands
  <2>2. CASE rows[up.inode] = NoRow
    BY <1>19, <2>1, <2>2, LandsRows, CacheUntouched
  <2>3. CASE rows[up.inode] # NoRow
    <3>1. TouchRow(up.inode, Settled(cache[up.cp])) /\ Settled(cache[up.cp]).cp = rows[up.inode].cp
      BY <1>19, <2>1, <2>3, LandsRows, UpRow DEF Settled, RowType
    <3> QED
      BY <2>1, <3>1, CacheTouched
  <2> QED
    BY <2>2, <2>3
<1>20. ASSUME UploadConflict PROVE CacheGood'
  <2> DEFINE r == rows[up.inode]
  <2>1. CASE rows' = rows /\ cache' = cache
    BY <2>1, CacheUntouched
  <2>2. CASE /\ r # NoRow /\ r.cp # Root /\ files[r.path] # 0
             /\ TouchRow(up.inode, Settled(files[r.path]))
             /\ cache' = [cache EXCEPT ![r.cp] = files[r.path]]
    <3>1. r.cp \in FilePaths /\ r \in RowType
      BY <1>20, <2>2, UpRow DEF UploadConflict
    <3>2. Settled(files[r.path]).cp = r.cp
      BY <3>1 DEF Settled, RowType
    <3>3. cache \in [FilePaths -> 0 .. MaxContents]
      BY DEF SInv, StoreInv
    <3>4. /\ Live' = Live /\ rows'[up.inode] = Settled(files[r.path])
          /\ \A m \in Inodes \ {up.inode} : rows'[m] = rows[m]
          /\ \A m \in Live : rows'[m].path = rows[m].path
      BY <2>2, TouchRows
    <3>5. \A m \in Live : rows'[m].cp = rows[m].cp
      BY <3>2, <3>4 DEF Live
    <3>6. \A m \in Live : rows[m].cp # Root => cache'[rows[m].cp] # 0
      BY <2>2, <3>1, <3>3 DEF CacheGood
    <3> QED
      BY <3>4, <3>5, <3>6, CacheKept
  <2> QED
    BY <1>20, <2>1, <2>2, ConflictRows
<1>21. ASSUME UploadFails PROVE CacheGood'
  <2>1. cache' = cache /\ up # NoUpload
    BY <1>21 DEF UploadFails
  <2>2. CASE rows[up.inode] = NoRow
    BY <1>21, <2>1, <2>2, FailsRows, CacheUntouched
  <2>3. CASE rows[up.inode] # NoRow
    <3> DEFINE r == [rows[up.inode] EXCEPT !.status = "dirty"]
    <3>1. TouchRow(up.inode, r) /\ r.cp = rows[up.inode].cp
      BY <1>21, <2>1, <2>3, FailsRows, UpRow DEF RowType
    <3> HIDE DEF r
    <3> QED
      BY <2>1, <3>1, CacheTouched
  <2> QED
    BY <2>2, <2>3
<1>22. ASSUME PollList PROVE CacheGood'
  BY <1>22, CacheUntouched DEF PollList, local
<1>23. ASSUME PollApply PROVE CacheGood'
  <2>1. /\ Refill(Seen, Sweep)
        /\ cache' = [p \in FilePaths |-> IF \E n \in Sweep : rows[n].cp = p THEN 0 ELSE cache[p]]
    BY <1>23, PollRefills, PollParts DEF SInv, StoreInv
  <2>2. Live' = (Live \ Sweep) \cup NewInodes /\ Sweep \subseteq Live
    <3>1. Live' = (Live \ Sweep) \cup NewInodes
      BY <2>1, RefillRows
    <3>2. Sweep \subseteq Live
      BY <2>1 DEF Refill
    <3> QED
      BY <3>1, <3>2
  <2>3. /\ \A m \in Live \ Sweep : rows'[m].path = rows[m].path /\ rows'[m].cp = rows[m].cp
        /\ \A m \in NewInodes : rows'[m].cp = Root
    BY <2>1 DEF Refill
  <2>4. ASSUME NEW m \in Live \ Sweep, rows[m].cp # Root PROVE cache'[rows[m].cp] # 0
    <3>1. \A n \in Sweep : rows[n].cp # rows[m].cp
      BY <2>2, <2>4, CacheApart
    <3>2. rows[m].cp \in FilePaths /\ cache[rows[m].cp] # 0
      BY <2>4, RowFields DEF CacheGood
    <3> QED
      BY <2>1, <3>1, <3>2
  <2> QED
    BY <2>2, <2>3, <2>4, CacheKept
<1>24. ASSUME NEW n \in DirInodes \cup {0}, Populate(n) PROVE CacheGood'
  BY <1>24, CacheUntouched DEF Populate, local
<1>25. ASSUME NEW n \in DirInodes, PopulateLocal(n) PROVE CacheGood'
  <2> DEFINE r == [rows[n] EXCEPT !.listed = TRUE]
  <2>1. TouchRow(n, r) /\ cache' = cache /\ r.cp = rows[n].cp
    BY <1>25, LocalRows, RowFields DEF PopulateLocal, RowType, DirInodes
  <2> HIDE DEF r
  <2> QED
    BY <2>1, CacheTouched
<1>26. ASSUME PopulateApply PROVE CacheGood'
  BY <1>26, PopulateRows, CacheRefilled DEF PopulateApply
<1>27. ASSUME PopulateFails PROVE CacheGood'
  BY <1>27, CacheUntouched DEF PopulateFails, local
<1>28. ASSUME NEW n \in Inodes, PrefetchList(n) PROVE CacheGood'
  BY <1>28, CacheUntouched DEF PrefetchList, local
<1>29. ASSUME NEW n \in Inodes, PrefetchApply(n) PROVE CacheGood'
  BY <1>29, PrefetchRows, CacheRefilled, CacheUntouched DEF PrefetchApply
<1>31. ASSUME PollRefused PROVE CacheGood'
  BY <1>31, PollFine DEF SInv, StoreInv, PollRefused
<1>30. CASE UNCHANGED vars
  BY <1>30, CacheUntouched DEF vars
<1> QED
  BY <1>1, <1>2, <1>3, <1>4, <1>5, <1>6, <1>7, <1>8, <1>9, <1>10, <1>11, <1>12,
     <1>13, <1>14, <1>15, <1>16, <1>17, <1>18, <1>19, <1>20, <1>21, <1>22,
     <1>23, <1>24, <1>25, <1>26, <1>27, <1>28, <1>29, <1>30, <1>31 DEF Next

LEMMA InitCache == Init => CacheInv
<1> SUFFICES ASSUME Init PROVE CacheGood
  BY DEF CacheInv
<1>1. PICK d \in DirNames, f \in FileNames, g \in FileNames :
        f # g /\ (FreshMount \/ KnownMount(d, f, g))
  BY InitCases
<1>2. CASE FreshMount
  BY <1>2, NoRowFacts DEF FreshMount, CacheGood, Live
<1>3. CASE KnownMount(d, f, g)
  <2>1. <<f>> # <<g>> /\ <<f>> \in FilePaths /\ <<g>> \in FilePaths
    BY <1>1, InitPaths
  <2>2. cache[<<f>>] = 1 /\ cache[<<g>>] = 3
    BY <1>3, <2>1 DEF KnownMount
  <2> QED
    BY <1>3, <2>2 DEF KnownMount, CacheGood
<1> QED
  BY <1>1, <1>2, <1>3

LEMMA CacheInvStep ==
  ASSUME SInv, TreeInv, CacheInv, [Next]_vars PROVE CacheInv'
<1> SUFFICES ASSUME causes' \cap {"dir", "cross"} = {} PROVE CacheGood'
  BY DEF CacheInv
<1>1. causes \cap {"dir", "cross"} = {} /\ "dir" \notin causes
  BY CausesGrow
<1>2. Placed /\ CacheGood /\ RowsInv
  BY <1>1 DEF TreeInv, CacheInv, SInv
<1> QED
  BY <1>2, CacheStep

\* As long as no directory is renamed and no file changes its directory, a row's
\* cache file is that of its remote_path, so that a write, an unlink, a poll's sweep
\* or a conflict on one file never reaches the bytes of another.
THEOREM CacheIsUnshared == Spec => []CacheUnshared
<1>1. SInv /\ TreeInv /\ CacheInv /\ [Next]_vars => (SInv /\ TreeInv /\ CacheInv)'
  BY SInvStep, TreeStep, CacheInvStep
<1>2. SInv /\ CacheInv => CacheUnshared
  BY CacheApart DEF SInv, CacheInv, CacheUnshared
<1> QED
  BY InitSInv, InitTree, InitCache, <1>1, <1>2, PTL DEF Spec
-----------------------------------------------------------------------------
(* Nothing is lost, while none of the known exceptions has happened.       *)

Parts(J) == {J.path, J.to, J.dest} \ {Root}
Moves(J) == J.op \in {"move", "replace"}
JobsOf(p) == {j \in Pending : jobs[j].path = p}
AtRemote == {files[p] : p \in FilePaths} \cup siblings

\* No two remote calls concern one path.
Apart ==
  /\ \A j, k \in Pending :
       j # k => \A p \in Parts(jobs[j]), q \in Parts(jobs[k]) : ~Overlap(p, q)
  /\ up # NoUpload => \A j \in Pending : \A p \in Parts(jobs[j]) : ~Overlap(p, up.path)

\* What a delete, a purge or a move is about to destroy, the user has given up; what a
\* move is about to bring has a row, which is not going to be uploaded over it.
MoveFine(J) ==
  /\ J.path \in FilePaths /\ J.to \in FilePaths /\ J.dest \in {Root, J.to} /\ J.path # J.to
  /\ files[J.to] \notin live
  /\ files[J.path] \in live =>
       \E m \in ByPath(J.to) : /\ rows[m].status \notin Unsynced
                               /\ rows[m].status = "cached" => cache[rows[m].cp] = files[J.path]
JobFine(J) ==
  /\ J.op = "delete" => files[J.path] \notin live
  /\ J.op = "rmdir" => \A q \in FilePaths : IsPrefix(J.path, q) => files[q] \notin live
  /\ Moves(J) => MoveFine(J)
JobOk == \A j \in Pending : JobFine(jobs[j])

\* A tombstone belongs to a call that is on its way.
TombOk == \A t \in tombs : \E j \in Pending : jobs[j].path = t /\ jobs[j].op # "mkdir"

\* A remote file that has no row is in a directory that is not listed yet, and the
\* listings on their way have it.
Astray(p) == files[p] \in live /\ ByPath(p) = {} /\ JobsOf(p) = {}
Covered(p) == IF ParentPath(p) = Root THEN listed
              ELSE \E n \in ByPath(ParentPath(p)) : rows[n].listed
PollHas(p) == poll.pc = "apply" => poll.files[p] # 0
ListHas(l, p) == l.pc = "apply" /\ l.path = ParentPath(p) => p \in Entries(l)
Known(p) == ~Covered(p) /\ PollHas(p) /\ ListHas(pop, p) /\ \A n \in Inodes : ListHas(pre[n], p)
KnownOk == \A p \in FilePaths : Astray(p) => Known(p)

\* A row with changes of its own has nothing of the user's at the remote; the cache
\* file of another row is a copy.
SyncRow(n) ==
  rows[n].path \in FilePaths =>
    /\ rows[n].status \in Unsynced => files[rows[n].path] \notin live
    /\ rows[n].status = "cached" /\ files[rows[n].path] \in live =>
         cache[rows[n].cp] = files[rows[n].path]
    /\ rows[n].status \notin Unsynced /\ rows[n].cp # Root /\ cache[rows[n].cp] \in live =>
         cache[rows[n].cp] \in AtRemote
SyncOk == \A n \in Live : SyncRow(n)

UpOk == up # NoUpload =>
  /\ rows[up.inode] # NoRow /\ rows[up.inode].status = "uploading"
  /\ rows[up.inode].path = up.path /\ rows[up.inode].cp = up.cp

AllSafe == live \subseteq Safe

Ok == Apart /\ JobOk /\ TombOk /\ KnownOk /\ SyncOk /\ UpOk /\ AllSafe
OkInv == causes = {} => Ok

\* What holds before a step that leaves no exception behind.
OkState == SInv /\ RowsInv /\ Placed /\ ListsPlaced /\ CacheGood /\ Ok

\* What a step leaves alone.
RowSame(m) ==
  /\ m \in Live /\ m \in Live'
  /\ rows'[m].path = rows[m].path /\ rows'[m].cp = rows[m].cp
  /\ rows[m].cp # Root => cache'[rows[m].cp] = cache[rows[m].cp]
  /\ \/ rows'[m].status = rows[m].status
     \/ rows[m].status \notin Unsynced /\ rows'[m].status = "stale"
FilesKept(p) == files'[p] \in live' => files'[p] = files[p] /\ files[p] \in live
RemoteKept == \A c \in live' : c \in AtRemote => c \in AtRemote'
\* No old content comes back.
LiveKept == \A c \in 0 .. last : c \in live' => c \in live

LEMMA NotBusy ==
  ASSUME SInv, NEW p, ~Busy(p)
  PROVE  /\ \A j \in Pending : \A q \in Parts(jobs[j]) : ~Overlap(q, p) /\ ~Overlap(p, q)
         /\ up # NoUpload => ~Overlap(up.path, p) /\ ~Overlap(p, up.path)
BY DEF Busy, Touches, Parts, Overlap

LEMMA OverlapSelf ==
  ASSUME NEW p \in Paths PROVE Overlap(p, p)
BY PrefixFacts DEF Overlap

\* A free path has no call from it or to it.
LEMMA FreePath ==
  ASSUME SInv, NEW p \in Paths, ~Busy(p)
  PROVE  /\ JobsOf(p) = {} /\ \A j \in Pending : jobs[j].to # p /\ jobs[j].dest # p
         /\ up # NoUpload => up.path # p
<1>1. p # Root /\ Overlap(p, p)
  BY OverlapSelf, PathKinds
<1>2. \A j \in Pending : p \notin Parts(jobs[j])
  BY <1>1, NotBusy
<1>3. up # NoUpload => up.path # p
  BY <1>1, NotBusy
<1> QED
  BY <1>1, <1>2, <1>3 DEF JobsOf, Parts

\* The remote is as it was.
LEMMA SameRemote ==
  ASSUME SInv, files' = files, siblings \subseteq siblings', LiveKept
  PROVE  RemoteKept /\ \A p \in FilePaths : FilesKept(p)
<1>1. files \in [FilePaths -> 0 .. last]
  BY StoreFacts DEF SInv
<1>2. RemoteKept
  BY DEF RemoteKept, AtRemote
<1>3. \A p \in FilePaths : FilesKept(p)
  BY <1>1 DEF FilesKept, LiveKept
<1> QED
  BY <1>2, <1>3

\* Some remote files go that the user has given up.
LEMMA FewerFiles ==
  ASSUME SInv, siblings' = siblings, live' = live,
         \A p \in FilePaths : files'[p] = files[p] \/ (files'[p] = 0 /\ files[p] \notin live)
  PROVE  RemoteKept /\ LiveKept /\ \A p \in FilePaths : FilesKept(p)
<1>1. 0 \notin live
  BY DEF SInv, StoreInv
<1>2. RemoteKept
  <2> SUFFICES ASSUME NEW c \in live, c \in AtRemote PROVE c \in AtRemote'
    BY DEF RemoteKept
  <2>1. CASE c \in siblings
    BY <2>1 DEF AtRemote
  <2>2. CASE \E p \in FilePaths : c = files[p]
    <3>1. PICK p \in FilePaths : c = files[p]
      BY <2>2
    <3>2. files'[p] = c
      BY <3>1
    <3> QED
      BY <3>2 DEF AtRemote
  <2> QED
    BY <2>1, <2>2 DEF AtRemote
<1>3. \A p \in FilePaths : FilesKept(p)
  BY <1>1 DEF FilesKept
<1> QED
  BY <1>2, <1>3 DEF LiveKept

LEMMA SyncRowKept ==
  ASSUME SInv, NEW m, RowSame(m), SyncRow(m), FilesKept(rows[m].path), RemoteKept, LiveKept
  PROVE  SyncRow(m)'
<1> SUFFICES ASSUME rows[m].path \in FilePaths PROVE SyncRow(m)'
  BY DEF SyncRow, RowSame
<1>1. /\ m \in Live /\ rows[m].cp \in FilePaths \cup {Root}
      /\ rows[m].status \in HasFile => rows[m].cp # Root
  BY RowFields DEF RowSame, SInv
<1>2. rows'[m].path = rows[m].path /\ rows'[m].cp = rows[m].cp
  BY DEF RowSame
<1>3. ASSUME rows'[m].status \in Unsynced PROVE files'[rows[m].path] \notin live'
  <2>1. rows[m].status \in Unsynced
    BY <1>3 DEF RowSame, Unsynced
  <2> QED
    BY <2>1 DEF SyncRow, FilesKept
<1>4. ASSUME rows'[m].status = "cached", files'[rows[m].path] \in live'
      PROVE  cache'[rows[m].cp] = files'[rows[m].path]
  <2>1. rows[m].status = "cached" /\ rows[m].cp # Root
    BY <1>1, <1>4 DEF RowSame, HasFile
  <2>2. cache'[rows[m].cp] = cache[rows[m].cp]
    BY <2>1 DEF RowSame
  <2> QED
    BY <1>4, <2>1, <2>2 DEF SyncRow, FilesKept
<1>5. ASSUME rows'[m].status \notin Unsynced, rows[m].cp # Root, cache'[rows[m].cp] \in live'
      PROVE  cache'[rows[m].cp] \in AtRemote'
  <2>1. rows[m].status \notin Unsynced
    BY <1>5 DEF RowSame
  <2>2. cache'[rows[m].cp] = cache[rows[m].cp] /\ cache[rows[m].cp] \in 0 .. last
    BY <1>1, <1>5, StoreFacts DEF RowSame, SInv
  <2>3. cache[rows[m].cp] \in live
    BY <1>5, <2>2 DEF LiveKept
  <2> QED
    BY <1>5, <2>1, <2>2, <2>3 DEF SyncRow, RemoteKept
<1> QED
  BY <1>2, <1>3, <1>4, <1>5 DEF SyncRow

LEMMA SyncKept ==
  ASSUME OkState, RemoteKept, LiveKept,
         \A m \in Live' : (RowSame(m) /\ FilesKept(rows[m].path)) \/ SyncRow(m)'
  PROVE  SyncOk'
<1> SUFFICES ASSUME NEW m \in Live' PROVE SyncRow(m)'
  BY DEF SyncOk
<1>1. CASE RowSame(m) /\ FilesKept(rows[m].path)
  BY <1>1, SyncRowKept DEF OkState, Ok, SyncOk, RowSame
<1> QED
  BY <1>1

LEMMA MoveFineKept ==
  ASSUME SInv, RowsInv, NEW J, MoveFine(J), LiveKept, FilesKept(J.path), FilesKept(J.to),
         files[J.path] \in live /\ files[J.path] \in live' => \A m \in ByPath(J.to) : RowSame(m)
  PROVE  MoveFine(J)'
<1>1. files'[J.to] \notin live'
  BY DEF MoveFine, FilesKept
<1>2. ASSUME files'[J.path] \in live'
      PROVE  \E m \in ByPath(J.to)' :
               /\ rows'[m].status \notin Unsynced
               /\ rows'[m].status = "cached" => cache'[rows'[m].cp] = files'[J.path]
  <2>1. files'[J.path] = files[J.path] /\ files[J.path] \in live
    BY <1>2 DEF FilesKept
  <2>2. PICK m \in ByPath(J.to) : /\ rows[m].status \notin Unsynced
                                  /\ rows[m].status = "cached" => cache[rows[m].cp] = files[J.path]
    BY <2>1 DEF MoveFine
  <2>3. RowSame(m)
    BY <1>2, <2>1
  <2>4. m \in ByPath(J.to)' /\ rows'[m].cp = rows[m].cp
    BY <2>3 DEF ByPath, RowSame
  <2>5. rows'[m].status \notin Unsynced
    BY <2>2, <2>3 DEF RowSame, Unsynced
  <2>6. ASSUME rows'[m].status = "cached" PROVE cache'[rows[m].cp] = files[J.path]
    <3>1. rows[m].status = "cached" /\ m \in Live
      BY <2>3, <2>6 DEF RowSame
    <3>2. rows[m].path \in FilePaths /\ ~IsDir(m)
      BY <3>1, RowFields, PathKinds DEF ByPath, MoveFine, IsDir
    <3>3. rows[m].cp # Root
      BY <3>1, <3>2, RowFields DEF HasFile
    <3> QED
      BY <2>2, <2>3, <3>1, <3>3 DEF RowSame
  <2> QED
    BY <2>1, <2>4, <2>5, <2>6
<1>3. J.path \in FilePaths /\ J.to \in FilePaths /\ J.dest \in {Root, J.to} /\ J.path # J.to
  BY DEF MoveFine
<1> QED
  BY <1>1, <1>2, <1>3 DEF MoveFine

\* The remote files that a call J concerns.
Reach(J) == {p \in FilePaths : \E q \in Parts(J) : Overlap(q, p)}

LEMMA JobFineKept ==
  ASSUME SInv, RowsInv, NEW J, GoodJob(J), JobFine(J), LiveKept, \A p \in Reach(J) : FilesKept(p),
         Moves(J) /\ files[J.path] \in live /\ files[J.path] \in live' =>
           \A m \in ByPath(J.to) : RowSame(m)
  PROVE  JobFine(J)'
<1>0. \A p \in FilePaths : p # Root /\ Overlap(p, p)
  BY OverlapSelf, PathKinds
<1>1. ASSUME J.op = "delete" PROVE files'[J.path] \notin live'
  <2>1. J.path \in FilePaths /\ J.path \in Reach(J)
    BY <1>0, <1>1 DEF GoodJob, Reach, Parts
  <2> QED
    BY <1>1, <2>1 DEF JobFine, FilesKept
<1>2. ASSUME J.op = "rmdir", NEW q \in FilePaths, IsPrefix(J.path, q) PROVE files'[q] \notin live'
  <2>1. J.path \in Parts(J)
    BY <1>2, PathKinds DEF GoodJob, Parts
  <2>2. q \in Reach(J)
    BY <1>2, <2>1 DEF Reach, Overlap
  <2> QED
    BY <1>2, <2>2 DEF JobFine, FilesKept
<1>3. ASSUME Moves(J) PROVE MoveFine(J)'
  <2>1. MoveFine(J) /\ J.path \in FilePaths /\ J.to \in FilePaths
    BY <1>3 DEF JobFine, MoveFine
  <2>2. J.path \in Reach(J) /\ J.to \in Reach(J)
    BY <1>0, <2>1 DEF Reach, Parts
  <2> QED
    BY <1>3, <2>1, <2>2, MoveFineKept
<1> QED
  BY <1>1, <1>2, <1>3 DEF JobFine, Moves
\* The state as the lemmas below take it apart.
LEMMA OkFacts ==
  ASSUME OkState
  PROVE  /\ SInv /\ RowsInv /\ Placed /\ CacheGood /\ JobsInv /\ StoreInv
         /\ Apart /\ JobOk /\ TombOk /\ KnownOk /\ SyncOk /\ UpOk /\ AllSafe
BY DEF OkState, Ok, SInv

LEMMA SameRow ==
  ASSUME RowsInv, CacheGood, NEW m \in Live, rows'[m] = rows[m],
         rows[m].path \in FilePaths => cache'[rows[m].path] = cache[rows[m].path]
  PROVE  RowSame(m)
<1>1. m \in Live'
  BY DEF Live
<1>2. rows[m].cp # Root => rows[m].cp = rows[m].path /\ rows[m].path \in FilePaths
  BY RowFields DEF CacheGood
<1> QED
  BY <1>1, <1>2 DEF RowSame

\* --- the calls ---

LEMMA SpawnFacts ==
  ASSUME JobsInv, UserStep, NEW J, J.op # "none", Spawn(J)
  PROVE  /\ events + 1 \in Pending' /\ events + 1 \notin Pending /\ jobs'[events + 1] = J
         /\ Pending' = Pending \cup {events + 1}
         /\ \A k \in Pending : jobs'[k] = jobs[k]
<1>1. events \in Nat /\ events + 1 \in 1 .. MaxEvents /\ DOMAIN jobs = 1 .. MaxEvents
  BY BoundsAssumption DEF UserStep, JobsInv
<1>2. events + 1 \notin Pending
  <2>1. events + 1 > events
    BY <1>1
  <2>2. jobs[events + 1] = NoJob
    BY <1>1, <2>1 DEF JobsInv
  <2> QED
    BY <2>2 DEF Pending, NoJob
<1>3. /\ DOMAIN jobs' = 1 .. MaxEvents /\ jobs'[events + 1] = J
      /\ \A k \in 1 .. MaxEvents : k # events + 1 => jobs'[k] = jobs[k]
  BY <1>1 DEF Spawn
<1>4. \A k \in Pending : k \in 1 .. MaxEvents /\ k # events + 1
  BY <1>1, <1>2 DEF Pending
<1>5. Pending' = Pending \cup {events + 1}
  BY <1>1, <1>2, <1>3 DEF Pending
<1> QED
  BY <1>2, <1>3, <1>4, <1>5

LEMMA DoneFacts ==
  ASSUME JobsInv, NEW j \in Pending, jobs' = [jobs EXCEPT ![j] = NoJob]
  PROVE  Pending' = Pending \ {j} /\ \A k \in Pending' : k \in Pending /\ k # j /\ jobs'[k] = jobs[k]
<1>1. DOMAIN jobs = 1 .. MaxEvents /\ j \in 1 .. MaxEvents
  BY DEF JobsInv, Pending
<1>2. jobs'[j] = NoJob /\ DOMAIN jobs' = DOMAIN jobs /\ \A k \in DOMAIN jobs : k # j => jobs'[k] = jobs[k]
  BY <1>1
<1>3. Pending' = Pending \ {j}
  BY <1>1, <1>2 DEF Pending, NoJob
<1> QED
  BY <1>2, <1>3 DEF Pending

LEMMA ApartKept ==
  ASSUME Apart, up' = up \/ up' = NoUpload,
         \A k \in Pending' : k \in Pending /\ Parts(jobs'[k]) \subseteq Parts(jobs[k])
  PROVE  Apart'
<1>1. ASSUME NEW j \in Pending', NEW k \in Pending', j # k,
             NEW p \in Parts(jobs'[j]), NEW q \in Parts(jobs'[k])
      PROVE  ~Overlap(p, q)
  <2>1. p \in Parts(jobs[j]) /\ q \in Parts(jobs[k]) /\ j \in Pending /\ k \in Pending
    BY <1>1
  <2> QED
    BY <1>1, <2>1 DEF Apart
<1>2. ASSUME up' # NoUpload, NEW j \in Pending', NEW p \in Parts(jobs'[j])
      PROVE  ~Overlap(p, up'.path)
  <2>1. p \in Parts(jobs[j]) /\ j \in Pending /\ up' = up
    BY <1>2
  <2> QED
    BY <1>2, <2>1 DEF Apart
<1> QED
  BY <1>1, <1>2 DEF Apart

LEMMA SameJobsApart ==
  ASSUME Apart, up' = up \/ up' = NoUpload, jobs' = jobs
  PROVE  Apart' /\ Pending' = Pending
<1>1. Pending' = Pending
  BY DEF Pending
<1>2. \A k \in Pending' : k \in Pending /\ Parts(jobs'[k]) \subseteq Parts(jobs[k])
  BY <1>1
<1> QED
  BY <1>1, <1>2, ApartKept

LEMMA ApartSpawn ==
  ASSUME SInv, Apart, up' = up, NEW e, e \notin Pending, Pending' = Pending \cup {e},
         \A k \in Pending : jobs'[k] = jobs[k], \A q \in Parts(jobs'[e]) : ~Busy(q)
  PROVE  Apart'
<1>1. ASSUME NEW j \in Pending', NEW k \in Pending', j # k,
             NEW p \in Parts(jobs'[j]), NEW q \in Parts(jobs'[k])
      PROVE  ~Overlap(p, q)
  <2>1. CASE j \in Pending /\ k \in Pending
    BY <1>1, <2>1 DEF Apart
  <2>2. CASE j = e /\ k \in Pending
    <3>1. ~Busy(p) /\ q \in Parts(jobs[k])
      BY <1>1, <2>2
    <3> QED
      BY <2>2, <3>1, NotBusy
  <2>3. CASE j \in Pending /\ k = e
    <3>1. ~Busy(q) /\ p \in Parts(jobs[j])
      BY <1>1, <2>3
    <3> QED
      BY <2>3, <3>1, NotBusy
  <2> QED
    BY <1>1, <2>1, <2>2, <2>3
<1>2. ASSUME up' # NoUpload, NEW j \in Pending', NEW p \in Parts(jobs'[j])
      PROVE  ~Overlap(p, up'.path)
  <2>1. CASE j \in Pending
    BY <1>2, <2>1 DEF Apart
  <2>2. CASE j = e
    <3>1. ~Busy(p)
      BY <1>2, <2>2
    <3> QED
      BY <1>2, <3>1, NotBusy
  <2> QED
    BY <1>2, <2>1, <2>2
<1> QED
  BY <1>1, <1>2 DEF Apart

JobKept(k) ==
  /\ k \in Pending /\ jobs'[k] = jobs[k] /\ \A p \in Reach(jobs[k]) : FilesKept(p)
  /\ Moves(jobs[k]) /\ files[jobs[k].path] \in live /\ files[jobs[k].path] \in live' =>
       \A m \in ByPath(jobs[k].to) : RowSame(m)

LEMMA JobOkKept ==
  ASSUME SInv, JobOk, LiveKept,
         \A k \in Pending' : JobKept(k) \/ \E J : J = jobs'[k] /\ JobFine(J)'
  PROVE  JobOk'
<1> SUFFICES ASSUME NEW k \in Pending', NEW J, J = jobs'[k] PROVE JobFine(J)'
  BY DEF JobOk
<1>1. CASE JobKept(k)
  <2>1. k \in Pending /\ J = jobs[k] /\ RowsInv /\ JobsInv
    BY <1>1 DEF JobKept, SInv
  <2>2. GoodJob(J) /\ JobFine(J)
    BY <2>1, PendingJob DEF JobOk
  <2>3. \A p \in Reach(J) : FilesKept(p)
    BY <1>1, <2>1 DEF JobKept
  <2>4. Moves(J) /\ files[J.path] \in live /\ files[J.path] \in live' =>
          \A m \in ByPath(J.to) : RowSame(m)
    BY <1>1, <2>1 DEF JobKept
  <2> QED
    BY <2>1, <2>2, <2>3, <2>4, JobFineKept
<1>2. CASE \E K : K = jobs'[k] /\ JobFine(K)'
  BY <1>2
<1> QED
  BY <1>1, <1>2

\* All remote files and all targets of moves are kept.
LEMMA AllJobsKept ==
  ASSUME \A p \in FilePaths : FilesKept(p), NEW k \in Pending, jobs'[k] = jobs[k],
         Moves(jobs[k]) => \A m \in ByPath(jobs[k].to) : RowSame(m)
  PROVE  JobKept(k)
BY DEF JobKept, Reach

TombKept(t) == t \in tombs /\ \A k \in Pending : jobs[k].path = t =>
                                k \in Pending' /\ jobs'[k].path = t /\ (jobs'[k].op = "mkdir" => jobs[k].op = "mkdir")

LEMMA TombOkKept ==
  ASSUME TombOk,
         \A t \in tombs' : TombKept(t) \/ \E k \in Pending' : jobs'[k].path = t /\ jobs'[k].op # "mkdir"
  PROVE  TombOk'
<1> SUFFICES ASSUME NEW t \in tombs' PROVE \E k \in Pending' : jobs'[k].path = t /\ jobs'[k].op # "mkdir"
  BY DEF TombOk
<1>1. CASE TombKept(t)
  <2>1. PICK k \in Pending : jobs[k].path = t /\ jobs[k].op # "mkdir"
    BY <1>1 DEF TombKept, TombOk
  <2> QED
    BY <1>1, <2>1 DEF TombKept
<1> QED
  BY <1>1

LEMMA SameTombs ==
  ASSUME TombOk, tombs' = tombs, \A k \in Pending : k \in Pending' /\ jobs'[k] = jobs[k]
  PROVE  TombOk'
<1>1. \A t \in tombs' : TombKept(t)
  BY DEF TombKept
<1> QED
  BY <1>1, TombOkKept

\* --- the listings ---

\* No directory gets listed.
DirsKnown ==
  /\ listed' => listed
  /\ \A m \in Live' : rows'[m].path \in DirPaths /\ rows'[m].listed =>
       m \in Live /\ rows[m].path = rows'[m].path /\ rows[m].listed

LEMMA CoveredKept ==
  ASSUME DirsKnown, NEW p \in FilePaths, Covered(p)' PROVE Covered(p)
<1>1. CASE ParentPath(p) = Root
  BY <1>1 DEF Covered, DirsKnown
<1>2. CASE ParentPath(p) # Root
  <2>1. ParentPath(p) \in DirPaths
    BY <1>2, FileFacts DEF Dirs
  <2>2. PICK q \in DirPaths : q = ParentPath(p)
    BY <2>1
  <2>3. PICK m \in ByPath(q)' : rows'[m].listed
    BY <1>2, <2>2 DEF Covered
  <2>4. m \in Live' /\ rows'[m].path = q
    BY <2>3 DEF ByPath
  <2>5. m \in ByPath(q) /\ rows[m].listed
    BY <2>2, <2>3, <2>4 DEF DirsKnown, ByPath
  <2> QED
    BY <1>2, <2>2, <2>5 DEF Covered
<1> QED
  BY <1>1, <1>2

LEMMA AstrayKept ==
  ASSUME NEW p \in FilePaths, FilesKept(p), Astray(p)', \A m \in ByPath(p) : m \in ByPath(p)',
         \A k \in JobsOf(p) : k \in JobsOf(p)'
  PROVE  Astray(p)
<1>1. ByPath(p)' = {} /\ JobsOf(p)' = {} /\ files'[p] \in live'
  BY DEF Astray
<1>2. ByPath(p) = {} /\ JobsOf(p) = {}
  BY <1>1
<1> QED
  BY <1>1, <1>2 DEF Astray, FilesKept

LEMMA KnownKept ==
  ASSUME KnownOk, DirsKnown, poll' = poll, pop' = pop, pre' = pre,
         \A p \in FilePaths : Astray(p)' => Astray(p)
  PROVE  KnownOk'
<1> SUFFICES ASSUME NEW p \in FilePaths, Astray(p)' PROVE Known(p)'
  BY DEF KnownOk
<1>1. Known(p)
  BY DEF KnownOk
<1>2. ~Covered(p)'
  BY <1>1, CoveredKept DEF Known
<1>3. PollHas(p)' /\ ListHas(pop, p)' /\ \A n \in Inodes : ListHas(pre[n], p)'
  BY <1>1 DEF Known, PollHas, ListHas, Entries
<1> QED
  BY <1>2, <1>3 DEF Known

\* --- the upload, and the contents ---

LEMMA UpOkKept ==
  ASSUME UpOk, up' = up, NEW i, i = up.inode, up # NoUpload => RowSame(i)
  PROVE  UpOk'
<1> SUFFICES ASSUME up # NoUpload PROVE UpOk'
  BY DEF UpOk
<1>1. RowSame(i) /\ rows[i].status = "uploading" /\ rows[i].path = up.path /\ rows[i].cp = up.cp
  BY DEF UpOk
<1>2. rows'[i] # NoRow /\ rows'[i].path = up.path /\ rows'[i].cp = up.cp
  BY <1>1 DEF RowSame, Live
<1>3. rows'[i].status = "uploading"
  BY <1>1 DEF RowSame, Unsynced
<1> QED
  BY <1>2, <1>3 DEF UpOk

LEMMA UpOkDone == ASSUME up' = NoUpload PROVE UpOk'
BY DEF UpOk

LEMMA SameRowSafe ==
  ASSUME NEW n, RowSame(n), rows[n].cp # Root PROVE cache[rows[n].cp] \in Safe'
<1>1. n \in Live' /\ rows'[n].cp # Root /\ cache'[rows'[n].cp] = cache[rows[n].cp]
  BY DEF RowSame
<1> QED
  BY <1>1 DEF Safe

LEMMA RemoteSafe == ASSUME NEW c, c \in AtRemote' PROVE c \in Safe'
BY DEF AtRemote, Safe

LEMMA SafeKept ==
  ASSUME RowsInv, SyncOk, AllSafe, RemoteKept, \A c \in live' : c \in live \/ c \in Safe',
         \A n \in Live : rows[n].status \in Unsynced =>
           \/ RowSame(n)
           \/ cache[rows[n].cp] \notin live'
           \/ cache[rows[n].cp] \in Safe'
  PROVE  AllSafe'
<1> SUFFICES ASSUME NEW c \in live', c \in live PROVE c \in Safe'
  BY DEF AllSafe
<1>1. CASE c \in AtRemote
  BY <1>1, RemoteSafe DEF RemoteKept
<1>2. ASSUME NEW n \in Live, rows[n].cp # Root, c = cache[rows[n].cp], c \notin AtRemote
      PROVE  c \in Safe'
  <2>1. rows[n].path \in FilePaths
    BY <1>2, RowFields
  <2>2. rows[n].status \in Unsynced
    BY <1>2, <2>1 DEF SyncOk, SyncRow
  <2>3. CASE RowSame(n)
    BY <1>2, <2>3, SameRowSafe
  <2> QED
    BY <1>2, <2>2, <2>3
<1>3. c \in AtRemote \/ \E n \in Live : rows[n].cp # Root /\ c = cache[rows[n].cp]
  BY DEF AllSafe, Safe, AtRemote
<1> QED
  BY <1>1, <1>2, <1>3
-----------------------------------------------------------------------------
\* A step that changes no file, here or at the remote.
Quiet == /\ rows' = rows /\ cache' = cache /\ files' = files
         /\ siblings' = siblings /\ live' = live /\ listed' = listed

LEMMA QuietKept ==
  ASSUME OkState, Quiet
  PROVE  /\ LiveKept /\ \A m \in Live : RowSame(m) /\ m \in Live'
         /\ \A p \in FilePaths : FilesKept(p)
         /\ SyncOk' /\ AllSafe' /\ DirsKnown /\ Live' = Live
         /\ \A p \in FilePaths : ByPath(p)' = ByPath(p) /\ Covered(p)' = Covered(p)
<1>1. LiveKept /\ siblings \subseteq siblings' /\ files' = files
  BY DEF Quiet, LiveKept
<1>2. RemoteKept /\ \A p \in FilePaths : FilesKept(p)
  BY <1>1, OkFacts, SameRemote
<1>3. Live' = Live
  BY DEF Quiet, Live
<1>4. \A m \in Live : RowSame(m) /\ m \in Live'
  BY <1>3 DEF Quiet, RowSame
<1>5. \A m \in Live' : (RowSame(m) /\ FilesKept(rows[m].path)) \/ SyncRow(m)'
  <2> SUFFICES ASSUME NEW m \in Live' PROVE RowSame(m) /\ FilesKept(rows[m].path)
    OBVIOUS
  <2>1. m \in Live
    BY <1>3
  <2>2. FilesKept(rows[m].path)
    BY DEF FilesKept, Quiet
  <2> QED
    BY <1>4, <2>1, <2>2
<1>6. SyncOk'
  BY <1>1, <1>2, <1>5, SyncKept
<1>7. AllSafe'
  BY DEF OkState, Ok, AllSafe, Safe, Quiet, Live
<1>8. DirsKnown
  BY <1>3 DEF Quiet, DirsKnown
<1>9. \A p \in FilePaths : ByPath(p)' = ByPath(p) /\ Covered(p)' = Covered(p)
  BY <1>3 DEF ByPath, Covered, Quiet, Live
<1> QED
  BY <1>1, <1>2, <1>3, <1>4, <1>6, <1>7, <1>8, <1>9

\* ... and neither the calls nor the upload, unless that is gone.
LEMMA QuietCalls ==
  ASSUME OkState, Quiet, jobs' = jobs, up' = up \/ up' = NoUpload
  PROVE  /\ Apart' /\ JobOk' /\ SyncOk' /\ AllSafe' /\ UpOk' /\ Pending' = Pending
         /\ \A p \in FilePaths : Astray(p)' => Astray(p)
<1>1. Apart' /\ Pending' = Pending
  BY OkFacts, SameJobsApart
<1>2. ASSUME NEW k \in Pending' PROVE JobKept(k)
  <2>1. k \in Pending /\ jobs'[k] = jobs[k]
    BY <1>1
  <2>2. \A m \in ByPath(jobs[k].to) : RowSame(m)
    BY QuietKept DEF ByPath
  <2> QED
    BY <2>1, <2>2, QuietKept, AllJobsKept
<1>3. JobOk'
  BY <1>2, OkFacts, QuietKept, JobOkKept
<1>4. ASSUME up' = up PROVE UpOk'
  <2>1. PICK i : i = up.inode
    OBVIOUS
  <2>2. up # NoUpload => RowSame(i)
    <3> SUFFICES ASSUME up # NoUpload PROVE RowSame(i)
      OBVIOUS
    <3>1. i \in Inodes /\ rows[i] # NoRow
      BY <2>1, OkFacts, UpRow DEF UpOk
    <3> QED
      BY <3>1, QuietKept DEF Live
  <2> QED
    BY <1>4, <2>1, <2>2, OkFacts, UpOkKept
<1>5. UpOk'
  BY <1>4, UpOkDone
<1>6. ASSUME NEW p \in FilePaths, Astray(p)' PROVE Astray(p)
  <2>1. JobsOf(p)' = JobsOf(p)
    BY <1>1 DEF JobsOf
  <2>2. ByPath(p)' = ByPath(p) /\ FilesKept(p)
    BY QuietKept
  <2> QED
    BY <1>6, <2>1, <2>2, AstrayKept
<1> QED
  BY <1>1, <1>3, <1>5, <1>6, QuietKept

LEMMA OkParts ==
  ASSUME Apart', JobOk', TombOk', KnownOk', SyncOk', UpOk', AllSafe' PROVE Ok'
BY DEF Ok

LEMMA StutterOk ==
  ASSUME OkState, UNCHANGED vars PROVE Ok'
<1>1. Quiet /\ jobs' = jobs /\ up' = up /\ tombs' = tombs /\ poll' = poll /\ pop' = pop /\ pre' = pre
  BY DEF vars, Quiet
<1>2. \A k \in Pending : k \in Pending' /\ jobs'[k] = jobs[k]
  BY <1>1, QuietCalls
<1>3. TombOk'
  BY <1>1, <1>2, OkFacts, SameTombs
<1>4. KnownOk'
  BY <1>1, OkFacts, QuietCalls, QuietKept, KnownKept
<1> QED
  BY <1>1, <1>3, <1>4, QuietCalls, OkParts

LEMMA ExpiresOk ==
  ASSUME OkState, NEW t \in tombs, TombstoneExpires(t) PROVE Ok'
<1>1. Quiet
  BY DEF TombstoneExpires, Quiet, local, remote, history
<1>2. jobs' = jobs /\ up' = up /\ poll' = poll /\ pop' = pop /\ pre' = pre
  BY DEF TombstoneExpires, tasks
<1>3. \A s \in tombs' : TombKept(s)
  BY <1>1, <1>2, QuietCalls DEF TombKept, TombstoneExpires
<1>4. TombOk'
  BY <1>3, OkFacts, TombOkKept
<1>5. KnownOk'
  BY <1>1, <1>2, OkFacts, QuietCalls, QuietKept, KnownKept
<1> QED
  BY <1>1, <1>2, <1>4, <1>5, QuietCalls, OkParts

\* A step that only changes listings.
LEMMA ListingOk ==
  ASSUME OkState, Quiet, jobs' = jobs, up' = up \/ up' = NoUpload, tombs' = tombs,
         \A p \in FilePaths : Astray(p) /\ Known(p) =>
           PollHas(p)' /\ ListHas(pop, p)' /\ \A n \in Inodes : ListHas(pre[n], p)'
  PROVE  Ok'
<1>1. \A k \in Pending : k \in Pending' /\ jobs'[k] = jobs[k]
  BY QuietCalls
<1>2. TombOk'
  BY <1>1, OkFacts, SameTombs
<1>3. KnownOk'
  <2> SUFFICES ASSUME NEW p \in FilePaths, Astray(p)' PROVE Known(p)'
    BY DEF KnownOk
  <2>1. Astray(p) /\ Known(p)
    BY QuietCalls, OkFacts DEF KnownOk
  <2>2. ~Covered(p)'
    BY <2>1, QuietKept DEF Known
  <2> QED
    BY <2>1, <2>2 DEF Known
<1> QED
  BY <1>2, <1>3, QuietCalls, OkParts

LEMMA RestartOk ==
  ASSUME OkState, Restart, causes' = {} PROVE Ok'
<1>1. Pending = {}
  BY DEF Restart, Cause
<1>2. DOMAIN jobs = 1 .. MaxEvents /\ jobs = [j \in 1 .. MaxEvents |-> jobs[j]]
  BY OkFacts DEF JobsInv
<1>3. \A j \in 1 .. MaxEvents : jobs[j] = NoJob
  BY <1>1, <1>2, OkFacts DEF Pending, JobsInv, GoodJob
<1>4. jobs' = [j \in 1 .. MaxEvents |-> NoJob]
  BY <1>2 DEF Restart
<1>5. jobs' = jobs
  BY <1>2, <1>3, <1>4
<1>6. Quiet /\ tombs' = tombs /\ up' = NoUpload
  BY DEF Restart, Quiet, local, remote
<1>7. NoList.pc # "apply" /\ NoPoll.pc # "apply"
  BY DEF NoList, NoPoll
<1>8. \A p \in FilePaths : PollHas(p)' /\ ListHas(pop, p)' /\ \A n \in Inodes : ListHas(pre[n], p)'
  <2>1. poll' = NoPoll /\ pop' = NoList /\ \A n \in Inodes : pre'[n] = NoList
    BY DEF Restart
  <2> QED
    BY <1>7, <2>1 DEF PollHas, ListHas
<1> QED
  BY <1>5, <1>6, <1>8, ListingOk

LEMMA PollListOk ==
  ASSUME OkState, PollList PROVE Ok'
<1>1. Quiet /\ jobs' = jobs /\ up' = up /\ tombs' = tombs /\ pop' = pop /\ pre' = pre
  BY DEF PollList, Quiet, local, remote, history
<1>2. ASSUME NEW p \in FilePaths, Astray(p), Known(p)
      PROVE  PollHas(p)' /\ ListHas(pop, p)' /\ \A n \in Inodes : ListHas(pre[n], p)'
  <2>1. poll'.files = files
    BY DEF PollList
  <2>2. files[p] # 0
    BY <1>2, OkFacts DEF Astray, StoreInv
  <2>3. ListHas(pop, p)' /\ \A n \in Inodes : ListHas(pre[n], p)'
    BY <1>1, <1>2 DEF Known, ListHas, Entries
  <2> QED
    BY <2>1, <2>2, <2>3 DEF PollHas
<1> QED
  BY <1>1, <1>2, ListingOk

\* A listing of a directory has what is astray in it.
LEMMA ListingHas ==
  ASSUME OkState, NEW p \in FilePaths, Astray(p), NEW q \in Dirs, NEW n
  PROVE  ListHas(Listing(n, q), p)
<1> SUFFICES ASSUME q = ParentPath(p) PROVE p \in Entries(Listing(n, q))
  BY DEF ListHas, Listing
<1>1. p \in Below(q) /\ files[p] # 0
  BY BelowFacts, PathKinds, OkFacts DEF Astray, StoreInv
<1>2. <<p, files[p]>> \in Listing(n, q).files
  BY <1>1 DEF Listing
<1>3. <<p, files[p]>>[1] = p
  OBVIOUS
<1> QED
  BY <1>2, <1>3 DEF Entries

LEMMA PopulateOk ==
  ASSUME OkState, NEW n \in DirInodes \cup {0}, Populate(n) PROVE Ok'
<1>1. Quiet /\ jobs' = jobs /\ up' = up /\ tombs' = tombs /\ poll' = poll /\ pre' = pre
  BY DEF Populate, Quiet, local, remote, history
<1>2. ASSUME NEW p \in FilePaths, Astray(p), Known(p)
      PROVE  PollHas(p)' /\ ListHas(pop, p)' /\ \A m \in Inodes : ListHas(pre[m], p)'
  <2>1. PICK l : l = Listing(n, PathOf(n))
    OBVIOUS
  <2>2. PathOf(n) \in Dirs
    BY OkFacts, PathOfFacts
  <2>3. ListHas(l, p)
    BY <1>2, <2>1, <2>2, ListingHas
  <2>4. ListHas(l, p)' /\ pop' = l
    BY <2>1, <2>3 DEF Populate, ListHas, Entries
  <2>5. ListHas(pop, p)'
    BY <2>4 DEF ListHas, Entries
  <2>6. PollHas(p)' /\ \A m \in Inodes : ListHas(pre[m], p)'
    BY <1>1, <1>2 DEF Known, PollHas, ListHas, Entries
  <2> QED
    BY <2>5, <2>6
<1> QED
  BY <1>1, <1>2, ListingOk

LEMMA PopulateFailsOk ==
  ASSUME OkState, PopulateFails PROVE Ok'
<1>1. Quiet /\ jobs' = jobs /\ up' = up /\ tombs' = tombs /\ poll' = poll /\ pre' = pre
  BY DEF PopulateFails, Quiet, local, remote
<1>2. ASSUME NEW p \in FilePaths, Astray(p), Known(p)
      PROVE  PollHas(p)' /\ ListHas(pop, p)' /\ \A m \in Inodes : ListHas(pre[m], p)'
  <2>1. pop'.pc # "apply"
    BY DEF PopulateFails, NoList
  <2>2. PollHas(p)' /\ \A m \in Inodes : ListHas(pre[m], p)'
    BY <1>1, <1>2 DEF Known, PollHas, ListHas, Entries
  <2> QED
    BY <2>1, <2>2 DEF ListHas
<1> QED
  BY <1>1, <1>2, ListingOk

LEMMA PrefetchListOk ==
  ASSUME OkState, NEW n \in Inodes, PrefetchList(n) PROVE Ok'
<1>1. Quiet /\ jobs' = jobs /\ up' = up /\ tombs' = tombs /\ poll' = poll /\ pop' = pop
  BY DEF PrefetchList, Quiet, local, remote, history
<1>2. ASSUME NEW p \in FilePaths, Astray(p), Known(p)
      PROVE  PollHas(p)' /\ ListHas(pop, p)' /\ \A m \in Inodes : ListHas(pre[m], p)'
  <2>1. PollHas(p)' /\ ListHas(pop, p)'
    BY <1>1, <1>2 DEF Known, PollHas, ListHas, Entries
  <2>2. ASSUME NEW m \in Inodes PROVE ListHas(pre[m], p)'
    <3>1. PICK l : l = pre'[m]
      OBVIOUS
    <3>2. pre \in [Inodes -> ListType]
      BY OkFacts DEF SInv, ListsInv
    <3>3. CASE m # n
      <4>1. l = pre[m]
        BY <3>1, <3>2, <3>3 DEF PrefetchList
      <4>2. ListHas(l, p)
        BY <1>2, <4>1 DEF Known
      <4> QED
        BY <3>1, <4>2 DEF ListHas, Entries
    <3>4. CASE m = n /\ CanList(pre[n].path)
      <4>1. l = Listing(n, pre[n].path)
        BY <3>1, <3>2, <3>4 DEF PrefetchList
      <4>2. pre[n].path \in Dirs
        BY <3>2 DEF ListType, Dirs
      <4>3. ListHas(l, p)
        BY <1>2, <4>1, <4>2, ListingHas
      <4> QED
        BY <3>1, <4>3 DEF ListHas, Entries
    <3>5. CASE m = n /\ ~CanList(pre[n].path)
      <4>1. l.pc # "apply"
        BY <3>1, <3>2, <3>5 DEF PrefetchList, NoList
      <4> QED
        BY <3>1, <4>1 DEF ListHas
    <3> QED
      BY <3>3, <3>4, <3>5
  <2> QED
    BY <2>1, <2>2
<1> QED
  BY <1>1, <1>2, ListingOk

\* The directory appears at the remote.
LEMMA JobMkdirOk ==
  ASSUME OkState, NEW j \in Pending, JobMkdir(j) PROVE Ok'
<1>1. Quiet /\ up' = up /\ tombs' = tombs /\ poll' = poll /\ pop' = pop /\ pre' = pre
  BY DEF JobMkdir, JobStep, Quiet, local, tasks, history
<1>2. jobs' = [jobs EXCEPT ![j] = NoJob] /\ jobs[j].op = "mkdir"
  BY DEF JobMkdir, JobStep
<1>3. Pending' = Pending \ {j} /\ \A k \in Pending' : k \in Pending /\ k # j /\ jobs'[k] = jobs[k]
  BY <1>2, OkFacts, DoneFacts
<1>4. Apart'
  BY <1>1, <1>3, OkFacts, ApartKept
<1>5. ASSUME NEW k \in Pending' PROVE JobKept(k)
  <2>1. \A m \in ByPath(jobs[k].to) : RowSame(m)
    BY <1>1, QuietKept DEF ByPath
  <2> QED
    BY <1>1, <1>3, <2>1, QuietKept, AllJobsKept
<1>6. JobOk'
  BY <1>1, <1>5, OkFacts, QuietKept, JobOkKept
<1>7. TombOk'
  <2> SUFFICES ASSUME NEW t \in tombs PROVE \E k \in Pending' : jobs'[k].path = t /\ jobs'[k].op # "mkdir"
    BY <1>1 DEF TombOk
  <2>1. PICK k \in Pending : jobs[k].path = t /\ jobs[k].op # "mkdir"
    BY OkFacts DEF TombOk
  <2> QED
    BY <1>2, <1>3, <2>1
<1>8. ASSUME NEW p \in FilePaths, Astray(p)' PROVE Astray(p)
  <2>1. jobs[j].path \in DirPaths
    BY <1>2, OkFacts, PendingJob DEF GoodJob
  <2>2. \A k \in JobsOf(p) : k \in JobsOf(p)'
    BY <1>3, <2>1, PathKinds DEF JobsOf
  <2>3. ByPath(p)' = ByPath(p) /\ FilesKept(p)
    BY <1>1, QuietKept
  <2> QED
    BY <1>8, <2>2, <2>3, AstrayKept
<1>9. KnownOk'
  BY <1>1, <1>8, OkFacts, QuietKept, KnownKept
<1>10. UpOk'
  <2>1. PICK i : i = up.inode
    OBVIOUS
  <2>2. up # NoUpload => RowSame(i)
    <3> SUFFICES ASSUME up # NoUpload PROVE RowSame(i)
      OBVIOUS
    <3>1. i \in Inodes /\ rows[i] # NoRow
      BY <2>1, OkFacts, UpRow DEF UpOk
    <3> QED
      BY <1>1, <3>1, QuietKept DEF Live
  <2> QED
    BY <1>1, <2>1, <2>2, OkFacts, UpOkKept
<1> QED
  BY <1>1, <1>4, <1>6, <1>7, <1>9, <1>10, QuietKept, OkParts
-----------------------------------------------------------------------------
\* A call at the remote: the rows and the cache stay.
Rest == /\ rows' = rows /\ cache' = cache /\ listed' = listed /\ siblings' = siblings
        /\ live' = live /\ up' = up /\ poll' = poll /\ pop' = pop /\ pre' = pre

LEMMA RestKept ==
  ASSUME OkState, Rest
  PROVE  /\ LiveKept /\ Live' = Live /\ DirsKnown /\ UpOk'
         /\ \A m \in Live : RowSame(m) /\ m \in Live'
         /\ \A p \in FilePaths : ByPath(p)' = ByPath(p)
<1>1. LiveKept
  BY DEF Rest, LiveKept
<1>2. Live' = Live
  BY DEF Rest, Live
<1>3. \A m \in Live : RowSame(m) /\ m \in Live'
  BY <1>2 DEF Rest, RowSame
<1>4. DirsKnown
  BY <1>2 DEF Rest, DirsKnown
<1>5. \A p \in FilePaths : ByPath(p)' = ByPath(p)
  BY <1>2 DEF ByPath, Rest
<1>6. UpOk'
  <2>1. PICK i : i = up.inode
    OBVIOUS
  <2>2. up # NoUpload => RowSame(i)
    <3> SUFFICES ASSUME up # NoUpload PROVE RowSame(i)
      OBVIOUS
    <3>1. i \in Inodes /\ rows[i] # NoRow
      BY <2>1, OkFacts, UpRow DEF UpOk
    <3> QED
      BY <1>3, <3>1 DEF Live
  <2> QED
    BY <2>1, <2>2, OkFacts, UpOkKept DEF Rest
<1> QED
  BY <1>1, <1>2, <1>3, <1>4, <1>5, <1>6

LEMMA RestSafe ==
  ASSUME OkState, Rest, RemoteKept, \A m \in Live : FilesKept(rows[m].path) \/ SyncRow(m)'
  PROVE  SyncOk' /\ AllSafe'
<1>1. \A m \in Live' : (RowSame(m) /\ FilesKept(rows[m].path)) \/ SyncRow(m)'
  BY RestKept
<1>2. SyncOk'
  BY <1>1, RestKept, SyncKept
<1>3. AllSafe'
  <2>1. \A c \in live' : c \in live \/ c \in Safe'
    BY DEF Rest
  <2> QED
    BY <2>1, RestKept, OkFacts, SafeKept
<1> QED
  BY <1>2, <1>3

\* A call that is done.
LEMMA CallDone ==
  ASSUME OkState, Rest, NEW j \in Pending, jobs' = [jobs EXCEPT ![j] = NoJob],
         tombs' = tombs \ {jobs[j].path}, RemoteKept,
         \A m \in Live : FilesKept(rows[m].path) \/ SyncRow(m)',
         \A k \in Pending \ {j} : \A p \in Reach(jobs[k]) : FilesKept(p),
         \A p \in FilePaths : Astray(p)' => p # jobs[j].path /\ FilesKept(p)
  PROVE  Ok'
<1>1. Pending' = Pending \ {j} /\ \A k \in Pending' : k \in Pending /\ k # j /\ jobs'[k] = jobs[k]
  BY OkFacts, DoneFacts
<1>2. Apart'
  BY <1>1, OkFacts, ApartKept DEF Rest
<1>3. ASSUME NEW k \in Pending' PROVE JobKept(k)
  <2>1. \A m \in ByPath(jobs[k].to) : RowSame(m)
    BY RestKept DEF ByPath
  <2> QED
    BY <1>1, <2>1 DEF JobKept
<1>4. JobOk'
  BY <1>3, RestKept, OkFacts, JobOkKept
<1>5. \A t \in tombs' : TombKept(t)
  BY <1>1 DEF TombKept
<1>6. TombOk'
  BY <1>5, OkFacts, TombOkKept
<1>7. ASSUME NEW p \in FilePaths, Astray(p)' PROVE Astray(p)
  <2>1. p # jobs[j].path /\ FilesKept(p)
    BY <1>7
  <2>2. \A k \in JobsOf(p) : k \in JobsOf(p)'
    BY <1>1, <2>1 DEF JobsOf
  <2>3. ByPath(p)' = ByPath(p)
    BY RestKept
  <2> QED
    BY <1>7, <2>1, <2>2, <2>3, AstrayKept
<1>8. KnownOk'
  BY <1>7, OkFacts, RestKept, KnownKept DEF Rest
<1> QED
  BY <1>2, <1>4, <1>6, <1>8, RestKept, RestSafe, OkParts

LEMMA FewerDone ==
  ASSUME OkState, Rest, NEW j \in Pending, jobs' = [jobs EXCEPT ![j] = NoJob],
         tombs' = tombs \ {jobs[j].path},
         \A p \in FilePaths : files'[p] = files[p] \/ (files'[p] = 0 /\ files[p] \notin live),
         jobs[j].path \in FilePaths => files'[jobs[j].path] = 0
  PROVE  Ok'
<1>1. RemoteKept /\ LiveKept /\ \A p \in FilePaths : FilesKept(p)
  BY OkFacts, FewerFiles DEF Rest
<1>2. \A m \in Live : FilesKept(rows[m].path) \/ SyncRow(m)'
  <2> SUFFICES ASSUME NEW m \in Live, rows[m].path \notin FilePaths PROVE SyncRow(m)'
    BY <1>1
  <2> QED
    BY DEF SyncRow, Rest
<1>3. \A k \in Pending \ {j} : \A p \in Reach(jobs[k]) : FilesKept(p)
  BY <1>1 DEF Reach
<1>4. \A p \in FilePaths : Astray(p)' => p # jobs[j].path /\ FilesKept(p)
  <2> SUFFICES ASSUME NEW p \in FilePaths, Astray(p)', p = jobs[j].path PROVE FALSE
    BY <1>1
  <2>1. files'[p] = 0 /\ 0 \notin live'
    BY OkFacts DEF StoreInv, Rest
  <2> QED
    BY <2>1 DEF Astray
<1> QED
  BY <1>1, <1>2, <1>3, <1>4, CallDone

LEMMA JobDeleteOk ==
  ASSUME OkState, NEW j \in Pending, JobDelete(j) PROVE Ok'
<1>1. Rest
  BY DEF JobDelete, JobStep, Rest, local, tasks, history
<1>2. jobs' = [jobs EXCEPT ![j] = NoJob] /\ jobs[j].op = "delete" /\ tombs' = tombs \ {jobs[j].path}
  BY DEF JobDelete, JobStep
<1>3. JobFine(jobs[j]) /\ files \in [FilePaths -> 0 .. last]
  BY OkFacts, StoreFacts DEF JobOk
<1>4. \A p \in FilePaths : files'[p] = IF p = jobs[j].path THEN 0 ELSE files[p]
  BY <1>3 DEF JobDelete
<1>5. files[jobs[j].path] \notin live
  BY <1>2, <1>3 DEF JobFine
<1> QED
  BY <1>1, <1>2, <1>4, <1>5, FewerDone

LEMMA JobRmdirOk ==
  ASSUME OkState, NEW j \in Pending, JobRmdir(j) PROVE Ok'
<1>1. Rest
  BY DEF JobRmdir, JobStep, Rest, local, tasks, history
<1>2. jobs' = [jobs EXCEPT ![j] = NoJob] /\ jobs[j].op = "rmdir" /\ tombs' = tombs \ {jobs[j].path}
  BY DEF JobRmdir, JobStep
<1>3. JobFine(jobs[j]) /\ jobs[j].path \notin FilePaths
  BY <1>2, OkFacts, PendingJob, PathKinds DEF JobOk, GoodJob
<1>4. \A p \in FilePaths : files'[p] = IF IsPrefix(jobs[j].path, p) THEN 0 ELSE files[p]
  BY DEF JobRmdir
<1>5. \A p \in FilePaths : IsPrefix(jobs[j].path, p) => files[p] \notin live
  BY <1>2, <1>3 DEF JobFine
<1> QED
  BY <1>1, <1>2, <1>3, <1>4, <1>5, FewerDone

LEMMA JobReplaceOk ==
  ASSUME OkState, NEW j \in Pending, JobReplace(j) PROVE Ok'
<1>1. Rest /\ tombs' = tombs
  BY DEF JobReplace, JobStep, Rest, local, tasks, history
<1>2. PICK J : J = jobs[j]
  OBVIOUS
<1>3. J.op = "replace" /\ GoodJob(J) /\ JobFine(J) /\ MoveFine(J) /\ j \in 1 .. MaxEvents /\ J \in JobType
  BY <1>2, OkFacts, PendingJob DEF JobOk, JobFine, Moves, JobReplace
<1>4. /\ J.path \in FilePaths /\ J.to \in FilePaths /\ J.dest \in {Root, J.to} /\ J.path # J.to
      /\ files[J.to] \notin live /\ J.path # Root
  BY <1>3, PathKinds DEF MoveFine
<1>5. \A p \in FilePaths : files'[p] = IF p = J.dest THEN 0 ELSE files[p]
  BY <1>2 DEF JobReplace
<1>6. RemoteKept /\ LiveKept /\ \A p \in FilePaths : FilesKept(p)
  <2>1. \A p \in FilePaths : files'[p] = files[p] \/ (files'[p] = 0 /\ files[p] \notin live)
    BY <1>4, <1>5, PathKinds
  <2> QED
    BY <1>1, <2>1, OkFacts, FewerFiles DEF Rest
<1>7. PICK K : K = [J EXCEPT !.op = "move", !.dest = Root]
  OBVIOUS
<1>8. K.op = "move" /\ K.path = J.path /\ K.to = J.to /\ K.dest = Root
  BY <1>3, <1>7 DEF JobType
<1>9. jobs' = [jobs EXCEPT ![j] = K]
  BY <1>2, <1>4, <1>7 DEF JobReplace, JobStep
<1>10. /\ Pending' = Pending /\ jobs'[j] = K
       /\ \A k \in Pending : k # j => jobs'[k] = jobs[k]
  <2>1. DOMAIN jobs = 1 .. MaxEvents
    BY OkFacts DEF JobsInv
  <2>2. DOMAIN jobs' = DOMAIN jobs /\ jobs'[j] = K /\ \A k \in DOMAIN jobs : k # j => jobs'[k] = jobs[k]
    BY <1>3, <1>9, <2>1
  <2>3. jobs[j].op # "none" /\ K.op # "none"
    BY <1>2, <1>3, <1>8
  <2>4. Pending' = Pending
    BY <1>3, <2>1, <2>2, <2>3 DEF Pending
  <2> QED
    BY <2>2, <2>4 DEF Pending
<1>11. Apart'
  <2>1. Parts(K) \subseteq Parts(J)
    BY <1>8 DEF Parts
  <2>2. \A k \in Pending' : k \in Pending /\ Parts(jobs'[k]) \subseteq Parts(jobs[k])
    BY <1>2, <1>10, <2>1
  <2> QED
    BY <1>1, <2>2, OkFacts, ApartKept DEF Rest
<1>12. JobFine(K)'
  <2>1. \A p \in Reach(J) : FilesKept(p)
    BY <1>6 DEF Reach
  <2>2. \A m \in ByPath(J.to) : RowSame(m)
    BY <1>1, RestKept DEF ByPath
  <2>3. JobFine(J)'
    BY <1>3, <1>6, <2>1, <2>2, OkFacts, JobFineKept
  <2>4. MoveFine(J)'
    BY <1>3, <2>3 DEF JobFine, Moves
  <2>5. MoveFine(K)'
    BY <1>8, <2>4 DEF MoveFine
  <2> QED
    BY <1>8, <2>5 DEF JobFine, Moves
<1>13. \A k \in Pending' : JobKept(k) \/ \E L : L = jobs'[k] /\ JobFine(L)'
  <2>1. \A k \in Pending : \A m \in ByPath(jobs[k].to) : RowSame(m)
    BY <1>1, RestKept DEF ByPath
  <2>2. ASSUME NEW k \in Pending', k # j PROVE JobKept(k)
    BY <1>6, <1>10, <2>1, <2>2, AllJobsKept
  <2> QED
    BY <1>10, <1>12, <2>2
<1>14. JobOk'
  BY <1>6, <1>13, OkFacts, JobOkKept
<1>15. \A t \in tombs' : TombKept(t)
  BY <1>1, <1>2, <1>8, <1>10 DEF TombKept
<1>16. TombOk'
  BY <1>15, OkFacts, TombOkKept
<1>17. ASSUME NEW p \in FilePaths, Astray(p)' PROVE Astray(p)
  <2>1. \A k \in JobsOf(p) : k \in JobsOf(p)'
    BY <1>2, <1>8, <1>10 DEF JobsOf
  <2>2. ByPath(p)' = ByPath(p)
    BY <1>1, RestKept
  <2> QED
    BY <1>6, <1>17, <2>1, <2>2, AstrayKept
<1>18. KnownOk'
  BY <1>1, <1>17, OkFacts, RestKept, KnownKept DEF Rest
<1>19. \A m \in Live : FilesKept(rows[m].path) \/ SyncRow(m)'
  <2> SUFFICES ASSUME NEW m \in Live, rows[m].path \notin FilePaths PROVE SyncRow(m)'
    BY <1>6
  <2> QED
    BY <1>1 DEF SyncRow, Rest
<1>20. SyncOk' /\ AllSafe'
  BY <1>1, <1>6, <1>19, RestSafe
<1> QED
  BY <1>1, <1>11, <1>14, <1>16, <1>18, <1>20, RestKept, OkParts

LEMMA JobMoveOk ==
  ASSUME OkState, NEW j \in Pending, JobMove(j) PROVE Ok'
<1>1. Rest
  BY DEF JobMove, JobStep, Rest, local, tasks, history
<1>2. jobs' = [jobs EXCEPT ![j] = NoJob] /\ jobs[j].op = "move" /\ tombs' = tombs \ {jobs[j].path}
  BY DEF JobMove, JobStep
<1>3. PICK a, b : a = jobs[j].path /\ b = jobs[j].to
  OBVIOUS
<1>4. MoveFine(jobs[j]) /\ 0 \notin live
  BY <1>2, OkFacts DEF JobOk, JobFine, Moves, StoreInv
<1>5. /\ a \in FilePaths /\ b \in FilePaths /\ a # b /\ files[b] \notin live
      /\ a # Root /\ b # Root
  BY <1>3, <1>4, PathKinds DEF MoveFine
<1>6. \A p \in FilePaths : files'[p] = IF p = b /\ files[a] # 0 THEN files[a]
                                       ELSE IF p = a THEN 0 ELSE files[p]
  BY <1>3, <1>5, OkFacts, MoveRemote
<1>7. \A p \in FilePaths : p # b \/ files[a] \notin live => FilesKept(p)
  BY <1>1, <1>4, <1>5, <1>6 DEF FilesKept, Rest
<1>8. RemoteKept
  <2> SUFFICES ASSUME NEW c \in live, c \in AtRemote PROVE c \in AtRemote'
    BY <1>1 DEF RemoteKept, Rest
  <2>1. CASE c \in siblings
    BY <1>1, <2>1 DEF AtRemote, Rest
  <2>2. ASSUME NEW p \in FilePaths, c = files[p] PROVE c \in AtRemote'
    <3>1. CASE p = a
      <4>1. files'[b] = c
        BY <1>4, <1>5, <1>6, <2>2, <3>1
      <4> QED
        BY <1>5, <4>1 DEF AtRemote
    <3>2. CASE p # a
      <4>1. p # b
        BY <1>5, <2>2
      <4>2. files'[p] = c
        BY <1>6, <2>2, <3>2, <4>1
      <4> QED
        BY <4>2 DEF AtRemote
    <3> QED
      BY <3>1, <3>2
  <2> QED
    BY <2>1, <2>2 DEF AtRemote
\* The file that comes has its row.
<1>9. ASSUME files[a] \in live
      PROVE  \E m \in ByPath(b) : /\ rows[m].status \notin Unsynced
                                  /\ rows[m].status = "cached" => cache[rows[m].cp] = files[a]
  BY <1>3, <1>4, <1>9 DEF MoveFine
<1>10. ASSUME NEW m \in Live PROVE FilesKept(rows[m].path) \/ SyncRow(m)'
  <2>1. CASE rows[m].path \notin FilePaths
    BY <1>1, <2>1 DEF SyncRow, Rest
  <2>2. CASE rows[m].path = b /\ files[a] \in live
    <3>1. PICK k \in ByPath(b) : /\ rows[k].status \notin Unsynced
                                 /\ rows[k].status = "cached" => cache[rows[k].cp] = files[a]
      BY <1>9, <2>2
    <3>2. k = m
      BY <2>2, <3>1, OkFacts DEF ByPath, RowsInv, RowsUnique
    <3>3. files'[b] = files[a]
      BY <1>4, <1>5, <1>6, <2>2
    <3>4. /\ rows'[m].status \notin Unsynced /\ rows'[m].path = b
          /\ rows'[m].status = "cached" => cache'[rows'[m].cp] = files'[b]
      BY <1>1, <2>2, <3>1, <3>2, <3>3 DEF Rest
    <3>5. ASSUME rows'[m].cp # Root, cache'[rows'[m].cp] \in live' PROVE cache'[rows'[m].cp] \in AtRemote'
      <4>1. rows[m].cp # Root /\ cache[rows[m].cp] \in live /\ cache[rows[m].cp] = cache'[rows'[m].cp]
        BY <1>1, <3>5 DEF Rest
      <4>2. cache[rows[m].cp] \in AtRemote
        BY <1>5, <2>2, <3>1, <3>2, <4>1, OkFacts DEF SyncOk, SyncRow
      <4> QED
        BY <1>8, <3>5, <4>1, <4>2 DEF RemoteKept
    <3> QED
      BY <3>4, <3>5 DEF SyncRow
  <2> QED
    BY <1>7, <2>1, <2>2
<1>11. ASSUME NEW k \in Pending \ {j}, NEW p \in Reach(jobs[k]) PROVE FilesKept(p)
  <2>1. b \in Parts(jobs[j])
    BY <1>3, <1>5 DEF Parts
  <2>2. p # b
    <3> SUFFICES ASSUME p = b PROVE FALSE
      OBVIOUS
    <3>1. PICK q \in Parts(jobs[k]) : Overlap(q, b)
      BY <1>11 DEF Reach
    <3> QED
      BY <2>1, <3>1, OkFacts DEF Apart
  <2> QED
    BY <1>7, <2>2 DEF Reach
<1>12. ASSUME NEW p \in FilePaths, Astray(p)' PROVE p # jobs[j].path /\ FilesKept(p)
  <2>1. files'[p] \in live' /\ ByPath(p)' = {} /\ ByPath(p) = {}
    BY <1>1, <1>12, RestKept DEF Astray
  <2>2. p # a
    BY <1>1, <1>4, <1>5, <1>6, <2>1 DEF Rest
  <2>3. p # b \/ files[a] \notin live
    BY <1>9, <2>1
  <2> QED
    BY <1>3, <1>7, <2>2, <2>3
<1> QED
  BY <1>1, <1>2, <1>8, <1>10, <1>11, <1>12, CallDone
-----------------------------------------------------------------------------
\* The user's operations.
LEMMA UserOk ==
  ASSUME OkState, UserStep, LiveKept, Apart', TombOk', DirsKnown,
         \A k \in Pending' : JobKept(k) \/ \E J : J = jobs'[k] /\ JobFine(J)',
         \A p \in FilePaths : Astray(p)' => Astray(p),
         \A m \in Live' : RowSame(m) \/ SyncRow(m)',
         up # NoUpload => RowSame(up.inode),
         \A c \in live' : c \in live \/ c \in Safe',
         \A n \in Live : rows[n].status \in Unsynced =>
           RowSame(n) \/ cache[rows[n].cp] \notin live' \/ cache[rows[n].cp] \in Safe'
  PROVE  Ok'
<1>1. /\ files' = files /\ siblings' = siblings /\ up' = up /\ poll' = poll /\ pop' = pop
      /\ pre' = pre
  BY DEF UserStep
<1>2. RemoteKept /\ \A p \in FilePaths : FilesKept(p)
  BY <1>1, OkFacts, SameRemote
<1>3. JobOk'
  BY OkFacts, JobOkKept
<1>4. KnownOk'
  BY <1>1, OkFacts, KnownKept
<1>5. \A m \in Live' : (RowSame(m) /\ FilesKept(rows[m].path)) \/ SyncRow(m)'
  <2> SUFFICES ASSUME NEW m \in Live', RowSame(m), rows[m].path \notin FilePaths PROVE SyncRow(m)'
    BY <1>2
  <2> QED
    BY DEF RowSame, SyncRow
<1>6. SyncOk'
  BY <1>2, <1>5, SyncKept
<1>7. UpOk'
  <2>1. PICK i : i = up.inode
    OBVIOUS
  <2> QED
    BY <1>1, <2>1, OkFacts, UpOkKept
<1>8. AllSafe'
  BY <1>2, OkFacts, SafeKept
<1> QED
  BY <1>3, <1>4, <1>6, <1>7, <1>8, OkParts

LEMMA UserFiles ==
  ASSUME OkState, UserStep, LiveKept PROVE \A p \in FilePaths : FilesKept(p)
<1>1. files' = files /\ siblings' = siblings
  BY DEF UserStep
<1> QED
  BY <1>1, OkFacts, SameRemote

\* The upload's row is not at a free path.
LEMMA UpElsewhere ==
  ASSUME OkState, up # NoUpload, NEW p \in Paths, ~Busy(p)
  PROVE  up.inode \in Live /\ rows[up.inode].path # p
<1>1. up.path # p
  BY OkFacts, FreePath
<1>2. up.inode \in Inodes /\ rows[up.inode] # NoRow /\ rows[up.inode].path = up.path
  BY OkFacts, UpRow DEF UpOk
<1> QED
  BY <1>1, <1>2 DEF Live

LEMMA StrayBefore ==
  ASSUME OkState, UserStep, LiveKept, NEW p \in FilePaths, Astray(p)',
         \A m \in ByPath(p) : m \in Live' /\ rows'[m].path = p,
         \A k \in Pending : k \in Pending' /\ jobs'[k] = jobs[k]
  PROVE  Astray(p)
<1>1. \A m \in ByPath(p) : m \in ByPath(p)'
  BY DEF ByPath
<1>2. \A k \in JobsOf(p) : k \in JobsOf(p)'
  BY DEF JobsOf
<1> QED
  BY <1>1, <1>2, UserFiles, AstrayKept

\* A file in a listed directory that has no row is not the user's.
LEMMA ListedFree ==
  ASSUME OkState, NEW q \in FilePaths, NEW parent \in DirInodes \cup {0}, IsListed(parent),
         ParentPath(q) = PathOf(parent), ByPath(q) = {}, ~Busy(q)
  PROVE  files[q] \notin live
<1> SUFFICES ASSUME files[q] \in live PROVE FALSE
  OBVIOUS
<1>1. JobsOf(q) = {}
  BY OkFacts, FreePath, PathKinds
<1>2. ~Covered(q)
  BY <1>1, OkFacts DEF Astray, KnownOk, Known
<1>3. CASE parent = 0
  BY <1>2, <1>3 DEF Covered, PathOf, IsListed
<1>4. CASE parent # 0
  <2>1. parent \in Live /\ rows[parent].path = ParentPath(q) /\ rows[parent].listed /\ ParentPath(q) # Root
    BY <1>4, OkFacts, PathOfFacts DEF PathOf, IsListed, DirInodes
  <2> QED
    BY <1>2, <2>1 DEF Covered, ByPath
<1> QED
  BY <1>3, <1>4

LEMMA CreateOk ==
  ASSUME OkState, NEW parent \in DirInodes \cup {0}, NEW name \in FileNames, Create(parent, name),
         causes' = {}
  PROVE  Ok'
<1>1. PICK q : q = join_remote(PathOf(parent), name)
  OBVIOUS
<1>2. /\ q \in FilePaths /\ ByPath(q) = {} /\ InsertRow(Row(q, parent, "dirty", 0, q))
      /\ cache' = [cache EXCEPT ![q] = last + 1]
      /\ last' = last + 1 /\ live' = live \cup {last + 1}
  BY <1>1, OkFacts, CreateFree
<1>3. UserStep /\ ~Busy(q) /\ IsListed(parent) /\ jobs' = jobs /\ tombs' = tombs
  BY <1>1 DEF Create, Cause
<1>4. /\ cache \in [FilePaths -> 0 .. last] /\ last \in Nat
      /\ \A p \in FilePaths : files[p] \in 0 .. last
  BY OkFacts, StoreFacts
<1>5. LiveKept
  BY <1>2, <1>4 DEF LiveKept
<1>6. /\ rows'[next] = Row(q, parent, "dirty", 0, q) /\ \A m \in Inodes \ {next} : rows'[m] = rows[m]
      /\ Live' = Live \cup {next} /\ next \notin Live
  BY <1>2, OkFacts, InsertRows
<1>7. \A m \in Live : RowSame(m)
  <2> SUFFICES ASSUME NEW m \in Live PROVE RowSame(m)
    OBVIOUS
  <2>1. rows'[m] = rows[m] /\ rows[m].path # q
    BY <1>2, <1>6 DEF ByPath, Live
  <2>2. rows[m].path \in FilePaths => cache'[rows[m].path] = cache[rows[m].path]
    BY <1>2, <1>4, <2>1
  <2> QED
    BY <2>1, <2>2, OkFacts, SameRow
<1>8. Apart' /\ Pending' = Pending
  BY <1>3, OkFacts, SameJobsApart DEF UserStep
<1>9. TombOk'
  BY <1>3, <1>8, OkFacts, SameTombs
<1>10. rows'[next].path = q /\ rows'[next].status = "dirty" /\ rows'[next].cp = q
  BY <1>6 DEF Row
<1>11. DirsKnown
  BY <1>3, <1>2, <1>6, <1>10, PathKinds DEF DirsKnown, UserStep, Live
<1>12. ASSUME NEW k \in Pending' PROVE JobKept(k)
  <2>1. k \in Pending /\ jobs'[k] = jobs[k]
    BY <1>3, <1>8
  <2>2. \A m \in ByPath(jobs[k].to) : RowSame(m)
    BY <1>7 DEF ByPath
  <2> QED
    BY <1>3, <1>5, <2>1, <2>2, UserFiles, AllJobsKept
<1>13. ASSUME NEW p \in FilePaths, Astray(p)' PROVE Astray(p)
  <2>1. \A m \in ByPath(p) : m \in Live' /\ rows'[m].path = p
    BY <1>7 DEF ByPath, RowSame
  <2> QED
    BY <1>3, <1>5, <1>8, <1>13, <2>1, StrayBefore
<1>14. ASSUME NEW i, i = next PROVE SyncRow(i)'
  <2>1. ParentPath(q) = PathOf(parent)
    BY <1>1, OkFacts, CreateRows
  <2>2. files[q] \notin live
    BY <1>2, <1>3, <2>1, ListedFree
  <2>3. files'[q] \notin live'
    BY <1>2, <1>3, <1>4, <2>2 DEF UserStep
  <2> QED
    BY <1>10, <1>14, <2>3 DEF SyncRow, Unsynced
<1>15. \A m \in Live' : RowSame(m) \/ SyncRow(m)'
  BY <1>6, <1>7, <1>14
<1>16. up # NoUpload => RowSame(up.inode)
  BY <1>3, <1>2, <1>7, UpElsewhere, PathKinds
<1>17. \A c \in live' : c \in live \/ c \in Safe'
  <2>1. next \in Live' /\ rows'[next].cp # Root /\ cache'[rows'[next].cp] = last + 1
    BY <1>2, <1>4, <1>6, <1>10, PathKinds
  <2>2. last + 1 \in Safe'
    BY <2>1 DEF Safe
  <2> QED
    BY <1>2, <2>2
<1> QED
  BY <1>3, <1>5, <1>7, <1>8, <1>9, <1>11, <1>12, <1>13, <1>15, <1>16, <1>17, UserOk
\* One file's row at a free path changes, or goes.
LEMMA OneRow ==
  ASSUME OkState, NEW n \in Live, rows[n].path \in Paths,
         \A m \in Live \ {n} : rows'[m] = rows[m],
         \A p \in FilePaths : p # rows[n].path => cache'[p] = cache[p]
  PROVE  \A m \in Live \ {n} : RowSame(m) /\ rows[m].path # rows[n].path
<1> SUFFICES ASSUME NEW m \in Live \ {n} PROVE RowSame(m) /\ rows[m].path # rows[n].path
  OBVIOUS
<1>1. rows[m].path # rows[n].path
  BY OkFacts DEF RowsInv, RowsUnique
<1>2. RowSame(m)
  BY <1>1, OkFacts, SameRow
<1> QED
  BY <1>1, <1>2

LEMMA UpNotRow ==
  ASSUME OkState, NEW n \in Live, ~Busy(rows[n].path), \A m \in Live \ {n} : RowSame(m)
  PROVE  up # NoUpload => RowSame(up.inode)
<1> SUFFICES ASSUME up # NoUpload PROVE RowSame(up.inode)
  OBVIOUS
<1>1. rows[n].path \in Paths
  BY OkFacts, RowFields
<1>2. up.inode \in Live /\ up.inode # n
  BY <1>1, UpElsewhere
<1> QED
  BY <1>2

LEMMA CallsNotRow ==
  ASSUME OkState, UserStep, LiveKept, NEW n \in Live, ~Busy(rows[n].path),
         \A m \in Live \ {n} : RowSame(m), NEW k \in Pending, jobs'[k] = jobs[k]
  PROVE  JobKept(k)
<1>1. rows[n].path \in Paths
  BY OkFacts, RowFields
<1>2. jobs[k].to # rows[n].path
  BY <1>1, OkFacts, FreePath
<1>3. \A m \in ByPath(jobs[k].to) : RowSame(m)
  BY <1>2 DEF ByPath
<1> QED
  BY <1>3, UserFiles, AllJobsKept

LEMMA WriteOk ==
  ASSUME OkState, NEW n \in Live, Write(n), causes' = {} PROVE Ok'
<1>1. PICK q : q = rows[n].path
  OBVIOUS
<1>2. /\ TouchRow(n, [rows[n] EXCEPT !.status = "dirty"])
      /\ q \in FilePaths /\ q \in Paths /\ rows[n].cp = q /\ rows[n].cp # Root
  BY <1>1, OkFacts, WriteRows, PathKinds DEF CacheGood
<1>3. /\ UserStep /\ ~Busy(q) /\ jobs' = jobs /\ tombs' = tombs
      /\ rows[n].status \in {"cached", "dirty"}
      /\ cache' = [cache EXCEPT ![q] = last + 1]
      /\ live' = (live \ {cache[q]}) \cup {last + 1}
  BY <1>1, <1>2 DEF Write, Cause
<1>4. /\ cache \in [FilePaths -> 0 .. last] /\ last \in Nat
      /\ \A p \in FilePaths : files[p] \in 0 .. last
  BY OkFacts, StoreFacts
<1>5. LiveKept
  BY <1>3, <1>4 DEF LiveKept
<1>6. /\ rows'[n] = [rows[n] EXCEPT !.status = "dirty"] /\ \A m \in Inodes \ {n} : rows'[m] = rows[m]
      /\ Live' = Live
  BY <1>2, OkFacts, TouchRows
<1>7. /\ rows'[n].path = q /\ rows'[n].cp = q /\ rows'[n].status = "dirty"
  BY <1>1, <1>2, <1>6, OkFacts, RowFields DEF RowType
<1>8. \A m \in Live \ {n} : RowSame(m) /\ rows[m].path # rows[n].path
  <2>1. \A p \in FilePaths : p # q => cache'[p] = cache[p]
    BY <1>3, <1>4
  <2>2. \A m \in Live \ {n} : rows'[m] = rows[m]
    BY <1>6 DEF Live
  <2> QED
    BY <1>1, <1>2, <2>1, <2>2, OneRow
<1>9. Apart' /\ Pending' = Pending
  BY <1>3, OkFacts, SameJobsApart DEF UserStep
<1>10. TombOk'
  BY <1>3, <1>9, OkFacts, SameTombs
<1>11. DirsKnown
  BY <1>2, <1>3, <1>6, <1>7, PathKinds DEF DirsKnown, UserStep, Live
<1>12. ASSUME NEW k \in Pending' PROVE JobKept(k)
  BY <1>1, <1>3, <1>5, <1>8, <1>9, CallsNotRow
<1>13. ASSUME NEW p \in FilePaths, Astray(p)' PROVE Astray(p)
  <2>1. \A m \in ByPath(p) : m \in Live' /\ rows'[m].path = p
    <3> SUFFICES ASSUME NEW m \in ByPath(p) PROVE m \in Live' /\ rows'[m].path = p
      OBVIOUS
    <3>1. m \in Live /\ rows[m].path = p
      BY DEF ByPath
    <3>2. CASE m = n
      BY <1>1, <1>6, <1>7, <3>1, <3>2
    <3>3. CASE m # n
      BY <1>6, <1>8, <3>1, <3>3 DEF RowSame
    <3> QED
      BY <3>2, <3>3
  <2> QED
    BY <1>3, <1>5, <1>9, <1>13, <2>1, StrayBefore
<1>14. files[q] \notin live'
  <2>1. rows[n].status = "dirty" => files[q] \notin live
    BY <1>1, <1>2, OkFacts DEF SyncOk, SyncRow, Unsynced
  <2>2. rows[n].status = "cached" /\ files[q] \in live => cache[q] = files[q]
    BY <1>1, <1>2, OkFacts DEF SyncOk, SyncRow
  <2>3. files[q] # last + 1
    BY <1>2, <1>4
  <2> QED
    BY <1>3, <2>1, <2>2, <2>3
<1>15. SyncRow(n)'
  <2>1. files'[q] \notin live'
    BY <1>3, <1>14 DEF UserStep
  <2> QED
    BY <1>7, <2>1 DEF SyncRow, Unsynced
<1>16. \A m \in Live' : RowSame(m) \/ SyncRow(m)'
  BY <1>6, <1>8, <1>15
<1>17. up # NoUpload => RowSame(up.inode)
  BY <1>1, <1>3, <1>8, UpNotRow
<1>18. \A c \in live' : c \in live \/ c \in Safe'
  <2>1. n \in Live' /\ rows'[n].cp # Root /\ cache'[rows'[n].cp] = last + 1
    BY <1>2, <1>3, <1>4, <1>6, <1>7
  <2>2. last + 1 \in Safe'
    BY <2>1 DEF Safe
  <2> QED
    BY <1>3, <2>2
<1>19. cache[rows[n].cp] \notin live'
  BY <1>2, <1>3, <1>4
<1>20. \A m \in Live : RowSame(m) \/ cache[rows[m].cp] \notin live'
  BY <1>8, <1>19
<1> QED
  BY <1>3, <1>5, <1>9, <1>10, <1>11, <1>12, <1>13, <1>16, <1>17, <1>18, <1>20, UserOk

LEMMA HydrateOk ==
  ASSUME OkState, NEW n \in Live, Hydrate(n), causes' = {} PROVE Ok'
<1>1. PICK q : q = rows[n].path
  OBVIOUS
<1>2. /\ TouchRow(n, [rows[n] EXCEPT !.status = "cached", !.cp = rows[n].path])
      /\ q \in FilePaths /\ q \in Paths /\ q # Root
  BY <1>1, OkFacts, HydrateRows, PathKinds
<1>3. /\ UserStep /\ ~Busy(q) /\ jobs' = jobs /\ tombs' = tombs
      /\ rows[n].status \notin Unsynced /\ cache' = [cache EXCEPT ![q] = files[q]] /\ live' = live
  BY <1>1 DEF Hydrate, Cause, Unsynced
<1>4. cache \in [FilePaths -> 0 .. last]
  BY OkFacts, StoreFacts
<1>5. LiveKept
  BY <1>3 DEF LiveKept
<1>6. /\ rows'[n] = [rows[n] EXCEPT !.status = "cached", !.cp = rows[n].path]
      /\ \A m \in Inodes \ {n} : rows'[m] = rows[m]
  BY <1>2, OkFacts, TouchRows
<1>7. Live' = Live
  BY <1>2, OkFacts, TouchRows
<1>8. /\ rows'[n].path = q /\ rows'[n].cp = q /\ rows'[n].status = "cached"
  BY <1>1, <1>2, <1>6, OkFacts, RowFields DEF RowType
<1>9. \A m \in Live \ {n} : RowSame(m) /\ rows[m].path # rows[n].path
  <2>1. \A p \in FilePaths : p # q => cache'[p] = cache[p]
    BY <1>3, <1>4
  <2>2. \A m \in Live \ {n} : rows'[m] = rows[m]
    BY <1>6 DEF Live
  <2> QED
    BY <1>1, <1>2, <2>1, <2>2, OneRow
<1>10. Apart' /\ Pending' = Pending
  BY <1>3, OkFacts, SameJobsApart DEF UserStep
<1>11. TombOk'
  BY <1>3, <1>10, OkFacts, SameTombs
<1>12. DirsKnown
  BY <1>2, <1>3, <1>6, <1>7, <1>8, PathKinds DEF DirsKnown, UserStep, Live
<1>13. ASSUME NEW k \in Pending' PROVE JobKept(k)
  BY <1>1, <1>3, <1>5, <1>9, <1>10, CallsNotRow
<1>14. ASSUME NEW p \in FilePaths, Astray(p)' PROVE Astray(p)
  <2>1. \A m \in ByPath(p) : m \in Live' /\ rows'[m].path = p
    BY <1>1, <1>7, <1>8, <1>9 DEF ByPath, RowSame
  <2> QED
    BY <1>3, <1>5, <1>10, <1>14, <2>1, StrayBefore
<1>15. SyncRow(n)'
  <2>1. cache'[q] = files'[q]
    BY <1>2, <1>3, <1>4 DEF UserStep
  <2>2. files'[q] \in AtRemote'
    BY <1>2 DEF AtRemote
  <2> QED
    BY <1>8, <2>1, <2>2 DEF SyncRow, Unsynced
<1>16. \A m \in Live' : RowSame(m) \/ SyncRow(m)'
  BY <1>7, <1>9, <1>15
<1>17. up # NoUpload => RowSame(up.inode)
  BY <1>1, <1>3, <1>9, UpNotRow
<1>18. \A m \in Live : rows[m].status \in Unsynced => RowSame(m)
  BY <1>3, <1>9
<1>19. \A c \in live' : c \in live
  BY <1>3
<1> QED
  BY <1>3, <1>5, <1>10, <1>11, <1>12, <1>13, <1>14, <1>16, <1>17, <1>18, <1>19, UserOk

\* The row goes; no content of the user's is in it, and no move brings one.
LEMMA PrunesOk ==
  ASSUME OkState, NEW n \in Live, HydratePrunes(n), causes' = {} PROVE Ok'
<1>1. PICK q : q = rows[n].path
  OBVIOUS
<1>2. RemoveRow(n) /\ q \in FilePaths /\ q \in Paths
  BY <1>1, OkFacts, PruneRows, PathKinds
<1>3. /\ UserStep /\ jobs' = jobs /\ tombs' = tombs /\ cache' = cache /\ live' = live
      /\ rows[n].status \notin Unsynced /\ files[q] = 0 /\ ContentsOf(n) \cap live = {}
  BY <1>1 DEF HydratePrunes, Cause, Unsynced
<1>4. LiveKept /\ 0 \notin live
  BY <1>3, OkFacts DEF LiveKept, StoreInv
<1>5. \A m \in Inodes \ {n} : rows'[m] = rows[m]
  BY <1>2, OkFacts, RemoveRows
<1>6. Live' = Live \ {n}
  BY <1>2, OkFacts, RemoveRows
<1>7. \A m \in Live \ {n} : RowSame(m) /\ rows[m].path # rows[n].path
  <2>1. \A m \in Live \ {n} : rows'[m] = rows[m]
    BY <1>5 DEF Live
  <2> QED
    BY <1>1, <1>2, <1>3, <2>1, OneRow
<1>8. Apart' /\ Pending' = Pending
  BY <1>3, OkFacts, SameJobsApart DEF UserStep
<1>9. TombOk'
  BY <1>3, <1>8, OkFacts, SameTombs
<1>10. DirsKnown
  BY <1>3, <1>5, <1>6 DEF DirsKnown, UserStep, Live
<1>11. ASSUME NEW k \in Pending' PROVE JobKept(k)
  <2>1. k \in Pending /\ jobs'[k] = jobs[k]
    BY <1>3, <1>8
  <2>2. ASSUME Moves(jobs[k]), files[jobs[k].path] \in live PROVE \A m \in ByPath(jobs[k].to) : RowSame(m)
    <3>1. jobs[k].path \in FilePaths
      BY <2>1, <2>2, OkFacts DEF JobOk, JobFine, MoveFine
    <3>2. jobs[k].to # q
      <4> SUFFICES ASSUME jobs[k].to = rows[n].path PROVE FALSE
        BY <1>1
      <4>1. files[jobs[k].path] \in ContentsOf(n)
        BY <2>1, <3>1 DEF ContentsOf
      <4> QED
        BY <1>3, <2>2, <4>1
    <3> QED
      BY <1>1, <1>7, <3>2 DEF ByPath
  <2> QED
    BY <1>3, <1>4, <2>1, <2>2, UserFiles DEF JobKept, Reach
<1>12. ASSUME NEW p \in FilePaths, Astray(p)' PROVE Astray(p)
  <2>1. p # q
    BY <1>3, <1>4, <1>12 DEF Astray, UserStep
  <2>2. \A m \in ByPath(p) : m \in Live' /\ rows'[m].path = p
    BY <1>1, <1>6, <1>7, <2>1 DEF ByPath, RowSame
  <2> QED
    BY <1>3, <1>4, <1>8, <1>12, <2>2, StrayBefore
<1>13. \A m \in Live' : RowSame(m) \/ SyncRow(m)'
  BY <1>6, <1>7
<1>14. up # NoUpload => RowSame(up.inode)
  <2> SUFFICES ASSUME up # NoUpload PROVE RowSame(up.inode)
    OBVIOUS
  <2>1. up.inode \in Live /\ rows[up.inode].status = "uploading"
    BY OkFacts, UpRow DEF UpOk, Live
  <2> QED
    BY <1>3, <1>7, <2>1 DEF Unsynced
<1>15. \A m \in Live : rows[m].status \in Unsynced => RowSame(m)
  BY <1>3, <1>7
<1>16. \A c \in live' : c \in live
  BY <1>3
<1> QED
  BY <1>3, <1>4, <1>8, <1>9, <1>10, <1>11, <1>12, <1>13, <1>14, <1>15, <1>16, UserOk

LEMMA MkdirOk ==
  ASSUME OkState, NEW name \in DirNames, handle_mkdir(name), causes' = {} PROVE Ok'
<1>1. PICK q : q = <<name>>
  OBVIOUS
<1>2. InsertRow(Row(q, 0, "cached", 0, Root)) /\ q \in DirPaths /\ q \in Paths /\ q \notin FilePaths
  BY <1>1, OkFacts, MkdirFree, MkdirRows, PathKinds
<1>3. /\ UserStep /\ ~Busy(q) /\ tombs' = tombs /\ cache' = cache /\ live' = live
      /\ Spawn(Job("mkdir", q))
  BY <1>1, OkFacts, MkdirFree DEF handle_mkdir, Cause
<1>4. LiveKept
  BY <1>3 DEF LiveKept
<1>5. /\ rows'[next] = Row(q, 0, "cached", 0, Root) /\ \A m \in Inodes \ {next} : rows'[m] = rows[m]
      /\ Live' = Live \cup {next} /\ next \notin Live
  BY <1>2, OkFacts, InsertRows
<1>6. \A m \in Live : RowSame(m)
  <2> SUFFICES ASSUME NEW m \in Live PROVE RowSame(m)
    OBVIOUS
  <2>1. rows'[m] = rows[m]
    BY <1>5 DEF Live
  <2> QED
    BY <1>3, <2>1, OkFacts, SameRow
<1>7. PICK J : J = Job("mkdir", q)
  OBVIOUS
<1>8. J.op = "mkdir" /\ J.path = q /\ J.to = Root /\ J.dest = Root
  BY <1>7 DEF Job, NoJob
<1>9. PICK e : e = events + 1
  OBVIOUS
<1>10. /\ e \notin Pending /\ Pending' = Pending \cup {e} /\ jobs'[e] = J
       /\ \A k \in Pending : jobs'[k] = jobs[k]
  BY <1>3, <1>7, <1>8, <1>9, OkFacts, SpawnFacts
<1>11. Apart'
  <2>1. \A p \in Parts(jobs'[e]) : ~Busy(p)
    BY <1>3, <1>8, <1>10 DEF Parts
  <2>2. up' = up
    BY <1>3 DEF UserStep
  <2> QED
    BY <1>10, <2>1, <2>2, OkFacts, ApartSpawn
<1>12. TombOk'
  BY <1>3, <1>10, OkFacts, SameTombs
<1>13. rows'[next].path = q /\ rows'[next].listed = FALSE
  BY <1>5 DEF Row
<1>14. DirsKnown
  BY <1>3, <1>5, <1>13 DEF DirsKnown, UserStep, Live
<1>15. JobFine(J)'
  BY <1>8 DEF JobFine, Moves
<1>16. ASSUME NEW k \in Pending PROVE JobKept(k)
  <2>1. \A m \in ByPath(jobs[k].to) : RowSame(m)
    BY <1>6 DEF ByPath
  <2> QED
    BY <1>3, <1>4, <1>10, <2>1, UserFiles, AllJobsKept
<1>17. \A k \in Pending' : JobKept(k) \/ \E K : K = jobs'[k] /\ JobFine(K)'
  BY <1>10, <1>15, <1>16
<1>18. ASSUME NEW p \in FilePaths, Astray(p)' PROVE Astray(p)
  <2>1. \A m \in ByPath(p) : m \in Live' /\ rows'[m].path = p
    BY <1>6 DEF ByPath, RowSame
  <2> QED
    BY <1>3, <1>4, <1>10, <1>18, <2>1, StrayBefore
<1>19. ASSUME NEW i, i = next PROVE SyncRow(i)'
  BY <1>2, <1>13, <1>19 DEF SyncRow
<1>20. \A m \in Live' : RowSame(m) \/ SyncRow(m)'
  BY <1>5, <1>6, <1>19
<1>21. up # NoUpload => RowSame(up.inode)
  BY <1>3, <1>2, <1>6, UpElsewhere
<1>22. \A c \in live' : c \in live
  BY <1>3
<1> QED
  BY <1>3, <1>4, <1>6, <1>11, <1>12, <1>14, <1>17, <1>18, <1>20, <1>21, <1>22, UserOk
\* A call is spawned, with a tombstone at its path.
LEMMA TombSpawn ==
  ASSUME TombOk, NEW e, NEW J, Pending' = Pending \cup {e}, jobs'[e] = J, J.op # "mkdir",
         tombs' = tombs \cup {J.path}, \A k \in Pending : jobs'[k] = jobs[k]
  PROVE  TombOk'
<1>1. ASSUME NEW t \in tombs'
      PROVE  TombKept(t) \/ \E k \in Pending' : jobs'[k].path = t /\ jobs'[k].op # "mkdir"
  <2>1. CASE t \in tombs
    BY <2>1 DEF TombKept
  <2>2. CASE t = J.path
    BY <2>2
  <2> QED
    BY <2>1, <2>2
<1> QED
  BY <1>1, TombOkKept

LEMMA UnlinkOk ==
  ASSUME OkState, NEW n \in Live, handle_unlink(n), causes' = {} PROVE Ok'
<1>1. PICK q : q = rows[n].path
  OBVIOUS
<1>2. RemoveRow(n) /\ q \in FilePaths /\ q \in Paths /\ (rows[n].cp # Root => rows[n].cp = q)
  BY <1>1, OkFacts, UnlinkRows, PathKinds DEF CacheGood
<1>3. /\ UserStep /\ ~Busy(q) /\ tombs' = tombs \cup {q} /\ live' = live \ ContentsOf(n)
      /\ Spawn(Job("delete", q))
      /\ cache' = IF rows[n].cp = Root THEN cache ELSE [cache EXCEPT ![rows[n].cp] = 0]
  BY <1>1 DEF handle_unlink, Cause
<1>4. LiveKept /\ cache \in [FilePaths -> 0 .. last]
  BY <1>3, OkFacts, StoreFacts DEF LiveKept
<1>5. /\ \A m \in Inodes \ {n} : rows'[m] = rows[m]
      /\ Live' = Live \ {n}
  BY <1>2, OkFacts, RemoveRows
<1>6. \A m \in Live \ {n} : RowSame(m) /\ rows[m].path # rows[n].path
  <2>1. \A m \in Live \ {n} : rows'[m] = rows[m]
    BY <1>5 DEF Live
  <2>2. \A p \in FilePaths : p # q => cache'[p] = cache[p]
    BY <1>2, <1>3, <1>4
  <2> QED
    BY <1>1, <1>2, <2>1, <2>2, OneRow
<1>7. PICK J : J = Job("delete", q)
  OBVIOUS
<1>8. J.op = "delete" /\ J.path = q /\ J.to = Root /\ J.dest = Root
  BY <1>7 DEF Job, NoJob
<1>9. PICK e : e = events + 1
  OBVIOUS
<1>10. /\ e \notin Pending /\ Pending' = Pending \cup {e} /\ jobs'[e] = J
       /\ \A k \in Pending : jobs'[k] = jobs[k]
  BY <1>3, <1>7, <1>8, <1>9, OkFacts, SpawnFacts
<1>11. Apart'
  <2>1. \A p \in Parts(jobs'[e]) : ~Busy(p)
    BY <1>3, <1>8, <1>10 DEF Parts
  <2>2. up' = up
    BY <1>3 DEF UserStep
  <2> QED
    BY <1>10, <2>1, <2>2, OkFacts, ApartSpawn
<1>12. TombOk'
  BY <1>3, <1>8, <1>10, OkFacts, TombSpawn
<1>13. DirsKnown
  BY <1>3, <1>5 DEF DirsKnown, UserStep, Live
<1>14. JobFine(J)'
  <2>1. files[q] \in ContentsOf(n)
    BY <1>1, <1>2 DEF ContentsOf
  <2>2. files'[q] \notin live'
    BY <1>3, <2>1 DEF UserStep
  <2> QED
    BY <1>8, <2>2 DEF JobFine, Moves
<1>15. ASSUME NEW k \in Pending PROVE JobKept(k)
  BY <1>1, <1>3, <1>4, <1>6, <1>10, CallsNotRow
<1>16. \A k \in Pending' : JobKept(k) \/ \E K : K = jobs'[k] /\ JobFine(K)'
  BY <1>10, <1>14, <1>15
<1>17. ASSUME NEW p \in FilePaths, Astray(p)' PROVE Astray(p)
  <2>1. p # q
    BY <1>8, <1>10, <1>17 DEF Astray, JobsOf
  <2>2. \A m \in ByPath(p) : m \in Live' /\ rows'[m].path = p
    BY <1>1, <1>5, <1>6, <2>1 DEF ByPath, RowSame
  <2> QED
    BY <1>3, <1>4, <1>10, <1>17, <2>2, StrayBefore
<1>18. \A m \in Live' : RowSame(m) \/ SyncRow(m)'
  BY <1>5, <1>6
<1>19. up # NoUpload => RowSame(up.inode)
  BY <1>1, <1>3, <1>6, UpNotRow
<1>20. rows[n].status \in Unsynced => cache[rows[n].cp] \notin live'
  <2> SUFFICES ASSUME rows[n].status \in Unsynced PROVE cache[rows[n].cp] \notin live'
    OBVIOUS
  <2>1. rows[n].cp # Root
    BY <1>1, <1>2, OkFacts, RowFields DEF Unsynced, HasFile
  <2>2. cache[rows[n].cp] \in ContentsOf(n)
    BY <2>1 DEF ContentsOf
  <2> QED
    BY <1>3, <2>2
<1>21. \A m \in Live : rows[m].status \in Unsynced => RowSame(m) \/ cache[rows[m].cp] \notin live'
  BY <1>6, <1>20
<1>22. \A c \in live' : c \in live
  BY <1>3
<1> QED
  BY <1>3, <1>4, <1>11, <1>12, <1>13, <1>16, <1>17, <1>18, <1>19, <1>21, <1>22, UserOk

LEMMA RmdirOk ==
  ASSUME OkState, NEW n \in Live, handle_rmdir(n), causes' = {} PROVE Ok'
<1>1. PICK q : q = rows[n].path
  OBVIOUS
<1>2. RemoveRow(n) /\ q \in DirPaths /\ q \in Paths /\ q \notin FilePaths /\ IsDir(n)
  BY <1>1, OkFacts, RmdirRows, PathKinds DEF IsDir
<1>3. /\ UserStep /\ ~Busy(q) /\ tombs' = tombs \cup {q} /\ live' = live /\ cache' = cache
      /\ Spawn(Job("rmdir", q)) /\ Unseen(q) = {}
  BY <1>1 DEF handle_rmdir, Cause
<1>4. LiveKept
  BY <1>3 DEF LiveKept
<1>5. /\ \A m \in Inodes \ {n} : rows'[m] = rows[m]
      /\ Live' = Live \ {n}
  BY <1>2, OkFacts, RemoveRows
<1>6. \A m \in Live \ {n} : RowSame(m) /\ rows[m].path # rows[n].path
  <2>1. \A m \in Live \ {n} : rows'[m] = rows[m]
    BY <1>5 DEF Live
  <2> QED
    BY <1>1, <1>2, <1>3, <2>1, OneRow
<1>7. PICK J : J = Job("rmdir", q)
  OBVIOUS
<1>8. J.op = "rmdir" /\ J.path = q /\ J.to = Root /\ J.dest = Root
  BY <1>7 DEF Job, NoJob
<1>9. PICK e : e = events + 1
  OBVIOUS
<1>10. /\ e \notin Pending /\ Pending' = Pending \cup {e} /\ jobs'[e] = J
       /\ \A k \in Pending : jobs'[k] = jobs[k]
  BY <1>3, <1>7, <1>8, <1>9, OkFacts, SpawnFacts
<1>11. Apart'
  <2>1. \A p \in Parts(jobs'[e]) : ~Busy(p)
    BY <1>3, <1>8, <1>10 DEF Parts
  <2>2. up' = up
    BY <1>3 DEF UserStep
  <2> QED
    BY <1>10, <2>1, <2>2, OkFacts, ApartSpawn
<1>12. TombOk'
  BY <1>3, <1>8, <1>10, OkFacts, TombSpawn
<1>13. DirsKnown
  BY <1>3, <1>5 DEF DirsKnown, UserStep, Live
<1>14. JobFine(J)'
  <2>1. \A p \in FilePaths : IsPrefix(q, p) => files'[p] \notin live'
    BY <1>3 DEF Unseen, UserStep
  <2> QED
    BY <1>8, <2>1 DEF JobFine, Moves
<1>15. ASSUME NEW k \in Pending PROVE JobKept(k)
  BY <1>1, <1>3, <1>4, <1>6, <1>10, CallsNotRow
<1>16. \A k \in Pending' : JobKept(k) \/ \E K : K = jobs'[k] /\ JobFine(K)'
  BY <1>10, <1>14, <1>15
<1>17. ASSUME NEW p \in FilePaths, Astray(p)' PROVE Astray(p)
  <2>1. p # q
    BY <1>2
  <2>2. \A m \in ByPath(p) : m \in Live' /\ rows'[m].path = p
    BY <1>1, <1>5, <1>6, <2>1 DEF ByPath, RowSame
  <2> QED
    BY <1>3, <1>4, <1>10, <1>17, <2>2, StrayBefore
<1>18. \A m \in Live' : RowSame(m) \/ SyncRow(m)'
  BY <1>5, <1>6
<1>19. up # NoUpload => RowSame(up.inode)
  BY <1>1, <1>3, <1>6, UpNotRow
<1>20. rows[n].status \notin Unsynced
  BY <1>2, OkFacts, RowFields
<1>21. \A m \in Live : rows[m].status \in Unsynced => RowSame(m)
  BY <1>6, <1>20
<1>22. \A c \in live' : c \in live
  BY <1>3
<1> QED
  BY <1>3, <1>4, <1>11, <1>12, <1>13, <1>16, <1>17, <1>18, <1>19, <1>21, <1>22, UserOk

\* What a rename of a file, within its directory and sent to the remote, comes to.
LEMMA RenameSent ==
  ASSUME OkState, NEW n \in Live, NEW parent \in DirInodes \cup {0},
         NEW name \in FileNames \cup DirNames, handle_rename(n, parent, name), causes' = {}
  PROVE  LET to == Target(parent, name) J == RenameJob(n, parent, name) IN
         /\ ~IsDir(n) /\ parent = rows[n].parent /\ rows[n].status \in {"cached", "stale", "uploading"}
         /\ ~Busy(rows[n].path) /\ ~Busy(to) /\ UserStep /\ IsListed(parent)
         /\ Spawn(J) /\ tombs' = tombs \cup {rows[n].path}
         /\ J.op \in {"move", "replace"} /\ J.path = rows[n].path /\ J.to = to /\ J.dest \in {Root, to}
         /\ live' \subseteq live
         /\ \A z \in ByPath(to) : live' = live \ ContentsOf(z)
<1>1. /\ ~IsDir(n) /\ parent = rows[n].parent /\ NeedsRemoteRename(rows[n].status)
      /\ ~Busy(rows[n].path) /\ ~Busy(Target(parent, name)) /\ UserStep /\ IsListed(parent)
  BY DEF handle_rename, Cause, Target
<1> DEFINE to == Target(parent, name)
           J == RenameJob(n, parent, name)
           D == Named(parent, name)
<1>2. /\ to # rows[n].path /\ D = ByPath(to) /\ Gone(parent, name) = ByPath(to)
      /\ MoveRow(n, Renamed(n, parent, name), ByPath(to))
  BY <1>1, OkFacts, RenameFree
<1>3. rows'[n].path = to
  <2>1. rows'[n] = Renamed(n, parent, name) /\ rows[n] \in RowType
    BY <1>2, OkFacts, MoveRows, RowFields
  <2> QED
    BY <2>1 DEF Renamed, RowType
<1>4. D # {} => Lookup(parent, name) \in ByPath(to)
  BY <1>2, OkFacts, LookupFacts
<1>5. n \notin D /\ rows \in [Inodes -> RowType] /\ n \in Inodes
  BY OkFacts, RowFields DEF handle_rename
<1>6. \/ rows' = rows \/ (D # {} /\ rows' = [rows EXCEPT ![Lookup(parent, name)] = NoRow])
      \/ Spawn(J) /\ tombs' = tombs \cup {rows[n].path}
  BY <1>1 DEF handle_rename, RenameJob, Target
<1>7. rows'[n] # rows[n]
  BY <1>2, <1>3
<1>8. D # {} => Lookup(parent, name) # n
  BY <1>2, <1>4, <1>5
<1>9. Spawn(J) /\ tombs' = tombs \cup {rows[n].path}
  BY <1>5, <1>6, <1>7, <1>8
<1>10. J.op \in {"move", "replace"} /\ J.path = rows[n].path /\ J.to = to /\ J.dest \in {Root, to}
  <2>1. D # {} => rows[Lookup(parent, name)].path = to
    BY <1>4 DEF ByPath
  <2> QED
    BY <1>1, <2>1 DEF RenameJob
<1>11. live' = IF D # {} THEN live \ ContentsOf(Lookup(parent, name)) ELSE live
  BY DEF handle_rename
<1>12. live' \subseteq live
  BY <1>11
<1>13. ASSUME NEW z \in ByPath(to) PROVE live' = live \ ContentsOf(z)
  <2>1. D # {}
    BY <1>2, <1>13
  <2>2. z = Lookup(parent, name)
    BY <1>4, <1>13, <2>1, OkFacts DEF ByPath, RowsInv, RowsUnique
  <2> QED
    BY <1>11, <2>1, <2>2
<1>14. rows[n].status \in {"cached", "stale", "uploading"}
  BY <1>1 DEF NeedsRemoteRename
<1> HIDE DEF to, J, D
<1> QED
  BY <1>1, <1>9, <1>10, <1>12, <1>13, <1>14 DEF to, J
LEMMA RenameOk ==
  ASSUME OkState, NEW n \in Live, NEW parent \in DirInodes \cup {0},
         NEW name \in FileNames \cup DirNames, handle_rename(n, parent, name), causes' = {}
  PROVE  Ok'
<1>1. PICK q : q = rows[n].path
  OBVIOUS
<1>2. PICK to : to = Target(parent, name)
  OBVIOUS
<1>3. PICK J : J = RenameJob(n, parent, name)
  OBVIOUS
<1>4. /\ ~IsDir(n) /\ parent = rows[n].parent /\ rows[n].status \in {"cached", "stale", "uploading"}
      /\ ~Busy(q) /\ ~Busy(to) /\ UserStep /\ IsListed(parent)
      /\ Spawn(J) /\ tombs' = tombs \cup {q}
      /\ J.op \in {"move", "replace"} /\ J.path = q /\ J.to = to /\ J.dest \in {Root, to}
      /\ live' \subseteq live
      /\ \A z \in ByPath(to) : live' = live \ ContentsOf(z)
  BY <1>1, <1>2, <1>3, RenameSent
<1>5. /\ to \in FilePaths /\ to # q
      /\ rows[n].cp # Root => rows[n].cp = q /\ NewCp(n, name) = to
      /\ rows[n].cp = Root => NewCp(n, name) = Root
      /\ cache' = IF rows[n].cp = Root THEN cache
                  ELSE [cache EXCEPT ![to] = cache[q], ![q] = 0]
      /\ MoveRow(n, Renamed(n, parent, name), ByPath(to))
  BY <1>1, <1>2, <1>4, OkFacts, RenameFree
<1>6. q \in FilePaths /\ q \in Paths /\ to \in Paths /\ to # Root /\ q # Root
  BY <1>1, <1>4, <1>5, OkFacts, RowFields, PathKinds
<1>7. LiveKept /\ cache \in [FilePaths -> 0 .. last]
  BY <1>4, OkFacts, StoreFacts DEF LiveKept
<1>8. /\ rows'[n] = Renamed(n, parent, name) /\ Live' = Live \ ByPath(to)
      /\ \A m \in Inodes \ (ByPath(to) \cup {n}) : rows'[m] = rows[m]
  BY <1>5, OkFacts, MoveRows
<1>9. /\ rows'[n].path = to /\ rows'[n].status = rows[n].status /\ rows'[n].cp = NewCp(n, name)
      /\ n \in Live'
  <2>1. rows[n] \in RowType /\ n \notin ByPath(to)
    BY <1>1, <1>5, OkFacts, RowFields DEF ByPath
  <2> QED
    BY <1>2, <1>8, <2>1 DEF Renamed, RowType
<1>10. rows[n].cp # Root => cache'[to] = cache[q]
  BY <1>5, <1>6, <1>7
\* The other rows.
<1>11. ASSUME NEW m \in Live, m # n, rows[m].path # to PROVE RowSame(m) /\ m \in Live'
  <2>1. rows'[m] = rows[m] /\ m \in Live'
    BY <1>8, <1>11 DEF ByPath, Live
  <2>2. rows[m].path # q
    BY <1>1, <1>11, OkFacts DEF RowsInv, RowsUnique
  <2>3. rows[m].path \in FilePaths => cache'[rows[m].path] = cache[rows[m].path]
    BY <1>5, <1>7, <1>11, <2>2
  <2> QED
    BY <2>1, <2>3, OkFacts, SameRow
\* The call.
<1>12. PICK e : e = events + 1
  OBVIOUS
<1>13. /\ e \notin Pending /\ Pending' = Pending \cup {e} /\ jobs'[e] = J
       /\ \A k \in Pending : jobs'[k] = jobs[k]
  <2>1. J.op # "none"
    BY <1>4
  <2> QED
    BY <1>4, <1>12, <2>1, OkFacts, SpawnFacts
<1>14. Apart'
  <2>1. \A p \in Parts(jobs'[e]) : ~Busy(p)
    BY <1>4, <1>13 DEF Parts
  <2>2. up' = up
    BY <1>4 DEF UserStep
  <2> QED
    BY <1>13, <2>1, <2>2, OkFacts, ApartSpawn
<1>15. TombOk'
  BY <1>4, <1>13, OkFacts, TombSpawn
<1>16. DirsKnown
  <2>1. ASSUME NEW m \in Live', rows'[m].path \in DirPaths
        PROVE  m \in Live /\ rows[m].path = rows'[m].path /\ rows[m].listed = rows'[m].listed
    <3>1. m # n /\ m \in Live /\ m \notin ByPath(to) /\ m \in Inodes
      BY <1>5, <1>8, <1>9, <2>1, PathKinds DEF Live
    <3> QED
      BY <1>8, <3>1
  <2> QED
    BY <1>4, <2>1 DEF DirsKnown, UserStep
\* What was at the new name is not the user's any more.
<1>17. files[to] \notin live'
  <2>1. CASE ByPath(to) = {}
    <3>1. ParentPath(to) = PathOf(parent)
      BY <1>2, OkFacts, RenameTarget
    <3>2. files[to] \notin live
      BY <1>4, <1>5, <2>1, <3>1, ListedFree
    <3> QED
      BY <1>4, <3>2
  <2>2. ASSUME NEW z \in ByPath(to) PROVE files[to] \notin live'
    <3>1. files[to] \in ContentsOf(z)
      BY <1>5, <2>2 DEF ContentsOf, ByPath
    <3> QED
      BY <1>4, <2>2, <3>1
  <2> QED
    BY <2>1, <2>2
<1>18. files' = files
  BY <1>4 DEF UserStep
<1>19. RemoteKept
  BY <1>4, <1>7, OkFacts, SameRemote DEF UserStep
<1>20. JobFine(J)'
  <2>1. ASSUME files'[q] \in live'
        PROVE  /\ n \in ByPath(to)' /\ rows'[n].status \notin Unsynced
               /\ rows'[n].status = "cached" => cache'[rows'[n].cp] = files'[q]
    <3>1. files[q] \in live /\ SyncRow(n)
      BY <1>4, <1>18, <2>1, OkFacts DEF SyncOk
    <3>2. rows[n].status \notin Unsynced
      BY <1>1, <1>6, <3>1 DEF SyncRow
    <3>3. n \in ByPath(to)'
      BY <1>9 DEF ByPath
    <3>4. ASSUME rows[n].status = "cached" PROVE cache'[rows'[n].cp] = files'[q]
      <4>1. rows[n].cp # Root
        BY <1>4, <3>4, OkFacts, RowFields DEF HasFile
      <4>2. cache[q] = files[q]
        BY <1>1, <1>5, <1>6, <3>1, <3>4, <4>1 DEF SyncRow
      <4> QED
        BY <1>5, <1>9, <1>10, <1>18, <4>1, <4>2
    <3> QED
      BY <1>9, <3>2, <3>3, <3>4
  <2>2. files'[to] \notin live'
    BY <1>17, <1>18
  <2>3. MoveFine(J)'
    BY <1>4, <1>5, <1>6, <2>1, <2>2 DEF MoveFine
  <2> QED
    BY <1>4, <2>3 DEF JobFine, Moves
<1>21. ASSUME NEW k \in Pending PROVE JobKept(k)
  <2>1. jobs[k].to # q /\ jobs[k].to # to
    BY <1>4, <1>6, OkFacts, FreePath
  <2>2. \A m \in ByPath(jobs[k].to) : RowSame(m)
    BY <1>1, <1>11, <2>1 DEF ByPath
  <2> QED
    BY <1>4, <1>7, <1>13, <2>2, UserFiles, AllJobsKept
<1>22. \A k \in Pending' : JobKept(k) \/ \E K : K = jobs'[k] /\ JobFine(K)'
  BY <1>13, <1>20, <1>21
<1>23. ASSUME NEW p \in FilePaths, Astray(p)' PROVE Astray(p)
  <2>1. p # q
    BY <1>4, <1>13, <1>23 DEF Astray, JobsOf
  <2>2. p # to
    BY <1>9, <1>23 DEF Astray, ByPath
  <2>3. \A m \in ByPath(p) : m \in Live' /\ rows'[m].path = p
    BY <1>1, <1>11, <2>1, <2>2 DEF ByPath, RowSame
  <2> QED
    BY <1>4, <1>7, <1>13, <1>23, <2>3, StrayBefore
<1>24. SyncRow(n)'
  <2>1. files'[to] \notin live'
    BY <1>17, <1>18
  <2>2. ASSUME rows'[n].status \notin Unsynced, rows'[n].cp # Root, cache'[rows'[n].cp] \in live'
        PROVE  cache'[rows'[n].cp] \in AtRemote'
    <3>1. rows[n].status \notin Unsynced /\ rows[n].cp # Root
      BY <1>5, <1>9, <2>2
    <3>2. rows[n].cp = q /\ cache'[rows'[n].cp] = cache[q]
      BY <1>5, <1>9, <1>10, <3>1
    <3>3. cache[q] \in AtRemote
      BY <1>1, <1>4, <1>6, <2>2, <3>1, <3>2, OkFacts DEF SyncOk, SyncRow
    <3> QED
      BY <1>19, <2>2, <3>2, <3>3 DEF RemoteKept
  <2> QED
    BY <1>9, <2>1, <2>2 DEF SyncRow
<1>25. \A m \in Live' : RowSame(m) \/ SyncRow(m)'
  <2> SUFFICES ASSUME NEW m \in Live', m # n PROVE RowSame(m)
    BY <1>24
  <2>1. m \in Live /\ rows[m].path # to
    BY <1>8 DEF ByPath
  <2> QED
    BY <1>11, <2>1
<1>26. up # NoUpload => RowSame(up.inode)
  <2> SUFFICES ASSUME up # NoUpload PROVE RowSame(up.inode)
    OBVIOUS
  <2>1. up.inode \in Live /\ rows[up.inode].path # q /\ rows[up.inode].path # to
    BY <1>4, <1>6, UpElsewhere
  <2> QED
    BY <1>1, <1>11, <2>1
<1>27. ASSUME NEW m \in Live, rows[m].status \in Unsynced
       PROVE  RowSame(m) \/ cache[rows[m].cp] \notin live' \/ cache[rows[m].cp] \in Safe'
  <2>1. rows[m].cp # Root
    BY <1>27, OkFacts, RowFields DEF Unsynced, HasFile
  <2>2. CASE m = n
    <3>1. n \in Live' /\ rows'[n].cp # Root /\ cache'[rows'[n].cp] = cache[rows[n].cp]
      BY <1>5, <1>6, <1>9, <1>10, <2>1, <2>2
    <3>2. cache[rows[n].cp] \in Safe'
      BY <3>1 DEF Safe
    <3> QED
      BY <2>2, <3>2
  <2>3. CASE m # n /\ rows[m].path = to
    <3>1. m \in ByPath(to)
      BY <2>3 DEF ByPath
    <3>2. cache[rows[m].cp] \in ContentsOf(m)
      BY <2>1 DEF ContentsOf
    <3> QED
      BY <1>4, <3>1, <3>2
  <2> QED
    BY <1>11, <2>2, <2>3
<1>28. \A c \in live' : c \in live
  BY <1>4
<1> QED
  BY <1>4, <1>7, <1>14, <1>15, <1>16, <1>22, <1>23, <1>25, <1>26, <1>27, <1>28, UserOk

-----------------------------------------------------------------------------
\* Transfers.
LEMMA UploadStartOk ==
  ASSUME OkState, NEW n \in Live, UploadStart(n), causes' = {} PROVE Ok'
<1>1. PICK q : q = rows[n].path
  OBVIOUS
<1>2. /\ TouchRow(n, [rows[n] EXCEPT !.status = "uploading"])
      /\ q \in FilePaths /\ q \in Paths /\ rows[n].cp = q /\ rows[n].cp # Root
  BY <1>1, OkFacts, StartRows, PathKinds DEF CacheGood
<1>3. /\ ~Busy(q) /\ jobs' = jobs /\ tombs' = tombs /\ rows[n].status \in Unsynced
      /\ cache' = cache /\ live' = live /\ files' = files /\ siblings' = siblings
      /\ listed' = listed /\ poll' = poll /\ pop' = pop /\ pre' = pre
      /\ up = NoUpload
  BY <1>1 DEF UploadStart, Cause, remote
<1>4. up'.inode = n /\ up'.path = q /\ up'.cp = q
  BY <1>1, <1>2 DEF UploadStart
<1>5. LiveKept
  BY <1>3 DEF LiveKept
<1>6. RemoteKept /\ \A p \in FilePaths : FilesKept(p)
  BY <1>3, <1>5, OkFacts, SameRemote
<1>7. /\ rows'[n] = [rows[n] EXCEPT !.status = "uploading"]
      /\ \A m \in Inodes \ {n} : rows'[m] = rows[m]
      /\ Live' = Live
  BY <1>2, OkFacts, TouchRows
<1>8. /\ rows'[n].path = q /\ rows'[n].cp = q /\ rows'[n].status = "uploading"
  BY <1>1, <1>2, <1>7, OkFacts, RowFields DEF RowType
<1>9. \A m \in Live \ {n} : RowSame(m) /\ rows[m].path # rows[n].path
  <2>1. \A m \in Live \ {n} : rows'[m] = rows[m]
    BY <1>7 DEF Live
  <2> QED
    BY <1>1, <1>2, <1>3, <2>1, OneRow
<1>10. Pending' = Pending
  BY <1>3 DEF Pending
<1>11. Apart'
  <2>1. \A j \in Pending : \A p \in Parts(jobs[j]) : ~Overlap(p, q)
    BY <1>3, OkFacts, NotBusy
  <2>2. \A j, k \in Pending :
          j # k => \A p \in Parts(jobs[j]), r \in Parts(jobs[k]) : ~Overlap(p, r)
    BY OkFacts DEF Apart
  <2> QED
    BY <1>3, <1>4, <1>10, <2>1, <2>2 DEF Apart
<1>12. ASSUME NEW k \in Pending' PROVE JobKept(k)
  <2>1. jobs[k].to # q
    BY <1>2, <1>3, <1>10, OkFacts, FreePath
  <2>2. \A m \in ByPath(jobs[k].to) : RowSame(m)
    BY <1>1, <1>9, <2>1 DEF ByPath
  <2> QED
    BY <1>3, <1>6, <1>10, <2>2, AllJobsKept
<1>13. JobOk'
  BY <1>5, <1>12, OkFacts, JobOkKept
<1>14. TombOk'
  BY <1>3, <1>10, OkFacts, SameTombs
<1>15. DirsKnown
  BY <1>2, <1>3, <1>7, <1>8, PathKinds DEF DirsKnown, Live
<1>16. ASSUME NEW p \in FilePaths, Astray(p)' PROVE Astray(p)
  <2>1. \A m \in ByPath(p) : m \in ByPath(p)'
    <3> SUFFICES ASSUME NEW m \in ByPath(p) PROVE m \in Live' /\ rows'[m].path = p
      BY DEF ByPath
    <3>1. m \in Live /\ rows[m].path = p
      BY DEF ByPath
    <3>2. CASE m = n
      BY <1>1, <1>7, <1>8, <3>1, <3>2
    <3>3. CASE m # n
      BY <1>7, <1>9, <3>1, <3>3 DEF RowSame
    <3> QED
      BY <3>2, <3>3
  <2>2. JobsOf(p)' = JobsOf(p)
    BY <1>3, <1>10 DEF JobsOf
  <2> QED
    BY <1>6, <1>16, <2>1, <2>2, AstrayKept
<1>17. KnownOk'
  BY <1>3, <1>15, <1>16, OkFacts, KnownKept
<1>18. SyncRow(n)'
  <2>1. files[q] \notin live
    BY <1>1, <1>2, <1>3, OkFacts DEF SyncOk, SyncRow
  <2> QED
    BY <1>3, <1>8, <2>1 DEF SyncRow, Unsynced
<1>19. \A m \in Live' : (RowSame(m) /\ FilesKept(rows[m].path)) \/ SyncRow(m)'
  <2> SUFFICES ASSUME NEW m \in Live', m # n, rows[m].path \notin FilePaths PROVE SyncRow(m)'
    BY <1>6, <1>7, <1>9, <1>18
  <2> QED
    BY <1>7 DEF SyncRow, Live
<1>20. SyncOk'
  BY <1>5, <1>6, <1>19, SyncKept
<1>21. UpOk'
  <2>1. rows'[n] # NoRow
    BY <1>7 DEF Live
  <2> QED
    BY <1>4, <1>8, <2>1 DEF UpOk
<1>22. AllSafe'
  <2>1. n \in Live' /\ rows'[n].cp # Root /\ cache'[rows'[n].cp] = cache[rows[n].cp]
    BY <1>2, <1>3, <1>7, <1>8
  <2>2. cache[rows[n].cp] \in Safe'
    BY <2>1 DEF Safe
  <2>3. \A m \in Live : RowSame(m) \/ cache[rows[m].cp] \in Safe'
    BY <1>9, <2>2
  <2> QED
    BY <1>3, <1>6, <2>3, OkFacts, SafeKept
<1> QED
  BY <1>11, <1>13, <1>14, <1>17, <1>20, <1>21, <1>22, OkParts
\* Every Unsynced row has its cache file: no upload reverts or fails.
LEMMA RevertsOk ==
  ASSUME OkState, NEW n \in Live, UploadReverts(n) PROVE Ok'
<1>1. rows[n].status \in Unsynced /\ cache[rows[n].cp] = 0
  BY DEF UploadReverts
<1>2. rows[n].cp # Root
  BY <1>1, OkFacts, RowFields DEF Unsynced, HasFile
<1> QED
  BY <1>1, <1>2, OkFacts DEF CacheGood

LEMMA UpFile ==
  ASSUME OkState, up # NoUpload
  PROVE  /\ up.inode \in Live /\ up.inode \in Inodes /\ rows[up.inode] # NoRow
         /\ rows[up.inode].path = up.path /\ rows[up.inode].cp = up.path /\ up.cp = up.path
         /\ up.path \in FilePaths /\ up.path \in Paths /\ up.path # Root /\ cache[up.path] # 0
         /\ rows[up.inode].status = "uploading"
<1>1. /\ rows[up.inode] # NoRow /\ rows[up.inode].status = "uploading"
      /\ rows[up.inode].path = up.path /\ rows[up.inode].cp = up.cp
  BY OkFacts DEF UpOk
<1>2. up.inode \in Live /\ up.inode \in Inodes /\ up.path \in FilePaths /\ up.cp \in FilePaths
  BY <1>1, OkFacts, UpRow
<1>3. up.cp # Root /\ up.path \in Paths /\ up.path # Root
  BY <1>2, PathKinds
<1>4. rows[up.inode].cp = rows[up.inode].path /\ cache[rows[up.inode].cp] # 0
  BY <1>1, <1>2, <1>3, OkFacts DEF CacheGood
<1> QED
  BY <1>1, <1>2, <1>3, <1>4

LEMMA FailsOk ==
  ASSUME OkState, UploadFails PROVE Ok'
<1>1. up # NoUpload /\ cache[up.cp] = 0
  BY DEF UploadFails
<1> QED
  BY <1>1, UpFile

\* The calls on their way are elsewhere.
LEMMA UpApart ==
  ASSUME OkState, up # NoUpload, NEW k \in Pending
  PROVE  jobs[k].to # up.path /\ jobs[k].path # up.path /\ up.path \notin Reach(jobs[k])
<1>1. \A p \in Parts(jobs[k]) : ~Overlap(p, up.path)
  BY OkFacts DEF Apart
<1>2. up.path \in Paths /\ up.path # Root /\ Overlap(up.path, up.path)
  BY UpFile, OverlapSelf
<1>3. up.path \notin Parts(jobs[k])
  BY <1>1, <1>2
<1> QED
  BY <1>1, <1>2, <1>3 DEF Parts, Reach

\* The upload ends; its row and its remote file agree.
LEMMA UploadOk ==
  ASSUME OkState, up # NoUpload, NEW i, i = up.inode, NEW q, q = up.path, up' = NoUpload,
         NEW r, TouchRow(i, r), r.status = "cached", r.cp = q,
         jobs' = jobs, tombs' = tombs, listed' = listed, live' = live,
         poll' = poll, pop' = pop, pre' = pre,
         \A p \in FilePaths : p # q => cache'[p] = cache[p] /\ files'[p] = files[p],
         cache'[q] = files'[q], cache[q] \in AtRemote', RemoteKept
  PROVE  Ok'
<1>1. /\ i \in Live /\ i \in Inodes /\ rows[i].path = q /\ rows[i].cp = q /\ q \in FilePaths
      /\ q \in Paths /\ q # Root
  BY UpFile
<1>2. /\ rows'[i] = r /\ \A m \in Inodes \ {i} : rows'[m] = rows[m]
      /\ Live' = Live
  BY OkFacts, TouchRows
<1>3. rows'[i].path = q /\ rows'[i].cp = q /\ rows'[i].status = "cached"
  BY <1>1, <1>2 DEF TouchRow
<1>4. LiveKept
  BY DEF LiveKept
<1>5. \A p \in FilePaths : p # q => FilesKept(p)
  BY DEF FilesKept
<1>6. \A m \in Live \ {i} : RowSame(m) /\ rows[m].path # rows[i].path
  <2>1. \A m \in Live \ {i} : rows'[m] = rows[m]
    BY <1>2 DEF Live
  <2> QED
    BY <1>1, <2>1, OneRow
<1>7. Apart' /\ Pending' = Pending
  BY OkFacts, SameJobsApart
<1>8. ASSUME NEW k \in Pending' PROVE JobKept(k)
  <2>1. k \in Pending /\ jobs'[k] = jobs[k] /\ jobs[k].to # q /\ q \notin Reach(jobs[k])
    BY <1>7, UpApart
  <2>2. \A m \in ByPath(jobs[k].to) : RowSame(m)
    BY <1>1, <1>6, <2>1 DEF ByPath
  <2>3. \A p \in Reach(jobs[k]) : FilesKept(p)
    BY <1>5, <2>1 DEF Reach
  <2> QED
    BY <2>1, <2>2, <2>3 DEF JobKept
<1>9. JobOk'
  BY <1>4, <1>8, OkFacts, JobOkKept
<1>10. TombOk'
  BY <1>7, OkFacts, SameTombs
<1>11. DirsKnown
  BY <1>1, <1>2, <1>3, PathKinds DEF DirsKnown, Live
<1>12. ASSUME NEW p \in FilePaths, Astray(p)' PROVE Astray(p)
  <2>1. p # q
    <3>1. i \in ByPath(q)'
      BY <1>1, <1>2, <1>3 DEF ByPath
    <3> QED
      BY <1>12, <3>1 DEF Astray
  <2>2. \A m \in ByPath(p) : m \in ByPath(p)'
    <3> SUFFICES ASSUME NEW m \in ByPath(p) PROVE m \in Live' /\ rows'[m].path = p
      BY DEF ByPath
    <3>1. m \in Live /\ rows[m].path = p /\ m # i
      BY <1>1, <2>1 DEF ByPath
    <3> QED
      BY <1>2, <1>6, <3>1 DEF RowSame
  <2>3. JobsOf(p)' = JobsOf(p)
    BY <1>7 DEF JobsOf
  <2> QED
    BY <1>5, <1>12, <2>1, <2>2, <2>3, AstrayKept
<1>13. KnownOk'
  BY <1>11, <1>12, OkFacts, KnownKept
<1>14. SyncRow(i)'
  <2>1. files'[q] \in AtRemote'
    BY <1>1 DEF AtRemote
  <2> QED
    BY <1>3, <2>1 DEF SyncRow, Unsynced
<1>15. \A m \in Live' : (RowSame(m) /\ FilesKept(rows[m].path)) \/ SyncRow(m)'
  <2> SUFFICES ASSUME NEW m \in Live', m # i, rows[m].path \notin FilePaths PROVE SyncRow(m)'
    BY <1>1, <1>2, <1>5, <1>6, <1>14
  <2> QED
    BY <1>2 DEF SyncRow, Live
<1>16. SyncOk'
  BY <1>4, <1>15, SyncKept
<1>17. AllSafe'
  <2>1. cache[rows[i].cp] \in Safe'
    BY <1>1, RemoteSafe
  <2>2. \A m \in Live : RowSame(m) \/ cache[rows[m].cp] \in Safe'
    BY <1>6, <2>1
  <2> QED
    BY <2>2, OkFacts, SafeKept
<1>18. UpOk'
  BY UpOkDone
<1> QED
  BY <1>7, <1>9, <1>10, <1>13, <1>16, <1>17, <1>18, OkParts

LEMMA SettledFields ==
  ASSUME OkState, up # NoUpload, NEW e
  PROVE  Settled(e).status = "cached" /\ Settled(e).cp = up.path
<1>1. rows[up.inode] \in RowType /\ rows[up.inode].cp = up.path
  BY OkFacts, UpFile, RowFields
<1> QED
  BY <1>1 DEF Settled, RowType

LEMMA LandsOk ==
  ASSUME OkState, UploadLands PROVE Ok'
<1>1. up # NoUpload
  BY DEF UploadLands
<1>2. PICK i, q : i = up.inode /\ q = up.path
  OBVIOUS
<1>3. /\ i \in Live /\ rows[i] # NoRow /\ rows[i].path = q /\ up.cp = q /\ q \in FilePaths
      /\ rows[i].status = "uploading"
  BY <1>1, <1>2, UpFile
<1>4. /\ files' = [files EXCEPT ![q] = cache[q]] /\ cache' = cache /\ siblings' = siblings
      /\ up' = NoUpload /\ jobs' = jobs /\ tombs' = tombs /\ listed' = listed /\ live' = live
      /\ poll' = poll /\ pop' = pop /\ pre' = pre
  BY <1>2, <1>3 DEF UploadLands, UploadEnds, history
<1>5. PICK r : r = Settled(cache[q])
  OBVIOUS
<1>6. TouchRow(i, r) /\ r.status = "cached" /\ r.cp = q
  BY <1>1, <1>2, <1>3, <1>5, OkFacts, LandsRows, SettledFields
<1>7. files \in [FilePaths -> 0 .. last]
  BY OkFacts, StoreFacts
<1>8. files'[q] = cache[q] /\ \A p \in FilePaths : p # q => files'[p] = files[p]
  BY <1>3, <1>4, <1>7
<1>9. files[q] \notin live
  BY <1>3, OkFacts DEF SyncOk, SyncRow, Unsynced
<1>10. RemoteKept
  <2> SUFFICES ASSUME NEW c \in live, c \in AtRemote PROVE c \in AtRemote'
    BY <1>4 DEF RemoteKept
  <2>1. CASE c \in siblings
    BY <1>4, <2>1 DEF AtRemote
  <2>2. ASSUME NEW p \in FilePaths, c = files[p] PROVE c \in AtRemote'
    <3>1. files'[p] = c
      BY <1>8, <1>9, <2>2
    <3> QED
      BY <3>1 DEF AtRemote
  <2> QED
    BY <2>1, <2>2 DEF AtRemote
<1>11. cache[q] \in AtRemote'
  BY <1>3, <1>8 DEF AtRemote
<1> QED
  BY <1>1, <1>2, <1>4, <1>6, <1>8, <1>10, <1>11, UploadOk

LEMMA ConflictOk ==
  ASSUME OkState, UploadConflict PROVE Ok'
<1>1. up # NoUpload /\ ~Matches
  BY DEF UploadConflict
<1>2. PICK i, q : i = up.inode /\ q = up.path
  OBVIOUS
<1>3. /\ i \in Live /\ rows[i] # NoRow /\ rows[i].path = q /\ rows[i].cp = q /\ q # Root
      /\ q \in FilePaths /\ cache[q] # 0 /\ files[q] # 0
  BY <1>1, <1>2, UpFile DEF Matches
<1>4. /\ siblings' = siblings \cup ({cache[q]} \ {files[q]})
      /\ cache' = [cache EXCEPT ![q] = files[q]]
      /\ rows' = [rows EXCEPT ![i].status = "cached", ![i].etag = files[q]]
  BY <1>2, <1>3 DEF UploadConflict
<1>5. /\ files' = files /\ up' = NoUpload /\ jobs' = jobs /\ tombs' = tombs /\ listed' = listed
      /\ live' = live /\ poll' = poll /\ pop' = pop /\ pre' = pre /\ next' = next
  BY DEF UploadConflict, UploadEnds, history
<1>6. PICK r : r = Settled(files[q])
  OBVIOUS
<1>7. TouchRow(i, r) /\ r.status = "cached" /\ r.cp = q
  <2>1. files[q] \in 0 .. MaxContents
    BY <1>3, OkFacts DEF StoreInv
  <2>2. TouchRow(i, r)
    BY <1>1, <1>2, <1>3, <1>4, <1>5, <1>6, <2>1, OkFacts, SettledRows
  <2> QED
    BY <1>1, <1>2, <1>6, <2>2, SettledFields
<1>8. cache'[q] = files'[q] /\ \A p \in FilePaths : p # q => cache'[p] = cache[p] /\ files'[p] = files[p]
  <2>1. cache \in [FilePaths -> 0 .. last]
    BY OkFacts, StoreFacts
  <2> QED
    BY <1>3, <1>4, <1>5, <2>1
<1>9. RemoteKept
  BY <1>4, <1>5 DEF RemoteKept, AtRemote
<1>10. cache[q] \in AtRemote'
  BY <1>3, <1>4, <1>5 DEF AtRemote
<1> QED
  BY <1>1, <1>2, <1>5, <1>7, <1>8, <1>9, <1>10, UploadOk
-----------------------------------------------------------------------------
\* The listings reach the index.

\* No tombstone hides what is astray.
LEMMA StrayTomb ==
  ASSUME OkState, NEW p \in FilePaths, Astray(p) PROVE ~IsTombstoned(p, tombs)
<1> SUFFICES ASSUME NEW t \in tombs, IsPrefix(t, p) PROVE FALSE
  BY DEF IsTombstoned
<1>1. PICK k \in Pending : jobs[k].path = t /\ jobs[k].op # "mkdir"
  BY OkFacts DEF TombOk
<1>2. t \in Paths /\ p \in Paths
  BY OkFacts, PathKinds DEF StoreInv
<1>3. t # p
  BY <1>1 DEF Astray, JobsOf
<1>4. t \in DirPaths
  BY <1>2, <1>3, PrefixFacts
<1>5. GoodJob(jobs[k]) /\ JobFine(jobs[k]) /\ jobs[k].op # "none" /\ t \notin FilePaths
  BY <1>4, OkFacts, PendingJob, PathKinds DEF JobOk, Pending
<1>6. jobs[k].op = "rmdir"
  <2>1. jobs[k].op # "delete"
    BY <1>1, <1>5 DEF GoodJob
  <2>2. jobs[k].op # "move" /\ jobs[k].op # "replace"
    BY <1>1, <1>5 DEF JobFine, Moves, MoveFine
  <2>3. jobs[k].op \in {"none", "mkdir", "delete", "rmdir", "replace", "move"}
    BY <1>5 DEF GoodJob, JobType
  <2> QED
    BY <1>1, <1>5, <2>1, <2>2, <2>3
<1> QED
  BY <1>1, <1>5, <1>6 DEF JobFine, Astray

\* The entries at S are upserted, the rows in Z swept.
Refilled(S, Z) ==
  /\ Refill(S, Z) /\ \A m \in Live \ Z : RowSame(m)
  /\ \A z \in Z : ContentsOf(z) \cap live = {}
  /\ files' = files /\ siblings' = siblings /\ live' = live /\ jobs' = jobs /\ tombs' = tombs /\ up' = up

LEMMA RefillStray ==
  ASSUME OkState, NEW S, NEW Z, Refilled(S, Z), NEW p \in FilePaths, Astray(p)'
  PROVE  Astray(p) /\ p \notin S
<1>1. Refill(S, Z) /\ files' = files /\ live' = live
  BY DEF Refilled
<1>2. Live' = (Live \ Z) \cup NewInodes /\ RowsInv'
  BY <1>1, OkFacts, RefillRows
<1>3. p \notin S
  <2> SUFFICES ASSUME p \in S PROVE FALSE
    OBVIOUS
  <2>1. PICK n \in Inodes : rows'[n].path = p
    BY <1>1 DEF Refill
  <2>2. n \in Live'
    <3>1. rows'[n] # NoRow
      BY <2>1, NoRowFacts, PathKinds
    <3> QED
      BY <3>1 DEF Live
  <2>3. n \in ByPath(p)'
    BY <2>1, <2>2 DEF ByPath
  <2> QED
    BY <2>3 DEF Astray
<1>4. ASSUME NEW m \in ByPath(p) PROVE m \in ByPath(p)'
  <2>1. m \in Live /\ rows[m].path = p
    BY <1>4 DEF ByPath
  <2>2. m \notin Z
    <3> SUFFICES ASSUME m \in Z PROVE FALSE
      OBVIOUS
    <3>1. files[p] \in ContentsOf(m)
      BY <2>1 DEF ContentsOf
    <3>2. files[p] \in live
      BY <1>1 DEF Astray
    <3> QED
      BY <3>1, <3>2 DEF Refilled
  <2>3. RowSame(m)
    BY <2>1, <2>2 DEF Refilled
  <2> QED
    BY <2>1, <2>3 DEF RowSame, ByPath
<1>5. JobsOf(p)' = JobsOf(p)
  BY DEF Refilled, JobsOf, Pending
<1>6. FilesKept(p)
  BY <1>1 DEF FilesKept
<1>7. Astray(p)
  BY <1>4, <1>5, <1>6, AstrayKept
<1> QED
  BY <1>3, <1>7

LEMMA RefillOk ==
  ASSUME OkState, NEW S, NEW Z, Refilled(S, Z), KnownOk' PROVE Ok'
<1>1. /\ Refill(S, Z) /\ \A m \in Live \ Z : RowSame(m)
      /\ files' = files /\ siblings' = siblings /\ live' = live /\ jobs' = jobs
      /\ tombs' = tombs /\ up' = up
  BY DEF Refilled
<1>2. Live' = (Live \ Z) \cup NewInodes
  BY <1>1, OkFacts, RefillRows
<1>3. LiveKept
  BY <1>1 DEF LiveKept
<1>4. RemoteKept /\ \A p \in FilePaths : FilesKept(p)
  BY <1>1, <1>3, OkFacts, SameRemote
<1>5. Apart' /\ Pending' = Pending
  BY <1>1, OkFacts, SameJobsApart
<1>6. ASSUME NEW k \in Pending' PROVE JobKept(k)
  <2>1. k \in Pending /\ jobs'[k] = jobs[k]
    BY <1>1, <1>5
  <2>2. ASSUME Moves(jobs[k]), files[jobs[k].path] \in live, NEW m \in ByPath(jobs[k].to) PROVE RowSame(m)
    <3>1. jobs[k].path \in FilePaths
      BY <2>1, <2>2, OkFacts DEF JobOk, JobFine, MoveFine
    <3>2. m \in Live /\ jobs[k].to = rows[m].path
      BY <2>2 DEF ByPath
    <3>3. files[jobs[k].path] \in ContentsOf(m)
      BY <2>1, <3>1, <3>2 DEF ContentsOf
    <3>4. m \notin Z
      BY <2>2, <3>3 DEF Refilled
    <3> QED
      BY <1>1, <3>2, <3>4
  <2> QED
    BY <1>4, <2>1, <2>2 DEF JobKept, Reach
<1>7. JobOk'
  BY <1>3, <1>6, OkFacts, JobOkKept
<1>8. TombOk'
  BY <1>1, <1>5, OkFacts, SameTombs
<1>9. ASSUME NEW m \in Live' PROVE (RowSame(m) /\ FilesKept(rows[m].path)) \/ SyncRow(m)'
  <2>1. CASE m \in NewInodes
    <3>1. rows'[m].status = "remote" /\ rows'[m].cp = Root
      BY <1>1, <2>1 DEF Refill
    <3> QED
      BY <3>1 DEF SyncRow, Unsynced
  <2>2. CASE m \in Live \ Z /\ rows[m].path \in FilePaths
    BY <1>1, <1>4, <2>2
  <2>3. CASE m \in Live \ Z /\ rows[m].path \notin FilePaths
    BY <1>1, <2>3 DEF SyncRow, RowSame
  <2> QED
    BY <1>2, <2>1, <2>2, <2>3
<1>10. SyncOk'
  BY <1>3, <1>4, <1>9, SyncKept
<1>11. \A m \in Live : rows[m].status \in Unsynced => RowSame(m)
  BY <1>1 DEF Refill
<1>12. UpOk'
  <2>1. PICK i : i = up.inode
    OBVIOUS
  <2>2. up # NoUpload => RowSame(i)
    BY <1>11, <2>1, UpFile DEF Unsynced
  <2> QED
    BY <1>1, <2>1, <2>2, OkFacts, UpOkKept
<1>13. AllSafe'
  BY <1>1, <1>4, <1>11, OkFacts, SafeKept
<1> QED
  BY <1>5, <1>7, <1>8, <1>10, <1>12, <1>13, OkParts

\* Whatever is the user's and has no row gets one.
LEMMA PollApplyOk ==
  ASSUME OkState, PollApply, causes' = {} PROVE Ok'
<1>1. Refill(Seen, Sweep) /\ Sweep \subseteq Live
  <2>1. PollInv /\ tombs \subseteq Paths
    BY OkFacts DEF SInv, StoreInv
  <2>2. Refill(Seen, Sweep)
    BY <2>1, OkFacts, PollRefills
  <2> QED
    BY <2>2 DEF Refill
<1>2. /\ files' = files /\ siblings' = siblings /\ live' = live /\ jobs' = jobs /\ tombs' = tombs
      /\ up' = up /\ pop' = pop /\ pre' = pre
      /\ poll.pc = "apply"
  BY DEF PollApply, remote
<1>3. cache' = [p \in FilePaths |-> IF \E n \in Sweep : rows[n].cp = p THEN 0 ELSE cache[p]]
  BY PollParts
<1>4. ~\E n \in Sweep : rows[n].status \notin Unsynced /\ ContentsOf(n) \cap live # {}
  BY PollParts DEF Cause
<1>5. \A z \in Sweep : ContentsOf(z) \cap live = {}
  BY <1>1, <1>4 DEF Refill
<1>6. ASSUME NEW m \in Live \ Sweep PROVE RowSame(m)
  <2>1. /\ rows'[m].path = rows[m].path /\ rows'[m].cp = rows[m].cp
        /\ \/ rows'[m].status = rows[m].status
           \/ rows[m].status \notin Unsynced /\ rows'[m].status = "stale"
    BY <1>1, <1>6 DEF Refill
  <2>2. m \in Live'
    BY <1>1, <1>6, OkFacts, RefillRows
  <2>3. ASSUME rows[m].cp # Root PROVE cache'[rows[m].cp] = cache[rows[m].cp]
    <3>1. rows[m].cp \in FilePaths
      BY <2>3, OkFacts, RowFields
    <3>2. ~\E n \in Sweep : rows[n].cp = rows[m].cp
      BY <1>1, <1>6, <2>3, OkFacts, CacheApart
    <3> QED
      BY <1>3, <3>1, <3>2
  <2> QED
    BY <2>1, <2>2, <2>3 DEF RowSame
<1>7. Refilled(Seen, Sweep)
  BY <1>1, <1>2, <1>5, <1>6 DEF Refilled
<1>8. KnownOk'
  <2> SUFFICES ASSUME NEW p \in FilePaths, Astray(p)' PROVE FALSE
    BY DEF KnownOk
  <2>1. Astray(p) /\ p \notin Seen
    BY <1>7, RefillStray
  <2>2. poll.files[p] # 0
    BY <1>2, <2>1, OkFacts DEF KnownOk, Known, PollHas
  <2>3. p \in Seen
    BY <2>1, <2>2, StrayTomb, PathKinds DEF Seen
  <2> QED
    BY <2>1, <2>3
<1> QED
  BY <1>7, <1>8, RefillOk

\* A directory that was listed as l has no astray file left.
LEMMA BatchOk ==
  ASSUME OkState, NEW l, ListPlaced(l, rows), l.inode = 0 <=> l.path = Root,
         NEW S, Refill(S, {}), Upserted(l, S),
         \A p \in FilePaths : Astray(p) /\ ParentPath(p) = l.path => p \in S,
         cache' = cache, files' = files, siblings' = siblings, live' = live, jobs' = jobs,
         tombs' = tombs, up' = up, poll' = poll,
         listed' => listed \/ l.inode = 0,
         \A p \in FilePaths : Known(p) => ListHas(pop, p)' /\ \A n \in Inodes : ListHas(pre[n], p)'
  PROVE  Ok'
<1>1. Live' = Live \cup NewInodes
  <2>1. Live' = (Live \ {}) \cup NewInodes
    BY OkFacts, RefillRows
  <2> QED
    BY <2>1
<1>2. ASSUME NEW m \in Live PROVE RowSame(m)
  <2>1. /\ rows'[m].path = rows[m].path /\ rows'[m].cp = rows[m].cp
        /\ \/ rows'[m].status = rows[m].status
           \/ rows[m].status \notin Unsynced /\ rows'[m].status = "stale"
    BY <1>2 DEF Refill
  <2> QED
    BY <1>1, <2>1 DEF RowSame
<1>3. Refilled(S, {})
  BY <1>2 DEF Refilled
<1>4. ASSUME NEW p \in FilePaths, Astray(p)' PROVE Known(p)'
  <2>1. Astray(p) /\ p \notin S /\ Known(p)
    BY <1>3, <1>4, RefillStray, OkFacts DEF KnownOk
  <2>2. ParentPath(p) # l.path
    BY <2>1
  <2>3. ~Covered(p)'
    <3> SUFFICES ASSUME Covered(p)' PROVE FALSE
      OBVIOUS
    <3>1. ~Covered(p)
      BY <2>1 DEF Known
    <3>2. CASE ParentPath(p) = Root
      BY <2>2, <3>1, <3>2 DEF Covered
    <3>3. CASE ParentPath(p) # Root
      <4>1. PICK d : d = ParentPath(p)
        OBVIOUS
      <4>2. PICK m \in ByPath(d)' : rows'[m].listed
        BY <3>3, <4>1 DEF Covered
      <4>3. m \in Live' /\ rows'[m].path = d
        BY <4>2 DEF ByPath
      <4>4. m \notin NewInodes
        BY <4>2 DEF Upserted
      <4>5. m \in Live /\ rows[m].path = d
        BY <1>1, <1>2, <4>3, <4>4 DEF RowSame
      <4>6. ~rows[m].listed
        BY <3>1, <3>3, <4>1, <4>5 DEF Covered, ByPath
      <4>7. m = l.inode
        BY <4>2, <4>5, <4>6 DEF Upserted
      <4>8. m \in Inodes /\ m # 0 /\ rows[m] # NoRow
        BY <4>5, NoRowFacts DEF Live
      <4> QED
        BY <2>2, <4>1, <4>5, <4>7, <4>8 DEF ListPlaced
    <3> QED
      BY <3>2, <3>3
  <2>4. PollHas(p)'
    BY <2>1 DEF Known, PollHas
  <2> QED
    BY <2>1, <2>3, <2>4 DEF Known
<1>5. KnownOk'
  BY <1>4 DEF KnownOk
<1> QED
  BY <1>3, <1>5, RefillOk

LEMMA PopulateApplyOk ==
  ASSUME OkState, PopulateApply PROVE Ok'
<1>1. PICK l : l = pop
  OBVIOUS
<1>2. PICK S : S = Wanted(pop)
  OBVIOUS
<1>3. Refill(S, {}) /\ Upserted(l, S)
  BY <1>1, <1>2, OkFacts, PopulateRows
<1>4. /\ cache' = cache /\ files' = files /\ siblings' = siblings /\ live' = live /\ jobs' = jobs
      /\ tombs' = tombs /\ up' = up /\ poll' = poll
  BY DEF PopulateApply, remote, history
<1>5. pop' = NoList /\ listed' = (listed \/ pop.inode = 0) /\ pop # NoList
  BY DEF PopulateApply
<1>6. ListPlaced(l, rows) /\ (l.inode = 0 <=> l.path = Root) /\ l.pc = "apply"
  <2>1. ListInv(l) /\ l.pc # "list" /\ ListPlaced(l, rows)
    BY <1>1, OkFacts DEF SInv, ListsInv, OkState, ListsPlaced
  <2>2. l \in ListType /\ l.pc # "idle" /\ (l.inode = 0 <=> l.path = Root)
    BY <1>1, <1>5, <2>1 DEF ListInv, ListFits
  <2>3. l.pc \in {"idle", "list", "apply"}
    BY <2>2 DEF ListType
  <2> QED
    BY <2>1, <2>2, <2>3
<1>7. ASSUME NEW p \in FilePaths, Astray(p), ParentPath(p) = l.path PROVE p \in S
  <2>1. p \in Entries(pop)
    BY <1>1, <1>6, <1>7, OkFacts DEF KnownOk, Known, ListHas
  <2> QED
    BY <1>2, <1>7, <2>1, StrayTomb DEF Wanted
<1>8. ASSUME NEW p \in FilePaths, Known(p)
      PROVE  ListHas(pop, p)' /\ \A n \in Inodes : ListHas(pre[n], p)'
  <2>1. ListHas(pop, p)'
    BY <1>5 DEF ListHas, NoList
  <2>2. ASSUME NEW n \in Inodes PROVE ListHas(pre[n], p)'
    <3>1. PICK k : k = pre'[n]
      OBVIOUS
    <3>2. k = pre[n] \/ k.pc = "list"
      BY <3>1 DEF PopulateApply, NoList
    <3>3. ListHas(k, p)
      BY <1>8, <3>2 DEF Known, ListHas
    <3> QED
      BY <3>1, <3>3 DEF ListHas, Entries
  <2> QED
    BY <2>1, <2>2
<1>9. listed' => listed \/ l.inode = 0
  BY <1>1, <1>5
<1> QED
  BY <1>3, <1>4, <1>6, <1>7, <1>8, <1>9, BatchOk

LEMMA PrefetchApplyOk ==
  ASSUME OkState, NEW n \in Inodes, PrefetchApply(n) PROVE Ok'
<1>1. /\ cache' = cache /\ files' = files /\ siblings' = siblings /\ live' = live /\ jobs' = jobs
      /\ tombs' = tombs /\ up' = up /\ poll' = poll /\ pop' = pop /\ listed' = listed
      /\ pre' = [pre EXCEPT ![n] = NoList] /\ pre[n].pc = "apply"
  BY DEF PrefetchApply, remote
<1>2. ASSUME NEW p \in FilePaths, Known(p)
      PROVE  ListHas(pop, p)' /\ \A m \in Inodes : ListHas(pre[m], p)'
  <2>1. ListHas(pop, p)'
    BY <1>1, <1>2 DEF Known, ListHas, Entries
  <2>2. ASSUME NEW m \in Inodes PROVE ListHas(pre[m], p)'
    <3>1. PICK k : k = pre'[m]
      OBVIOUS
    <3>2. pre \in [Inodes -> ListType]
      BY OkFacts DEF SInv, ListsInv
    <3>3. k = pre[m] \/ k.pc = "idle"
      BY <1>1, <3>1, <3>2 DEF NoList
    <3>4. ListHas(k, p)
      BY <1>2, <3>3 DEF Known, ListHas
    <3> QED
      BY <3>1, <3>4 DEF ListHas, Entries
  <2> QED
    BY <2>1, <2>2
<1> DEFINE stays == rows[n] = NoRow \/ Refuses(pre[n], Entries(pre[n]))
<1>3. CASE stays
  <2>1. Quiet
    BY <1>1, <1>3 DEF PrefetchApply, Quiet
  <2>2. ASSUME NEW p \in FilePaths, Astray(p), Known(p)
        PROVE  PollHas(p)' /\ ListHas(pop, p)' /\ \A m \in Inodes : ListHas(pre[m], p)'
    <3>1. PollHas(p)'
      BY <1>1, <2>2 DEF Known, PollHas
    <3> QED
      BY <1>2, <2>2, <3>1
  <2> QED
    BY <1>1, <2>1, <2>2, ListingOk
<1>4. CASE ~stays
  <2>1. PICK l : l = pre[n]
    OBVIOUS
  <2>2. PICK S : S = Entries(pre[n])
    OBVIOUS
  <2>3. Refill(S, {}) /\ Upserted(l, S)
    BY <1>4, <2>1, <2>2, OkFacts, PrefetchRows
  <2>4. ListPlaced(l, rows) /\ (l.inode = 0 <=> l.path = Root)
    <3>1. ListInv(l) /\ ListPlaced(l, rows)
      BY <2>1, OkFacts DEF SInv, ListsInv, OkState, ListsPlaced
    <3> QED
      BY <3>1 DEF ListInv, ListFits
  <2>5. ASSUME NEW p \in FilePaths, Astray(p), ParentPath(p) = l.path PROVE p \in S
    BY <1>1, <2>1, <2>2, <2>5, OkFacts DEF KnownOk, Known, ListHas
  <2> QED
    BY <1>1, <1>2, <2>3, <2>4, <2>5, BatchOk
<1> QED
  BY <1>3, <1>4

\* A directory that is not at the remote has no file there.
LEMMA PopulateLocalOk ==
  ASSUME OkState, NEW n \in DirInodes, PopulateLocal(n) PROVE Ok'
<1>1. TouchRow(n, [rows[n] EXCEPT !.listed = TRUE])
  BY OkFacts, LocalRows
<1>2. /\ cache' = cache /\ files' = files /\ siblings' = siblings /\ live' = live /\ jobs' = jobs
      /\ tombs' = tombs /\ up' = up /\ poll' = poll /\ pop' = pop /\ pre' = pre /\ listed' = listed
      /\ ~CanList(PathOf(n))
  BY DEF PopulateLocal, remote, history, tasks
<1>3. n \in Live /\ n \in Inodes /\ n # 0 /\ rows[n].path \in DirPaths /\ rows[n] \in RowType
  BY OkFacts, LiveFacts, RowFields, NoRowFacts
<1>4. rows[n].path \notin dirs /\ rows[n].path \notin FilePaths
  BY <1>2, <1>3, PathKinds DEF CanList, PathOf
<1>5. /\ rows'[n] = [rows[n] EXCEPT !.listed = TRUE] /\ \A m \in Inodes \ {n} : rows'[m] = rows[m]
      /\ Live' = Live
  BY <1>1, OkFacts, TouchRows
<1>6. rows'[n].path = rows[n].path /\ rows'[n].cp = rows[n].cp /\ rows'[n].status = rows[n].status
  BY <1>3, <1>5 DEF RowType
<1>7. ASSUME NEW m \in Live PROVE RowSame(m) /\ (m # n => rows'[m] = rows[m])
  <2>1. CASE m = n
    BY <1>2, <1>3, <1>5, <1>6, <2>1 DEF RowSame
  <2>2. CASE m # n
    BY <1>2, <1>5, <2>2 DEF RowSame, Live
  <2> QED
    BY <1>5, <2>1, <2>2 DEF Live
<1>8. LiveKept
  BY <1>2 DEF LiveKept
<1>9. RemoteKept /\ \A p \in FilePaths : FilesKept(p)
  BY <1>2, <1>8, OkFacts, SameRemote
<1>10. Apart' /\ Pending' = Pending
  BY <1>2, OkFacts, SameJobsApart
<1>11. ASSUME NEW k \in Pending' PROVE JobKept(k)
  <2>1. \A m \in ByPath(jobs[k].to) : RowSame(m)
    BY <1>7 DEF ByPath
  <2> QED
    BY <1>2, <1>9, <1>10, <2>1, AllJobsKept
<1>12. JobOk'
  BY <1>8, <1>11, OkFacts, JobOkKept
<1>13. TombOk'
  BY <1>2, <1>10, OkFacts, SameTombs
<1>14. ASSUME NEW p \in FilePaths, Astray(p)' PROVE Known(p)'
  <2>1. \A m \in ByPath(p) : m \in ByPath(p)'
    BY <1>7 DEF ByPath, RowSame
  <2>2. JobsOf(p)' = JobsOf(p)
    BY <1>2, <1>10 DEF JobsOf
  <2>3. Astray(p) /\ Known(p)
    BY <1>9, <1>14, <2>1, <2>2, OkFacts, AstrayKept DEF KnownOk
  <2>4. files[p] # 0
    BY <2>3, OkFacts DEF Astray, StoreInv
  <2>5. ParentPath(p) \in dirs \cup {Root}
    BY <2>4, OkFacts DEF StoreInv, TreeOf
  <2>6. ~Covered(p)'
    <3> SUFFICES ASSUME Covered(p)' PROVE FALSE
      OBVIOUS
    <3>1. ~Covered(p)
      BY <2>3 DEF Known
    <3>2. CASE ParentPath(p) = Root
      BY <1>2, <3>1, <3>2 DEF Covered
    <3>3. CASE ParentPath(p) # Root
      <4>1. PICK d : d = ParentPath(p)
        OBVIOUS
      <4>2. PICK m \in ByPath(d)' : rows'[m].listed
        BY <3>3, <4>1 DEF Covered
      <4>3. m \in Live /\ rows'[m].path = d
        BY <1>5, <4>2 DEF ByPath
      <4>4. m # n
        BY <1>4, <1>6, <2>5, <3>3, <4>1, <4>3
      <4>5. rows[m].path = d /\ rows[m].listed
        BY <1>7, <4>2, <4>3, <4>4
      <4> QED
        BY <3>1, <3>3, <4>1, <4>3, <4>5 DEF Covered, ByPath
    <3> QED
      BY <3>2, <3>3
  <2>7. PollHas(p)' /\ ListHas(pop, p)' /\ \A m \in Inodes : ListHas(pre[m], p)'
    BY <1>2, <2>3 DEF Known, PollHas, ListHas, Entries
  <2> QED
    BY <2>6, <2>7 DEF Known
<1>15. KnownOk'
  BY <1>14 DEF KnownOk
<1>16. \A m \in Live' : (RowSame(m) /\ FilesKept(rows[m].path)) \/ SyncRow(m)'
  <2> SUFFICES ASSUME NEW m \in Live', rows[m].path \notin FilePaths PROVE SyncRow(m)'
    BY <1>5, <1>7, <1>9
  <2> QED
    BY <1>5, <1>7 DEF SyncRow, RowSame
<1>17. SyncOk'
  BY <1>8, <1>9, <1>16, SyncKept
<1>18. UpOk'
  <2>1. PICK i : i = up.inode
    OBVIOUS
  <2>2. up # NoUpload => RowSame(i)
    BY <1>7, <2>1, UpFile
  <2> QED
    BY <1>2, <2>1, <2>2, OkFacts, UpOkKept
<1>19. AllSafe'
  BY <1>2, <1>7, <1>9, OkFacts, SafeKept
<1> QED
  BY <1>10, <1>12, <1>13, <1>15, <1>17, <1>18, <1>19, OkParts

-----------------------------------------------------------------------------
LEMMA OkStep ==
  ASSUME OkState, [Next]_vars, causes' = {}
  PROVE  Ok'
<1>1. ASSUME NEW parent \in DirInodes \cup {0}, NEW name \in FileNames, Create(parent, name)
      PROVE  Ok'
  BY <1>1, CreateOk
<1>2. ASSUME NEW n \in Live, Write(n) PROVE Ok'
  BY <1>2, WriteOk
<1>3. ASSUME NEW name \in DirNames, handle_mkdir(name) PROVE Ok'
  BY <1>3, MkdirOk
<1>4. ASSUME NEW n \in Live, handle_unlink(n) PROVE Ok'
  BY <1>4, UnlinkOk
<1>5. ASSUME NEW n \in Live, handle_rmdir(n) PROVE Ok'
  BY <1>5, RmdirOk
<1>6. ASSUME NEW n \in Live, NEW parent \in DirInodes \cup {0}, NEW name \in FileNames \cup DirNames, handle_rename(n, parent, name)
      PROVE  Ok'
  BY <1>6, RenameOk
<1>7. ASSUME NEW j \in Pending, JobMkdir(j) PROVE Ok'
  BY <1>7, JobMkdirOk
<1>8. ASSUME NEW j \in Pending, JobDelete(j) PROVE Ok'
  BY <1>8, JobDeleteOk
<1>9. ASSUME NEW j \in Pending, JobRmdir(j) PROVE Ok'
  BY <1>9, JobRmdirOk
<1>10. ASSUME NEW j \in Pending, JobReplace(j) PROVE Ok'
  BY <1>10, JobReplaceOk
<1>11. ASSUME NEW j \in Pending, JobMove(j) PROVE Ok'
  BY <1>11, JobMoveOk
<1>12. ASSUME NEW j \in Pending, JobFails(j) PROVE Ok'
  BY <1>12 DEF JobFails
<1>13. ASSUME NEW t \in tombs, TombstoneExpires(t) PROVE Ok'
  BY <1>13, ExpiresOk
<1>14. ASSUME Restart PROVE Ok'
  BY <1>14, RestartOk
<1>15. ASSUME NEW n \in Live, Hydrate(n) PROVE Ok'
  BY <1>15, HydrateOk
<1>16. ASSUME NEW n \in Live, HydratePrunes(n) PROVE Ok'
  BY <1>16, PrunesOk
<1>17. ASSUME NEW n \in Live, UploadStart(n) PROVE Ok'
  BY <1>17, UploadStartOk
<1>18. ASSUME NEW n \in Live, UploadReverts(n) PROVE Ok'
  BY <1>18, RevertsOk
<1>19. ASSUME UploadLands PROVE Ok'
  BY <1>19, LandsOk
<1>20. ASSUME UploadConflict PROVE Ok'
  BY <1>20, ConflictOk
<1>21. ASSUME UploadFails PROVE Ok'
  BY <1>21, FailsOk
<1>22. ASSUME PollList PROVE Ok'
  BY <1>22, PollListOk
<1>23. ASSUME PollApply PROVE Ok'
  BY <1>23, PollApplyOk
<1>24. ASSUME NEW n \in DirInodes \cup {0}, Populate(n) PROVE Ok'
  BY <1>24, PopulateOk
<1>25. ASSUME NEW n \in DirInodes, PopulateLocal(n) PROVE Ok'
  BY <1>25, PopulateLocalOk
<1>26. ASSUME PopulateApply PROVE Ok'
  BY <1>26, PopulateApplyOk
<1>27. ASSUME PopulateFails PROVE Ok'
  BY <1>27, PopulateFailsOk
<1>28. ASSUME NEW n \in Inodes, PrefetchList(n) PROVE Ok'
  BY <1>28, PrefetchListOk
<1>29. ASSUME NEW n \in Inodes, PrefetchApply(n) PROVE Ok'
  BY <1>29, PrefetchApplyOk
<1>31. ASSUME PollRefused PROVE Ok'
  BY <1>31, OkFacts, PollFine DEF OkState, SInv, StoreInv, PollRefused
<1>30. CASE UNCHANGED vars
  BY <1>30, StutterOk
<1> QED
  BY <1>1, <1>2, <1>3, <1>4, <1>5, <1>6, <1>7, <1>8, <1>9, <1>10, <1>11, <1>12,
     <1>13, <1>14, <1>15, <1>16, <1>17, <1>18, <1>19, <1>20, <1>21, <1>22,
     <1>23, <1>24, <1>25, <1>26, <1>27, <1>28, <1>29, <1>30, <1>31 DEF Next

LEMMA OkInvStep ==
  ASSUME SInv, TreeInv, CacheInv, OkInv, [Next]_vars PROVE OkInv'
<1> SUFFICES ASSUME causes' = {} PROVE Ok'
  BY DEF OkInv
<1>1. causes = {}
  BY CausesGrow
<1>2. OkState
  BY <1>1 DEF OkState, OkInv, TreeInv, CacheInv, SInv
<1> QED
  BY <1>2, OkStep
LEMMA InitOk == Init => OkInv
<1> SUFFICES ASSUME Init PROVE Ok
  BY DEF OkInv
<1>1. Pending = {} /\ up = NoUpload /\ tombs = {}
  BY DEF Init, Pending, NoJob
<1>2. Apart /\ JobOk /\ TombOk /\ UpOk
  BY <1>1 DEF Apart, JobOk, TombOk, UpOk
<1>3. \A p \in FilePaths : PollHas(p) /\ ListHas(pop, p) /\ \A n \in Inodes : ListHas(pre[n], p)
  <2>1. NoPoll.pc # "apply" /\ NoList.pc # "apply"
    BY DEF NoPoll, NoList
  <2>2. poll = NoPoll /\ pop = NoList /\ \A n \in Inodes : pre[n] = NoList
    BY DEF Init
  <2> QED
    BY <2>1, <2>2 DEF PollHas, ListHas
<1>4. PICK d \in DirNames, f \in FileNames, g \in FileNames :
        f # g /\ InitRemote(d, f) /\ (FreshMount \/ KnownMount(d, f, g))
  BY InitCases
<1>5. /\ <<f>> # <<g>> /\ <<f>> \in FilePaths /\ <<g>> \in FilePaths /\ <<d, f>> \in FilePaths
      /\ <<d>> \notin FilePaths /\ <<f>> # <<d, f>> /\ <<g>> # <<d, f>> /\ <<f>> # Root /\ <<g>> # Root
  BY <1>4, InitPaths
<1>6. /\ files[<<f>>] = 1 /\ files[<<d, f>>] = 2 /\ files[<<g>>] = 0
      /\ \A p \in FilePaths : p # <<f>> /\ p # <<d, f>> => files[p] = 0
  BY <1>4, <1>5 DEF InitRemote
<1>7. 1 \in AtRemote /\ 2 \in AtRemote
  BY <1>5, <1>6 DEF AtRemote
<1>8. CASE FreshMount
  <2>1. Live = {} /\ listed = FALSE /\ live = {1, 2}
    BY <1>8 DEF FreshMount, Live
  <2>2. SyncOk
    BY <2>1 DEF SyncOk
  <2>3. \A p \in FilePaths : ~Covered(p)
    BY <2>1 DEF Covered, ByPath
  <2>4. KnownOk
    BY <1>3, <2>3 DEF KnownOk, Known
  <2>5. AllSafe
    BY <1>7, <2>1 DEF AllSafe, Safe, AtRemote
  <2> QED
    BY <1>2, <2>2, <2>4, <2>5 DEF Ok
<1>9. CASE KnownMount(d, f, g)
  <2>1. Live = {1, 2, 3, 4} /\ live = {1, 2, 3}
    BY <1>9 DEF KnownMount
  <2>2. cache[<<f>>] = 1 /\ cache[<<g>>] = 3
    BY <1>5, <1>9 DEF KnownMount
  <2>3. SyncRow(1)
    BY <1>5, <1>9 DEF KnownMount, SyncRow
  <2>4. SyncRow(2)
    BY <1>6, <1>7, <1>9, <2>2 DEF KnownMount, SyncRow, Unsynced
  <2>5. SyncRow(3)
    BY <1>9 DEF KnownMount, SyncRow, Unsynced
  <2>6. SyncRow(4)
    BY <1>6, <1>9, <2>1 DEF KnownMount, SyncRow, Unsynced
  <2>7. SyncOk
    BY <2>1, <2>3, <2>4, <2>5, <2>6 DEF SyncOk
  <2>8. \A p \in FilePaths : ~Astray(p)
    <3>1. 2 \in ByPath(<<f>>) /\ 3 \in ByPath(<<d, f>>)
      BY <1>9, <2>1 DEF KnownMount, ByPath
    <3>2. 0 \notin live
      BY <2>1
    <3> QED
      BY <1>6, <3>1, <3>2 DEF Astray
  <2>9. KnownOk
    BY <2>8 DEF KnownOk
  <2>10. 3 \in Safe
    <3>1. 4 \in Live /\ rows[4].cp # Root /\ cache[rows[4].cp] = 3
      BY <1>5, <1>9, <2>1, <2>2 DEF KnownMount
    <3> QED
      BY <3>1 DEF Safe
  <2>11. AllSafe
    BY <1>7, <2>1, <2>10 DEF AllSafe, Safe, AtRemote
  <2> QED
    BY <1>2, <2>7, <2>9, <2>11 DEF Ok
<1> QED
  BY <1>4, <1>8, <1>9

\* Whatever uploads, polls, listings and background calls do, and in whatever order,
\* the content of every file the user has is at the remote or in the cache file of a
\* row, as long as none of the known exceptions has happened.
THEOREM NothingIsLost == Spec => []NothingLost
<1>1. SInv /\ TreeInv /\ CacheInv /\ OkInv /\ [Next]_vars => (SInv /\ TreeInv /\ CacheInv /\ OkInv)'
  BY SInvStep, TreeStep, CacheInvStep, OkInvStep
<1>2. OkInv => NothingLost
  BY DEF OkInv, Ok, AllSafe, NothingLost
<1> QED
  BY InitSInv, InitTree, InitCache, InitOk, <1>1, <1>2, PTL DEF Spec
=============================================================================
