---------------------- MODULE FileCacheDirectoryTreeProofs ----------------------
(***************************************************************************)
(* The cache behind FileTreeRepository, for every set of paths, contents   *)
(* and depths, every width of int and any number of users, calls and       *)
(* changes.                                                                *)
(*                                                                         *)
(* First paths and what is needed of the registry's arithmetic; then the   *)
(* trees of CachedDirectory, which stay well formed under every operation; *)
(* then the cache, which implements the registry; its observers; its       *)
(* roots; what it finds, which exists and is shown as what it is; and what *)
(* it should find, of which nothing is missing.                            *)
(***************************************************************************)
EXTENDS FileCacheDirectoryTree, FiniteSetTheorems, SequenceTheorems, WellFoundedInduction, TLAPS

-----------------------------------------------------------------------------
(* Paths *)

\* A path is a nonempty sequence, and an int counts its names.
LEMMA PathsAreLong == \A p \in Path : p \in Seq(STRING) /\ Len(p) \in 1..MaxInt /\ Len(p) \in Nat
<1> SUFFICES ASSUME NEW p \in Path
             PROVE  p \in Seq(STRING) /\ Len(p) \in 1..MaxInt /\ Len(p) \in Nat
    OBVIOUS
<1>1. p \in Seq(STRING) /\ p # <<>> /\ Len(p) <= MaxInt /\ MaxInt \in Nat
    BY PathAssumption
<1>2. Len(p) \in Nat \ {0}
    BY <1>1, EmptySeq
<1> QED BY <1>1, <1>2

\* startsWith is a partial order, and two prefixes of one path are in order.
LEMMA StartsWithIsOrder ==
    /\ \A p \in Path : StartsWith(p, p)
    /\ \A p, q, r \in Path : StartsWith(p, q) /\ StartsWith(q, r) => StartsWith(p, r)
    /\ \A p, q \in Path : StartsWith(p, q) /\ StartsWith(q, p) => p = q
    /\ \A p, q, r \in Path :
         StartsWith(p, q) /\ StartsWith(p, r) => StartsWith(q, r) \/ StartsWith(r, q)
<1>1. ASSUME NEW p \in Path, NEW q \in Path, StartsWith(p, q), StartsWith(q, p) PROVE p = q
    <2>1. Len(p) = Len(q) /\ \A i \in 1..Len(p) : p[i] = q[i]
        BY <1>1, PathsAreLong DEF StartsWith
    <2> QED BY <2>1, PathsAreLong
<1>2. ASSUME NEW p \in Path, NEW q \in Path, NEW r \in Path, StartsWith(p, q), StartsWith(p, r)
      PROVE  StartsWith(q, r) \/ StartsWith(r, q)
    <2>1. CASE Len(q) <= Len(r)
        BY <1>2, <2>1, PathsAreLong DEF StartsWith
    <2>2. CASE Len(r) <= Len(q)
        BY <1>2, <2>2, PathsAreLong DEF StartsWith
    <2> QED BY <2>1, <2>2, PathsAreLong
<1>3. ASSUME NEW p \in Path, NEW q \in Path, NEW r \in Path, StartsWith(p, q), StartsWith(q, r)
      PROVE  StartsWith(p, r)
    BY <1>3, PathsAreLong DEF StartsWith
<1>4. \A p \in Path : StartsWith(p, p)
    BY PathsAreLong DEF StartsWith
<1> QED BY <1>1, <1>2, <1>3, <1>4

\* The number of names between a path and one of its prefixes is a natural
\* number that an int can hold, and is zero only for the path itself.
LEMMA DistanceIsNat ==
    ASSUME NEW p \in Path, NEW q \in Path, StartsWith(p, q)
    PROVE  /\ Distance(q, p) \in 0..MaxInt
           /\ Distance(q, p) = 0 => p = q
           /\ Len(q) <= Len(p)
<1>1. Len(q) \in Nat /\ Len(p) \in Nat /\ Len(q) <= Len(p) /\ Len(p) <= MaxInt /\ MaxInt \in Nat
    BY PathsAreLong, PathAssumption DEF StartsWith
<1>2. Distance(q, p) \in 0..MaxInt
    BY <1>1 DEF Distance
<1>3. ASSUME Distance(q, p) = 0 PROVE p = q
    <2>1. Len(p) = Len(q)
        BY <1>1, <1>3 DEF Distance
    <2>2. \A i \in 1..Len(q) : p[i] = q[i]
        BY DEF StartsWith
    <2> QED BY <2>1, <2>2, PathsAreLong
<1> QED BY <1>1, <1>2, <1>3

\* A path below q lies at least as far below a prefix of q as q does.
LEMMA DistanceGrows ==
    ASSUME NEW p \in Path, NEW q \in Path, NEW r \in Path,
           StartsWith(p, q), StartsWith(q, r)
    PROVE  StartsWith(p, r) /\ Distance(r, q) <= Distance(r, p)
<1>1. StartsWith(p, r) /\ Len(q) <= Len(p)
    BY StartsWithIsOrder, DistanceIsNat
<1> QED BY <1>1, PathsAreLong DEF Distance

\* The registry's paths are those of the cache.
LEMMA SamePaths ==
    /\ \A p, q : Registry!StartsWith(p, q) <=> StartsWith(p, q)
    /\ \A p, q : Registry!Distance(p, q) = Distance(p, q)
BY DEF Registry!StartsWith, StartsWith, Registry!Distance, Distance

LEMMA CoversMeans ==
    \A reg, dir, p : Registry!Covers(reg, dir, p) <=>
        /\ StartsWith(p, dir)
        /\ p = dir \/ Distance(dir, p) <= Registry!CompMaxDepth(reg[dir])
BY SamePaths DEF Registry!Covers

LEMMA DepthsBelowMeans ==
    \A reg, p : Registry!DepthsBelow(reg, p) =
        {Registry!Int32(reg[dir] - Distance(dir, p)) : dir \in {d \in DOMAIN reg : StartsWith(p, d)}}
BY SamePaths DEF Registry!DepthsBelow
-----------------------------------------------------------------------------
(* Depths *)

\* A nonempty set of ints has a largest element: the loop of maxDepthFor
\* computes one.
LEMMA LargestInt ==
    ASSUME NEW S \in SUBSET (Registry!MinInt..MaxInt), S # {}
    PROVE  \E m \in S : \A n \in S : n <= m
<1> DEFINE gap == {MaxInt - n : n \in S}
           less == {ss \in Nat \X Nat : ss[1] < ss[2]}
<1>0. MaxInt \in Nat /\ Registry!MinInt \in Int
    BY PathAssumption, TreeAssumption DEF Registry!MinInt
<1>1. gap \subseteq Nat /\ gap # {}
    <2>1. ASSUME NEW n \in S PROVE MaxInt - n \in Nat
        BY <1>0
    <2> QED BY <2>1
<1>2. less = OpToRel(<, Nat)
    BY Zenon DEF OpToRel
<1>3. PICK least \in gap : \A g \in gap : ~ (<<g, least>> \in less)
    <2> HIDE DEF gap, less
    <2>1. IsWellFoundedOn(less, Nat)
        BY <1>2, NatLessThanWellFounded
    <2> QED BY <1>1, <2>1, WFMin
<1>4. \A g \in gap : least <= g
    <2> SUFFICES ASSUME NEW g \in gap PROVE least <= g
        OBVIOUS
    <2>1. ~ (<<g, least>> \in less)
        BY <1>3
    <2>2. g \in Nat /\ least \in Nat
        BY <1>1
    <2> HIDE DEF gap
    <2> QED BY <2>1, <2>2
<1>5. PICK m \in S : least = MaxInt - m
    OBVIOUS
<1>6. \A n \in S : n <= m
    <2> SUFFICES ASSUME NEW n \in S PROVE n <= m
        OBVIOUS
    <2>1. MaxInt - n \in gap
        OBVIOUS
    <2>2. MaxInt - m <= MaxInt - n
        BY <1>4, <1>5, <2>1
    <2> QED BY <2>2, <1>0
<1> QED BY <1>6

\* No subtraction of maxDepthFor and no addition of compMaxDepth overflows.
LEMMA NoOverflow ==
    ASSUME Registry!TypeOK, NEW p \in Path, NEW dir \in DOMAIN registered, StartsWith(p, dir)
    PROVE  /\ Registry!Int32(registered[dir] - Distance(dir, p)) = registered[dir] - Distance(dir, p)
           /\ registered[dir] - Distance(dir, p) \in Registry!MinInt..MaxInt
           /\ Registry!CompMaxDepth(registered[dir])
                = IF registered[dir] = MaxInt THEN MaxInt ELSE registered[dir] + 1
<1>1. MaxInt \in Nat /\ registered[dir] \in -1..MaxInt
    BY PathAssumption, TreeAssumption DEF Registry!TypeOK
<1>2. Distance(dir, p) \in 0..MaxInt
    BY DistanceIsNat DEF Registry!TypeOK
<1> QED BY <1>1, <1>2 DEF Registry!Int32, Registry!CompMaxDepth, Registry!MinInt

\* What maxDepthFor answers: an upper bound of what the registered directories
\* leave for the path, and one of these values unless there is none.
LEMMA MaxDepthForIsLargest ==
    ASSUME Registry!TypeOK, NEW p \in Path
    PROVE  /\ Registry!MaxDepthFor(registered, p) \in Registry!DepthsBelow(registered, p) \cup {Registry!MinInt}
           /\ \A d \in Registry!DepthsBelow(registered, p) : d <= Registry!MaxDepthFor(registered, p)
<1> DEFINE S == Registry!DepthsBelow(registered, p)
<1>0. MaxInt \in Nat
    BY PathAssumption, TreeAssumption
<1>1. S \in SUBSET (Registry!MinInt..MaxInt)
    BY NoOverflow, DepthsBelowMeans
<1>2. \E m \in S \cup {Registry!MinInt} : \A d \in S : d <= m
    <2>1. CASE S = {}
        BY <2>1
    <2>2. CASE S # {}
        BY <1>1, <2>2, LargestInt
    <2> QED BY <2>1, <2>2
<1> HIDE DEF S
<1> QED BY <1>2 DEF Registry!MaxDepthFor, S

\* A larger depth covers whatever a smaller one covers.
LEMMA DeeperCoversMore ==
    ASSUME NEW p \in Path, NEW dir \in Path, StartsWith(p, dir),
           NEW reg, NEW bigger, reg[dir] \in Depth, bigger[dir] \in Depth,
           reg[dir] <= bigger[dir], Registry!Covers(reg, dir, p)
    PROVE  Registry!Covers(bigger, dir, p)
<1>1. MaxInt \in Nat /\ reg[dir] \in -1..MaxInt /\ bigger[dir] \in -1..MaxInt
    BY PathAssumption, TreeAssumption
<1>2. Distance(dir, p) \in 0..MaxInt
    BY DistanceIsNat
<1>3. Registry!CompMaxDepth(reg[dir]) <= Registry!CompMaxDepth(bigger[dir])
    BY <1>1 DEF Registry!CompMaxDepth, Registry!Int32, Registry!MinInt
<1>4. Registry!CompMaxDepth(reg[dir]) \in Int /\ Registry!CompMaxDepth(bigger[dir]) \in Int
    BY <1>1 DEF Registry!CompMaxDepth, Registry!Int32, Registry!MinInt
<1> QED BY <1>2, <1>3, <1>4, CoversMeans

\* addDirectory keeps accepting every path that was accepted before it.
LEMMA AddStepNeverNarrows ==
    ASSUME Registry!TypeOK, NEW path \in Path, NEW maxDepth \in Depth, Registry!AddDirectory(path, maxDepth),
           NEW p \in Path, Registry!Accepts(registered, p)
    PROVE  Registry!Accepts(registered', p)
<1>1. PICK dir \in DOMAIN registered : Registry!Covers(registered, dir, p)
    BY DEF Registry!Accepts
<1>2. dir \in Path /\ StartsWith(p, dir) /\ registered[dir] \in Depth
    BY <1>1, CoversMeans DEF Registry!TypeOK
<1>3. dir \in DOMAIN registered' /\ registered'[dir] \in Depth
    BY <1>2 DEF Registry!AddDirectory, Registry!Put
<1>4. registered[dir] <= registered'[dir]
    <2>0. \A d \in Depth : d \in Int
        BY PathAssumption, TreeAssumption
    <2>1. registered[dir] \in Int /\ maxDepth \in Int
        BY <1>2, <2>0
    <2>2. CASE dir = path
        BY <2>1, <2>2 DEF Registry!AddDirectory, Registry!Extends, Registry!Put
    <2>3. CASE dir # path
        BY <2>1, <2>3 DEF Registry!AddDirectory, Registry!Put
    <2> QED BY <2>2, <2>3
<1>5. Registry!Covers(registered', dir, p)
    BY <1>1, <1>2, <1>3, <1>4, DeeperCoversMore
<1> QED BY <1>3, <1>5 DEF Registry!Accepts

-----------------------------------------------------------------------------
(* Paths above one another *)

\* A path of several names has a parent.
LEMMA ParentIsThere ==
    ASSUME NEW q \in Path, Len(q) > 1
    PROVE  /\ Parent(q) \in Path /\ StrictlyBelow(q, Parent(q)) /\ Len(Parent(q)) = Len(q) - 1
           /\ \A i \in 1..Len(q) - 1 : Parent(q)[i] = q[i]
<1>1. q \in Seq(STRING) /\ Len(q) \in Nat /\ Len(q) - 1 \in 1..Len(q)
    BY PathsAreLong
<1> DEFINE parent == SubSeq(q, 1, Len(q) - 1)
<1>2. /\ parent \in Path /\ Len(parent) = Len(q) - 1
      /\ \A i \in 1..Len(q) - 1 : parent[i] = q[i]
    BY <1>1, PathAssumption
<1>3. StartsWith(q, parent)
    BY <1>1, <1>2 DEF StartsWith
<1>4. q # parent
    <2> HIDE DEF parent
    <2> QED BY <1>1, <1>2
<1> QED BY <1>2, <1>3, <1>4 DEF Parent, StrictlyBelow

\* A path that lies strictly below another one has a parent at or below it.
LEMMA ParentIsAbove ==
    ASSUME NEW q \in Path, NEW p \in Path, StrictlyBelow(q, p)
    PROVE  /\ Len(q) > 1 /\ Parent(q) \in Path /\ StrictlyBelow(q, Parent(q))
           /\ StartsWith(Parent(q), p) /\ Len(Parent(q)) = Len(q) - 1
           /\ ~StartsWith(p, q)
<1>1. Len(q) \in Nat /\ Len(p) \in Nat \ {0} /\ StartsWith(q, p) /\ q # p
    BY PathsAreLong DEF StrictlyBelow
<1>2. Len(p) < Len(q)
    <2>1. Len(p) <= Len(q)
        BY DistanceIsNat, <1>1
    <2>2. Distance(p, q) # 0
        BY DistanceIsNat, <1>1
    <2> QED BY <1>1, <2>1, <2>2 DEF Distance
<1>3. Len(q) > 1
    BY <1>1, <1>2
<1>4. StartsWith(Parent(q), p)
    BY <1>1, <1>2, <1>3, ParentIsThere DEF StartsWith
<1>5. ~StartsWith(p, q)
    BY <1>1, StartsWithIsOrder
<1> QED BY <1>3, <1>4, <1>5, ParentIsThere

\* What lies above a path lies above its parent or is its parent, and what lies
\* below its parent is not strictly above the path.
LEMMA AboveIsAboveParent ==
    ASSUME NEW q \in Path, NEW p \in Path, StrictlyBelow(q, p)
    PROVE  p = Parent(q) \/ StrictlyBelow(Parent(q), p)
BY ParentIsAbove DEF StrictlyBelow

\* A path and what lies strictly below what.
LEMMA BelowIsOrder ==
    /\ \A p, q, r \in Path : StrictlyBelow(p, q) /\ StartsWith(q, r) => StrictlyBelow(p, r)
    /\ \A p, q, r \in Path : StartsWith(p, q) /\ StrictlyBelow(q, r) => StrictlyBelow(p, r)
    /\ \A p, q, r \in Path :
         StartsWith(p, q) /\ StartsWith(p, r) => StartsWith(q, r) \/ StrictlyBelow(r, q)
BY StartsWithIsOrder DEF StrictlyBelow

\* The distances along a path add up.
LEMMA DistancesAdd ==
    ASSUME NEW p \in Path, NEW q \in Path, NEW r \in Path, StartsWith(p, q), StartsWith(q, r)
    PROVE  Distance(r, p) = Distance(r, q) + Distance(q, p)
BY PathsAreLong DEF Distance

LEMMA StrictIsFar ==
    ASSUME NEW p \in Path, NEW q \in Path, StrictlyBelow(p, q)
    PROVE  Distance(q, p) \in 1..MaxInt
BY DistanceIsNat, PathAssumption DEF StrictlyBelow
-----------------------------------------------------------------------------
(* Well formed trees *)

\* All paths of a tree.
Entered(tree) == DirPaths(tree) \cup FilePaths(tree)

\* A tree lies below its root, which is one of its directories.
Rooted(tree, root) ==
    /\ root \in DirPaths(tree) /\ DirPaths(tree) \subseteq Path
    /\ DOMAIN tree.files \subseteq Path \X {"name", "path"}
    /\ \A q \in DirPaths(tree) : StartsWith(q, root)
    /\ \A f \in DOMAIN tree.files : StrictlyBelow(f[1], root)

\* Whatever lies between the root and an entry is a directory that has entries.
Supported(tree, root) ==
    \A q \in Entered(tree), p \in Path :
        StrictlyBelow(q, p) /\ StartsWith(p, root) => p \in DirPaths(tree) /\ tree.dirs[p].depth >= 0

\* A directory has the depth that its distance from the root leaves it, or is a leaf.
Levelled(tree, root) ==
    /\ tree.dirs[root].depth \in MinInt..MaxInt
    /\ \A q \in DirPaths(tree) :
         tree.dirs[q].depth \in {-1, SubdirectoryDepth(tree.dirs[root].depth, Distance(root, q))}

WellFormed(tree, root) == Rooted(tree, root) /\ Supported(tree, root) /\ Levelled(tree, root)

\* An entry of the files map has one of two names.
LEMMA FilesAreNamed ==
    ASSUME NEW tree, NEW root, Rooted(tree, root)
    PROVE  /\ \A p : p \in FilePaths(tree) <=>
                       <<p, "name">> \in DOMAIN tree.files \/ <<p, "path">> \in DOMAIN tree.files
           /\ FilePaths(tree) \subseteq Path /\ Entered(tree) \subseteq Path
           /\ \A p \in FilePaths(tree) : StrictlyBelow(p, root)
           /\ \A p \in Entered(tree) : StartsWith(p, root)
           /\ \A p : p \in FoundIn(tree) <=> p \in DirPaths(tree) \/ <<p, "name">> \in DOMAIN tree.files
           /\ FoundIn(tree) \subseteq Entered(tree)
<1>1. \A f \in DOMAIN tree.files : f = <<f[1], f[2]>> /\ f[1] \in Path /\ f[2] \in {"name", "path"}
    BY DEF Rooted
<1>2. \A p, k : <<p, k>> \in DOMAIN tree.files => p \in FilePaths(tree)
    BY DEF FilePaths
<1>3. \A p \in FilePaths(tree) : \E f \in DOMAIN tree.files : p = f[1]
    BY DEF FilePaths
<1>4. \A p : p \in FilePaths(tree) <=>
               <<p, "name">> \in DOMAIN tree.files \/ <<p, "path">> \in DOMAIN tree.files
    BY <1>1, <1>2, <1>3
<1>5. FilePaths(tree) \subseteq Path /\ \A p \in FilePaths(tree) : StrictlyBelow(p, root)
    BY <1>1, <1>3 DEF Rooted
<1>6. Entered(tree) \subseteq Path /\ \A p \in Entered(tree) : StartsWith(p, root)
    BY <1>5 DEF Rooted, Entered, StrictlyBelow
<1>7. \A p : p \in FoundIn(tree) <=> p \in DirPaths(tree) \/ <<p, "name">> \in DOMAIN tree.files
    BY <1>4 DEF FoundIn
<1>8. FoundIn(tree) \subseteq Entered(tree)
    BY <1>4, <1>7 DEF Entered
<1> QED BY <1>4, <1>5, <1>6, <1>7, <1>8

LEMMA MapExtended ==
    ASSUME NEW map, NEW key, NEW value
    PROVE  /\ DOMAIN With(map, key, value) = DOMAIN map \cup {key}
           /\ With(map, key, value)[key] = value
           /\ \A k \in DOMAIN map : k # key => With(map, key, value)[k] = map[k]
BY DEF With

LEMMA MapRestricted ==
    ASSUME NEW map, NEW S, S \subseteq DOMAIN map
    PROVE  DOMAIN Restrict(map, S) = S /\ \A k \in S : Restrict(map, S)[k] = map[k]
BY DEF Restrict

\* What taking a directory away leaves.
LEMMA WithoutDirIs ==
    ASSUME NEW tree, NEW path
    PROVE  LET new == WithoutDir(tree, path) IN
           /\ DirPaths(new) = {q \in DirPaths(tree) : ~StartsWith(q, path)}
           /\ \A q \in DirPaths(new) : new.dirs[q] = tree.dirs[q]
           /\ DOMAIN new.files = {f \in DOMAIN tree.files : ~StrictlyBelow(f[1], path)}
<1> DEFINE new == WithoutDir(tree, path)
           dirs == {q \in DirPaths(tree) : ~StartsWith(q, path)}
           files == {f \in DOMAIN tree.files : ~StrictlyBelow(f[1], path)}
<1>1. new.dirs = Restrict(tree.dirs, dirs) /\ new.files = Restrict(tree.files, files)
    BY DEF WithoutDir
<1>2. dirs \subseteq DOMAIN tree.dirs /\ files \subseteq DOMAIN tree.files
    BY DEF DirPaths
<1> HIDE DEF dirs, files, new
<1>3. /\ DirPaths(new) = dirs /\ DOMAIN new.files = files
      /\ \A q \in DirPaths(new) : new.dirs[q] = tree.dirs[q]
    BY <1>1, <1>2, MapRestricted DEF DirPaths
<1> QED BY <1>3 DEF dirs, files, new

LEMMA WithoutFileIs ==
    ASSUME NEW tree, NEW path
    PROVE  LET new == WithoutFile(tree, path) IN
           /\ new.dirs = tree.dirs /\ DirPaths(new) = DirPaths(tree)
           /\ DOMAIN new.files = DOMAIN tree.files \ {<<path, "name">>}
BY MapRestricted DEF WithoutFile, DirPaths

LEMMA WithFileIs ==
    ASSUME NEW tree, NEW path, NEW key, NEW kind
    PROVE  LET new == WithFile(tree, path, key, kind) IN
           /\ new.dirs = tree.dirs /\ DirPaths(new) = DirPaths(tree)
           /\ DOMAIN new.files = DOMAIN tree.files \cup {<<path, key>>}
BY MapExtended DEF WithFile, DirPaths

LEMMA WithKindIs ==
    ASSUME NEW tree, NEW path \in DirPaths(tree), NEW kind
    PROVE  LET new == WithKind(tree, path, kind) IN
           /\ DirPaths(new) = DirPaths(tree)
           /\ \A q \in DirPaths(tree) : new.dirs[q].depth = tree.dirs[q].depth
           /\ new.files = tree.files
<1> DEFINE entry == [depth |-> tree.dirs[path].depth, kind |-> kind]
<1>1. entry.depth = tree.dirs[path].depth
    OBVIOUS
<1> HIDE DEF entry
<1> DEFINE new == WithKind(tree, path, kind)
<1>2. new.dirs = With(tree.dirs, path, entry) /\ new.files = tree.files
    BY DEF WithKind, entry
<1> HIDE DEF new
<1>3. DirPaths(new) = DirPaths(tree)
    BY <1>2 DEF With, DirPaths
<1>4. \A q \in DirPaths(tree) : new.dirs[q].depth = tree.dirs[q].depth
    <2>1. new.dirs[path] = entry /\ \A q \in DirPaths(tree) : q # path => new.dirs[q] = tree.dirs[q]
        BY <1>2 DEF With, DirPaths
    <2> QED BY <1>1, <2>1
<1> QED BY <1>2, <1>3, <1>4 DEF new

LEMMA WithDirIs ==
    ASSUME NEW tree, NEW path, NEW subtree
    PROVE  LET new == WithDir(tree, path, subtree) IN
           /\ DirPaths(new) = {q \in DirPaths(tree) : ~StartsWith(q, path)} \cup DirPaths(subtree)
           /\ \A q \in DirPaths(subtree) : new.dirs[q] = subtree.dirs[q]
           /\ \A q \in DirPaths(tree) \ DirPaths(subtree) :
                ~StartsWith(q, path) => new.dirs[q] = tree.dirs[q]
           /\ DOMAIN new.files = {f \in DOMAIN tree.files : ~StrictlyBelow(f[1], path)}
                                 \cup DOMAIN subtree.files
<1> DEFINE rest == WithoutDir(tree, path)
<1>1. /\ DirPaths(rest) = {q \in DirPaths(tree) : ~StartsWith(q, path)}
      /\ \A q \in DirPaths(rest) : rest.dirs[q] = tree.dirs[q]
      /\ DOMAIN rest.files = {f \in DOMAIN tree.files : ~StrictlyBelow(f[1], path)}
    BY WithoutDirIs
<1> DEFINE new == WithDir(tree, path, subtree)
<1>2. /\ new.dirs = WithAll(rest.dirs, subtree.dirs)
      /\ new.files = WithAll(rest.files, subtree.files)
    BY DEF WithDir
<1> HIDE DEF rest, new
<1>3. /\ DirPaths(new) = DirPaths(rest) \cup DirPaths(subtree)
      /\ DOMAIN new.files = DOMAIN rest.files \cup DOMAIN subtree.files
      /\ \A q \in DirPaths(subtree) : new.dirs[q] = subtree.dirs[q]
      /\ \A q \in DirPaths(rest) \ DirPaths(subtree) : new.dirs[q] = rest.dirs[q]
    BY <1>2 DEF WithAll, DirPaths
<1> QED BY <1>1, <1>3 DEF new

\* The depths of a tree are ints.
LEMMA DepthsAreInts ==
    ASSUME NEW root \in Path, NEW tree, WellFormed(tree, root)
    PROVE  \A q \in DirPaths(tree) : tree.dirs[q].depth \in Int /\ tree.dirs[q].depth <= MaxInt
<1> SUFFICES ASSUME NEW q \in DirPaths(tree)
             PROVE  tree.dirs[q].depth \in Int /\ tree.dirs[q].depth <= MaxInt
    OBVIOUS
<1>1. Distance(root, q) \in 0..MaxInt
    BY DistanceIsNat DEF WellFormed, Rooted
<1>2. MaxInt \in Nat /\ tree.dirs[root].depth \in MinInt..MaxInt
    BY PathAssumption DEF WellFormed, Levelled
<1>3. tree.dirs[q].depth \in {-1, SubdirectoryDepth(tree.dirs[root].depth, Distance(root, q))}
    BY DEF WellFormed, Levelled
<1> QED BY <1>1, <1>2, <1>3 DEF SubdirectoryDepth, MinInt

\* The parent of the path is a directory of the tree that has entries.
HasRoom(tree, path) == Parent(path) \in DirPaths(tree) /\ tree.dirs[Parent(path)].depth >= 0

\* Then so is whatever lies between the root and the path.
LEMMA RoomIsSupported ==
    ASSUME NEW root \in Path, NEW tree, WellFormed(tree, root),
           NEW path \in Path, StrictlyBelow(path, root), HasRoom(tree, path)
    PROVE  \A p \in Path : StrictlyBelow(path, p) /\ StartsWith(p, root)
             => p \in DirPaths(tree) /\ tree.dirs[p].depth >= 0
<1> SUFFICES ASSUME NEW p \in Path, StrictlyBelow(path, p), StartsWith(p, root)
             PROVE  p \in DirPaths(tree) /\ tree.dirs[p].depth >= 0
    OBVIOUS
<1>1. p = Parent(path) \/ StrictlyBelow(Parent(path), p)
    BY AboveIsAboveParent
<1>2. Parent(path) \in Entered(tree)
    BY DEF HasRoom, Entered
<1> QED BY <1>1, <1>2 DEF HasRoom, WellFormed, Supported

\* An entry that is no directory with entries has nothing below it.
LEMMA NothingBelow ==
    ASSUME NEW root \in Path, NEW tree, WellFormed(tree, root),
           NEW path \in Path, StartsWith(path, root),
           path \in DirPaths(tree) => tree.dirs[path].depth < 0
    PROVE  \A q \in Entered(tree) : ~StrictlyBelow(q, path)
<1> SUFFICES ASSUME NEW q \in Entered(tree), StrictlyBelow(q, path)
             PROVE  FALSE
    OBVIOUS
<1>1. path \in DirPaths(tree) /\ tree.dirs[path].depth >= 0
    BY DEF WellFormed, Supported
<1>2. tree.dirs[path].depth \in Int
    BY <1>1, DepthsAreInts
<1> QED BY <1>1, <1>2

\* A part of a well formed tree that keeps what lies above its entries is well formed.
LEMMA PartIsWellFormed ==
    ASSUME NEW root \in Path, NEW tree, WellFormed(tree, root), NEW new,
           /\ root \in DirPaths(new) /\ DirPaths(new) \subseteq DirPaths(tree)
           /\ DOMAIN new.files \subseteq DOMAIN tree.files
           /\ \A q \in DirPaths(new) : new.dirs[q].depth = tree.dirs[q].depth
           /\ \A q \in Entered(new), p \in DirPaths(tree) : StrictlyBelow(q, p) => p \in DirPaths(new)
    PROVE  WellFormed(new, root)
<1>1. Rooted(tree, root)
    BY DEF WellFormed
<1>2. Rooted(new, root)
    BY <1>1 DEF Rooted
<1>3. Entered(new) \subseteq Entered(tree)
    BY <1>1, <1>2, FilesAreNamed DEF Entered
<1>4. Supported(new, root)
    BY <1>3 DEF WellFormed, Supported
<1>5. Levelled(new, root)
    BY DEF WellFormed, Levelled
<1> QED BY <1>2, <1>4, <1>5 DEF WellFormed

LEMMA WithKindIsWellFormed ==
    ASSUME NEW root \in Path, NEW tree, WellFormed(tree, root), NEW path \in DirPaths(tree), NEW kind
    PROVE  WellFormed(WithKind(tree, path, kind), root) /\ FoundIn(WithKind(tree, path, kind)) = FoundIn(tree)
<1> DEFINE new == WithKind(tree, path, kind)
<1>1. /\ DirPaths(new) = DirPaths(tree) /\ new.files = tree.files
      /\ \A q \in DirPaths(tree) : new.dirs[q].depth = tree.dirs[q].depth
    BY WithKindIs
<1> HIDE DEF new
<1>2. root \in DirPaths(new)
    BY <1>1 DEF WellFormed, Rooted
<1>3. WellFormed(new, root)
    BY <1>1, <1>2, PartIsWellFormed
<1>4. FoundIn(new) = FoundIn(tree)
    BY <1>1 DEF FoundIn, FilePaths
<1> QED BY <1>3, <1>4 DEF new

LEMMA WithoutFileIsWellFormed ==
    ASSUME NEW root \in Path, NEW tree, WellFormed(tree, root), NEW path
    PROVE  WellFormed(WithoutFile(tree, path), root)
<1> DEFINE new == WithoutFile(tree, path)
<1>1. /\ DirPaths(new) = DirPaths(tree) /\ DOMAIN new.files \subseteq DOMAIN tree.files
      /\ new.dirs = tree.dirs
    BY WithoutFileIs
<1> HIDE DEF new
<1>2. root \in DirPaths(new)
    BY <1>1 DEF WellFormed, Rooted
<1>3. WellFormed(new, root)
    BY <1>1, <1>2, PartIsWellFormed
<1> QED BY <1>3 DEF new

LEMMA WithoutDirIsWellFormed ==
    ASSUME NEW root \in Path, NEW tree, WellFormed(tree, root), NEW path \in Path, StrictlyBelow(path, root)
    PROVE  WellFormed(WithoutDir(tree, path), root)
<1> DEFINE new == WithoutDir(tree, path)
<1>1. /\ DirPaths(new) = {q \in DirPaths(tree) : ~StartsWith(q, path)}
      /\ DOMAIN new.files = {f \in DOMAIN tree.files : ~StrictlyBelow(f[1], path)}
      /\ \A q \in DirPaths(new) : new.dirs[q] = tree.dirs[q]
    BY WithoutDirIs
<1> HIDE DEF new
<1>2. root \in DirPaths(new)
    BY <1>1, ParentIsAbove DEF WellFormed, Rooted
<1>3. Rooted(new, root)
    BY <1>1, <1>2 DEF WellFormed, Rooted
<1>4. \A q \in Entered(new) : ~StrictlyBelow(q, path)
    BY <1>1 DEF Entered, FilePaths, StrictlyBelow
<1>5. Entered(new) \subseteq Path /\ DirPaths(tree) \subseteq Path
    BY <1>3, FilesAreNamed DEF WellFormed, Rooted
<1>6. ASSUME NEW q \in Entered(new), NEW p \in DirPaths(tree), StrictlyBelow(q, p)
      PROVE  p \in DirPaths(new)
    BY <1>1, <1>4, <1>5, <1>6, BelowIsOrder
<1>7. WellFormed(new, root)
    <2>1. DirPaths(new) \subseteq DirPaths(tree) /\ DOMAIN new.files \subseteq DOMAIN tree.files
        BY <1>1
    <2>2. \A q \in DirPaths(new) : new.dirs[q].depth = tree.dirs[q].depth
        BY <1>1
    <2> QED BY <1>2, <1>6, <2>1, <2>2, PartIsWellFormed
<1> QED BY <1>7 DEF new

\* remove and removeImpl.
LEMMA RemoveIsWellFormed ==
    ASSUME NEW root \in Path, NEW tree, WellFormed(tree, root), NEW path \in Path, StartsWith(path, root)
    PROVE  WellFormed(Remove(tree, root, path), root)
<1>1. CASE path = root \/ Parent(path) \notin DirPaths(tree)
    BY <1>1 DEF Remove
<1>2. CASE ~(path = root \/ Parent(path) \notin DirPaths(tree))
    <2>1. StrictlyBelow(path, root)
        BY <1>2 DEF StrictlyBelow
    <2>2. WellFormed(WithoutFile(tree, path), root)
        BY WithoutFileIsWellFormed
    <2>3. WellFormed(WithoutDir(WithoutFile(tree, path), path), root)
        BY <2>1, <2>2, WithoutDirIsWellFormed
    <2> QED BY <1>2, <2>3 DEF Remove
<1> QED BY <1>1, <1>2

LEMMA WithFileIsWellFormed ==
    ASSUME NEW root \in Path, NEW tree, WellFormed(tree, root), NEW path \in Path,
           StrictlyBelow(path, root), HasRoom(tree, path), NEW key \in {"name", "path"}, NEW kind
    PROVE  WellFormed(WithFile(tree, path, key, kind), root)
<1> DEFINE new == WithFile(tree, path, key, kind)
<1>1. /\ DirPaths(new) = DirPaths(tree) /\ new.dirs = tree.dirs
      /\ DOMAIN new.files = DOMAIN tree.files \cup {<<path, key>>}
    BY WithFileIs
<1> HIDE DEF new
<1>2. Rooted(tree, root)
    BY DEF WellFormed
<1>3. Rooted(new, root)
    BY <1>1, <1>2 DEF Rooted
<1>4. \A q \in Entered(new) : q = path \/ q \in Entered(tree)
    BY <1>1, <1>2, <1>3, FilesAreNamed DEF Entered
<1>5. Supported(new, root)
    <2> SUFFICES ASSUME NEW q \in Entered(new), NEW p \in Path, StrictlyBelow(q, p), StartsWith(p, root)
                 PROVE  p \in DirPaths(tree) /\ tree.dirs[p].depth >= 0
        BY <1>1 DEF Supported
    <2>1. CASE q = path
        BY <2>1, RoomIsSupported
    <2>2. CASE q \in Entered(tree)
        BY <2>2 DEF WellFormed, Supported
    <2> QED BY <1>4, <2>1, <2>2
<1>6. Levelled(new, root)
    BY <1>1 DEF WellFormed, Levelled
<1> QED BY <1>3, <1>5, <1>6 DEF WellFormed, new

\* Levels counted from the root of a subtree are levels counted from the root above it.
LEMMA SubtreeIsLevelled ==
    ASSUME NEW root \in Path, NEW path \in Path, StrictlyBelow(path, root),
           NEW depth \in MinInt..MaxInt, NEW subtree, WellFormed(subtree, path),
           subtree.dirs[path].depth \in {-1, SubdirectoryDepth(depth, Distance(root, path))},
           NEW q \in DirPaths(subtree)
    PROVE  subtree.dirs[q].depth \in {-1, SubdirectoryDepth(depth, Distance(root, q))}
<1>1. q \in Path /\ StartsWith(q, path) /\ path \in DirPaths(subtree)
    BY DEF WellFormed, Rooted
<1>2. CASE q = path
    BY <1>2
<1>3. CASE q # path
    <2>1. path \in DirPaths(subtree) /\ subtree.dirs[path].depth >= 0
        <3>1. StrictlyBelow(q, path) /\ StartsWith(path, path) /\ q \in Entered(subtree)
            BY <1>1, <1>3, StartsWithIsOrder DEF StrictlyBelow, Entered
        <3> QED BY <3>1 DEF WellFormed, Supported
    <2>2. /\ Distance(root, q) = Distance(root, path) + Distance(path, q)
          /\ Distance(root, path) \in 1..MaxInt /\ Distance(path, q) \in 0..MaxInt
        BY <1>1, DistancesAdd, DistanceIsNat, StrictIsFar DEF StrictlyBelow
    <2>3. subtree.dirs[path].depth = SubdirectoryDepth(depth, Distance(root, path))
        BY <2>1
    <2>4. subtree.dirs[q].depth \in {-1, SubdirectoryDepth(subtree.dirs[path].depth, Distance(path, q))}
        BY DEF WellFormed, Levelled
    <2>5. MaxInt \in Nat
        BY PathAssumption
    <2> QED BY <2>2, <2>3, <2>4, <2>5 DEF SubdirectoryDepth, MinInt
<1> QED BY <1>2, <1>3

\* subdirectories.put of a well formed subtree that has its level.
LEMMA WithDirIsWellFormed ==
    ASSUME NEW root \in Path, NEW tree, WellFormed(tree, root), NEW path \in Path,
           StrictlyBelow(path, root), HasRoom(tree, path),
           NEW subtree, WellFormed(subtree, path),
           subtree.dirs[path].depth
             \in {-1, SubdirectoryDepth(tree.dirs[root].depth, Distance(root, path))}
    PROVE  WellFormed(WithDir(tree, path, subtree), root)
<1> DEFINE new == WithDir(tree, path, subtree)
<1>1. /\ DirPaths(new) = {q \in DirPaths(tree) : ~StartsWith(q, path)} \cup DirPaths(subtree)
      /\ \A q \in DirPaths(subtree) : new.dirs[q] = subtree.dirs[q]
      /\ \A q \in DirPaths(tree) \ DirPaths(subtree) : ~StartsWith(q, path) => new.dirs[q] = tree.dirs[q]
      /\ DOMAIN new.files = {f \in DOMAIN tree.files : ~StrictlyBelow(f[1], path)} \cup DOMAIN subtree.files
    BY WithDirIs
<1> HIDE DEF new
<1>2. Rooted(tree, root) /\ Rooted(subtree, path)
    BY DEF WellFormed
<1>3. ~StartsWith(root, path) /\ StartsWith(path, root)
    BY ParentIsAbove DEF StrictlyBelow
<1>4. Rooted(new, root)
    <2>1. root \in DirPaths(new) /\ DirPaths(new) \subseteq Path
        BY <1>1, <1>2, <1>3 DEF Rooted
    <2>2. DOMAIN new.files \subseteq Path \X {"name", "path"}
        BY <1>1, <1>2 DEF Rooted
    <2>3. \A q \in DirPaths(new) : StartsWith(q, root)
        BY <1>1, <1>2, <1>3, <2>1, StartsWithIsOrder DEF Rooted
    <2>4. \A f \in DOMAIN new.files : f[1] \in Path
        BY <2>2
    <2>5. \A f \in DOMAIN new.files : StrictlyBelow(f[1], root)
        BY <1>1, <1>2, <1>3, <2>4, BelowIsOrder DEF Rooted
    <2> QED BY <2>1, <2>2, <2>3, <2>5 DEF Rooted
<1>5. ASSUME NEW q \in Entered(new)
      PROVE  q \in Entered(subtree) \/ (q \in Entered(tree) /\ ~StrictlyBelow(q, path))
    <2>1. CASE q \in DirPaths(new)
        BY <1>1, <2>1 DEF Entered, StrictlyBelow
    <2>2. CASE q \in FilePaths(new)
        <3>1. PICK f \in DOMAIN new.files : q = f[1]
            BY <2>2 DEF FilePaths
        <3> QED BY <1>1, <3>1 DEF Entered, FilePaths
    <2> QED BY <2>1, <2>2 DEF Entered
<1>6. Entered(new) \subseteq Path /\ Entered(subtree) \subseteq Path
    BY <1>2, <1>4, FilesAreNamed
<1>7. Supported(new, root)
    <2> SUFFICES ASSUME NEW q \in Entered(new), NEW p \in Path, StrictlyBelow(q, p), StartsWith(p, root)
                 PROVE  p \in DirPaths(new) /\ new.dirs[p].depth >= 0
        BY DEF Supported
    <2>1. \A r \in Path : StrictlyBelow(path, r) /\ StartsWith(r, root)
            => r \in DirPaths(new) /\ new.dirs[r].depth >= 0
        <3> SUFFICES ASSUME NEW r \in Path, StrictlyBelow(path, r), StartsWith(r, root)
                     PROVE  r \in DirPaths(new) /\ new.dirs[r].depth >= 0
            OBVIOUS
        <3>1. r \in DirPaths(tree) /\ tree.dirs[r].depth >= 0
            BY RoomIsSupported
        <3>2. ~StartsWith(r, path) /\ r \notin DirPaths(subtree)
            BY <1>2, ParentIsAbove DEF Rooted
        <3> QED BY <1>1, <3>1, <3>2
    <2>2. CASE q \in Entered(subtree)
        <3>1. StartsWith(q, path) /\ q \in Path
            BY <1>2, <1>6, <2>2, FilesAreNamed
        <3>2. CASE StrictlyBelow(path, p)
            BY <2>1, <3>2
        <3>3. CASE StartsWith(p, path)
            BY <1>1, <2>2, <3>3 DEF WellFormed, Supported
        <3> QED BY <3>1, <3>2, <3>3, BelowIsOrder DEF StrictlyBelow
    <2>3. CASE q \in Entered(tree) /\ ~StrictlyBelow(q, path)
        <3>1. p \in DirPaths(tree) /\ tree.dirs[p].depth >= 0
            BY <2>3 DEF WellFormed, Supported
        <3>2. ~StartsWith(p, path)
            BY <1>6, <2>3, BelowIsOrder
        <3>3. p \notin DirPaths(subtree)
            BY <1>2, <3>2 DEF Rooted
        <3> QED BY <1>1, <3>1, <3>2, <3>3
    <2> QED BY <1>5, <2>2, <2>3
<1>8. Levelled(new, root)
    <2>1. root \notin DirPaths(subtree) /\ root \in DirPaths(tree)
        BY <1>2, <1>3 DEF Rooted
    <2>2. new.dirs[root] = tree.dirs[root]
        BY <1>1, <1>3, <2>1
    <2>3. ASSUME NEW q \in DirPaths(subtree)
          PROVE  subtree.dirs[q].depth \in {-1, SubdirectoryDepth(tree.dirs[root].depth, Distance(root, q))}
        <3>1. tree.dirs[root].depth \in MinInt..MaxInt
            BY DEF WellFormed, Levelled
        <3> QED BY <3>1, SubtreeIsLevelled
    <2>4. ASSUME NEW q \in DirPaths(new)
          PROVE  new.dirs[q].depth \in {-1, SubdirectoryDepth(tree.dirs[root].depth, Distance(root, q))}
        <3>1. CASE q \in DirPaths(subtree)
            BY <1>1, <2>3, <3>1
        <3>2. CASE q \notin DirPaths(subtree)
            BY <1>1, <3>2 DEF WellFormed, Levelled
        <3> QED BY <3>1, <3>2
    <2> QED BY <2>2, <2>4 DEF WellFormed, Levelled
<1> QED BY <1>4, <1>7, <1>8 DEF WellFormed, new
-----------------------------------------------------------------------------
(* init *)

\* What init reads: the directories are those that exist within the depth, the
\* files what exists in them and is wanted.
IsScan(new, disk, wanted, base, depth) ==
    LET reads == depth >= 0 /\ disk[base] = "dir"
    IN /\ \A q : q \in DirPaths(new) <=>
            q = base \/ (reads /\ q \in ScannedDirs(disk, wanted, base, depth))
       /\ \A q \in DirPaths(new) : new.dirs[q].depth = SubdirectoryDepth(depth, Distance(base, q))
       /\ \A q, k : <<q, k>> \in DOMAIN new.files <=>
            /\ k = "name" /\ reads
            /\ q \in wanted \ ScannedDirs(disk, wanted, base, depth)
            /\ Len(q) > 1 /\ Parent(q) \in DirPaths(new) /\ disk[q] # "none"
       /\ DOMAIN new.files \subseteq Path \X {"name"}

LEMMA ScanIs ==
    ASSUME NEW disk, NEW wanted \in SUBSET Path, NEW base \in Path, NEW depth, NEW kind
    PROVE  IsScan(Scan(disk, wanted, base, depth, kind), disk, wanted, base, depth)
<1> DEFINE new == Scan(disk, wanted, base, depth, kind)
           reads == depth >= 0 /\ disk[base] = "dir"
           scanned == ScannedDirs(disk, wanted, base, depth)
           inner  == IF reads THEN scanned ELSE {}
           listed == IF reads THEN inner \cup {base} ELSE {}
           leaves == {q \in wanted \ inner : Len(q) > 1 /\ Parent(q) \in listed /\ disk[q] # "none"}
           entry(q) == [depth |-> SubdirectoryDepth(depth, Distance(base, q)),
                        kind  |-> IF q = base THEN kind ELSE "dir"]
<1>1. /\ new.dirs = [q \in inner \cup {base} |-> entry(q)]
      /\ DOMAIN new.files = leaves \X {"name"}
    BY DEF Scan
<1>2. \A q : entry(q).depth = SubdirectoryDepth(depth, Distance(base, q))
    OBVIOUS
<1>3. base \notin scanned
    BY DEF ScannedDirs, StrictlyBelow
<1> HIDE DEF new, scanned, entry
<1>4. DirPaths(new) = inner \cup {base}
    BY <1>1 DEF DirPaths
<1>5. \A q \in DirPaths(new) : new.dirs[q].depth = SubdirectoryDepth(depth, Distance(base, q))
    BY <1>1, <1>2, <1>4
<1>6. \A q, k : <<q, k>> \in DOMAIN new.files <=> k = "name" /\ q \in leaves
    BY <1>1
<1>7. DOMAIN new.files \subseteq Path \X {"name"}
    BY <1>1
<1>8. \A q : q \in leaves <=>
          /\ reads /\ q \in wanted \ scanned
          /\ Len(q) > 1 /\ Parent(q) \in DirPaths(new) /\ disk[q] # "none"
    BY <1>3, <1>4
<1>9. \A q : q \in DirPaths(new) <=> q = base \/ (reads /\ q \in scanned)
    BY <1>4
<1> HIDE DEF leaves
<1>10. \A q, k : <<q, k>> \in DOMAIN new.files <=>
          /\ k = "name" /\ reads /\ q \in wanted \ scanned
          /\ Len(q) > 1 /\ Parent(q) \in DirPaths(new) /\ disk[q] # "none"
    BY <1>6, <1>8
<1> QED BY <1>5, <1>7, <1>9, <1>10 DEF IsScan, new, scanned

\* A fresh CachedDirectoryImpl is well formed, whatever init found, and all its
\* entries can be found.
LEMMA ScanIsWellFormed ==
    ASSUME NEW disk, disk \in [Path -> Kind], IsFileSystem(disk), NEW wanted \in SUBSET Path,
           NEW base \in Path, NEW depth \in MinInt..MaxInt, NEW kind
    PROVE  LET new == Scan(disk, wanted, base, depth, kind)
           IN  WellFormed(new, base) /\ new.dirs[base].depth = depth /\ FoundIn(new) = Entered(new)
<1> DEFINE new == Scan(disk, wanted, base, depth, kind)
           reads == depth >= 0 /\ disk[base] = "dir"
           scanned == ScannedDirs(disk, wanted, base, depth)
<1>1. /\ \A q : q \in DirPaths(new) <=> q = base \/ (reads /\ q \in scanned)
      /\ \A q \in DirPaths(new) : new.dirs[q].depth = SubdirectoryDepth(depth, Distance(base, q))
      /\ \A q, k : <<q, k>> \in DOMAIN new.files <=>
           /\ k = "name" /\ reads /\ q \in wanted \ scanned
           /\ Len(q) > 1 /\ Parent(q) \in DirPaths(new) /\ disk[q] # "none"
      /\ DOMAIN new.files \subseteq Path \X {"name"}
    <2>1. IsScan(new, disk, wanted, base, depth)
        BY ScanIs
    <2> HIDE DEF new
    <2> QED BY <2>1 DEF IsScan
<1>2. \A q \in scanned : /\ q \in Path /\ StrictlyBelow(q, base) /\ disk[q] = "dir"
                         /\ Within(depth, Distance(base, q))
    BY DEF ScannedDirs
<1>3. MaxInt \in Nat /\ base \in DirPaths(new) /\ StartsWith(base, base) /\ Distance(base, base) = 0
    BY <1>1, PathAssumption, StartsWithIsOrder, PathsAreLong DEF Distance
<1>4. ASSUME NEW q \in scanned, NEW p \in Path, StrictlyBelow(q, p), StrictlyBelow(p, base)
      PROVE  p \in scanned
    <2>1. disk[p] = "dir"
        <3>1. q \in Path /\ disk[q] # "none"
            BY <1>2
        <3> QED BY <1>4, <3>1 DEF IsFileSystem
    <2>2. Within(depth, Distance(base, p))
        <3>1. Distance(base, p) <= Distance(base, q)
            BY <1>2, <1>4, DistanceGrows DEF StrictlyBelow
        <3>2. Distance(base, p) \in Int /\ Distance(base, q) \in Int
            BY <1>2, <1>4, StrictIsFar
        <3> QED BY <1>2, <3>1, <3>2 DEF Within
    <2>3. ASSUME NEW r \in Path, StrictlyBelow(r, base), StartsWith(p, r) PROVE r \in wanted
        <3>1. StartsWith(q, r)
            BY <1>2, <1>4, <2>3, StartsWithIsOrder DEF StrictlyBelow
        <3> QED BY <2>3, <3>1 DEF ScannedDirs
    <2> QED BY <1>4, <2>1, <2>2, <2>3 DEF ScannedDirs
<1>5. ASSUME NEW q \in DirPaths(new), reads PROVE new.dirs[q].depth >= 0
    <2>1. CASE q = base
        BY <1>1, <1>3, <1>5, <2>1 DEF SubdirectoryDepth
    <2>2. CASE q # base
        <3>1. Within(depth, Distance(base, q)) /\ Distance(base, q) \in 1..MaxInt
            BY <1>1, <1>2, <2>2, StrictIsFar
        <3>2. new.dirs[q].depth = SubdirectoryDepth(depth, Distance(base, q))
            BY <1>1
        <3> QED BY <1>3, <3>1, <3>2 DEF SubdirectoryDepth, Within, MinInt
    <2> QED BY <2>1, <2>2
<1>6. \A q \in DirPaths(new) : q \in Path /\ StartsWith(q, base)
    BY <1>1, <1>2, <1>3 DEF StrictlyBelow
<1>7. \A q : <<q, "name">> \in DOMAIN new.files =>
          /\ q \in Path /\ Parent(q) \in DirPaths(new) /\ reads
          /\ StrictlyBelow(q, Parent(q)) /\ StrictlyBelow(q, base)
    <2> SUFFICES ASSUME NEW q, <<q, "name">> \in DOMAIN new.files
                 PROVE  /\ q \in Path /\ Parent(q) \in DirPaths(new) /\ reads
                        /\ StrictlyBelow(q, Parent(q)) /\ StrictlyBelow(q, base)
        OBVIOUS
    <2>1. q \in Path /\ Len(q) > 1 /\ Parent(q) \in DirPaths(new) /\ reads
        BY <1>1
    <2>2. StrictlyBelow(q, Parent(q)) /\ Parent(q) \in Path
        BY <2>1, ParentIsThere
    <2> QED BY <1>6, <2>1, <2>2, BelowIsOrder
<1> HIDE DEF new, scanned
<1>8. \A f \in DOMAIN new.files : f = <<f[1], "name">>
    BY <1>1
<1>9. Rooted(new, base)
    <2>1. DOMAIN new.files \subseteq Path \X {"name", "path"}
        BY <1>1
    <2>2. \A f \in DOMAIN new.files : StrictlyBelow(f[1], base)
        BY <1>7, <1>8
    <2> QED BY <1>3, <1>6, <2>1, <2>2 DEF Rooted
<1>10. Supported(new, base)
    <2> SUFFICES ASSUME NEW q \in Entered(new), NEW p \in Path, StrictlyBelow(q, p), StartsWith(p, base)
                 PROVE  p \in DirPaths(new) /\ new.dirs[p].depth >= 0
        BY DEF Supported
    <2>1. ASSUME NEW d \in DirPaths(new), StrictlyBelow(d, p) PROVE reads /\ p \in DirPaths(new)
        <3>1. StrictlyBelow(d, base) /\ d \in Path
            BY <1>6, <2>1, BelowIsOrder
        <3>2. d \in scanned /\ reads
            BY <1>1, <3>1 DEF StrictlyBelow
        <3>3. p = base \/ StrictlyBelow(p, base)
            BY DEF StrictlyBelow
        <3> QED BY <1>1, <1>4, <2>1, <3>2, <3>3
    <2>2. CASE q \in DirPaths(new)
        BY <1>5, <2>1, <2>2
    <2>3. CASE q \in FilePaths(new)
        <3>1. <<q, "name">> \in DOMAIN new.files
            BY <1>8, <2>3 DEF FilePaths
        <3>2. q \in Path /\ Parent(q) \in DirPaths(new) /\ reads
            BY <1>7, <3>1
        <3>3. p = Parent(q) \/ StrictlyBelow(Parent(q), p)
            BY <3>2, AboveIsAboveParent
        <3>4. p \in DirPaths(new)
            BY <2>1, <3>2, <3>3
        <3> QED BY <1>5, <3>2, <3>4
    <2> QED BY <2>2, <2>3 DEF Entered
<1>11. new.dirs[base].depth = depth
    BY <1>1, <1>3 DEF SubdirectoryDepth
<1>12. Levelled(new, base)
    BY <1>1, <1>11 DEF Levelled
<1>13. FoundIn(new) = Entered(new)
    <2>1. \A q \in FilePaths(new) : <<q, "name">> \in DOMAIN new.files
        BY <1>8 DEF FilePaths
    <2> QED BY <2>1 DEF FoundIn, Entered
<1> QED BY <1>9, <1>10, <1>11, <1>12, <1>13 DEF WellFormed, new
-----------------------------------------------------------------------------
(* The way from the root to a path *)

\* A nonempty set of numbers has a least one.
LEMMA LeastNumber ==
    ASSUME NEW S \in SUBSET Nat, S # {}
    PROVE  \E m \in S : \A n \in S : m <= n
<1> DEFINE less == {ss \in Nat \X Nat : ss[1] < ss[2]}
<1>1. less = OpToRel(<, Nat)
    BY Zenon DEF OpToRel
<1>2. PICK m \in S : \A n \in S : ~ (<<n, m>> \in less)
    <2> HIDE DEF less
    <2> QED BY <1>1, NatLessThanWellFounded, WFMin
<1>3. ASSUME NEW n \in S PROVE m <= n
    <2>1. m \in Nat /\ n \in Nat /\ ~ (<<n, m>> \in less)
        BY <1>2
    <2> QED BY <2>1
<1> QED BY <1>3

\* The first names of a path.
LEMMA PrefixIsThere ==
    ASSUME NEW p \in Path, NEW n \in 1..Len(p)
    PROVE  /\ SubSeq(p, 1, n) \in Path /\ Len(SubSeq(p, 1, n)) = n /\ StartsWith(p, SubSeq(p, 1, n))
           /\ n > 1 => Parent(SubSeq(p, 1, n)) = SubSeq(p, 1, n - 1)
<1>1. p \in Seq(STRING) /\ Len(p) \in Nat /\ n \in Nat /\ n >= 1 /\ n <= Len(p)
    BY PathsAreLong
<1> DEFINE q == SubSeq(p, 1, n)
<1>2. q \in Seq(STRING) /\ Len(q) = n /\ \A i \in 1..n : q[i] = p[i]
    BY <1>1
<1>3. q \in Path
    BY PathAssumption
<1>4. n > 1 => Parent(q) = SubSeq(p, 1, n - 1)
    <2> SUFFICES ASSUME n > 1 PROVE SubSeq(q, 1, n - 1) = SubSeq(p, 1, n - 1)
        BY <1>2 DEF Parent
    <2>1. /\ SubSeq(p, 1, n - 1) \in Seq(STRING) /\ Len(SubSeq(p, 1, n - 1)) = n - 1
          /\ \A i \in 1..n - 1 : SubSeq(p, 1, n - 1)[i] = p[i]
        BY <1>1
    <2>2. /\ SubSeq(q, 1, n - 1) \in Seq(STRING) /\ Len(SubSeq(q, 1, n - 1)) = n - 1
          /\ \A i \in 1..n - 1 : SubSeq(q, 1, n - 1)[i] = q[i]
        <3> HIDE DEF q
        <3> QED BY <1>1, <1>2
    <2>3. \A i \in 1..n - 1 : q[i] = p[i]
        BY <1>1, <1>2
    <2> HIDE DEF q
    <2> QED BY <1>1, <2>1, <2>2, <2>3
<1>5. StartsWith(p, q)
    BY <1>1, <1>2 DEF StartsWith
<1> HIDE DEF q
<1> QED BY <1>2, <1>3, <1>4, <1>5 DEF q

\* A path is the prefix of what starts with it.
LEMMA PrefixIsPath ==
    ASSUME NEW p \in Path, NEW q \in Path, StartsWith(p, q)
    PROVE  Len(q) \in 1..Len(p) /\ q = SubSeq(p, 1, Len(q))
<1>1. /\ p \in Seq(STRING) /\ q \in Seq(STRING) /\ Len(q) \in Nat \ {0} /\ Len(p) \in Nat
      /\ Len(q) <= Len(p) /\ \A i \in 1..Len(q) : p[i] = q[i]
    BY PathsAreLong DEF StartsWith
<1>2. /\ SubSeq(p, 1, Len(q)) \in Seq(STRING) /\ Len(SubSeq(p, 1, Len(q))) = Len(q)
      /\ \A i \in 1..Len(q) : SubSeq(p, 1, Len(q))[i] = p[i]
    BY <1>1
<1> QED BY <1>1, <1>2

\* The walk of updateImpl to a path whose parent is not there ends at a first
\* name that is not there.
LEMMA FirstIsMissing ==
    ASSUME NEW root \in Path, NEW tree, root \in DirPaths(tree), NEW path \in Path,
           StrictlyBelow(path, root), Parent(path) \notin DirPaths(tree)
    PROVE  LET first == FirstMissing(tree, root, path)
           IN  /\ first \in Path /\ StrictlyBelow(first, root) /\ StrictlyBelow(path, first)
               /\ first \notin DirPaths(tree) /\ Parent(first) \in DirPaths(tree)
<1>1. /\ Len(path) \in Nat /\ Len(root) \in Nat \ {0} /\ Parent(path) \in Path
      /\ StartsWith(Parent(path), root) /\ Len(Parent(path)) = Len(path) - 1
      /\ Parent(path) = SubSeq(path, 1, Len(path) - 1)
    BY PathsAreLong, ParentIsAbove DEF Parent
<1>2. Len(root) + 1 <= Len(path) - 1
    <2>1. Parent(path) # root
        OBVIOUS
    <2>2. Distance(root, Parent(path)) \in 1..MaxInt
        BY <1>1, <2>1, StrictIsFar DEF StrictlyBelow
    <2> QED BY <1>1, <2>2 DEF Distance
<1> DEFINE S == {n \in Len(root) + 1 .. Len(path) - 1 : SubSeq(path, 1, n) \notin DirPaths(tree)}
           Q == {SubSeq(path, 1, n) : n \in Len(root) + 1 .. Len(path) - 1}
<1>3. PICK n \in S : \A m \in S : n <= m
    <2>1. Len(path) - 1 \in S /\ S \in SUBSET Nat
        BY <1>1, <1>2
    <2> HIDE DEF S
    <2> QED BY <2>1, LeastNumber
<1>4. n \in 2..Len(path) /\ n - 1 \in 1..Len(path) /\ n \in 1..Len(path) /\ Len(root) <= n - 1
    BY <1>1
<1>5. SubSeq(path, 1, n - 1) \in DirPaths(tree)
    <2>1. CASE n - 1 = Len(root)
        BY <1>1, <2>1, PrefixIsPath DEF StrictlyBelow
    <2>2. CASE n - 1 > Len(root)
        <3>1. n - 1 \notin S
            <4> HIDE DEF S
            <4> QED BY <1>3, <1>4
        <3> QED BY <1>1, <1>4, <2>2, <3>1
    <2> QED BY <1>1, <1>4, <2>1, <2>2
<1> DEFINE q == SubSeq(path, 1, n)
           first == FirstMissing(tree, root, path)
<1>6. q \in Q /\ q \notin DirPaths(tree) /\ Parent(q) \in DirPaths(tree)
    <2>1. Parent(q) = SubSeq(path, 1, n - 1)
        BY <1>4, PrefixIsThere
    <2> QED BY <1>5, <2>1
<1>7. first \in Q /\ first \notin DirPaths(tree) /\ Parent(first) \in DirPaths(tree)
    <2> HIDE DEF q
    <2> QED BY <1>6 DEF FirstMissing
<1>8. PICK m \in Len(root) + 1 .. Len(path) - 1 : first = SubSeq(path, 1, m)
    BY <1>7
<1>9. m \in 1..Len(path) /\ m \in Nat /\ m # Len(path) /\ Len(root) < m
    BY <1>1
<1> HIDE DEF first, Q, q, S
<1>10. first \in Path /\ Len(first) = m /\ StartsWith(path, first)
    BY <1>8, <1>9, PrefixIsThere
<1>11. StrictlyBelow(path, first) /\ first # root
    BY <1>9, <1>10 DEF StrictlyBelow
<1>12. StartsWith(first, root)
    <2>1. ~StrictlyBelow(root, first)
        BY <1>1, <1>9, <1>10, DistanceIsNat DEF StrictlyBelow
    <2> QED BY <1>10, <2>1, BelowIsOrder DEF StrictlyBelow
<1> QED BY <1>7, <1>10, <1>11, <1>12 DEF first, StrictlyBelow
-----------------------------------------------------------------------------
(* remove *)

\* A directory with all that is below it.
LEMMA SubtreeIs ==
    ASSUME NEW root \in Path, NEW tree, WellFormed(tree, root), NEW dir \in DirPaths(tree)
    PROVE  Subtree(tree, dir) = {q \in Entered(tree) : StartsWith(q, dir)}
<1>1. dir \in Path /\ StartsWith(dir, root) /\ StartsWith(dir, dir) /\ dir \in Entered(tree)
    BY StartsWithIsOrder DEF WellFormed, Rooted, Entered
<1>2. MaxInt \in Nat
    BY PathAssumption
<1>3. CASE tree.dirs[dir].depth < 0
    <2>1. \A q \in Entered(tree) : ~StrictlyBelow(q, dir)
        BY <1>1, <1>3, NothingBelow
    <2>2. Subtree(tree, dir) = {dir}
        BY <1>3 DEF Subtree, Listed
    <2> QED BY <1>1, <2>1, <2>2 DEF StrictlyBelow
<1>4. CASE ~(tree.dirs[dir].depth < 0)
    <2>1. ~(MaxInt < 0)
        BY <1>2
    <2>2. Subtree(tree, dir) = {dir} \cup {q \in Entered(tree) : StrictlyBelow(q, dir)}
        BY <1>4, <2>1 DEF Subtree, Listed, Within, Entered
    <2> QED BY <1>1, <2>2 DEF StrictlyBelow
<1> QED BY <1>3, <1>4

\* The entries before and after an operation differ by what it tells.
Tells(tree, new, updates) ==
    FoundIn(new) = (FoundIn(tree) \cup updates.created \cup updates.updated) \ updates.deleted

\* What an operation tells of lies at or below the root.
TellsBelow(root, updates) ==
    \A p \in updates.created \cup updates.updated \cup updates.deleted : p \in Path /\ StartsWith(p, root)

\* What is removed is what is told to be.
LEMMA RemoveTells ==
    ASSUME NEW root \in Path, NEW tree, WellFormed(tree, root), NEW path \in Path, StartsWith(path, root)
    PROVE  /\ FoundIn(Remove(tree, root, path)) = FoundIn(tree) \ RemovedPaths(tree, root, path)
           /\ RemovedPaths(tree, root, path) \subseteq Entered(tree)
<1>1. CASE path = root \/ Parent(path) \notin DirPaths(tree)
    BY <1>1 DEF Remove, RemovedPaths
<1>2. CASE ~(path = root \/ Parent(path) \notin DirPaths(tree))
    <2> DEFINE unfiled == WithoutFile(tree, path)
               new == WithoutDir(unfiled, path)
               removed == RemovedPaths(tree, root, path)
    <2>1. Rooted(tree, root) /\ Entered(tree) \subseteq Path
        BY FilesAreNamed DEF WellFormed
    <2>2. Remove(tree, root, path) = new
        BY <1>2 DEF Remove
    <2>3. \A q : q \in removed <=>
              \/ q = path /\ <<path, "name">> \in DOMAIN tree.files
              \/ path \in DirPaths(tree) /\ q \in Subtree(tree, path)
        BY <1>2 DEF RemovedPaths
    <2>4. path \in DirPaths(tree) => Subtree(tree, path) = {q \in Entered(tree) : StartsWith(q, path)}
        BY SubtreeIs
    <2>5. /\ DirPaths(unfiled) = DirPaths(tree)
          /\ DOMAIN unfiled.files = DOMAIN tree.files \ {<<path, "name">>}
        BY WithoutFileIs
    <2>6. /\ DirPaths(new) = {q \in DirPaths(unfiled) : ~StartsWith(q, path)}
          /\ DOMAIN new.files = {f \in DOMAIN unfiled.files : ~StrictlyBelow(f[1], path)}
        BY WithoutDirIs
    <2>7. Rooted(new, root)
        <3>1. WellFormed(Remove(tree, root, path), root)
            BY RemoveIsWellFormed
        <3> QED BY <2>2, <3>1 DEF WellFormed
    <2> HIDE DEF new, unfiled, removed
    <2>8. \A q : q \in FoundIn(tree) <=> q \in DirPaths(tree) \/ <<q, "name">> \in DOMAIN tree.files
        BY <2>1, FilesAreNamed
    <2>9. \A q : q \in FoundIn(new) <=> q \in DirPaths(new) \/ <<q, "name">> \in DOMAIN new.files
        BY <2>7, FilesAreNamed
    <2>10. \A q : <<q, "name">> \in DOMAIN new.files <=>
               <<q, "name">> \in DOMAIN tree.files /\ q # path /\ ~StrictlyBelow(q, path)
        BY <2>5, <2>6
    <2>11. \A q : q \in DirPaths(new) <=> q \in DirPaths(tree) /\ ~StartsWith(q, path)
        BY <2>5, <2>6
    <2>12. \A q : StartsWith(q, path) <=> q = path \/ StrictlyBelow(q, path)
        BY StartsWithIsOrder DEF StrictlyBelow
    <2>13. \A q : q \in FoundIn(new) <=> q \in FoundIn(tree) /\ ~StartsWith(q, path)
        BY <2>8, <2>9, <2>10, <2>11, <2>12
    <2>14. ASSUME NEW q \in FoundIn(tree), StartsWith(q, path) PROVE q \in removed
        <3>1. q \in Entered(tree)
            BY <2>1, FilesAreNamed
        <3>2. CASE StrictlyBelow(q, path)
            <4>1. path \in DirPaths(tree)
                BY <3>1, <3>2 DEF WellFormed, Supported
            <4> QED BY <2>3, <2>4, <2>14, <3>1, <4>1
        <3>3. CASE q = path
            BY <2>3, <2>4, <2>8, <2>14, <3>1, <3>3
        <3> QED BY <2>12, <2>14, <3>2, <3>3
    <2>15. ASSUME NEW q \in removed PROVE StartsWith(q, path) /\ q \in Entered(tree)
        <3>1. <<path, "name">> \in DOMAIN tree.files => path \in Entered(tree)
            BY <2>1, FilesAreNamed DEF Entered
        <3> QED BY <2>3, <2>4, <2>12, <3>1
    <2>16. FoundIn(new) = FoundIn(tree) \ removed /\ removed \subseteq Entered(tree)
        BY <2>13, <2>14, <2>15
    <2> QED BY <2>2, <2>16 DEF removed
<1> QED BY <1>1, <1>2
-----------------------------------------------------------------------------
(* update *)

IsDisk(disk) == disk \in [Path -> Kind] /\ IsFileSystem(disk)

\* What update leaves of a tree, with what it tells.
Keeps(tree, root, result) ==
    /\ WellFormed(result.tree, root)
    /\ Tells(tree, result.tree, result.updates)
    /\ TellsBelow(root, result.updates)

\* removeImpl, as update calls it.
LEMMA RemoveKeeps ==
    ASSUME NEW root \in Path, NEW tree, WellFormed(tree, root), NEW path \in Path, StartsWith(path, root)
    PROVE  Keeps(tree, root, [tree |-> Remove(tree, root, path),
                              updates |-> [Nothing EXCEPT !.deleted = RemovedPaths(tree, root, path)]])
<1> DEFINE new == Remove(tree, root, path)
           removed == RemovedPaths(tree, root, path)
           updates == [Nothing EXCEPT !.deleted = removed]
<1>1. updates.created = {} /\ updates.updated = {} /\ updates.deleted = removed
    BY DEF Nothing
<1>2. WellFormed(new, root)
    BY RemoveIsWellFormed
<1>3. FoundIn(new) = FoundIn(tree) \ removed /\ removed \subseteq Entered(tree)
    BY RemoveTells
<1>4. \A p \in Entered(tree) : p \in Path /\ StartsWith(p, root)
    BY FilesAreNamed DEF WellFormed
<1> HIDE DEF new, removed, updates
<1>5. Tells(tree, new, updates) /\ TellsBelow(root, updates)
    BY <1>1, <1>3, <1>4 DEF Tells, TellsBelow
<1>6. Keeps(tree, root, [tree |-> new, updates |-> updates])
    BY <1>2, <1>5 DEF Keeps
<1> QED BY <1>6 DEF new, removed, updates

\* Filing an entry under its full path adds nothing that is found.
LEMMA FiledByPath ==
    ASSUME NEW root \in Path, NEW tree, WellFormed(tree, root), NEW path \in Path,
           StrictlyBelow(path, root), HasRoom(tree, path), NEW kind
    PROVE  /\ WellFormed(WithFile(tree, path, "path", kind), root)
           /\ FoundIn(WithFile(tree, path, "path", kind)) = FoundIn(tree)
<1> DEFINE new == WithFile(tree, path, "path", kind)
<1>1. WellFormed(new, root)
    BY WithFileIsWellFormed
<1>2. DirPaths(new) = DirPaths(tree) /\ DOMAIN new.files = DOMAIN tree.files \cup {<<path, "path">>}
    BY WithFileIs
<1> HIDE DEF new
<1>3. Rooted(new, root) /\ Rooted(tree, root)
    BY <1>1 DEF WellFormed
<1>4. \A q : <<q, "name">> \in DOMAIN new.files <=> <<q, "name">> \in DOMAIN tree.files
    BY <1>2
<1>5. \A q : q \in FoundIn(new) <=> q \in FoundIn(tree)
    BY <1>2, <1>3, <1>4, FilesAreNamed
<1>6. FoundIn(new) = FoundIn(tree)
    BY <1>5 DEF FoundIn
<1> QED BY <1>1, <1>6 DEF new

\* addDirectory of a path that its parent has room for keeps the tree well formed,
\* whatever is there by now, and tells what has become of the entries.
LEMMA AddDirectoryKeeps ==
    ASSUME NEW root \in Path, NEW tree, WellFormed(tree, root), NEW path \in Path,
           StrictlyBelow(path, root),
           Parent(path) \in DirPaths(tree), tree.dirs[Parent(path)].depth > 0,
           NEW kind, NEW disk, IsDisk(disk), NEW wanted \in SUBSET Path
    PROVE  Keeps(tree, root, AddDirectory(tree, root, path, kind, disk, wanted))
<1> DEFINE depth == SubdirectoryDepth(tree.dirs[Parent(path)].depth, 1)
           fresh == Scan(disk, wanted, path, depth, kind)
           filed == IF kind = "dir" THEN tree ELSE WithFile(tree, path, "path", kind)
           old   == IF path \in DirPaths(tree) THEN Subtree(tree, path) ELSE {}
           new   == Subtree(fresh, path)
<1>0. MaxInt \in Nat \ {0} /\ StartsWith(path, root) /\ Parent(path) \in Path
    BY PathAssumption, ParentIsAbove DEF StrictlyBelow
<1>1. HasRoom(tree, path)
    <2>1. tree.dirs[Parent(path)].depth \in Int
        BY DepthsAreInts
    <2> QED BY <2>1 DEF HasRoom
<1>2. CASE kind = "dir" /\ disk[path] # "none"
    <2>1. AddDirectory(tree, root, path, kind, disk, wanted) =
            [tree |-> WithDir(tree, path, fresh), updates |-> Diff(old, new)]
        BY <1>2 DEF AddDirectory
    <2>2. /\ depth \in MinInt..MaxInt
          /\ depth = SubdirectoryDepth(tree.dirs[root].depth, Distance(root, path))
        <3>1. /\ Distance(root, path) = Distance(root, Parent(path)) + 1
              /\ Distance(root, Parent(path)) \in 0..MaxInt
            <4>1. Len(Parent(path)) = Len(path) - 1 /\ StartsWith(Parent(path), root)
                BY ParentIsAbove
            <4>2. Distance(root, Parent(path)) \in 0..MaxInt
                BY <1>0, <4>1, DistanceIsNat
            <4> QED BY <1>0, <4>1, <4>2, PathsAreLong DEF Distance
        <3>2. /\ tree.dirs[root].depth \in MinInt..MaxInt
              /\ tree.dirs[Parent(path)].depth
                   \in {-1, SubdirectoryDepth(tree.dirs[root].depth, Distance(root, Parent(path)))}
            BY DEF WellFormed, Levelled
        <3> QED BY <1>0, <3>1, <3>2 DEF SubdirectoryDepth, MinInt
    <2>3. WellFormed(fresh, path) /\ fresh.dirs[path].depth = depth /\ FoundIn(fresh) = Entered(fresh)
        <3> HIDE DEF depth
        <3> QED BY <2>2, ScanIsWellFormed DEF IsDisk
    <2> DEFINE joined == WithDir(tree, path, fresh)
    <2>4. /\ DirPaths(joined) = {q \in DirPaths(tree) : ~StartsWith(q, path)} \cup DirPaths(fresh)
          /\ DOMAIN joined.files = {f \in DOMAIN tree.files : ~StrictlyBelow(f[1], path)}
                                   \cup DOMAIN fresh.files
        <3> HIDE DEF fresh
        <3> QED BY WithDirIs
    <2> HIDE DEF depth, fresh
    <2>5. WellFormed(joined, root)
        BY <1>1, <2>2, <2>3, WithDirIsWellFormed
    <2>6. path \in DirPaths(fresh)
        BY <2>3 DEF WellFormed, Rooted
    <2>7. new = Entered(fresh) /\ \A q \in Entered(fresh) : q \in Path /\ StartsWith(q, path)
        <3>1. new = {q \in Entered(fresh) : StartsWith(q, path)}
            BY <2>3, <2>6, SubtreeIs
        <3>2. \A q \in Entered(fresh) : q \in Path /\ StartsWith(q, path)
            BY <2>3, FilesAreNamed DEF WellFormed
        <3> QED BY <3>1, <3>2
    <2>8. old = {q \in Entered(tree) : path \in DirPaths(tree) /\ StartsWith(q, path)}
        BY SubtreeIs
    <2>9. \A q \in Entered(tree) : StartsWith(q, path) => q \in old \/ q = path
        <3> SUFFICES ASSUME NEW q \in Entered(tree), StrictlyBelow(q, path)
                     PROVE  path \in DirPaths(tree)
            BY <2>8 DEF StrictlyBelow
        <3> QED BY <1>0 DEF WellFormed, Supported
    <2> HIDE DEF old, new, joined
    <2>10. \A q : q \in FoundIn(joined) <=> q \in new \/ (q \in FoundIn(tree) /\ ~StartsWith(q, path))
        <3>1. Rooted(tree, root) /\ Rooted(joined, root) /\ Rooted(fresh, path)
            BY <2>3, <2>5 DEF WellFormed
        <3>2. \A q : q \in FoundIn(tree) <=> q \in DirPaths(tree) \/ <<q, "name">> \in DOMAIN tree.files
            BY <3>1, FilesAreNamed
        <3>3. \A q : q \in FoundIn(joined) <=>
                  q \in DirPaths(joined) \/ <<q, "name">> \in DOMAIN joined.files
            BY <3>1, FilesAreNamed
        <3>4. \A q : q \in new <=> q \in DirPaths(fresh) \/ <<q, "name">> \in DOMAIN fresh.files
            BY <2>3, <2>7, <3>1, FilesAreNamed
        <3>5. \A q : <<q, "name">> \in DOMAIN joined.files <=>
                  \/ <<q, "name">> \in DOMAIN fresh.files
                  \/ <<q, "name">> \in DOMAIN tree.files /\ ~StrictlyBelow(q, path)
            BY <2>4
        <3>6. \A q : q \in DirPaths(joined) <=>
                  q \in DirPaths(fresh) \/ (q \in DirPaths(tree) /\ ~StartsWith(q, path))
            BY <2>4
        <3>7. \A q : StartsWith(q, path) <=> q = path \/ StrictlyBelow(q, path)
            BY StartsWithIsOrder DEF StrictlyBelow
        <3> QED BY <2>6, <3>2, <3>3, <3>4, <3>5, <3>6, <3>7
    <2>11. FoundIn(tree) \subseteq Entered(tree) /\ \A q \in Entered(tree) : q \in Path /\ StartsWith(q, root)
        BY FilesAreNamed DEF WellFormed
    <2>12. path \in new
        BY <2>6, <2>7 DEF Entered
    <2>13. Tells(tree, joined, Diff(old, new))
        <3>1. \A q : q \in FoundIn(joined) <=>
                  /\ q \in FoundIn(tree) \/ q \in new \ old \/ q \in new \cap old
                  /\ q \notin old \ new
            BY <2>7, <2>8, <2>9, <2>10, <2>11, <2>12
        <3>2. FoundIn(joined) = (FoundIn(tree) \cup (new \ old) \cup (new \cap old)) \ (old \ new)
            BY <3>1
        <3> QED BY <3>2 DEF Tells, Diff
    <2>14. TellsBelow(root, Diff(old, new))
        <3>1. \A q \in new : q \in Path /\ StartsWith(q, root)
            BY <1>0, <2>7, StartsWithIsOrder
        <3>2. \A q \in old : q \in Path /\ StartsWith(q, root)
            BY <2>8, <2>11
        <3> QED BY <3>1, <3>2 DEF TellsBelow, Diff
    <2>15. Keeps(tree, root, [tree |-> joined, updates |-> Diff(old, new)])
        BY <2>5, <2>13, <2>14 DEF Keeps
    <2> QED BY <2>1, <2>15 DEF joined, old, new, fresh, depth
<1>3. CASE ~(kind = "dir" /\ disk[path] # "none")
    <2>1. AddDirectory(tree, root, path, kind, disk, wanted) =
            [tree |-> Remove(filed, root, path),
             updates |-> [Nothing EXCEPT !.deleted = RemovedPaths(filed, root, path)]]
        BY <1>3 DEF AddDirectory
    <2>2. WellFormed(filed, root) /\ FoundIn(filed) = FoundIn(tree)
        BY <1>1, FiledByPath
    <2> HIDE DEF filed
    <2> DEFINE result == AddDirectory(tree, root, path, kind, disk, wanted)
    <2>3. Keeps(filed, root, result)
        BY <1>0, <2>1, <2>2, RemoveKeeps
    <2> HIDE DEF result
    <2>4. Keeps(tree, root, result)
        BY <2>2, <2>3 DEF Keeps, Tells
    <2> QED BY <2>4 DEF result
<1> QED BY <1>2, <1>3

\* A new entry for a directory of the tree.
KeepsKind(tree, root, path, kind) ==
    Keeps(tree, root, [tree |-> WithKind(tree, path, kind),
                       updates |-> [Nothing EXCEPT !.updated = {path}]])

LEMMA WithKindKeeps ==
    ASSUME NEW root \in Path, NEW tree, WellFormed(tree, root), NEW path \in DirPaths(tree), NEW kind
    PROVE  KeepsKind(tree, root, path, kind)
<1> DEFINE new == WithKind(tree, path, kind)
           updates == [Nothing EXCEPT !.updated = {path}]
<1>1. updates.created = {} /\ updates.updated = {path} /\ updates.deleted = {}
    BY DEF Nothing
<1>2. WellFormed(new, root) /\ FoundIn(new) = FoundIn(tree)
    BY WithKindIsWellFormed
<1>3. path \in FoundIn(tree) /\ path \in Path /\ StartsWith(path, root)
    BY DEF FoundIn, WellFormed, Rooted
<1> HIDE DEF new, updates
<1>4. Tells(tree, new, updates) /\ TellsBelow(root, updates)
    BY <1>1, <1>2, <1>3 DEF Tells, TellsBelow
<1>5. Keeps(tree, root, [tree |-> new, updates |-> updates])
    BY <1>2, <1>4 DEF Keeps
<1> QED BY <1>5 DEF KeepsKind, new, updates

\* The last name of the path, in a directory whose entries are leaves.
LEMMA UpdateLeafKeeps ==
    ASSUME NEW root \in Path, NEW tree, WellFormed(tree, root), NEW path \in Path,
           StrictlyBelow(path, root), HasRoom(tree, path), NEW kind, NEW rescan,
           kind = "dir" => tree.dirs[Parent(path)].depth = 0
    PROVE  Keeps(tree, root, UpdateLeaf(tree, path, kind, rescan))
<1> DEFINE known   == <<path, "name">> \in DOMAIN tree.files \/ (kind = "dir" /\ path \in DirPaths(tree))
           unfiled == WithoutFile(tree, path)
           leaf    == [dirs |-> [p \in {path} |-> [depth |-> -1, kind |-> kind]], files |-> NoFiles]
           updates == IF known THEN [Nothing EXCEPT !.updated = {path}]
                      ELSE [Nothing EXCEPT !.created = {path}]
           new == UpdateLeaf(tree, path, kind, rescan).tree
<1>1. UpdateLeaf(tree, path, kind, rescan).updates = updates
    BY DEF UpdateLeaf
<1>2. new = IF kind # "dir" THEN WithFile(unfiled, path, "name", kind)
            ELSE IF path \in DirPaths(tree) /\ ~rescan THEN WithKind(unfiled, path, kind)
            ELSE WithDir(unfiled, path, leaf)
    BY DEF UpdateLeaf
<1>3. updates.created \cup updates.updated = {path} /\ updates.deleted = {}
    BY DEF Nothing
<1>4. /\ DirPaths(unfiled) = DirPaths(tree) /\ unfiled.dirs = tree.dirs
      /\ DOMAIN unfiled.files = DOMAIN tree.files \ {<<path, "name">>}
    BY WithoutFileIs
<1>5. WellFormed(unfiled, root)
    BY WithoutFileIsWellFormed
<1>6. HasRoom(unfiled, path)
    BY <1>4 DEF HasRoom
<1>7. /\ DirPaths(leaf) = {path} /\ leaf.dirs[path].depth = -1 /\ DOMAIN leaf.files = {}
    BY DEF DirPaths, NoFiles
<1>8. StartsWith(path, path) /\ StartsWith(path, root) /\ MaxInt \in Nat \ {0}
    BY StartsWithIsOrder, PathAssumption DEF StrictlyBelow
<1> HIDE DEF unfiled, leaf, new, updates
<1>9. WellFormed(leaf, path)
    <2>1. Entered(leaf) = {path} /\ Rooted(leaf, path)
        BY <1>7, <1>8 DEF Entered, FilePaths, Rooted
    <2>2. Supported(leaf, path)
        <3> SUFFICES ASSUME NEW p \in Path, StrictlyBelow(path, p), StartsWith(p, path) PROVE FALSE
            BY <2>1 DEF Supported
        <3> QED BY ParentIsAbove
    <2>3. Levelled(leaf, path)
        BY <1>7, <1>8 DEF Levelled, MinInt
    <2> QED BY <2>1, <2>2, <2>3 DEF WellFormed
<1>10. Rooted(tree, root) /\ Rooted(unfiled, root)
    BY <1>5 DEF WellFormed
<1>11. \A q : q \in FoundIn(tree) <=> q \in DirPaths(tree) \/ <<q, "name">> \in DOMAIN tree.files
    BY <1>10, FilesAreNamed
<1>12. WellFormed(new, root) /\ \A q : q \in FoundIn(new) <=> q \in FoundIn(tree) \/ q = path
    <2>1. CASE kind # "dir"
        <3>1. new = WithFile(unfiled, path, "name", kind)
            BY <1>2, <2>1
        <3>2. WellFormed(new, root)
            BY <1>5, <1>6, <3>1, WithFileIsWellFormed
        <3>3. /\ DirPaths(new) = DirPaths(tree)
              /\ DOMAIN new.files = DOMAIN tree.files \cup {<<path, "name">>}
            BY <1>4, <3>1, WithFileIs
        <3>4. Rooted(new, root)
            BY <3>2 DEF WellFormed
        <3>5. \A q : q \in FoundIn(new) <=> q \in DirPaths(new) \/ <<q, "name">> \in DOMAIN new.files
            BY <3>4, FilesAreNamed
        <3> QED BY <1>11, <3>2, <3>3, <3>5
    <2>2. CASE kind = "dir" /\ path \in DirPaths(tree) /\ ~rescan
        <3>1. new = WithKind(unfiled, path, kind) /\ path \in DirPaths(unfiled)
            BY <1>2, <1>4, <2>2
        <3>2. WellFormed(new, root) /\ FoundIn(new) = FoundIn(unfiled)
            BY <1>5, <3>1, WithKindIsWellFormed
        <3>3. \A q : q \in FoundIn(unfiled) <=>
                  q \in DirPaths(unfiled) \/ <<q, "name">> \in DOMAIN unfiled.files
            BY <1>10, FilesAreNamed
        <3> QED BY <1>4, <1>11, <2>2, <3>2, <3>3
    <2>3. CASE kind = "dir" /\ ~(path \in DirPaths(tree) /\ ~rescan)
        <3>1. new = WithDir(unfiled, path, leaf)
            BY <1>2, <2>3
        <3>2. WellFormed(new, root)
            BY <1>5, <1>6, <1>7, <1>9, <3>1, WithDirIsWellFormed
        <3>3. /\ DirPaths(new) = {q \in DirPaths(tree) : ~StartsWith(q, path)} \cup {path}
              /\ DOMAIN new.files = {f \in DOMAIN unfiled.files : ~StrictlyBelow(f[1], path)}
            BY <1>4, <1>7, <3>1, WithDirIs
        <3>4. Rooted(new, root)
            BY <3>2 DEF WellFormed
        <3>5. \A q : q \in FoundIn(new) <=> q \in DirPaths(new) \/ <<q, "name">> \in DOMAIN new.files
            BY <3>4, FilesAreNamed
        <3>6. path \in DirPaths(tree) => tree.dirs[path].depth < 0
            <4> SUFFICES ASSUME path \in DirPaths(tree) PROVE tree.dirs[path].depth < 0
                OBVIOUS
            <4>1. /\ tree.dirs[root].depth \in MinInt..MaxInt
                  /\ tree.dirs[path].depth
                       \in {-1, SubdirectoryDepth(tree.dirs[root].depth, Distance(root, path))}
                  /\ tree.dirs[Parent(path)].depth
                       \in {-1, SubdirectoryDepth(tree.dirs[root].depth, Distance(root, Parent(path)))}
                BY DEF WellFormed, Levelled, HasRoom
            <4>2. tree.dirs[Parent(path)].depth = 0
                BY <2>3
            <4>3. /\ Parent(path) \in Path /\ StartsWith(Parent(path), root)
                  /\ Len(Parent(path)) = Len(path) - 1
                BY ParentIsAbove
            <4>4. /\ Distance(root, path) = Distance(root, Parent(path)) + 1
                  /\ Distance(root, Parent(path)) \in 0..MaxInt
                BY <4>3, DistanceIsNat, PathsAreLong DEF Distance
            <4> QED BY <1>8, <4>1, <4>2, <4>4 DEF SubdirectoryDepth, MinInt
        <3>7. \A q \in Entered(tree) : ~StrictlyBelow(q, path)
            BY <1>8, <3>6, NothingBelow
        <3>8. \A q : q \in DirPaths(tree) => q \in Entered(tree)
            BY DEF Entered
        <3>9. \A q : <<q, "name">> \in DOMAIN tree.files => q \in Entered(tree)
            BY <1>10, FilesAreNamed DEF Entered
        <3>10. \A q : q \in DirPaths(new) <=> q \in DirPaths(tree) \/ q = path
            BY <3>3, <3>7, <3>8 DEF StrictlyBelow
        <3>11. \A q : <<q, "name">> \in DOMAIN new.files <=> <<q, "name">> \in DOMAIN tree.files /\ q # path
            BY <1>4, <3>3, <3>7, <3>9
        <3> QED BY <1>11, <3>2, <3>5, <3>10, <3>11
    <2> QED BY <2>1, <2>2, <2>3
<1>13. FoundIn(new) = FoundIn(tree) \cup {path}
    BY <1>12
<1>14. Tells(tree, new, updates)
    BY <1>3, <1>13 DEF Tells
<1>15. TellsBelow(root, updates)
    BY <1>3, <1>8 DEF TellsBelow
<1> QED BY <1>1, <1>12, <1>14, <1>15 DEF Keeps, new

\* All entries of a tree lie within the depth of its root.
LEMMA EntriesAreWithin ==
    ASSUME NEW root \in Path, NEW tree, WellFormed(tree, root), tree.dirs[root].depth >= 0
    PROVE  Listed(tree, root, tree.dirs[root].depth) = Entered(tree) \ {root}
<1> DEFINE depth == tree.dirs[root].depth
<1>1. depth \in MinInt..MaxInt /\ MaxInt \in Nat /\ depth \in Int
    BY PathAssumption DEF WellFormed, Levelled, MinInt
<1>2. Listed(tree, root, depth) =
        {q \in Entered(tree) : StrictlyBelow(q, root) /\ Within(depth, Distance(root, q) - 1)}
    BY <1>1 DEF Listed, Entered
<1>3. \A q \in Entered(tree) : q \in Path /\ StartsWith(q, root)
    BY FilesAreNamed DEF WellFormed
<1>4. ASSUME NEW q \in Entered(tree), StrictlyBelow(q, root) PROVE Within(depth, Distance(root, q) - 1)
    <2>1. /\ q \in Path /\ Parent(q) \in Path /\ StrictlyBelow(q, Parent(q))
          /\ StartsWith(Parent(q), root) /\ Len(Parent(q)) = Len(q) - 1
        BY <1>3, <1>4, ParentIsAbove
    <2>2. Parent(q) \in DirPaths(tree) /\ tree.dirs[Parent(q)].depth >= 0
        BY <2>1 DEF WellFormed, Supported
    <2>3. tree.dirs[Parent(q)].depth \in {-1, SubdirectoryDepth(depth, Distance(root, Parent(q)))}
        BY <2>2 DEF WellFormed, Levelled
    <2>4. Distance(root, q) - 1 = Distance(root, Parent(q)) /\ Distance(root, Parent(q)) \in 0..MaxInt
        BY <2>1, DistanceIsNat, PathsAreLong DEF Distance
    <2> HIDE DEF depth
    <2> QED BY <1>1, <2>2, <2>3, <2>4 DEF SubdirectoryDepth, Within
<1> QED BY <1>2, <1>3, <1>4 DEF StrictlyBelow

\* updateImpl for the root.
LEMMA UpdateRootKeeps ==
    ASSUME NEW root \in Path, NEW tree, WellFormed(tree, root), NEW kind, NEW rescan,
           NEW disk, IsDisk(disk), NEW wanted \in SUBSET Path
    PROVE  Keeps(tree, root, UpdateRoot(tree, root, kind, rescan, disk, wanted))
<1> DEFINE result == UpdateRoot(tree, root, kind, rescan, disk, wanted)
           depth == tree.dirs[root].depth
           fresh == Scan(disk, wanted, root, depth, tree.dirs[root].kind)
           old == Listed(tree, root, depth)
           new == Listed(fresh, root, depth)
<1>1. root \in DirPaths(tree) /\ StartsWith(root, root) /\ Rooted(tree, root)
    BY StartsWithIsOrder DEF WellFormed, Rooted
<1>2. /\ FoundIn(tree) \subseteq Entered(tree) /\ root \in FoundIn(tree)
      /\ \A q \in Entered(tree) : q \in Path /\ StartsWith(q, root)
    BY <1>1, FilesAreNamed
<1>3. CASE kind = "dir" /\ rescan
    <2>1. result = [tree |-> fresh, updates |-> Diff(old, new)]
        BY <1>3 DEF UpdateRoot
    <2>2. depth \in MinInt..MaxInt
        BY DEF WellFormed, Levelled
    <2>3. WellFormed(fresh, root) /\ fresh.dirs[root].depth = depth /\ FoundIn(fresh) = Entered(fresh)
        <3> HIDE DEF depth
        <3> QED BY <2>2, ScanIsWellFormed DEF IsDisk
    <2> HIDE DEF fresh, result
    <2>4. root \in Entered(fresh) /\ \A q \in Entered(fresh) : q \in Path /\ StartsWith(q, root)
        BY <2>3, FilesAreNamed DEF WellFormed, Rooted, Entered
    <2>5. /\ old \subseteq Entered(tree) /\ new \subseteq Entered(fresh)
          /\ Tells(tree, fresh, Diff(old, new))
        <3>1. CASE depth >= 0
            <4>1. old = Entered(tree) \ {root} /\ new = Entered(fresh) \ {root}
                <5>1. new = Listed(fresh, root, fresh.dirs[root].depth) /\ fresh.dirs[root].depth >= 0
                    BY <2>3, <3>1
                <5> QED BY <2>3, <3>1, <5>1, EntriesAreWithin
            <4> HIDE DEF old, new
            <4>2. FoundIn(fresh) = (FoundIn(tree) \cup (new \ old) \cup (new \cap old)) \ (old \ new)
                BY <1>2, <2>3, <2>4, <4>1
            <4> QED BY <4>1, <4>2 DEF Tells, Diff
        <3>2. CASE ~(depth >= 0)
            <4>1. depth < 0
                BY <2>2, <3>2, PathAssumption DEF MinInt
            <4>2. old = {root} /\ new = {root}
                BY <2>3, <4>1 DEF Listed
            <4>3. Entered(tree) = {root}
                BY <1>1, <1>2, <4>1, NothingBelow DEF StrictlyBelow
            <4>4. Entered(fresh) = {root}
                BY <1>1, <2>3, <2>4, <4>1, NothingBelow DEF StrictlyBelow
            <4> HIDE DEF old, new
            <4>5. FoundIn(fresh) = (FoundIn(tree) \cup (new \ old) \cup (new \cap old)) \ (old \ new)
                BY <1>2, <2>3, <4>2, <4>3, <4>4
            <4> QED BY <4>2, <4>3, <4>4, <4>5 DEF Tells, Diff
        <3> QED BY <3>1, <3>2
    <2>6. TellsBelow(root, Diff(old, new))
        <3> HIDE DEF old, new
        <3> QED BY <1>2, <2>4, <2>5 DEF TellsBelow, Diff
    <2>7. Keeps(tree, root, [tree |-> fresh, updates |-> Diff(old, new)])
        BY <2>3, <2>5, <2>6 DEF Keeps
    <2> QED BY <2>1, <2>7 DEF result
<1>4. CASE ~(kind = "dir" /\ rescan)
    <2>1. result = [tree |-> WithKind(tree, root, kind), updates |-> [Nothing EXCEPT !.updated = {root}]]
        BY <1>4 DEF UpdateRoot
    <2>2. KeepsKind(tree, root, root, kind)
        BY <1>1, WithKindKeeps
    <2> QED BY <2>1, <2>2 DEF KeepsKind
<1> QED BY <1>3, <1>4

\* Doing nothing.
LEMMA NothingKeeps ==
    ASSUME NEW root, NEW tree, WellFormed(tree, root)
    PROVE  Keeps(tree, root, [tree |-> tree, updates |-> Nothing])
BY DEF Keeps, Tells, TellsBelow, Nothing

\* updateImpl for a path below the root.
LEMMA UpdateBelowKeeps ==
    ASSUME NEW root \in Path, NEW tree, WellFormed(tree, root), NEW path \in Path,
           StrictlyBelow(path, root), NEW kind, NEW rescan,
           NEW disk, IsDisk(disk), NEW wanted \in SUBSET Path
    PROVE  Keeps(tree, root, UpdateBelow(tree, root, path, kind, rescan, disk, wanted))
<1> DEFINE parent  == Parent(path)
           missing == FirstMissing(tree, root, path)
           same    == [tree |-> tree, updates |-> Nothing]
           result  == UpdateBelow(tree, root, path, kind, rescan, disk, wanted)
<1>1. Keeps(tree, root, same)
    BY NothingKeeps
<1>2. \A q \in DirPaths(tree) : tree.dirs[q].depth \in Int
    BY DepthsAreInts
<1>3. CASE parent \in DirPaths(tree)
    <2>1. CASE tree.dirs[parent].depth < 0
        <3>1. result = same
            BY <1>3, <2>1 DEF UpdateBelow
        <3> QED BY <1>1, <3>1
    <2>2. CASE ~(tree.dirs[parent].depth < 0) /\ (kind # "dir" \/ tree.dirs[parent].depth = 0)
        <3>1. result = UpdateLeaf(tree, path, kind, rescan)
            BY <1>3, <2>2 DEF UpdateBelow
        <3>2. HasRoom(tree, path)
            BY <1>2, <1>3, <2>2 DEF HasRoom
        <3>3. kind = "dir" => tree.dirs[Parent(path)].depth = 0
            BY <2>2
        <3> QED BY <3>1, <3>2, <3>3, UpdateLeafKeeps
    <2>3. CASE ~(tree.dirs[parent].depth < 0) /\ ~(kind # "dir" \/ tree.dirs[parent].depth = 0)
        <3>1. CASE path \in DirPaths(tree) /\ ~rescan
            <4>1. result = [tree |-> WithKind(tree, path, kind),
                            updates |-> [Nothing EXCEPT !.updated = {path}]]
                BY <1>3, <2>3, <3>1 DEF UpdateBelow
            <4>2. KeepsKind(tree, root, path, kind)
                BY <3>1, WithKindKeeps
            <4> QED BY <4>1, <4>2 DEF KeepsKind
        <3>2. CASE ~(path \in DirPaths(tree) /\ ~rescan)
            <4>1. result = AddDirectory(tree, root, path, kind, disk, wanted)
                BY <1>3, <2>3, <3>2 DEF UpdateBelow
            <4>2. tree.dirs[Parent(path)].depth > 0
                BY <1>2, <1>3, <2>3
            <4>3. Keeps(tree, root, AddDirectory(tree, root, path, kind, disk, wanted))
                BY <1>3, <4>2, AddDirectoryKeeps
            <4> QED BY <4>1, <4>3
        <3> QED BY <3>1, <3>2
    <2> QED BY <2>1, <2>2, <2>3
<1>4. CASE parent \notin DirPaths(tree)
    <2>1. CASE tree.dirs[Parent(missing)].depth <= 0
        <3>1. result = same
            BY <1>4, <2>1 DEF UpdateBelow
        <3> QED BY <1>1, <3>1
    <2>2. CASE ~(tree.dirs[Parent(missing)].depth <= 0)
        <3>1. result = AddDirectory(tree, root, missing, disk[missing], disk, wanted)
            BY <1>4, <2>2 DEF UpdateBelow
        <3>2. root \in DirPaths(tree)
            BY DEF WellFormed, Rooted
        <3>3. /\ missing \in Path /\ StrictlyBelow(missing, root)
              /\ Parent(missing) \in DirPaths(tree)
            BY <1>4, <3>2, FirstIsMissing
        <3> HIDE DEF missing, result
        <3>4. tree.dirs[Parent(missing)].depth > 0
            BY <1>2, <2>2, <3>3
        <3>5. Keeps(tree, root, AddDirectory(tree, root, missing, disk[missing], disk, wanted))
            BY <3>3, <3>4, AddDirectoryKeeps
        <3> QED BY <3>1, <3>5 DEF result
    <2> QED BY <2>1, <2>2
<1> QED BY <1>3, <1>4

\* update: whatever an event says of a path, however late, and whatever the file
\* system holds by then, the tree stays well formed, and the difference between the
\* entries before and after is what the callbacks are told.
LEMMA UpdateKeeps ==
    ASSUME NEW root \in Path, NEW tree, WellFormed(tree, root), NEW path \in Path,
           StartsWith(path, root), NEW kind, NEW rescan,
           NEW disk, IsDisk(disk), NEW wanted \in SUBSET Path
    PROVE  Keeps(tree, root, Update(tree, root, path, kind, rescan, disk, wanted))
<1> DEFINE result == Update(tree, root, path, kind, rescan, disk, wanted)
<1>1. CASE path \notin wanted
    <2>1. result = [tree |-> tree, updates |-> Nothing]
        BY <1>1 DEF Update
    <2> QED BY <2>1, NothingKeeps
<1>2. CASE path \in wanted /\ kind = "none"
    <2>1. result = [tree |-> Remove(tree, root, path),
                    updates |-> [Nothing EXCEPT !.deleted = RemovedPaths(tree, root, path)]]
        BY <1>2 DEF Update
    <2> QED BY <2>1, RemoveKeeps
<1>3. CASE path \in wanted /\ kind # "none" /\ path = root
    <2>1. result = UpdateRoot(tree, root, kind, rescan, disk, wanted)
        BY <1>3 DEF Update
    <2> QED BY <2>1, UpdateRootKeeps
<1>4. CASE path \in wanted /\ kind # "none" /\ path # root
    <2>1. result = UpdateBelow(tree, root, path, kind, rescan, disk, wanted)
        BY <1>4 DEF Update
    <2>2. StrictlyBelow(path, root)
        BY <1>4 DEF StrictlyBelow
    <2> QED BY <2>1, <2>2, UpdateBelowKeeps
<1> QED BY <1>1, <1>2, <1>3, <1>4

\* A root whose maps a failed rescan cleared.
LEMMA ClearedIsWellFormed ==
    ASSUME NEW root \in Path, NEW tree, WellFormed(tree, root)
    PROVE  /\ WellFormed(Cleared(tree, root), root)
           /\ Entered(Cleared(tree, root)) = {root}
<1> DEFINE new == Cleared(tree, root)
<1>1. /\ DirPaths(new) = {root} /\ new.dirs[root] = tree.dirs[root] /\ DOMAIN new.files = {}
    BY DEF Cleared, DirPaths, NoFiles
<1> HIDE DEF new
<1>2. Entered(new) = {root}
    BY <1>1 DEF Entered, FilePaths
<1>3. /\ Rooted(tree, root) /\ tree.dirs[root].depth \in MinInt..MaxInt
      /\ tree.dirs[root].depth \in {-1, SubdirectoryDepth(tree.dirs[root].depth, Distance(root, root))}
    BY DEF WellFormed, Levelled, Rooted
<1>4. StartsWith(root, root) /\ \A p \in Path : ~(StrictlyBelow(root, p) /\ StartsWith(p, root))
    BY StartsWithIsOrder, ParentIsAbove
<1>5. Rooted(new, root)
    BY <1>1, <1>4 DEF Rooted
<1>6. Supported(new, root)
    BY <1>2, <1>4 DEF Supported
<1>7. Levelled(new, root)
    BY <1>1, <1>3 DEF Levelled
<1> QED BY <1>2, <1>5, <1>6, <1>7 DEF WellFormed, new
-----------------------------------------------------------------------------
(* The file system stays one *)

\* The changes of the environment: an entry comes and goes in a directory, and a
\* directory goes when it is empty.
LEMMA ChangesKeepDisk ==
    ASSUME IsDisk(fs), NEW p \in Path, NEW kind \in Kind \ {"none"},
           Appear(p, kind) \/ Modify(p, kind) \/ Disappear(p)
    PROVE  IsDisk(fs')
<1>0. fs \in [Path -> Kind] /\ "dir" # "none"
    BY DEF IsDisk
<1>1. \A r, q \in Path : fs[q] # "none" /\ StrictlyBelow(q, r) => fs[r] = "dir"
    BY DEF IsDisk, IsFileSystem
<1>2. CASE Appear(p, kind)
    <2>1. fs' = [fs EXCEPT ![p] = kind] /\ fs[p] = "none" /\ (Len(p) > 1 => fs[Parent(p)] = "dir")
        BY <1>2 DEF Appear, Change
    <2>2. ASSUME NEW r \in Path, NEW q \in Path, fs'[q] # "none", StrictlyBelow(q, r)
          PROVE  fs'[r] = "dir"
        <3>1. fs[r] = "dir"
            <4>1. CASE q = p
                <5>1. Parent(p) \in Path /\ fs[Parent(p)] = "dir" /\ (r = Parent(p) \/ StrictlyBelow(Parent(p), r))
                    BY <2>1, <2>2, <4>1, ParentIsAbove, AboveIsAboveParent
                <5> QED BY <1>0, <1>1, <5>1
            <4>2. CASE q # p
                BY <1>0, <1>1, <2>1, <2>2, <4>2
            <4> QED BY <4>1, <4>2
        <3> QED BY <1>0, <2>1, <3>1
    <2> QED BY <1>0, <2>1, <2>2 DEF IsDisk, IsFileSystem
<1>3. CASE Modify(p, kind)
    <2>1. fs' = [fs EXCEPT ![p] = kind] /\ fs[p] # "none" /\ (fs[p] = "dir" => kind = "dir")
        BY <1>3 DEF Modify, Change
    <2>2. ASSUME NEW r \in Path, NEW q \in Path, fs'[q] # "none", StrictlyBelow(q, r)
          PROVE  fs'[r] = "dir"
        <3>1. fs[q] # "none"
            BY <1>0, <2>1, <2>2
        <3>2. fs[r] = "dir"
            BY <1>1, <2>2, <3>1
        <3> QED BY <1>0, <2>1, <3>2
    <2> QED BY <1>0, <2>1, <2>2 DEF IsDisk, IsFileSystem
<1>4. CASE Disappear(p)
    <2>1. /\ fs' = [fs EXCEPT ![p] = "none"] /\ "none" \in Kind
          /\ \A q \in Path : fs[q] # "none" /\ Len(q) > 1 => Parent(q) # p
        BY <1>4 DEF Disappear, HasChildren, Change, Kind
    <2>2. ASSUME NEW r \in Path, NEW q \in Path, fs'[q] # "none", StrictlyBelow(q, r)
          PROVE  fs'[r] = "dir"
        <3>1. fs[q] # "none"
            BY <1>0, <2>1, <2>2
        <3>2. fs[r] = "dir"
            BY <1>1, <2>2, <3>1
        <3>3. r # p
            <4> SUFFICES ASSUME r = p PROVE FALSE
                OBVIOUS
            <4>1. Len(p) \in 1..Len(q) /\ p = SubSeq(q, 1, Len(p)) /\ Len(q) \in Nat /\ Len(p) \in Nat
                BY <2>2, PrefixIsPath, PathsAreLong DEF StrictlyBelow
            <4>2. Len(p) < Len(q)
                <5>1. Distance(p, q) \in 1..MaxInt
                    BY <2>2, StrictIsFar
                <5> QED BY <4>1, <5>1, PathAssumption DEF Distance
            <4> DEFINE child == SubSeq(q, 1, Len(p) + 1)
            <4>3. Len(p) + 1 \in 1..Len(q) /\ Len(p) + 1 > 1 /\ Len(p) + 1 - 1 = Len(p)
                BY <4>1, <4>2
            <4>4. child \in Path /\ Len(child) = Len(p) + 1 /\ StartsWith(q, child) /\ Parent(child) = p
                BY <4>1, <4>3, PrefixIsThere
            <4> HIDE DEF child
            <4>5. fs[child] # "none"
                BY <1>0, <1>1, <3>1, <4>4 DEF StrictlyBelow
            <4> QED BY <2>1, <4>3, <4>4, <4>5
        <3> QED BY <1>0, <2>1, <3>2, <3>3
    <2> QED BY <1>0, <2>1, <2>2 DEF IsDisk, IsFileSystem
<1> QED BY <1>2, <1>3, <1>4
-----------------------------------------------------------------------------
(* The trees stay well formed *)

TreesAreWellFormed(dirs) ==
    DOMAIN dirs \subseteq Path /\ \A r \in DOMAIN dirs : WellFormed(dirs[r], r)

\* What the registry wants, and what it answers to maxDepthFor.
LEMMA WantedIsThere ==
    /\ Wanted \in SUBSET Path
    /\ Registry!TypeOK => \A p \in Path : Registry!MaxDepthFor(registered, p) \in MinInt..MaxInt
<1>1. ASSUME Registry!TypeOK, NEW p \in Path
      PROVE  Registry!MaxDepthFor(registered, p) \in MinInt..MaxInt
    <2>1. MinInt \in MinInt..MaxInt /\ Registry!MinInt = MinInt
        BY PathAssumption DEF MinInt, Registry!MinInt
    <2>2. \A d \in Registry!DepthsBelow(registered, p) : d \in MinInt..MaxInt
        BY <1>1, <2>1, NoOverflow, DepthsBelowMeans
    <2> QED BY <1>1, <2>1, <2>2, MaxDepthForIsLargest
<1> QED BY <1>1 DEF Wanted

\* newCachedDirectory.
LEMMA NewIsWellFormed ==
    ASSUME IsDisk(fs), NEW path \in Path, NEW depth \in MinInt..MaxInt
    PROVE  LET new == NewCachedDirectory(path, depth)
           IN  WellFormed(new, path) /\ FoundIn(new) = Entered(new)
<1> DEFINE fallback == IF fs[path] \in Content /\ depth >= 0 THEN -1 ELSE depth
<1>1. fallback \in MinInt..MaxInt
    BY PathAssumption DEF MinInt
<1>2. NewCachedDirectory(path, depth) = Scan(fs, Wanted, path, fallback, fs[path])
    BY DEF NewCachedDirectory
<1> HIDE DEF fallback
<1>3. LET new == Scan(fs, Wanted, path, fallback, fs[path])
      IN  WellFormed(new, path) /\ FoundIn(new) = Entered(new)
    BY <1>1, WantedIsThere, ScanIsWellFormed DEF IsDisk
<1> QED BY <1>2, <1>3

\* cleanupDirectories drops roots and leaves the others alone.
LEMMA CleanedUpIs ==
    ASSUME NEW dirs, NEW path, NEW maxDepth
    PROVE  LET new == CleanedUp(dirs, path, maxDepth)
           IN  /\ DOMAIN new \subseteq DOMAIN dirs
               /\ \A r \in DOMAIN new : new[r] = dirs[r]
               /\ \A r \in DOMAIN dirs : r \in DOMAIN new \/ StrictlyBelow(r, path)
BY DEF CleanedUp, Restrict

LEMMA CleanedUpIsWellFormed ==
    ASSUME NEW dirs, TreesAreWellFormed(dirs), NEW path, NEW maxDepth
    PROVE  TreesAreWellFormed(CleanedUp(dirs, path, maxDepth))
<1> DEFINE new == CleanedUp(dirs, path, maxDepth)
<1>1. DOMAIN new \subseteq DOMAIN dirs /\ \A r \in DOMAIN new : new[r] = dirs[r]
    BY CleanedUpIs
<1> HIDE DEF new
<1>2. TreesAreWellFormed(new)
    BY <1>1 DEF TreesAreWellFormed
<1> QED BY <1>2 DEF new

\* A maxDepth that callers pass is an int.
LEMMA DepthsAreAllowed == \A d \in Depth : d \in -1..MaxInt /\ d \in MinInt..MaxInt
<1>1. MaxInt \in Nat /\ Depth \subseteq -1..MaxInt
    BY PathAssumption, TreeAssumption
<1> QED BY <1>1 DEF MinInt

\* The part of register that holds the lock.
LEMMA FillKeepsTrees ==
    ASSUME IsDisk(fs), TreesAreWellFormed(directories), NEW u \in User, Fill(u),
           registering[u].path \in Path, registering[u].depth \in Depth
    PROVE  TreesAreWellFormed(directories')
<1> DEFINE path == registering[u].path
           maxDepth == registering[u].depth
<1>1. maxDepth \in MinInt..MaxInt
    BY DepthsAreAllowed
<1>2. CASE directories' = CleanedUp(directories, path, maxDepth)
    BY <1>2, CleanedUpIsWellFormed
<1>3. CASE directories' = CleanedUp(With(directories, path, NewCachedDirectory(path, maxDepth)),
                                    path, maxDepth)
    <2> DEFINE new == NewCachedDirectory(path, maxDepth)
    <2>1. WellFormed(new, path)
        BY <1>1, NewIsWellFormed
    <2> HIDE DEF new
    <2>2. TreesAreWellFormed(With(directories, path, new))
        BY <2>1 DEF TreesAreWellFormed, With
    <2> QED BY <1>3, <2>2, CleanedUpIsWellFormed DEF new
<1>4. ASSUME NEW r \in Existing(path, maxDepth),
             directories' = CleanedUp([directories EXCEPT ![r] =
                              Update(@, r, path, fs[path], TRUE, fs, Wanted).tree], path, maxDepth)
      PROVE  TreesAreWellFormed(directories')
    <2> DEFINE new == Update(directories[r], r, path, fs[path], TRUE, fs, Wanted).tree
    <2>1. r \in DOMAIN directories /\ r \in Path /\ StartsWith(path, r)
        BY DEF Existing, TreesAreWellFormed
    <2>2. WellFormed(new, r)
        <3>1. WellFormed(directories[r], r)
            BY <2>1 DEF TreesAreWellFormed
        <3> QED BY <2>1, <3>1, WantedIsThere, UpdateKeeps DEF Keeps
    <2>3. directories' = CleanedUp([directories EXCEPT ![r] = new], path, maxDepth)
        BY <1>4
    <2> HIDE DEF new
    <2>4. TreesAreWellFormed([directories EXCEPT ![r] = new])
        BY <2>1, <2>2 DEF TreesAreWellFormed
    <2> QED BY <2>3, <2>4, CleanedUpIsWellFormed
<1> QED BY <1>2, <1>3, <1>4 DEF Fill

\* unregister.
LEMMA UnregisterKeepsTrees ==
    ASSUME TreesAreWellFormed(directories), NEW u \in User, NEW path \in Path, Unregister(u, path)
    PROVE  TreesAreWellFormed(directories')
<1> DEFINE found == Find(directories, path)
<1>1. CASE StillCovered(path)
    BY <1>1 DEF Unregister
<1>2. CASE ~StillCovered(path)
    <2>1. directories' = [r \in DOMAIN directories \ (found \cap {path}) |->
                            IF r \in found THEN Remove(directories[r], r, path) ELSE directories[r]]
        BY <1>2 DEF Unregister
    <2>2. \A r \in found : r \in DOMAIN directories /\ StartsWith(path, r)
        BY DEF Find, Reaches
    <2> HIDE DEF found
    <2>3. \A r \in found : WellFormed(Remove(directories[r], r, path), r)
        BY <2>2, RemoveIsWellFormed DEF TreesAreWellFormed
    <2> QED BY <2>1, <2>3 DEF TreesAreWellFormed
<1> QED BY <1>1, <1>2

\* handleDelete.
LEMMA HandleDeleteKeepsTrees ==
    ASSUME NEW dirs, TreesAreWellFormed(dirs), NEW path \in Path, HandleDelete(dirs, path)
    PROVE  TreesAreWellFormed(directories')
<1> DEFINE roots == RootsAbove(dirs, path)
           new == [r \in DOMAIN dirs |-> IF r \in roots THEN Remove(dirs[r], r, path) ELSE dirs[r]]
<1>1. directories' = Restrict(new, DOMAIN dirs \ {path})
    BY DEF HandleDelete
<1>2. \A r \in roots : r \in DOMAIN dirs /\ StartsWith(path, r)
    BY DEF RootsAbove
<1> HIDE DEF roots
<1>3. \A r \in roots : WellFormed(Remove(dirs[r], r, path), r)
    BY <1>2, RemoveIsWellFormed DEF TreesAreWellFormed
<1>4. \A r \in DOMAIN new : WellFormed(new[r], r)
    BY <1>3 DEF TreesAreWellFormed
<1>5. DOMAIN new = DOMAIN dirs
    OBVIOUS
<1> HIDE DEF new
<1> QED BY <1>1, <1>4, <1>5 DEF TreesAreWellFormed, Restrict

\* handleEvent.
LEMMA HandleEventKeepsTrees ==
    ASSUME IsDisk(fs), Registry!TypeOK, TreesAreWellFormed(directories),
           NEW path \in Path, NEW kind, Handle(path, kind)
    PROVE  TreesAreWellFormed(directories')
<1> DEFINE found == Find(directories, path)
<1>1. CASE UNCHANGED directories
    BY <1>1 DEF TreesAreWellFormed
<1>2. CASE HandleDelete(directories, path)
    BY <1>2, HandleDeleteKeepsTrees
<1>3. ASSUME NEW r \in found, HandleUpdate(r, path, kind)
      PROVE  TreesAreWellFormed(directories')
    <2>1. r \in DOMAIN directories /\ r \in Path /\ StartsWith(path, r) /\ WellFormed(directories[r], r)
        BY DEF Find, Reaches, TreesAreWellFormed
    <2>2. CASE HandleDelete([directories EXCEPT ![r] = Cleared(@, r)], path)
        <3>1. WellFormed(Cleared(directories[r], r), r)
            BY <2>1, ClearedIsWellFormed
        <3>2. TreesAreWellFormed([directories EXCEPT ![r] = Cleared(@, r)])
            BY <2>1, <3>1 DEF TreesAreWellFormed
        <3> QED BY <2>2, <3>2, HandleDeleteKeepsTrees
    <2>3. CASE directories' = [directories EXCEPT ![r] =
                 Update(directories[r], r, path, kind, RescanOnDirectoryUpdate, fs, Wanted).tree]
        <3> DEFINE new == Update(directories[r], r, path, kind, RescanOnDirectoryUpdate, fs, Wanted).tree
        <3>1. WellFormed(new, r)
            BY <2>1, WantedIsThere, UpdateKeeps DEF Keeps
        <3>2. directories' = [directories EXCEPT ![r] = new]
            BY <2>3
        <3> HIDE DEF new
        <3> QED BY <2>1, <3>1, <3>2 DEF TreesAreWellFormed
    <2> QED BY <1>3, <2>2, <2>3 DEF HandleUpdate
<1>4. CASE HandlePending(path)
    <2> DEFINE depth == Registry!MaxDepthFor(registered, path)
               new == NewCachedDirectory(path, depth)
    <2>1. depth \in MinInt..MaxInt
        BY WantedIsThere
    <2>2. UNCHANGED directories \/ directories' = With(directories, path, new)
        BY <1>4 DEF HandlePending
    <2> HIDE DEF depth
    <2>3. WellFormed(new, path)
        BY <2>1, NewIsWellFormed
    <2> HIDE DEF new
    <2> QED BY <2>2, <2>3 DEF TreesAreWellFormed, With
<1> QED BY <1>1, <1>2, <1>3, <1>4 DEF Handle
-----------------------------------------------------------------------------
(* Type correctness of the cache *)

Call == [stage : {"idle", "added", "locked", "unregistered"},
         path : Path \cup {<<>>}, depth : Depth \cup {0}]

\* What the watcher's side holds.
WatcherTyped ==
    /\ IsDisk(fs) /\ changed \subseteq Path
    /\ DOMAIN events \subseteq Watcher /\ overtaken \subseteq Path
    /\ \A w \in DOMAIN events : events[w] \in [path : Path, kind : Kind, newest : BOOLEAN]

\* What the users' side holds.  A call under way has a path and a depth.
CallsTyped ==
    /\ registering \in [User -> Call]
    /\ \A u \in User : registering[u].stage \in {"added", "locked"}
         => registering[u].path \in Path /\ registering[u].depth \in Depth
    /\ budget \in [changes : Nat, register : Nat, unregister : Nat]

Typed ==
    /\ WatcherTyped /\ CallsTyped /\ Registry!TypeOK
    /\ pendingFiles \subseteq Path /\ TreesAreWellFormed(directories)

LEMMA InitIsTyped == Init => Typed
<1> SUFFICES ASSUME Init PROVE Typed
    OBVIOUS
<1>1. WatcherTyped
    BY DEF Init, WatcherTyped, IsDisk, NoFiles
<1>2. CallsTyped
    <2>1. Idle \in Call /\ Idle.stage = "idle"
        BY DEF Idle, Call
    <2>2. budget \in [changes : Nat, register : Nat, unregister : Nat]
        BY TreeAssumption DEF Init
    <2> HIDE DEF Idle, Call
    <2> QED BY <2>1, <2>2 DEF Init, CallsTyped
<1>3. Registry!TypeOK
    BY DEF Init, Registry!TypeOK, Registry!NoDirectories
<1>4. TreesAreWellFormed(directories)
    BY DEF Init, TreesAreWellFormed, NoRoots
<1> QED BY <1>1, <1>2, <1>3, <1>4 DEF Init, Typed

\* The next stage of a call.
LEMMA CallAdvances ==
    ASSUME NEW call \in Call, NEW stage \in {"idle", "added", "locked", "unregistered"}
    PROVE  /\ [call EXCEPT !.stage = stage] \in Call
           /\ [call EXCEPT !.stage = stage].stage = stage
           /\ [call EXCEPT !.stage = stage].path = call.path
           /\ [call EXCEPT !.stage = stage].depth = call.depth
BY DEF Call

\* What a thread saw of a path, and what it leaves in the others' hands.
LEMMA StatSees ==
    ASSUME Typed, NEW w \in Watcher, NEW p \in Path, Stat(w, p), p \in Wanted
    PROVE  /\ DOMAIN events' = DOMAIN events \cup {w} /\ w \notin DOMAIN events
           /\ events'[w].path = p /\ events'[w].kind = fs[p] /\ events'[w].newest
           /\ events'[w] \in [path : Path, kind : Kind, newest : BOOLEAN]
           /\ \A v \in DOMAIN events :
                /\ events'[v].path = events[v].path /\ events'[v].kind = events[v].kind
                /\ events'[v].newest <=> events[v].newest /\ events[v].path # p
           /\ \A v \in DOMAIN events : events'[v] \in [path : Path, kind : Kind, newest : BOOLEAN]
<1> DEFINE seen == [path |-> p, kind |-> fs[p], newest |-> TRUE]
           older == [v \in DOMAIN events |-> [events[v] EXCEPT !.newest = @ /\ events[v].path # p]]
<1>1. events' = With(older, w, seen) /\ w \notin DOMAIN events
    BY DEF Stat
<1>2. ASSUME NEW v \in DOMAIN events
      PROVE  /\ older[v].path = events[v].path /\ older[v].kind = events[v].kind
             /\ older[v].newest <=> events[v].newest /\ events[v].path # p
             /\ older[v] \in [path : Path, kind : Kind, newest : BOOLEAN]
    <2>1. events[v] \in [path : Path, kind : Kind, newest : BOOLEAN]
        BY DEF Typed, WatcherTyped
    <2>2. older[v] = [events[v] EXCEPT !.newest = @ /\ events[v].path # p]
        OBVIOUS
    <2>3. (events[v].newest /\ events[v].path # p) \in BOOLEAN
        OBVIOUS
    <2> QED BY <2>1, <2>2, <2>3
<1>3. DOMAIN older = DOMAIN events
    OBVIOUS
<1>4. /\ seen.path = p /\ seen.kind = fs[p] /\ seen.newest
      /\ seen \in [path : Path, kind : Kind, newest : BOOLEAN]
    BY DEF Typed, WatcherTyped, IsDisk
<1> HIDE DEF seen, older
<1>5. /\ DOMAIN events' = DOMAIN events \cup {w}
      /\ events'[w] = seen /\ \A v \in DOMAIN events : events'[v] = older[v]
    BY <1>1, <1>3 DEF With
<1>6. \A v \in DOMAIN events :
        /\ events'[v].path = events[v].path /\ events'[v].kind = events[v].kind
        /\ events'[v].newest <=> events[v].newest /\ events[v].path # p
    BY <1>2, <1>5, Zenon
<1>7. \A v \in DOMAIN events : events'[v] \in [path : Path, kind : Kind, newest : BOOLEAN]
    BY <1>2, <1>5, Zenon
<1>8. events'[w].path = p /\ events'[w].kind = fs[p] /\ events'[w].newest
    BY <1>4, <1>5, Zenon
<1>9. events'[w] \in [path : Path, kind : Kind, newest : BOOLEAN]
    BY <1>4, <1>5
<1> QED BY <1>1, <1>5, <1>6, <1>7, <1>8, <1>9, Zenon

\* The event that handleEvent takes out of a thread's hands.
LEMMA EventIsTyped ==
    ASSUME Typed, NEW w \in Watcher, HandleEvent(w)
    PROVE  /\ events[w].path \in Path /\ events[w].kind \in Kind /\ events[w].newest \in BOOLEAN
           /\ Handle(events[w].path, events[w].kind)
           /\ w \in DOMAIN events /\ DOMAIN events' = DOMAIN events \ {w}
           /\ \A v \in DOMAIN events' : events'[v] = events[v]
           /\ InFlight' \subseteq InFlight /\ InFlight \subseteq InFlight' \cup {events[w].path}
           /\ overtaken \subseteq overtaken' /\ overtaken' \subseteq overtaken \cup {events[w].path}
           /\ UNCHANGED <<fs, changed, registered, registering, watched, closed, budget>>
<1>1. w \in DOMAIN events /\ events[w] \in [path : Path, kind : Kind, newest : BOOLEAN]
    BY DEF Typed, WatcherTyped, HandleEvent
<1>2. DOMAIN events' = DOMAIN events \ {w} /\ \A v \in DOMAIN events' : events'[v] = events[v]
    BY DEF HandleEvent, Restrict
<1>3. \A p : p \in InFlight <=> \E v \in DOMAIN events : events[v].path = p
    BY DEF InFlight
<1>4. \A p : p \in InFlight' <=> \E v \in DOMAIN events' : events'[v].path = p
    BY DEF InFlight
<1>5. InFlight' \subseteq InFlight /\ InFlight \subseteq InFlight' \cup {events[w].path}
    BY <1>2, <1>3, <1>4
<1>6. overtaken \subseteq overtaken' /\ overtaken' \subseteq overtaken \cup {events[w].path}
    BY DEF HandleEvent
<1> QED BY <1>1, <1>2, <1>5, <1>6 DEF HandleEvent

LEMMA ChangeIsTyped ==
    ASSUME Typed, NEW p \in Path, NEW kind \in Kind \ {"none"},
           Appear(p, kind) \/ Modify(p, kind) \/ Disappear(p)
    PROVE  Typed'
<1>1. /\ changed' = changed \cup ({p} \cap watched)
      /\ budget.changes > 0 /\ budget' = [budget EXCEPT !.changes = @ - 1]
      /\ UNCHANGED <<events, overtaken, registered, directories, pendingFiles, registering>>
    BY DEF Appear, Modify, Disappear, Change
<1>2. WatcherTyped'
    <2>1. IsDisk(fs')
        BY ChangesKeepDisk DEF Typed, WatcherTyped
    <2> QED BY <1>1, <2>1 DEF Typed, WatcherTyped, IsDisk
<1>3. CallsTyped'
    BY <1>1 DEF Typed, CallsTyped
<1> QED BY <1>1, <1>2, <1>3 DEF Typed, TreesAreWellFormed, Registry!TypeOK

LEMMA StatIsTyped ==
    ASSUME Typed, NEW w \in Watcher, NEW p \in Path, Stat(w, p)
    PROVE  Typed'
<1>1. fs[p] \in Kind
    BY DEF Typed, WatcherTyped, IsDisk
<1>2. /\ DOMAIN events' \subseteq Watcher
      /\ \A v \in DOMAIN events' : events'[v] \in [path : Path, kind : Kind, newest : BOOLEAN]
    <2>1. DOMAIN events \subseteq Watcher
          /\ \A v \in DOMAIN events : events[v] \in [path : Path, kind : Kind, newest : BOOLEAN]
        BY DEF Typed, WatcherTyped
    <2>2. CASE p \in Wanted
        <3>1. /\ DOMAIN events' = DOMAIN events \cup {w}
              /\ events'[w] \in [path : Path, kind : Kind, newest : BOOLEAN]
              /\ \A v \in DOMAIN events : events'[v] \in [path : Path, kind : Kind, newest : BOOLEAN]
            BY <2>2, StatSees, Zenon
        <3> QED BY <2>1, <3>1
    <2>3. CASE p \notin Wanted
        BY <2>1, <2>3 DEF Stat
    <2> QED BY <2>2, <2>3
<1>3. WatcherTyped'
    BY <1>2 DEF Stat, Typed, WatcherTyped, IsDisk
<1>4. CallsTyped'
    BY DEF Stat, Typed, CallsTyped
<1> QED BY <1>3, <1>4 DEF Stat, Typed, TreesAreWellFormed, Registry!TypeOK

LEMMA HandleIsTyped ==
    ASSUME Typed, NEW w \in Watcher, HandleEvent(w)
    PROVE  Typed'
<1>1. /\ events[w].path \in Path /\ Handle(events[w].path, events[w].kind)
      /\ DOMAIN events' \subseteq DOMAIN events /\ \A v \in DOMAIN events' : events'[v] = events[v]
      /\ overtaken' \subseteq overtaken \cup {events[w].path}
      /\ UNCHANGED <<fs, changed, registered, registering, budget>>
    BY EventIsTyped
<1>2. WatcherTyped'
    BY <1>1 DEF Typed, WatcherTyped, IsDisk
<1>3. CallsTyped'
    BY <1>1 DEF Typed, CallsTyped
<1>4. Registry!TypeOK'
    BY <1>1 DEF Typed, Registry!TypeOK
<1>5. TreesAreWellFormed(directories')
    BY <1>1, HandleEventKeepsTrees DEF Typed, WatcherTyped
<1>6. pendingFiles' \subseteq pendingFiles \cup {events[w].path}
    BY <1>1 DEF Handle, HandleDelete, HandleUpdate, HandlePending
<1> QED BY <1>1, <1>2, <1>3, <1>4, <1>5, <1>6 DEF Typed, TreesAreWellFormed

LEMMA UserStepIsTyped ==
    ASSUME Typed, NEW u \in User,
           \/ \E p \in Path, d \in Depth : Register(u, p, d)
           \/ Watch(u)
           \/ Fill(u)
           \/ \E p \in Path : Unregister(u, p)
           \/ Unwatch(u)
    PROVE  Typed'
<1>0. registering[u] \in Call /\ \A v \in User : registering[v] \in Call
    BY DEF Typed, CallsTyped
<1>1. ASSUME NEW p \in Path, NEW d \in Depth, Register(u, p, d) PROVE Typed'
    <2> DEFINE call == [stage |-> "added", path |-> p, depth |-> d]
    <2>1. call \in Call /\ call.path \in Path /\ call.depth \in Depth
        BY DEF Call
    <2>2. registering' = [registering EXCEPT ![u] = call]
        BY <1>1 DEF Register
    <2> HIDE DEF call
    <2>3. CallsTyped'
        <3>1. budget' \in [changes : Nat, register : Nat, unregister : Nat]
            BY <1>1 DEF Register, Typed, CallsTyped
        <3> QED BY <2>1, <2>2, <3>1 DEF Typed, CallsTyped
    <2>4. Registry!TypeOK'
        BY <1>1 DEF Register, Typed, Registry!TypeOK, Registry!AddDirectory, Registry!Put
    <2> QED BY <1>1, <2>3, <2>4 DEF Register, Typed, WatcherTyped, TreesAreWellFormed, IsDisk
<1>2. CASE Watch(u)
    <2> DEFINE call == [registering[u] EXCEPT !.stage = "locked"]
    <2>1. call \in Call /\ call.path = registering[u].path /\ call.depth = registering[u].depth
        BY <1>0, CallAdvances
    <2>2. registering' = [registering EXCEPT ![u] = call] /\ registering[u].stage = "added"
        BY <1>2 DEF Watch
    <2> HIDE DEF call
    <2>3. CallsTyped'
        BY <1>2, <2>1, <2>2 DEF Watch, Typed, CallsTyped
    <2> QED BY <1>2, <2>3 DEF Watch, Typed, WatcherTyped, TreesAreWellFormed, IsDisk, Registry!TypeOK
<1>3. CASE Fill(u)
    <2>1. Idle \in Call /\ Idle.stage = "idle"
        BY DEF Idle, Call
    <2>2. registering' = [registering EXCEPT ![u] = Idle] /\ registering[u].stage = "locked"
        BY <1>3 DEF Fill
    <2>3. CallsTyped'
        <3> HIDE DEF Idle
        <3> QED BY <1>3, <2>1, <2>2 DEF Fill, Typed, CallsTyped
    <2>4. registering[u].path \in Path /\ registering[u].depth \in Depth
        BY <2>2 DEF Typed, CallsTyped
    <2>5. TreesAreWellFormed(directories')
        BY <1>3, <2>4, FillKeepsTrees DEF Typed, WatcherTyped
    <2>6. pendingFiles' \subseteq Path
        BY <1>3, <2>4 DEF Fill, Typed
    <2> QED BY <1>3, <2>3, <2>5, <2>6 DEF Fill, Typed, WatcherTyped, TreesAreWellFormed, IsDisk, Registry!TypeOK
<1>4. ASSUME NEW p \in Path, Unregister(u, p) PROVE Typed'
    <2> DEFINE call == [registering[u] EXCEPT !.stage = "unregistered"]
    <2>1. call \in Call /\ call.stage = "unregistered"
        BY <1>0, CallAdvances
    <2>2. registering' = [registering EXCEPT ![u] = call]
        BY <1>4 DEF Unregister
    <2> HIDE DEF call
    <2>3. CallsTyped'
        <3>1. budget' \in [changes : Nat, register : Nat, unregister : Nat]
            BY <1>4 DEF Unregister, Typed, CallsTyped
        <3> QED BY <2>1, <2>2, <3>1 DEF Typed, CallsTyped
    <2>4. Registry!TypeOK'
        BY <1>4 DEF Unregister, Typed, Registry!TypeOK, Registry!Without
    <2>5. TreesAreWellFormed(directories')
        BY <1>4, UnregisterKeepsTrees DEF Typed
    <2> QED BY <1>4, <2>3, <2>4, <2>5 DEF Unregister, Typed, WatcherTyped, TreesAreWellFormed, IsDisk
<1>5. CASE Unwatch(u)
    <2>1. Idle \in Call /\ Idle.stage = "idle"
        BY DEF Idle, Call
    <2>2. registering' = [registering EXCEPT ![u] = Idle]
        BY <1>5 DEF Unwatch
    <2>3. CallsTyped'
        <3> HIDE DEF Idle
        <3> QED BY <1>5, <2>1, <2>2 DEF Unwatch, Typed, CallsTyped
    <2> QED BY <1>5, <2>3 DEF Unwatch, Typed, WatcherTyped, TreesAreWellFormed, IsDisk, Registry!TypeOK
<1> QED BY <1>1, <1>2, <1>3, <1>4, <1>5

LEMMA StepIsTyped == Typed /\ [Next]_vars => Typed'
<1> SUFFICES ASSUME Typed, [Next]_vars PROVE Typed'
    OBVIOUS
<1>1. ASSUME NEW p \in Path,
             \/ \E kind \in Kind \ {"none"} : Appear(p, kind) \/ Modify(p, kind)
             \/ Disappear(p)
             \/ \E w \in Watcher : Stat(w, p)
      PROVE  Typed'
    <2>1. ASSUME NEW kind \in Kind \ {"none"}, Appear(p, kind) \/ Modify(p, kind) \/ Disappear(p)
          PROVE  Typed'
        BY <2>1, ChangeIsTyped
    <2>2. "dir" \in Kind \ {"none"}
        BY DEF Kind
    <2> QED BY <1>1, <2>1, <2>2, StatIsTyped
<1>5. ASSUME NEW w \in Watcher, HandleEvent(w) PROVE Typed'
    BY <1>5, HandleIsTyped
<1>2. ASSUME NEW u \in User,
             \/ \E p \in Path, d \in Depth : Register(u, p, d)
             \/ Watch(u)
             \/ Fill(u)
             \/ \E p \in Path : Unregister(u, p)
             \/ Unwatch(u)
      PROVE  Typed'
    BY <1>2, UserStepIsTyped
<1>3. CASE Close
    BY <1>3 DEF Close, Typed, WatcherTyped, CallsTyped, IsDisk, TreesAreWellFormed, NoRoots,
                Registry!TypeOK, Registry!NoDirectories
<1>4. CASE UNCHANGED vars
    BY <1>4 DEF vars, Typed, WatcherTyped, CallsTyped, IsDisk, TreesAreWellFormed, Registry!TypeOK
<1> QED BY <1>1, <1>2, <1>3, <1>4, <1>5 DEF Next

\* Types, trees that are well formed, and the disk as a file system, together.
THEOREM AlwaysTyped == Spec => []Typed
BY InitIsTyped, StepIsTyped, PTL DEF Spec

\* The cache never holds anything that the code could not have put there: every
\* directory of a cached tree lies below the root and is as deep as its distance
\* from the root leaves it, or a leaf, after any sequence of calls, events and
\* changes, whatever update met when it looked (FileCacheDirectoryTree,
\* CachedDirectoryImpl).
THEOREM TreeTypeCorrect == Spec => []TypeOK
<1>1. Typed => TypeOK
    <2> SUFFICES ASSUME Typed PROVE TypeOK
        OBVIOUS
    <2>1. ASSUME NEW r \in DOMAIN directories
          PROVE  LET tree == directories[r] IN
                 /\ r \in DirPaths(tree)
                 /\ \A q \in DirPaths(tree) :
                      /\ StartsWith(q, r)
                      /\ tree.dirs[q].depth \in {-1, IF tree.dirs[r].depth = MaxInt THEN MaxInt
                                                      ELSE tree.dirs[r].depth - Distance(r, q)}
        <3>1. WellFormed(directories[r], r)
            BY DEF Typed, TreesAreWellFormed
        <3> QED BY <3>1 DEF WellFormed, Rooted, Levelled, SubdirectoryDepth
    <2>2. DOMAIN registered \subseteq Path /\ \A p \in DOMAIN registered : registered[p] \in Depth
        BY DEF Typed, Registry!TypeOK
    <2> QED BY <2>1, <2>2 DEF TypeOK, Typed, WatcherTyped, IsDisk, TreesAreWellFormed
<1> QED BY <1>1, AlwaysTyped, PTL
-----------------------------------------------------------------------------
(* The cache and its registry *)

\* What the cache does to the registry is what the registry's own specification
\* allows: register adds, unregister removes, close clears, nothing else writes
\* (FileCacheDirectoryTree, DirectoryRegistryImpl).
THEOREM TreeUsesRegistry == Spec => Registry!Spec
<1>1. Init => Registry!Init
    BY DEF Init, Registry!Init
<1>2. Typed /\ [Next]_vars => [Registry!Next]_registered
    <2> SUFFICES ASSUME Typed, [Next]_vars, registered' # registered PROVE Registry!Next
        OBVIOUS
    <2>0. registered = [p \in DOMAIN registered |-> registered[p]]
        BY DEF Typed, Registry!TypeOK
    <2>1. ASSUME NEW u \in User, NEW p \in Path, NEW d \in Depth, Register(u, p, d) PROVE Registry!Next
        BY <2>1 DEF Register, Registry!Next
    <2>2. ASSUME NEW u \in User, NEW p \in Path, Unregister(u, p) PROVE Registry!Next
        <3>1. registered' = Registry!Without(registered, p)
            BY <2>2 DEF Unregister
        <3>2. p \in DOMAIN registered
            <4> SUFFICES ASSUME p \notin DOMAIN registered PROVE FALSE
                OBVIOUS
            <4>1. DOMAIN registered \ {p} = DOMAIN registered
                OBVIOUS
            <4>2. registered' = registered
                BY <2>0, <3>1, <4>1 DEF Registry!Without
            <4> QED BY <4>2
        <3> QED BY <3>1, <3>2 DEF Registry!Next, Registry!RemoveDirectory
    <2>3. CASE Close
        BY <2>3 DEF Close, Registry!Next, Registry!Close
    <2>4. ASSUME NEW u \in User, Watch(u) \/ Fill(u) \/ Unwatch(u) PROVE FALSE
        BY <2>4 DEF Watch, Fill, Unwatch
    <2>5. ASSUME NEW p \in Path, NEW kind, Appear(p, kind) \/ Modify(p, kind) \/ Disappear(p) PROVE FALSE
        BY <2>5 DEF Appear, Modify, Disappear, Change
    <2>6. ASSUME NEW w \in Watcher, (\E p \in Path : Stat(w, p)) \/ HandleEvent(w) PROVE FALSE
        BY <2>6 DEF Stat, HandleEvent
    <2>7. CASE UNCHANGED vars
        BY <2>7 DEF vars
    <2> QED BY <2>1, <2>2, <2>3, <2>4, <2>5, <2>6, <2>7 DEF Next
<1> QED BY <1>1, <1>2, AlwaysTyped, PTL DEF Spec, Registry!Spec
-----------------------------------------------------------------------------
(* Observers *)

\* No cached root lies at or below another one.
RootsApart(dirs) == \A r, s \in DOMAIN dirs : StartsWith(r, s) => r = s

\* What is found below a root is found in its own tree.
LEMMA FoundInOneRoot ==
    ASSUME NEW dirs, TreesAreWellFormed(dirs)
    PROVE  /\ \A p : p \in Found(dirs) <=> \E r \in DOMAIN dirs : p \in FoundIn(dirs[r])
           /\ \A r \in DOMAIN dirs : \A p \in Entered(dirs[r]) : p \in Path /\ StartsWith(p, r)
           /\ \A r \in DOMAIN dirs : FoundIn(dirs[r]) \subseteq Entered(dirs[r])
           /\ RootsApart(dirs) => \A r, s \in DOMAIN dirs : \A p \in Entered(dirs[r]) :
                                     StartsWith(p, s) => r = s
<1>1. \A p : p \in Found(dirs) <=> \E r \in DOMAIN dirs : p \in FoundIn(dirs[r])
    BY DEF Found
<1>2. ASSUME NEW r \in DOMAIN dirs
      PROVE  /\ \A p \in Entered(dirs[r]) : p \in Path /\ StartsWith(p, r)
             /\ FoundIn(dirs[r]) \subseteq Entered(dirs[r])
    <2>1. r \in Path /\ Rooted(dirs[r], r)
        BY DEF TreesAreWellFormed, WellFormed
    <2> QED BY <2>1, FilesAreNamed
<1>3. ASSUME RootsApart(dirs), NEW r \in DOMAIN dirs, NEW s \in DOMAIN dirs,
             NEW p \in Entered(dirs[r]), StartsWith(p, s)
      PROVE  r = s
    <2>1. p \in Path /\ StartsWith(p, r) /\ r \in Path /\ s \in Path
        BY <1>2 DEF TreesAreWellFormed
    <2>2. StartsWith(r, s) \/ StartsWith(s, r)
        BY <1>3, <2>1, StartsWithIsOrder
    <2> QED BY <1>3, <2>2 DEF RootsApart
<1> QED BY <1>1, <1>2, <1>3

\* find finds a root for its own path.
LEMMA RootFindsItself ==
    ASSUME NEW dirs, NEW path \in Path, path \in DOMAIN dirs
    PROVE  path \in Find(dirs, path)
<1>1. StartsWith(path, path) /\ Len(path) \in Nat
    BY StartsWithIsOrder, PathsAreLong
<1>2. ASSUME NEW s \in DOMAIN dirs, Reaches(dirs, s, path) PROVE Len(s) <= Len(path)
    <2>1. StartsWith(path, s)
        BY <1>2 DEF Reaches
    <2> QED BY <1>1, <2>1 DEF StartsWith
<1>3. Reaches(dirs, path, path)
    BY <1>1 DEF Reaches
<1> QED BY <1>2, <1>3 DEF Find

\* An update of one tree, replayed.
LEMMA UpdateIsObserved ==
    ASSUME NEW dirs, TreesAreWellFormed(dirs), RootsApart(dirs), NEW r \in DOMAIN dirs,
           NEW result, Keeps(dirs[r], r, result)
    PROVE  Found([dirs EXCEPT ![r] = result.tree])
             = (Found(dirs) \cup result.updates.created \cup result.updates.updated)
                 \ result.updates.deleted
<1> DEFINE created == result.updates.created
           updated == result.updates.updated
           deleted == result.updates.deleted
           after   == [dirs EXCEPT ![r] = result.tree]
<1>1. /\ FoundIn(result.tree) = (FoundIn(dirs[r]) \cup created \cup updated) \ deleted
      /\ \A p \in deleted : p \in Path /\ StartsWith(p, r)
    BY DEF Keeps, Tells, TellsBelow
<1>2. /\ DOMAIN after = DOMAIN dirs /\ after[r] = result.tree
      /\ \A s \in DOMAIN dirs : s # r => after[s] = dirs[s]
    OBVIOUS
<1> HIDE DEF created, updated, deleted, after
<1>3. \A p : p \in Found(after) <=> \E s \in DOMAIN after : p \in FoundIn(after[s])
    BY DEF Found
<1>4. \A p : p \in Found(after) <=>
          p \in FoundIn(result.tree) \/ \E s \in DOMAIN dirs : s # r /\ p \in FoundIn(dirs[s])
    BY <1>2, <1>3
<1>5. \A p : p \in Found(dirs) <=>
          p \in FoundIn(dirs[r]) \/ \E s \in DOMAIN dirs : s # r /\ p \in FoundIn(dirs[s])
    BY FoundInOneRoot
<1>6. \A s \in DOMAIN dirs : s # r => \A p \in FoundIn(dirs[s]) : p \notin deleted
    BY <1>1, FoundInOneRoot
<1>7. \A p : p \in Found(after) <=> (p \in Found(dirs) \/ p \in created \/ p \in updated) /\ p \notin deleted
    BY <1>1, <1>4, <1>5, <1>6
<1>8. Found(after) = (Found(dirs) \cup created \cup updated) \ deleted
    BY <1>7
<1> QED BY <1>8 DEF after, created, updated, deleted

\* A deletion, replayed.
LEMMA DeleteIsObserved ==
    ASSUME TreesAreWellFormed(directories), RootsApart(directories), observed = Found(directories),
           NEW path \in Path, HandleDelete(directories, path)
    PROVE  observed' = Found(directories')
<1> DEFINE roots == RootsAbove(directories, path)
           part(r) == IF r = path THEN Entries(directories, r)
                      ELSE RemovedPaths(directories[r], r, path)
           deleted == UNION {part(r) : r \in roots}
           kept == [r \in DOMAIN directories |->
                      IF r \in roots THEN Remove(directories[r], r, path) ELSE directories[r]]
           rest == DOMAIN directories \ {path}
<1>1. directories' = Restrict(kept, rest)
    BY DEF HandleDelete
<1>2. observed' = observed \ deleted
    <2>1. observed' = Replay([Nothing EXCEPT !.deleted = deleted])
        BY DEF HandleDelete
    <2> HIDE DEF deleted
    <2> QED BY <2>1 DEF Replay, Nothing
<1>3. \A r \in roots : r \in DOMAIN directories /\ r \in Path /\ StartsWith(path, r)
    BY DEF RootsAbove, TreesAreWellFormed
<1>4. path \in DOMAIN directories => path \in roots
    BY StartsWithIsOrder DEF RootsAbove
<1>5. ASSUME NEW r \in roots
      PROVE  /\ r # path => FoundIn(kept[r]) = FoundIn(directories[r]) \ part(r)
             /\ r = path => part(r) = Entered(directories[r])
             /\ part(r) \subseteq Entered(directories[r])
    <2>1. WellFormed(directories[r], r)
        BY <1>3 DEF TreesAreWellFormed
    <2>2. CASE r = path
        <3>1. r \in DirPaths(directories[r])
            BY <2>1 DEF WellFormed, Rooted
        <3>2. Subtree(directories[r], r) = {q \in Entered(directories[r]) : StartsWith(q, r)}
            BY <1>3, <2>1, <3>1, SubtreeIs
        <3>3. \A q \in Entered(directories[r]) : StartsWith(q, r)
            BY <1>3, FoundInOneRoot
        <3> QED BY <2>2, <3>2, <3>3 DEF Entries
    <2>3. CASE r # path
        <3>1. kept[r] = Remove(directories[r], r, path)
            BY <1>3
        <3>2. /\ FoundIn(Remove(directories[r], r, path))
                   = FoundIn(directories[r]) \ RemovedPaths(directories[r], r, path)
              /\ RemovedPaths(directories[r], r, path) \subseteq Entered(directories[r])
            BY <1>3, <2>1, RemoveTells
        <3> QED BY <2>3, <3>1, <3>2
    <2> QED BY <2>2, <2>3
<1>6. DOMAIN directories' = rest /\ \A r \in rest : directories'[r] = kept[r]
    BY <1>1 DEF Restrict
<1>7. \A r \in DOMAIN directories : r \notin roots => kept[r] = directories[r]
    OBVIOUS
<1>8. \A r \in roots : part(r) \subseteq deleted
    OBVIOUS
<1>9. \A p \in deleted : \E r \in roots : p \in part(r)
    OBVIOUS
<1> HIDE DEF roots, part, deleted, kept
<1>10. ASSUME NEW r \in DOMAIN directories, NEW p \in FoundIn(directories[r])
       PROVE  p \in deleted <=> r \in roots /\ p \in part(r)
    <2>1. p \in Entered(directories[r])
        BY FoundInOneRoot
    <2>2. ASSUME NEW s \in roots, p \in part(s) PROVE r = s
        <3>1. s \in DOMAIN directories /\ p \in Entered(directories[s])
            BY <1>3, <1>5, <2>2
        <3>2. StartsWith(p, s)
            BY <3>1, FoundInOneRoot
        <3> QED BY <2>1, <3>1, <3>2, FoundInOneRoot
    <2> QED BY <1>8, <1>9, <2>2
<1>11. ASSUME NEW p
       PROVE  p \in Found(directories') <=> p \in Found(directories) /\ p \notin deleted
    <2>1. p \in Found(directories) <=> \E r \in DOMAIN directories : p \in FoundIn(directories[r])
        BY FoundInOneRoot
    <2>2. p \in Found(directories') <=> \E r \in DOMAIN directories' : p \in FoundIn(directories'[r])
        BY DEF Found
    <2>3. ASSUME NEW r \in rest
          PROVE  p \in FoundIn(kept[r]) <=> p \in FoundIn(directories[r]) /\ p \notin deleted
        <3>1. CASE r \in roots
            <4>1. FoundIn(kept[r]) = FoundIn(directories[r]) \ part(r)
                BY <1>5, <2>3, <3>1
            <4> QED BY <1>10, <2>3, <3>1, <4>1
        <3>2. CASE r \notin roots
            BY <1>7, <1>10, <2>3, <3>2
        <3> QED BY <3>1, <3>2
    <2>4. ASSUME path \in DOMAIN directories, p \in FoundIn(directories[path]) PROVE p \in deleted
        <3>1. part(path) = Entered(directories[path]) /\ p \in Entered(directories[path])
            BY <1>4, <1>5, <2>4, FoundInOneRoot
        <3> QED BY <1>4, <1>8, <2>4, <3>1
    <2> QED BY <1>6, <2>1, <2>2, <2>3, <2>4
<1>12. Found(directories') = Found(directories) \ deleted
    BY <1>11
<1> QED BY <1>2, <1>12

\* What a list of everything shows.
LEMMA VisibleIsEntered ==
    ASSUME NEW dirs, TreesAreWellFormed(dirs)
    PROVE  \A p : p \in Visible(dirs) <=> \E r \in DOMAIN dirs : p \in Entered(dirs[r])
<1>1. ASSUME NEW r \in DOMAIN dirs PROVE Entries(dirs, r) = Entered(dirs[r])
    <2>1. r \in Path /\ WellFormed(dirs[r], r) /\ r \in DirPaths(dirs[r])
        BY DEF TreesAreWellFormed, WellFormed, Rooted
    <2>2. Subtree(dirs[r], r) = {q \in Entered(dirs[r]) : StartsWith(q, r)}
        BY <2>1, SubtreeIs
    <2>3. \A q \in Entered(dirs[r]) : StartsWith(q, r)
        BY FoundInOneRoot
    <2> QED BY <2>2, <2>3 DEF Entries
<1>2. \A p : p \in Visible(dirs) <=> \E r \in DOMAIN dirs : p \in Entries(dirs, r)
    BY DEF Visible
<1> QED BY <1>1, <1>2

\* cleanupDirectories has nothing to do where no root lies below the path.
LEMMA NothingToCleanUp ==
    ASSUME NEW dirs, NEW path, NEW maxDepth, \A r \in DOMAIN dirs : ~StrictlyBelow(r, path)
    PROVE  LET new == CleanedUp(dirs, path, maxDepth)
           IN  DOMAIN new = DOMAIN dirs /\ \A r \in DOMAIN dirs : new[r] = dirs[r]
<1> DEFINE new == CleanedUp(dirs, path, maxDepth)
<1>1. /\ DOMAIN new \subseteq DOMAIN dirs
      /\ \A r \in DOMAIN new : new[r] = dirs[r]
      /\ \A r \in DOMAIN dirs : r \in DOMAIN new \/ StrictlyBelow(r, path)
    BY CleanedUpIs
<1> HIDE DEF new
<1>2. DOMAIN new = DOMAIN dirs /\ \A r \in DOMAIN dirs : new[r] = dirs[r]
    BY <1>1
<1> QED BY <1>2 DEF new

\* A path that is registered lies neither at, above nor below another registered one.
RegistersApart ==
    \A u \in User, path \in Path, depth \in Depth : Register(u, path, depth)
        => \A q \in DOMAIN registered : ~StartsWith(path, q) /\ ~StartsWith(q, path)

NothingUnregisters == \A u \in User, path \in Path : ~Unregister(u, path)

\* Moreover nothing is unregistered.
UsedApart == RegistersApart /\ NothingUnregisters

\* Then every cached root is a registered path, and a path under way is neither
\* cached nor pending.
Located ==
    /\ \A u \in User : registering[u].stage \in {"idle", "added", "locked"}
    /\ DOMAIN directories \subseteq DOMAIN registered
    /\ pendingFiles \subseteq DOMAIN registered
    /\ \A p, q \in DOMAIN registered : StartsWith(p, q) => p = q
    /\ \A u \in User : registering[u].stage # "idle" =>
         /\ registering[u].path \in DOMAIN registered
         /\ registering[u].path \notin DOMAIN directories
         /\ registering[u].path \notin pendingFiles
    /\ \A u, v \in User : registering[u].stage # "idle" /\ registering[v].stage # "idle"
         /\ registering[u].path = registering[v].path => u = v

\* A call under way ends.
LEMMA CallEnds ==
    ASSUME Typed, NEW u \in User, registering' = [registering EXCEPT ![u] = Idle]
    PROVE  /\ registering'[u].stage = "idle"
           /\ \A v \in User : registering'[v].stage # "idle" => v # u /\ registering'[v] = registering[v]
<1>1. Idle.stage = "idle"
    BY DEF Idle
<1> HIDE DEF Idle
<1> QED BY <1>1 DEF Typed, CallsTyped

\* The part of register that holds the lock finds its path apart from every root: it
\* makes a new root, or leaves the path to pendingFiles.
FillsApart(u, path, maxDepth) ==
    LET new == NewCachedDirectory(path, maxDepth)
    IN  \/ /\ NoSuchFile(path, maxDepth) /\ pendingFiles' = pendingFiles \cup {path}
           /\ DOMAIN directories' = DOMAIN directories
           /\ \A r \in DOMAIN directories : directories'[r] = directories[r]
        \/ /\ ~NoSuchFile(path, maxDepth) /\ pendingFiles' = pendingFiles
           /\ DOMAIN directories' = DOMAIN directories \cup {path}
           /\ directories'[path] = new
           /\ \A r \in DOMAIN directories : directories'[r] = directories[r]

LEMMA FillIsApart ==
    ASSUME Typed, Located, NEW u \in User, Fill(u)
    PROVE  /\ registering[u].stage = "locked" /\ registering[u].path \in Path
           /\ registering[u].depth \in Depth
           /\ registering[u].path \in DOMAIN registered \ (DOMAIN directories \cup pendingFiles)
           /\ \A r \in DOMAIN directories :
                /\ r \in Path /\ ~StartsWith(registering[u].path, r)
                /\ ~StartsWith(r, registering[u].path)
           /\ FillsApart(u, registering[u].path, registering[u].depth)
<1> DEFINE path == registering[u].path
           maxDepth == registering[u].depth
           new == NewCachedDirectory(path, maxDepth)
           grown == With(directories, path, new)
<1>1. registering[u].stage = "locked"
    BY DEF Fill
<1>2. path \in Path /\ maxDepth \in Depth /\ DOMAIN registered \subseteq Path
    BY <1>1 DEF Typed, CallsTyped, Registry!TypeOK
<1>3. path \in DOMAIN registered \ (DOMAIN directories \cup pendingFiles)
    BY <1>1 DEF Located
<1>4. \A r \in DOMAIN directories : r \in Path /\ ~StartsWith(path, r) /\ ~StartsWith(r, path)
    BY <1>2, <1>3 DEF Located
<1>5. Existing(path, maxDepth) = {}
    BY <1>4 DEF Existing
<1>6. CASE /\ directories' = CleanedUp(directories, path, maxDepth) /\ NoSuchFile(path, maxDepth)
           /\ pendingFiles' = pendingFiles \cup {path}
    <2>1. /\ DOMAIN directories' = DOMAIN directories
          /\ \A r \in DOMAIN directories : directories'[r] = directories[r]
        BY <1>4, <1>6, NothingToCleanUp DEF StrictlyBelow
    <2> QED BY <1>1, <1>2, <1>3, <1>4, <1>6, <2>1 DEF FillsApart
<1>7. CASE /\ directories' = CleanedUp(grown, path, maxDepth) /\ ~NoSuchFile(path, maxDepth)
           /\ pendingFiles' = pendingFiles
    <2> HIDE DEF new
    <2>1. /\ DOMAIN grown = DOMAIN directories \cup {path} /\ grown[path] = new
          /\ \A r \in DOMAIN directories : grown[r] = directories[r]
        BY <1>3 DEF With
    <2> HIDE DEF grown
    <2>2. \A r \in DOMAIN grown : ~StrictlyBelow(r, path)
        BY <1>4, <2>1 DEF StrictlyBelow
    <2>3. DOMAIN directories' = DOMAIN grown /\ \A r \in DOMAIN grown : directories'[r] = grown[r]
        BY <1>7, <2>2, NothingToCleanUp
    <2>4. /\ DOMAIN directories' = DOMAIN directories \cup {path} /\ directories'[path] = new
          /\ \A r \in DOMAIN directories : directories'[r] = directories[r]
        BY <2>1, <2>3
    <2>5. FillsApart(u, path, maxDepth)
        BY <1>7, <2>4 DEF FillsApart, new
    <2> QED BY <1>1, <1>2, <1>3, <1>4, <2>5
<1> QED BY <1>5, <1>6, <1>7 DEF Fill

LEMMA FillIsLocated ==
    ASSUME Typed, Located, NEW u \in User, Fill(u)
    PROVE  Located'
<1> DEFINE path == registering[u].path
<1>1. /\ path \in DOMAIN registered \ (DOMAIN directories \cup pendingFiles)
      /\ registering[u].stage = "locked"
      /\ DOMAIN directories' \subseteq DOMAIN directories \cup {path}
      /\ pendingFiles' \subseteq pendingFiles \cup {path}
    BY FillIsApart DEF FillsApart
<1>2. registering' = [registering EXCEPT ![u] = Idle] /\ registered' = registered
    BY DEF Fill
<1>3. /\ registering'[u].stage = "idle"
      /\ \A v \in User : registering'[v].stage # "idle" => v # u /\ registering'[v] = registering[v]
    BY <1>2, CallEnds
<1>4. \A v \in User : v # u /\ registering[v].stage # "idle" => registering[v].path # path
    BY <1>1 DEF Located
<1> HIDE DEF path
<1> QED BY <1>1, <1>2, <1>3, <1>4 DEF Located

\* handleEvent.
LEMMA HandleDeleteIsLocated ==
    ASSUME Located, NEW dirs, DOMAIN dirs = DOMAIN directories, NEW path \in Path,
           HandleDelete(dirs, path)
    PROVE  /\ DOMAIN directories' \subseteq DOMAIN directories
           /\ pendingFiles' \subseteq pendingFiles \cup DOMAIN directories
<1>1. DOMAIN directories' \subseteq DOMAIN directories
    BY DEF HandleDelete, Restrict
<1>2. pendingFiles' \subseteq pendingFiles \cup DOMAIN directories
    <2> SUFFICES ASSUME RootsAbove(dirs, path) # {}, path \in DOMAIN registered
                 PROVE  path \in DOMAIN directories
        BY DEF HandleDelete
    <2>1. PICK r \in DOMAIN directories : StartsWith(path, r)
        BY DEF RootsAbove
    <2> QED BY <2>1 DEF Located
<1> QED BY <1>1, <1>2

LEMMA HandleEventIsLocated ==
    ASSUME Typed, Located, NEW w \in Watcher, HandleEvent(w)
    PROVE  Located'
<1> DEFINE path == events[w].path
           kind == events[w].kind
<1>0. path \in Path /\ Handle(path, kind)
    BY EventIsTyped
<1>1. /\ DOMAIN directories' \subseteq DOMAIN directories \cup pendingFiles
      /\ pendingFiles' \subseteq pendingFiles \cup DOMAIN directories
    <2>1. ASSUME NEW r, HandleUpdate(r, path, kind)
          PROVE  /\ DOMAIN directories' \subseteq DOMAIN directories
                 /\ pendingFiles' \subseteq pendingFiles \cup DOMAIN directories
        <3>1. DOMAIN [directories EXCEPT ![r] = Cleared(@, r)] = DOMAIN directories
            OBVIOUS
        <3>2. HandleDelete([directories EXCEPT ![r] = Cleared(@, r)], path)
                \/ (DOMAIN directories' = DOMAIN directories /\ UNCHANGED pendingFiles)
            BY <2>1 DEF HandleUpdate
        <3> QED BY <1>0, <3>1, <3>2, HandleDeleteIsLocated
    <2>2. ASSUME path \in pendingFiles, HandlePending(path)
          PROVE  /\ DOMAIN directories' \subseteq DOMAIN directories \cup pendingFiles
                 /\ pendingFiles' = pendingFiles
        BY <2>2 DEF HandlePending, With
    <2> HIDE DEF path, kind
    <2> QED BY <1>0, <2>1, <2>2, HandleDeleteIsLocated DEF Handle
<1>2. registered' = registered /\ registering' = registering
    BY DEF HandleEvent
<1> QED BY <1>1, <1>2 DEF Located

\* register, before the lock.
LEMMA RegisterIsLocated ==
    ASSUME Typed, Located, NEW u \in User, NEW path \in Path, NEW depth \in Depth,
           Register(u, path, depth),
           \A q \in DOMAIN registered : ~StartsWith(path, q) /\ ~StartsWith(q, path)
    PROVE  Located'
<1> DEFINE call == [stage |-> "added", path |-> path, depth |-> depth]
<1>1. call.path = path /\ call.stage = "added"
    OBVIOUS
<1>2. registering' = [registering EXCEPT ![u] = call]
    BY DEF Register
<1> HIDE DEF call
<1>3. /\ DOMAIN registered' = DOMAIN registered \cup {path}
      /\ UNCHANGED <<directories, pendingFiles>>
    BY DEF Register, Registry!AddDirectory, Registry!Put
<1>4. StartsWith(path, path)
    BY StartsWithIsOrder
<1>5. path \notin DOMAIN registered
    BY <1>4
<1>6. \A v \in User : \/ v = u /\ registering'[v].path = path /\ registering'[v].stage = "added"
                      \/ v # u /\ registering'[v] = registering[v]
    BY <1>1, <1>2 DEF Typed, CallsTyped
<1>7. \A v \in User : v # u /\ registering[v].stage # "idle" => registering[v].path # path
    BY <1>5 DEF Located
<1>8. \A p, q \in DOMAIN registered' : StartsWith(p, q) => p = q
    BY <1>3 DEF Located
<1>9. path \notin DOMAIN directories /\ path \notin pendingFiles
    BY <1>5 DEF Located
<1>10. \A v \in User : registering'[v].stage # "idle" =>
         /\ registering'[v].path \in DOMAIN registered'
         /\ registering'[v].path \notin DOMAIN directories'
         /\ registering'[v].path \notin pendingFiles'
    BY <1>3, <1>6, <1>9 DEF Located
<1>11. \A v, w \in User : (/\ registering'[v].stage # "idle" /\ registering'[w].stage # "idle"
                           /\ registering'[v].path = registering'[w].path) => v = w
    BY <1>6, <1>7 DEF Located
<1>12. \A v \in User : registering'[v].stage \in {"idle", "added", "locked"}
    BY <1>6 DEF Located
<1> QED BY <1>3, <1>8, <1>10, <1>11, <1>12 DEF Located

\* watcher.register moves the call on.
LEMMA WatchAdvances ==
    ASSUME Typed, NEW u \in User, Watch(u)
    PROVE  /\ registering[u].stage = "added" /\ registering'[u].stage = "locked"
           /\ \A v \in User : v # u => registering'[v] = registering[v]
           /\ \A v \in User : /\ registering'[v].path = registering[v].path
                              /\ registering'[v].depth = registering[v].depth
                              /\ registering'[v].stage # "idle" <=> registering[v].stage # "idle"
<1> DEFINE call == [registering[u] EXCEPT !.stage = "locked"]
<1>1. /\ call.stage = "locked" /\ call.path = registering[u].path
      /\ call.depth = registering[u].depth
    BY CallAdvances DEF Typed, CallsTyped
<1>2. registering' = [registering EXCEPT ![u] = call] /\ registering[u].stage = "added"
    BY DEF Watch
<1> HIDE DEF call
<1> QED BY <1>1, <1>2 DEF Typed, CallsTyped

LEMMA InitIsLocated == Init => Located
<1> SUFFICES ASSUME Init PROVE Located
    OBVIOUS
<1>1. \A u \in User : registering[u].stage = "idle"
    BY DEF Init, Idle
<1>2. DOMAIN directories = {} /\ DOMAIN registered = {} /\ pendingFiles = {}
    BY DEF Init, NoRoots, Registry!NoDirectories
<1> QED BY <1>1, <1>2 DEF Located

\* No step before close takes that away.
LEMMA StepIsLocated ==
    ASSUME Typed, Located, [Next]_vars, [UsedApart]_vars, ~closed'
    PROVE  Located'
<1>1. ASSUME NEW p \in Path, NEW kind, Appear(p, kind) \/ Modify(p, kind) \/ Disappear(p) PROVE Located'
    BY <1>1 DEF Appear, Modify, Disappear, Change, Located
<1>2. ASSUME NEW w \in Watcher, NEW p \in Path, Stat(w, p) PROVE Located'
    BY <1>2 DEF Stat, Located
<1>3. ASSUME NEW w \in Watcher, HandleEvent(w) PROVE Located'
    BY <1>3, HandleEventIsLocated
<1>4. CASE UNCHANGED vars
    BY <1>4 DEF vars, Located
<1>5. ASSUME NEW u \in User, NEW p \in Path, NEW d \in Depth, Register(u, p, d), UsedApart PROVE Located'
    BY <1>5, RegisterIsLocated DEF UsedApart, RegistersApart
<1>6. ASSUME NEW u \in User, Watch(u) PROVE Located'
    <2>1. UNCHANGED <<registered, directories, pendingFiles>>
        BY <1>6 DEF Watch
    <2>2. \A v \in User : /\ registering'[v].path = registering[v].path
                          /\ registering'[v].stage # "idle" <=> registering[v].stage # "idle"
                          /\ registering'[v].stage \in {"idle", "added", "locked"}
        <3>1. /\ registering'[u].stage = "locked"
              /\ \A v \in User : v # u => registering'[v] = registering[v]
              /\ \A v \in User : /\ registering'[v].path = registering[v].path
                                 /\ registering'[v].stage # "idle" <=> registering[v].stage # "idle"
            BY <1>6, WatchAdvances
        <3> QED BY <3>1 DEF Located
    <2> QED BY <2>1, <2>2 DEF Located
<1>7. ASSUME NEW u \in User, Fill(u) PROVE Located'
    BY <1>7, FillIsLocated
<1>8. ASSUME NEW u \in User, NEW p \in Path, Unregister(u, p), UsedApart PROVE Located'
    BY <1>8 DEF UsedApart, NothingUnregisters
<1>9. ASSUME NEW u \in User, Unwatch(u) PROVE Located'
    BY <1>9 DEF Unwatch, Located
<1>10. CASE Close
    BY <1>10 DEF Close
<1>11. CASE Next /\ UsedApart
    BY <1>1, <1>2, <1>3, <1>5, <1>6, <1>7, <1>8, <1>9, <1>10, <1>11 DEF Next
<1> QED BY <1>4, <1>11

\* The part of register that holds the lock tells what it filled in.
LEMMA FillIsObserved ==
    ASSUME Typed, Located, observed = Found(directories), NEW u \in User, Fill(u)
    PROVE  observed' = Found(directories')
<1> DEFINE path == registering[u].path
           maxDepth == registering[u].depth
           new == NewCachedDirectory(path, maxDepth)
<1>1. /\ path \in Path /\ maxDepth \in Depth
      /\ path \in DOMAIN registered \ (DOMAIN directories \cup pendingFiles)
      /\ \A r \in DOMAIN directories : r \in Path /\ ~StartsWith(path, r) /\ ~StartsWith(r, path)
      /\ FillsApart(u, path, maxDepth)
    BY FillIsApart
<1>2. TreesAreWellFormed(directories) /\ TreesAreWellFormed(directories')
    <2>1. TreesAreWellFormed(directories')
        BY <1>1, FillKeepsTrees DEF Typed, WatcherTyped
    <2> QED BY <2>1 DEF Typed
<1>3. \A r \in DOMAIN directories : \A p \in Entered(directories[r]) : ~StartsWith(p, path)
    <2> SUFFICES ASSUME NEW r \in DOMAIN directories, NEW p \in Entered(directories[r]), StartsWith(p, path)
                 PROVE  FALSE
        OBVIOUS
    <2>1. p \in Path /\ StartsWith(p, r)
        BY <1>2, FoundInOneRoot
    <2> QED BY <1>1, <2>1, StartsWithIsOrder
<1>4. \A p : p \in Visible(directories') <=>
          \E r \in DOMAIN directories' : p \in Entered(directories'[r])
    BY <1>2, VisibleIsEntered
<1>5. \A p : p \in Found(directories') <=>
          \E r \in DOMAIN directories' : p \in FoundIn(directories'[r])
    BY <1>2, FoundInOneRoot
<1>6. \A p : p \in Found(directories) <=>
          \E r \in DOMAIN directories : p \in FoundIn(directories[r])
    BY <1>2, FoundInOneRoot
<1>7. \A r \in DOMAIN directories : FoundIn(directories[r]) \subseteq Entered(directories[r])
    BY <1>2, FoundInOneRoot
<1>8. observed' = {p \in Found(directories) : ~StartsWith(p, path)}
                    \cup {p \in Visible(directories') : StartsWith(p, path)}
    BY DEF Fill
<1>9. \A p \in Found(directories) : ~StartsWith(p, path)
    BY <1>3, <1>6, <1>7
<1>10. CASE /\ DOMAIN directories' = DOMAIN directories
            /\ \A r \in DOMAIN directories : directories'[r] = directories[r]
    <2>1. \A p : p \in Found(directories') <=> p \in Found(directories)
        BY <1>5, <1>6, <1>10
    <2>2. \A p \in Visible(directories') : ~StartsWith(p, path)
        BY <1>3, <1>4, <1>10
    <2>3. Found(directories') = {p \in Found(directories) : ~StartsWith(p, path)}
                                  \cup {p \in Visible(directories') : StartsWith(p, path)}
        BY <1>9, <2>1, <2>2
    <2> QED BY <1>8, <2>3
<1>11. CASE /\ DOMAIN directories' = DOMAIN directories \cup {path} /\ directories'[path] = new
            /\ \A r \in DOMAIN directories : directories'[r] = directories[r]
    <2>1. WellFormed(new, path) /\ FoundIn(new) = Entered(new)
        <3>1. maxDepth \in MinInt..MaxInt
            BY <1>1, DepthsAreAllowed
        <3> QED BY <1>1, <3>1, NewIsWellFormed DEF Typed, WatcherTyped
    <2> HIDE DEF new
    <2>2. \A p \in Entered(new) : StartsWith(p, path)
        BY <1>1, <2>1, FilesAreNamed DEF WellFormed
    <2>3. \A p : p \in Found(directories') <=> p \in Entered(new) \/ p \in Found(directories)
        BY <1>5, <1>6, <1>11, <2>1
    <2>4. \A p : p \in Visible(directories') /\ StartsWith(p, path) <=> p \in Entered(new)
        BY <1>3, <1>4, <1>11, <2>2
    <2>5. Found(directories') = {p \in Found(directories) : ~StartsWith(p, path)}
                                  \cup {p \in Visible(directories') : StartsWith(p, path)}
        BY <1>9, <2>3, <2>4
    <2> QED BY <1>8, <2>5
<1> QED BY <1>1, <1>10, <1>11 DEF FillsApart

\* handleEvent tells what it changed.
LEMMA HandleEventIsObserved ==
    ASSUME Typed, Typed', ~RescanOnDirectoryUpdate, Located, observed = Found(directories),
           ~closed, NEW path \in Path, NEW kind, Handle(path, kind)
    PROVE  observed' = Found(directories')
<1> DEFINE found == Find(directories, path)
<1>1. /\ IsDisk(fs)
      /\ TreesAreWellFormed(directories) /\ TreesAreWellFormed(directories')
    BY DEF Typed, WatcherTyped
<1>2. RootsApart(directories)
    BY DEF Located, RootsApart
<1>3. CASE UNCHANGED <<directories, pendingFiles, observed>>
    BY <1>3 DEF Found
<1>4. CASE HandleDelete(directories, path)
    BY <1>1, <1>2, <1>4, DeleteIsObserved
<1>5. ASSUME NEW r \in found, HandleUpdate(r, path, kind) PROVE observed' = Found(directories')
    <2> DEFINE result == Update(directories[r], r, path, kind, RescanOnDirectoryUpdate, fs, Wanted)
    <2>1. ~UpdateThrows(directories[r], r, path, kind, RescanOnDirectoryUpdate, fs, Wanted)
        BY DEF UpdateThrows
    <2>2. /\ directories' = [directories EXCEPT ![r] = result.tree]
          /\ observed' = Replay(result.updates)
        BY <1>5, <2>1 DEF HandleUpdate
    <2>3. r \in DOMAIN directories /\ r \in Path /\ StartsWith(path, r) /\ WellFormed(directories[r], r)
        BY <1>1 DEF Find, Reaches, TreesAreWellFormed
    <2>4. Keeps(directories[r], r, result)
        BY <1>1, <2>3, WantedIsThere, UpdateKeeps
    <2> HIDE DEF result
    <2> QED BY <1>1, <1>2, <2>2, <2>3, <2>4, UpdateIsObserved DEF Replay
<1>6. CASE found = {} /\ HandlePending(path)
    <2> DEFINE depth == Registry!MaxDepthFor(registered, path)
               new == NewCachedDirectory(path, depth)
               told == {path} \cup Listed(new, path, new.dirs[path].depth)
               grown == With(directories, path, new)
    <2>1. CASE NoSuchFile(path, depth)
        BY <1>3, <1>6, <2>1 DEF HandlePending
    <2>2. CASE ~NoSuchFile(path, depth)
        <3>1. directories' = grown /\ pendingFiles' = pendingFiles /\ observed' = observed \cup told
            <4>1. /\ directories' = grown /\ pendingFiles' = pendingFiles
                  /\ observed' = Replay([Nothing EXCEPT !.created = told])
                BY <1>6, <2>2 DEF HandlePending
            <4> HIDE DEF told, grown
            <4> QED BY <4>1 DEF Replay, Nothing
        <3>2. WellFormed(new, path) /\ FoundIn(new) = Entered(new)
            <4>1. depth \in MinInt..MaxInt
                BY WantedIsThere DEF Typed
            <4> HIDE DEF depth
            <4> QED BY <1>1, <4>1, NewIsWellFormed
        <3>3. path \notin DOMAIN directories
            BY <1>6, RootFindsItself
        <3> HIDE DEF depth, new
        <3>4. told = Entered(new)
            <4>1. path \in DirPaths(new) /\ path \in Entered(new) /\ new.dirs[path].depth \in Int
                BY <3>2, DepthsAreInts DEF WellFormed, Rooted, Entered
            <4>2. CASE new.dirs[path].depth >= 0
                BY <3>2, <4>1, <4>2, EntriesAreWithin
            <4>3. CASE ~(new.dirs[path].depth >= 0)
                <5>1. new.dirs[path].depth < 0 /\ StartsWith(path, path)
                    BY <4>1, <4>3, StartsWithIsOrder
                <5>2. \A q \in Entered(new) : ~StrictlyBelow(q, path)
                    BY <3>2, <5>1, NothingBelow
                <5>3. \A q \in Entered(new) : StartsWith(q, path)
                    BY <3>2, FilesAreNamed DEF WellFormed
                <5>4. Listed(new, path, new.dirs[path].depth) = {path}
                    BY <5>1 DEF Listed
                <5> QED BY <4>1, <5>2, <5>3, <5>4 DEF StrictlyBelow
            <4> QED BY <4>2, <4>3
        <3>5. /\ DOMAIN grown = DOMAIN directories \cup {path} /\ grown[path] = new
              /\ \A r \in DOMAIN directories : grown[r] = directories[r]
            BY <3>3 DEF With
        <3> HIDE DEF grown, told
        <3>6. \A p : p \in Found(grown) <=> \E r \in DOMAIN grown : p \in FoundIn(grown[r])
            BY DEF Found
        <3>7. \A p : p \in Found(directories) <=> \E r \in DOMAIN directories : p \in FoundIn(directories[r])
            BY DEF Found
        <3>8. \A p : p \in Found(grown) <=> p \in Found(directories) \/ p \in told
            BY <3>2, <3>4, <3>5, <3>6, <3>7
        <3>9. Found(grown) = Found(directories) \cup told
            BY <3>8
        <3> QED BY <3>1, <3>9
    <2> QED BY <2>1, <2>2
<1> QED BY <1>3, <1>4, <1>5, <1>6 DEF Handle

\* What an observer knows is what is found.
Apart == ~closed => Located /\ observed = Found(directories)

LEMMA InitIsApart == Init => Apart
<1> SUFFICES ASSUME Init PROVE Apart
    OBVIOUS
<1>1. DOMAIN directories = {} /\ observed = {}
    BY DEF Init, NoRoots
<1>2. Found(directories) = {}
    BY <1>1 DEF Found
<1> QED BY <1>1, <1>2, InitIsLocated DEF Apart

LEMMA StepIsApart ==
    ASSUME Typed, Typed', ~RescanOnDirectoryUpdate, Apart, [Next]_vars, [UsedApart]_vars
    PROVE  Apart'
<1> SUFFICES ASSUME ~closed' PROVE Located' /\ observed' = Found(directories')
    BY DEF Apart
<1>1. ~closed
    BY DEF Next, Appear, Modify, Disappear, Change, Stat, HandleEvent, Register, Watch, Fill,
           Unregister, Unwatch, Close, vars
<1>2. Located /\ observed = Found(directories)
    BY <1>1 DEF Apart
<1>3. Located'
    BY <1>2, StepIsLocated
<1>4. ASSUME UNCHANGED <<directories, observed>> PROVE observed' = Found(directories')
    BY <1>2, <1>4 DEF Found
<1>5. ASSUME NEW w \in Watcher, HandleEvent(w) PROVE observed' = Found(directories')
    BY <1>1, <1>2, <1>5, EventIsTyped, HandleEventIsObserved
<1>6. ASSUME NEW u \in User, Fill(u) PROVE observed' = Found(directories')
    BY <1>2, <1>6, FillIsObserved
<1>7. ASSUME NEW p \in Path, NEW kind, NEW w,
             Appear(p, kind) \/ Modify(p, kind) \/ Disappear(p) \/ Stat(w, p)
      PROVE  observed' = Found(directories')
    <2>1. UNCHANGED <<directories, observed>>
        BY <1>7 DEF Appear, Modify, Disappear, Change, Stat
    <2> QED BY <1>4, <2>1
<1>8. ASSUME NEW u \in User, Watch(u) \/ Unwatch(u) PROVE observed' = Found(directories')
    <2>1. UNCHANGED <<directories, observed>>
        BY <1>8 DEF Watch, Unwatch
    <2> QED BY <1>4, <2>1
<1>9. ASSUME NEW u \in User, NEW p \in Path, NEW d \in Depth, Register(u, p, d)
      PROVE  observed' = Found(directories')
    <2>1. UNCHANGED <<directories, observed>>
        BY <1>9 DEF Register
    <2> QED BY <1>4, <2>1
<1>10. CASE UNCHANGED vars
    <2>1. UNCHANGED <<directories, observed>>
        BY <1>10 DEF vars
    <2> QED BY <1>3, <1>4, <2>1
<1>11. CASE Next /\ UsedApart
    <2>1. ~Close
        BY DEF Close
    <2>2. \A u \in User, p \in Path : ~Unregister(u, p)
        BY <1>11 DEF UsedApart, NothingUnregisters
    <2> QED BY <1>3, <1>5, <1>6, <1>7, <1>8, <1>9, <1>11, <2>1, <2>2 DEF Next
<1> QED BY <1>10, <1>11

\* As long as what is registered is apart, and nothing is unregistered, an observer
\* that replays the callbacks knows at every moment what the cache finds: no update,
\* deletion or late event changes the cache without being told, and nothing is told
\* that did not change it (runCallbacks).
THEOREM ObserversStayInStep ==
    ASSUME ~RescanOnDirectoryUpdate
    PROVE  Spec /\ [][UsedApart]_vars => []ObserversInStep
<1>1. Typed /\ Typed' /\ Apart /\ [Next]_vars /\ [UsedApart]_vars => Apart'
    BY StepIsApart
<1>2. Apart => ObserversInStep
    BY DEF Apart, ObserversInStep
<1> QED BY <1>1, <1>2, InitIsApart, AlwaysTyped, PTL DEF Spec

\* A repository where one path is registered, once, is used so.
RegistersOnce ==
    /\ budget.unregister = 0 /\ budget.register \in {0, 1}
    /\ budget.register = 1 => DOMAIN registered = {}

\* One registration has nothing above or below it.
LEMMA OneRootIsApart ==
    ASSUME MaxRegister = 1, MaxUnregister = 0
    PROVE  Spec => [][UsedApart]_vars
<1>1. Init => RegistersOnce
    BY DEF Init, RegistersOnce, Registry!NoDirectories
<1>2. Typed /\ RegistersOnce /\ [Next]_vars => RegistersOnce' /\ [UsedApart]_vars
    <2> SUFFICES ASSUME Typed, RegistersOnce, [Next]_vars PROVE RegistersOnce' /\ UsedApart
        OBVIOUS
    <2>1. UsedApart
        <3>1. \A u \in User, path \in Path : ~Unregister(u, path)
            BY DEF RegistersOnce, Unregister, NothingUnregisters
        <3>2. ASSUME NEW u \in User, NEW path \in Path, NEW depth \in Depth, Register(u, path, depth)
              PROVE  DOMAIN registered = {}
            BY <3>2 DEF RegistersOnce, Register
        <3> QED BY <3>1, <3>2 DEF UsedApart, RegistersApart, NothingUnregisters
    <2>2. ASSUME NEW u \in User, NEW path \in Path, NEW depth \in Depth, Register(u, path, depth)
          PROVE  RegistersOnce'
        BY <2>2 DEF Register, RegistersOnce, Typed, CallsTyped
    <2>3. ASSUME NEW u \in User, Watch(u) \/ Fill(u) \/ Unwatch(u) PROVE RegistersOnce'
        BY <2>3 DEF Watch, Fill, Unwatch, RegistersOnce
    <2>4. CASE Close
        BY <2>1, <2>4 DEF Close, RegistersOnce, Registry!NoDirectories
    <2>5. ASSUME NEW p \in Path, NEW kind, Appear(p, kind) \/ Modify(p, kind) \/ Disappear(p)
          PROVE  RegistersOnce'
        BY <2>5 DEF Appear, Modify, Disappear, Change, RegistersOnce, Typed, CallsTyped
    <2>6. ASSUME NEW w \in Watcher, (\E p \in Path : Stat(w, p)) \/ HandleEvent(w) PROVE RegistersOnce'
        BY <2>6 DEF Stat, HandleEvent, RegistersOnce
    <2>7. CASE UNCHANGED vars
        BY <2>1, <2>7 DEF vars, RegistersOnce
    <2> QED BY <2>1, <2>2, <2>3, <2>4, <2>5, <2>6, <2>7 DEF Next, UsedApart, NothingUnregisters
<1> QED BY <1>1, <1>2, AlwaysTyped, PTL DEF Spec

\* What a run checks: with one registration and no unregistration, whatever the
\* users, paths, depths, contents and changes, the observer stays in step.
THEOREM OneRootStaysInStep ==
    ASSUME ~RescanOnDirectoryUpdate, MaxRegister = 1, MaxUnregister = 0
    PROVE  Spec => []ObserversInStep
BY OneRootIsApart, ObserversStayInStep, PTL
-----------------------------------------------------------------------------
(* Roots *)

\* The path of a call under way is registered.
CallsAreRegistered ==
    \A u \in User : registering[u].stage \in {"added", "locked"} => registering[u].path \in DOMAIN registered

RootsAreRegistered == DOMAIN directories \subseteq DOMAIN registered \cup pendingFiles

RootsAreCovered == DOMAIN directories \subseteq Wanted \cup pendingFiles

OneUser == \A u, v \in User : u = v

\* What is registered is wanted.
LEMMA RegisteredIsWanted ==
    ASSUME Registry!TypeOK
    PROVE  DOMAIN registered \subseteq Wanted
<1> SUFFICES ASSUME NEW p \in DOMAIN registered PROVE p \in Path /\ Registry!Accepts(registered, p)
    BY DEF Wanted
<1>1. p \in Path /\ StartsWith(p, p)
    BY StartsWithIsOrder DEF Registry!TypeOK
<1>2. Registry!Covers(registered, p, p)
    BY <1>1, CoversMeans
<1> QED BY <1>1, <1>2 DEF Registry!Accepts

\* Every step but unregister and close leaves the roots registered, or covered.
LEMMA RootsStay ==
    ASSUME Typed, Typed', CallsAreRegistered, OneUser, Next, ~closed', ~closed,
           \A u \in User, p \in Path : ~Unregister(u, p)
    PROVE  /\ CallsAreRegistered'
           /\ RootsAreRegistered => RootsAreRegistered'
           /\ RootsAreCovered => RootsAreCovered'
<1>0. /\ DOMAIN registered \subseteq Path /\ registering \in [User -> Call]
      /\ DOMAIN registered \subseteq Wanted
    BY RegisteredIsWanted DEF Typed, CallsTyped, Registry!TypeOK
<1> DEFINE Goal == /\ CallsAreRegistered'
                   /\ RootsAreRegistered => RootsAreRegistered'
                   /\ RootsAreCovered => RootsAreCovered'
<1>1. ASSUME NEW u \in User, NEW p \in Path, NEW d \in Depth, Register(u, p, d) PROVE Goal
    <2> DEFINE call == [stage |-> "added", path |-> p, depth |-> d]
    <2>1. registering' = [registering EXCEPT ![u] = call] /\ call.path = p
        BY <1>1 DEF Register
    <2> HIDE DEF call
    <2>2. /\ DOMAIN registered' = DOMAIN registered \cup {p}
          /\ UNCHANGED <<directories, pendingFiles>>
        BY <1>1 DEF Register, Registry!AddDirectory, Registry!Put
    <2>3. Wanted \subseteq Wanted'
        BY <1>1, AddStepNeverNarrows DEF Wanted, Register, Typed
    <2>4. CallsAreRegistered'
        BY <1>0, <2>1, <2>2 DEF CallsAreRegistered
    <2> QED BY <2>2, <2>3, <2>4 DEF RootsAreRegistered, RootsAreCovered
<1>2. ASSUME NEW u \in User, Watch(u) PROVE Goal
    <2> DEFINE call == [registering[u] EXCEPT !.stage = "locked"]
    <2>1. call.path = registering[u].path
        BY <1>0, CallAdvances
    <2>2. /\ registering' = [registering EXCEPT ![u] = call] /\ registering[u].stage = "added"
          /\ UNCHANGED <<registered, directories, pendingFiles>>
        BY <1>2 DEF Watch
    <2> HIDE DEF call
    <2>3. CallsAreRegistered'
        BY <1>0, <2>1, <2>2 DEF CallsAreRegistered
    <2> QED BY <2>2, <2>3 DEF RootsAreRegistered, RootsAreCovered, Wanted
<1>3. ASSUME NEW u \in User, Fill(u) PROVE Goal
    <2> DEFINE path == registering[u].path
    <2>1. Idle.stage = "idle"
        BY DEF Idle
    <2>2. /\ registering' = [registering EXCEPT ![u] = Idle] /\ registering[u].stage = "locked"
          /\ registered' = registered /\ pendingFiles \subseteq pendingFiles'
        BY <1>3 DEF Fill
    <2>3. path \in DOMAIN registered
        BY <2>2 DEF CallsAreRegistered
    <2>4. CallsAreRegistered'
        <3> HIDE DEF Idle
        <3> QED BY <1>0, <2>1, <2>2 DEF CallsAreRegistered
    <2>5. DOMAIN directories' \subseteq DOMAIN directories \cup {path}
        <3>1. \A dirs, maxDepth : DOMAIN CleanedUp(dirs, path, maxDepth) \subseteq DOMAIN dirs
            BY CleanedUpIs
        <3>2. \A new : DOMAIN With(directories, path, new) = DOMAIN directories \cup {path}
            BY DEF With
        <3>3. \E dirs : /\ directories' = CleanedUp(dirs, path, registering[u].depth)
                       /\ DOMAIN dirs \subseteq DOMAIN directories \cup {path}
            <4>1. CASE directories' = CleanedUp(directories, path, registering[u].depth)
                BY <4>1
            <4>2. ASSUME NEW new, directories' = CleanedUp(With(directories, path, new), path, registering[u].depth)
                  PROVE  \E dirs : /\ directories' = CleanedUp(dirs, path, registering[u].depth)
                                  /\ DOMAIN dirs \subseteq DOMAIN directories \cup {path}
                BY <3>2, <4>2
            <4>3. ASSUME NEW r, directories' = CleanedUp([directories EXCEPT ![r] =
                                   Update(@, r, path, fs[path], TRUE, fs, Wanted).tree], path, registering[u].depth)
                  PROVE  \E dirs : /\ directories' = CleanedUp(dirs, path, registering[u].depth)
                                  /\ DOMAIN dirs \subseteq DOMAIN directories \cup {path}
                BY <4>3
            <4> QED BY <1>3, <4>1, <4>2, <4>3 DEF Fill
        <3> QED BY <3>1, <3>3
    <2> QED BY <1>0, <2>2, <2>3, <2>4, <2>5 DEF RootsAreRegistered, RootsAreCovered, Wanted
<1>4. ASSUME NEW u \in User, Unwatch(u) PROVE Goal
    <2>1. Idle.stage = "idle"
        BY DEF Idle
    <2>2. /\ registering' = [registering EXCEPT ![u] = Idle]
          /\ UNCHANGED <<registered, directories, pendingFiles>>
        BY <1>4 DEF Unwatch
    <2>3. CallsAreRegistered'
        <3> HIDE DEF Idle
        <3> QED BY <1>0, <2>1, <2>2 DEF CallsAreRegistered
    <2> QED BY <2>2, <2>3 DEF RootsAreRegistered, RootsAreCovered, Wanted
<1>5. ASSUME NEW p \in Path, NEW kind, Appear(p, kind) \/ Modify(p, kind) \/ Disappear(p) PROVE Goal
    BY <1>5 DEF Appear, Modify, Disappear, Change, CallsAreRegistered, RootsAreRegistered,
                RootsAreCovered, Wanted
<1>6. ASSUME NEW w \in Watcher, NEW p \in Path, Stat(w, p) PROVE Goal
    BY <1>6 DEF Stat, CallsAreRegistered, RootsAreRegistered, RootsAreCovered, Wanted
<1>7. ASSUME NEW w \in Watcher, HandleEvent(w) PROVE Goal
    <2> DEFINE p == events[w].path
               kind == events[w].kind
    <2>1. registered' = registered /\ registering' = registering
        BY <1>7 DEF HandleEvent
    <2>2. /\ DOMAIN directories' \subseteq DOMAIN directories \cup pendingFiles
          /\ pendingFiles \subseteq pendingFiles'
        <3>1. ASSUME NEW dirs, DOMAIN dirs = DOMAIN directories, HandleDelete(dirs, p)
              PROVE  DOMAIN directories' \subseteq DOMAIN directories /\ pendingFiles \subseteq pendingFiles'
            BY <3>1 DEF HandleDelete, Restrict
        <3>2. ASSUME NEW r, HandleUpdate(r, p, kind)
              PROVE  DOMAIN directories' \subseteq DOMAIN directories /\ pendingFiles \subseteq pendingFiles'
            BY <3>1, <3>2 DEF HandleUpdate
        <3>3. ASSUME p \in pendingFiles, HandlePending(p)
              PROVE  /\ DOMAIN directories' \subseteq DOMAIN directories \cup pendingFiles
                     /\ pendingFiles \subseteq pendingFiles'
            BY <3>3 DEF HandlePending, With
        <3> QED BY <1>7, <3>1, <3>2, <3>3 DEF HandleEvent, Handle
    <2> QED BY <2>1, <2>2 DEF CallsAreRegistered, RootsAreRegistered, RootsAreCovered, Wanted
<1>8. CASE Close
    BY <1>8 DEF Close
<1> QED BY <1>1, <1>2, <1>3, <1>4, <1>5, <1>6, <1>7, <1>8 DEF Next

\* unregister drops the root of its path unless another registration covers it.
LEMMA UnregisterDropsRoot ==
    ASSUME Typed, CallsAreRegistered, OneUser, NEW u \in User, NEW path \in Path, Unregister(u, path)
    PROVE  /\ CallsAreRegistered'
           /\ DOMAIN registered' = DOMAIN registered \ {path}
           /\ DOMAIN directories' \subseteq DOMAIN directories /\ pendingFiles' = pendingFiles
           /\ path \in DOMAIN directories' => path \in Wanted'
<1>1. /\ registered' = Registry!Without(registered, path) /\ pendingFiles' = pendingFiles
      /\ registering' = [registering EXCEPT ![u] = [@ EXCEPT !.stage = "unregistered"]]
    BY DEF Unregister
<1>2. CallsAreRegistered'
    <2> DEFINE call == [registering[u] EXCEPT !.stage = "unregistered"]
    <2>1. call.stage = "unregistered"
        BY CallAdvances DEF Typed, CallsTyped
    <2>2. registering' = [registering EXCEPT ![u] = call]
        BY <1>1
    <2> HIDE DEF call
    <2>3. registering'[u].stage = "unregistered"
        BY <2>1, <2>2 DEF Typed, CallsTyped
    <2> QED BY <2>3 DEF CallsAreRegistered, OneUser
<1>3. CASE StillCovered(path)
    <2>1. directories' = directories
        BY <1>3 DEF Unregister
    <2>2. Registry!Accepts(registered', path)
        BY <1>1, <1>3 DEF StillCovered
    <2> QED BY <1>1, <1>2, <2>1, <2>2 DEF Wanted, Registry!Without
<1>4. CASE ~StillCovered(path)
    <2>1. DOMAIN directories' = DOMAIN directories \ (Find(directories, path) \cap {path})
        BY <1>4 DEF Unregister
    <2>2. path \notin DOMAIN directories'
        BY <2>1, RootFindsItself
    <2> QED BY <1>1, <1>2, <2>1, <2>2 DEF Registry!Without
<1> QED BY <1>3, <1>4

RootsInv ==
    /\ budget.unregister <= MaxUnregister
    /\ ~closed => CallsAreRegistered /\ (RootsAreRegistered \/ (budget.unregister < MaxUnregister /\ RootsAreCovered))

\* Where one thread registers and unregisters, and unregisters once, every cached root
\* is covered by a registration, or was once missing: the root that unregister leaves
\* behind for a wider registration's sake is covered by that one.  (A second
\* unregister can take the wider one away, and the root then outlives both.)
THEOREM RootsStayWanted ==
    ASSUME OneUser, MaxUnregister \in {0, 1}
    PROVE  Spec => []RootsAreWanted
<1>1. Init => RootsInv
    <2> SUFFICES ASSUME Init PROVE RootsInv
        OBVIOUS
    <2>1. DOMAIN directories = {} /\ budget.unregister = MaxUnregister
        BY DEF Init, NoRoots
    <2>2. \A u \in User : registering[u].stage = "idle"
        BY DEF Init, Idle
    <2> QED BY <2>1, <2>2 DEF RootsInv, RootsAreRegistered, CallsAreRegistered
<1>2. Typed /\ Typed' /\ RootsInv /\ [Next]_vars => RootsInv'
    <2> SUFFICES ASSUME Typed, Typed', RootsInv, [Next]_vars PROVE RootsInv'
        OBVIOUS
    <2>0. budget.unregister \in Nat
        BY DEF Typed, CallsTyped
    <2>1. ASSUME NEW u \in User, NEW path \in Path, Unregister(u, path) PROVE RootsInv'
        <3>1. /\ budget.unregister = 1 /\ MaxUnregister = 1 /\ budget'.unregister = 0
              /\ closed' = closed
            BY <2>0, <2>1 DEF Unregister, RootsInv, Typed, CallsTyped
        <3>2. ASSUME ~closed PROVE CallsAreRegistered' /\ RootsAreCovered'
            <4>1. CallsAreRegistered /\ RootsAreRegistered
                BY <3>1, <3>2 DEF RootsInv
            <4>2. /\ CallsAreRegistered'
                  /\ DOMAIN registered' = DOMAIN registered \ {path}
                  /\ DOMAIN directories' \subseteq DOMAIN directories /\ pendingFiles' = pendingFiles
                  /\ path \in DOMAIN directories' => path \in Wanted'
                BY <2>1, <4>1, UnregisterDropsRoot
            <4>3. (DOMAIN registered \subseteq Wanted)'
                BY RegisteredIsWanted, PTL DEF Typed
            <4> QED BY <4>1, <4>2, <4>3 DEF RootsAreRegistered, RootsAreCovered
        <3> QED BY <3>1, <3>2 DEF RootsInv
    <2>2. ASSUME Next, \A u \in User, path \in Path : ~Unregister(u, path) PROVE RootsInv'
        <3>1. budget'.unregister = budget.unregister
            <4>1. ASSUME NEW u \in User, NEW p \in Path, NEW d \in Depth, Register(u, p, d)
                  PROVE  budget'.unregister = budget.unregister
                BY <4>1 DEF Register, Typed, CallsTyped
            <4>2. ASSUME NEW p \in Path, NEW kind, Appear(p, kind) \/ Modify(p, kind) \/ Disappear(p)
                  PROVE  budget'.unregister = budget.unregister
                BY <4>2 DEF Appear, Modify, Disappear, Change, Typed, CallsTyped
            <4>3. ASSUME NEW w \in Watcher, (\E p \in Path : Stat(w, p)) \/ HandleEvent(w)
                  PROVE  budget' = budget
                BY <4>3 DEF Stat, HandleEvent
            <4>4. ASSUME NEW u \in User, Watch(u) \/ Fill(u) \/ Unwatch(u) PROVE budget' = budget
                BY <4>4 DEF Watch, Fill, Unwatch
            <4>5. Close => budget' = budget
                BY DEF Close
            <4> QED BY <2>2, <4>1, <4>2, <4>3, <4>4, <4>5 DEF Next
        <3>2. closed => closed'
            BY <2>2 DEF Next, Appear, Modify, Disappear, Change, Stat, HandleEvent, Register, Watch, Fill,
                        Unwatch, Close
        <3>3. ASSUME ~closed'
              PROVE  /\ CallsAreRegistered'
                     /\ RootsAreRegistered => RootsAreRegistered'
                     /\ RootsAreCovered => RootsAreCovered'
            BY <2>2, <3>2, <3>3, RootsStay DEF RootsInv
        <3> QED BY <3>1, <3>2, <3>3 DEF RootsInv
    <2>3. CASE UNCHANGED vars
        BY <2>3 DEF vars, RootsInv, CallsAreRegistered, RootsAreRegistered, RootsAreCovered, Wanted
    <2> QED BY <2>1, <2>2, <2>3
<1>3. Typed /\ RootsInv => RootsAreWanted
    BY RegisteredIsWanted DEF Typed, RootsInv, RootsAreWanted, RootsAreRegistered, RootsAreCovered
<1> QED BY <1>1, <1>2, <1>3, AlwaysTyped, PTL DEF Spec

RootsApartInv ==
    ~closed =>
        /\ CallsAreRegistered /\ RootsAreRegistered
        /\ \A p, q \in DOMAIN registered : StartsWith(p, q) => p = q

\* Where what is registered lies apart, unregister may be called any number of times:
\* no root outlives its registration.
THEOREM RootsApartStayWanted ==
    ASSUME OneUser
    PROVE  Spec /\ [][RegistersApart]_vars => []RootsAreWanted
<1>1. Init => RootsApartInv
    <2> SUFFICES ASSUME Init PROVE RootsApartInv
        OBVIOUS
    <2>1. DOMAIN directories = {} /\ DOMAIN registered = {}
        BY DEF Init, NoRoots, Registry!NoDirectories
    <2>2. \A u \in User : registering[u].stage = "idle"
        BY DEF Init, Idle
    <2> QED BY <2>1, <2>2 DEF RootsApartInv, RootsAreRegistered, CallsAreRegistered
<1>2. Typed /\ Typed' /\ RootsApartInv /\ [Next]_vars /\ [RegistersApart]_vars => RootsApartInv'
    <2> SUFFICES ASSUME Typed, Typed', RootsApartInv, [Next]_vars, [RegistersApart]_vars
                 PROVE  RootsApartInv'
        OBVIOUS
    <2>1. ASSUME NEW u \in User, NEW path \in Path, Unregister(u, path), ~closed'
          PROVE  /\ CallsAreRegistered' /\ RootsAreRegistered'
                 /\ DOMAIN registered' \subseteq DOMAIN registered
        <3>1. /\ CallsAreRegistered /\ RootsAreRegistered
              /\ \A p, q \in DOMAIN registered : StartsWith(p, q) => p = q
            BY <2>1 DEF Unregister, RootsApartInv
        <3>2. /\ CallsAreRegistered'
              /\ DOMAIN registered' = DOMAIN registered \ {path}
              /\ DOMAIN directories' \subseteq DOMAIN directories /\ pendingFiles' = pendingFiles
              /\ path \in DOMAIN directories' => path \in Wanted'
            BY <2>1, <3>1, UnregisterDropsRoot
        <3>3. ASSUME path \in Wanted', path \in DOMAIN directories, path \notin pendingFiles PROVE FALSE
            <4>1. PICK dir \in DOMAIN registered' : Registry!Covers(registered', dir, path)
                BY <3>3 DEF Wanted, Registry!Accepts
            <4>2. StartsWith(path, dir) /\ dir \in DOMAIN registered /\ dir # path
                BY <3>2, <4>1, CoversMeans
            <4>3. path \in DOMAIN registered
                BY <3>1, <3>3 DEF RootsAreRegistered
            <4> QED BY <3>1, <4>2, <4>3
        <3> QED BY <3>1, <3>2, <3>3 DEF RootsAreRegistered
    <2>2. ASSUME Next, RegistersApart, \A u \in User, path \in Path : ~Unregister(u, path)
          PROVE  RootsApartInv'
        <3>1. closed => closed'
            BY <2>2 DEF Next, Appear, Modify, Disappear, Change, Stat, HandleEvent, Register, Watch, Fill,
                        Unwatch, Close
        <3>2. ASSUME ~closed'
              PROVE  /\ CallsAreRegistered' /\ RootsAreRegistered'
                     /\ \A p, q \in DOMAIN registered : StartsWith(p, q) => p = q
            BY <2>2, <3>1, <3>2, RootsStay DEF RootsApartInv
        <3>3. \/ \E path \in Path : /\ DOMAIN registered' = DOMAIN registered \cup {path}
                                    /\ \A q \in DOMAIN registered : ~StartsWith(path, q) /\ ~StartsWith(q, path)
              \/ registered' = registered
              \/ DOMAIN registered' = {}
            <4>1. ASSUME NEW u \in User, NEW p \in Path, NEW d \in Depth, Register(u, p, d)
                  PROVE  /\ DOMAIN registered' = DOMAIN registered \cup {p}
                         /\ \A q \in DOMAIN registered : ~StartsWith(p, q) /\ ~StartsWith(q, p)
                BY <2>2, <4>1 DEF Register, Registry!AddDirectory, Registry!Put, RegistersApart
            <4>2. ASSUME NEW p \in Path, NEW kind, Appear(p, kind) \/ Modify(p, kind) \/ Disappear(p)
                  PROVE  registered' = registered
                BY <4>2 DEF Appear, Modify, Disappear, Change
            <4>3. ASSUME NEW w \in Watcher, (\E p \in Path : Stat(w, p)) \/ HandleEvent(w)
                  PROVE  registered' = registered
                BY <4>3 DEF Stat, HandleEvent
            <4>4. ASSUME NEW u \in User, Watch(u) \/ Fill(u) \/ Unwatch(u) PROVE registered' = registered
                BY <4>4 DEF Watch, Fill, Unwatch
            <4>5. Close => DOMAIN registered' = {}
                BY DEF Close, Registry!NoDirectories
            <4> QED BY <2>2, <4>1, <4>2, <4>3, <4>4, <4>5 DEF Next
        <3>4. ASSUME ~closed' PROVE \A p, q \in DOMAIN registered' : StartsWith(p, q) => p = q
            BY <3>2, <3>3, <3>4
        <3> QED BY <3>2, <3>4 DEF RootsApartInv
    <2>3. CASE UNCHANGED vars
        BY <2>3 DEF vars, RootsApartInv, CallsAreRegistered, RootsAreRegistered
    <2>4. ASSUME NEW u \in User, NEW path \in Path, Unregister(u, path) PROVE RootsApartInv'
        BY <2>1, <2>4 DEF RootsApartInv, Unregister
    <2> QED BY <2>2, <2>3, <2>4
<1>3. Typed /\ RootsApartInv => RootsAreWanted
    BY RegisteredIsWanted DEF Typed, RootsApartInv, RootsAreWanted, RootsAreRegistered
<1> QED BY <1>1, <1>2, <1>3, AlwaysTyped, PTL DEF Spec
-----------------------------------------------------------------------------
(* What is found exists *)

\* What an operation on a tree leaves of it: the root keeps its depth, and what it
\* finds now it found before, or it is the path of the event, or it is there on disk.
Finds(tree, root, path, disk, new) ==
    /\ new.dirs[root].depth = tree.dirs[root].depth
    /\ \A p \in FoundIn(new) : p \in FoundIn(tree) \/ p = path \/ disk[p] # "none"

\* init finds only what exists, besides its base.
LEMMA ScanFinds ==
    ASSUME NEW disk, NEW wanted \in SUBSET Path, NEW base \in Path, NEW depth, NEW kind
    PROVE  \A p \in FoundIn(Scan(disk, wanted, base, depth, kind)) : p = base \/ disk[p] # "none"
<1> DEFINE new == Scan(disk, wanted, base, depth, kind)
<1>1. IsScan(new, disk, wanted, base, depth)
    BY ScanIs
<1> HIDE DEF new
<1>2. \A q \in DirPaths(new) : q = base \/ disk[q] # "none"
    BY <1>1 DEF IsScan, ScannedDirs
<1>3. \A q : <<q, "name">> \in DOMAIN new.files => disk[q] # "none"
    BY <1>1 DEF IsScan
<1>4. \A p \in FoundIn(new) : p \in DirPaths(new) \/ <<p, "name">> \in DOMAIN new.files
    BY DEF FoundIn
<1>5. \A p \in FoundIn(new) : p = base \/ disk[p] # "none"
    BY <1>2, <1>3, <1>4
<1> QED BY <1>5 DEF new

\* removeImpl leaves nothing of its path below the root, and the root as it is.
LEMMA RemoveFinds ==
    ASSUME NEW root \in Path, NEW tree, WellFormed(tree, root), NEW path \in Path, StartsWith(path, root)
    PROVE  /\ Remove(tree, root, path).dirs[root].depth = tree.dirs[root].depth
           /\ FoundIn(Remove(tree, root, path)) \subseteq FoundIn(tree)
           /\ path # root => path \notin FoundIn(Remove(tree, root, path))
<1> DEFINE new == Remove(tree, root, path)
<1>1. FoundIn(new) \subseteq FoundIn(tree)
    BY RemoveTells
<1>2. CASE path = root \/ Parent(path) \notin DirPaths(tree)
    <2>1. new = tree
        BY <1>2 DEF Remove
    <2>2. ASSUME path # root, path \in FoundIn(tree) PROVE FALSE
        <3>1. path \in Entered(tree)
            BY <2>2, FilesAreNamed DEF WellFormed
        <3>2. StrictlyBelow(path, root)
            BY <2>2 DEF StrictlyBelow
        <3>3. Parent(path) \in DirPaths(tree)
            BY <3>1, <3>2, ParentIsAbove DEF WellFormed, Supported
        <3> QED BY <1>2, <2>2, <3>3
    <2> QED BY <2>1, <2>2
<1>3. CASE ~(path = root \/ Parent(path) \notin DirPaths(tree))
    <2> DEFINE unfiled == WithoutFile(tree, path)
    <2>1. new = WithoutDir(unfiled, path)
        BY <1>3 DEF Remove
    <2>2. /\ unfiled.dirs = tree.dirs /\ DirPaths(unfiled) = DirPaths(tree)
          /\ DOMAIN unfiled.files = DOMAIN tree.files \ {<<path, "name">>}
        BY WithoutFileIs
    <2> HIDE DEF unfiled, new
    <2>3. /\ DirPaths(new) = {q \in DirPaths(unfiled) : ~StartsWith(q, path)}
          /\ \A q \in DirPaths(new) : new.dirs[q] = unfiled.dirs[q]
          /\ DOMAIN new.files = {f \in DOMAIN unfiled.files : ~StrictlyBelow(f[1], path)}
        BY <2>1, WithoutDirIs
    <2>4. root \in DirPaths(tree) /\ ~StartsWith(root, path) /\ StartsWith(path, path)
        BY <1>3, ParentIsAbove, StartsWithIsOrder DEF WellFormed, Rooted, StrictlyBelow
    <2>5. new.dirs[root].depth = tree.dirs[root].depth
        BY <2>2, <2>3, <2>4
    <2>6. path \notin DirPaths(new) /\ <<path, "name">> \notin DOMAIN new.files
        BY <2>2, <2>3, <2>4
    <2>7. path \notin FoundIn(new)
        BY <2>6 DEF FoundIn
    <2> QED BY <1>1, <2>5, <2>7 DEF new
<1> QED BY <1>2, <1>3, <1>1

\* addDirectory.
LEMMA AddDirectoryFinds ==
    ASSUME NEW root \in Path, NEW tree, WellFormed(tree, root), NEW path \in Path,
           StrictlyBelow(path, root), HasRoom(tree, path),
           NEW kind, NEW disk, NEW wanted \in SUBSET Path, NEW event
    PROVE  Finds(tree, root, event, disk, AddDirectory(tree, root, path, kind, disk, wanted).tree)
<1> DEFINE depth == SubdirectoryDepth(tree.dirs[Parent(path)].depth, 1)
           fresh == Scan(disk, wanted, path, depth, kind)
           filed == IF kind = "dir" THEN tree ELSE WithFile(tree, path, "path", kind)
           new == AddDirectory(tree, root, path, kind, disk, wanted).tree
<1>0. StartsWith(path, root) /\ ~StartsWith(root, path) /\ root \in DirPaths(tree)
    BY ParentIsAbove DEF StrictlyBelow, WellFormed, Rooted
<1>1. CASE kind = "dir" /\ disk[path] # "none"
    <2>1. new = WithDir(tree, path, fresh)
        BY <1>1 DEF AddDirectory
    <2>2. \A p \in FoundIn(fresh) : disk[p] # "none"
        <3> HIDE DEF depth
        <3> QED BY <1>1, ScanFinds
    <2>3. \A q \in DirPaths(fresh) : q = path \/ StrictlyBelow(q, path)
        <3>1. IsScan(fresh, disk, wanted, path, depth)
            BY ScanIs
        <3> HIDE DEF fresh, depth
        <3> QED BY <3>1 DEF IsScan, ScannedDirs
    <2> HIDE DEF fresh, new
    <2>4. /\ DirPaths(new) = {q \in DirPaths(tree) : ~StartsWith(q, path)} \cup DirPaths(fresh)
          /\ \A q \in DirPaths(tree) \ DirPaths(fresh) :
               ~StartsWith(q, path) => new.dirs[q] = tree.dirs[q]
          /\ DOMAIN new.files = {f \in DOMAIN tree.files : ~StrictlyBelow(f[1], path)}
                                 \cup DOMAIN fresh.files
        BY <2>1, WithDirIs
    <2>5. new.dirs[root].depth = tree.dirs[root].depth
        <3>1. root \notin DirPaths(fresh)
            BY <1>0, <2>3, StartsWithIsOrder DEF StrictlyBelow
        <3> QED BY <1>0, <2>4, <3>1
    <2>6. \A p \in FoundIn(new) : p \in FoundIn(tree) \/ p \in FoundIn(fresh)
        BY <2>4 DEF FoundIn, FilePaths
    <2> QED BY <2>2, <2>5, <2>6 DEF Finds, new
<1>2. CASE ~(kind = "dir" /\ disk[path] # "none")
    <2>1. new = Remove(filed, root, path)
        BY <1>2 DEF AddDirectory
    <2>2. WellFormed(filed, root) /\ FoundIn(filed) = FoundIn(tree)
        BY FiledByPath
    <2>3. filed.dirs = tree.dirs
        BY WithFileIs
    <2> HIDE DEF filed, new
    <2>4. new.dirs[root].depth = filed.dirs[root].depth /\ FoundIn(new) \subseteq FoundIn(filed)
        BY <1>0, <2>1, <2>2, RemoveFinds
    <2> QED BY <2>2, <2>3, <2>4 DEF Finds, new
<1> QED BY <1>1, <1>2

\* The last name of the path, in a directory whose entries are leaves.
LEMMA UpdateLeafFinds ==
    ASSUME NEW root \in Path, NEW tree, WellFormed(tree, root), NEW path \in Path,
           StrictlyBelow(path, root), NEW kind, NEW rescan, NEW disk
    PROVE  Finds(tree, root, path, disk, UpdateLeaf(tree, path, kind, rescan).tree)
<1> DEFINE unfiled == WithoutFile(tree, path)
           leaf    == [dirs |-> [p \in {path} |-> [depth |-> -1, kind |-> kind]], files |-> NoFiles]
           new == UpdateLeaf(tree, path, kind, rescan).tree
<1>1. new = IF kind # "dir" THEN WithFile(unfiled, path, "name", kind)
            ELSE IF path \in DirPaths(tree) /\ ~rescan THEN WithKind(unfiled, path, kind)
            ELSE WithDir(unfiled, path, leaf)
    BY DEF UpdateLeaf
<1>2. /\ unfiled.dirs = tree.dirs /\ DirPaths(unfiled) = DirPaths(tree)
      /\ DOMAIN unfiled.files = DOMAIN tree.files \ {<<path, "name">>}
    BY WithoutFileIs
<1>3. DirPaths(leaf) = {path} /\ DOMAIN leaf.files = {}
    BY DEF DirPaths, NoFiles
<1>4. root \in DirPaths(tree) /\ ~StartsWith(root, path) /\ root # path
    BY ParentIsAbove DEF WellFormed, Rooted, StrictlyBelow
<1> HIDE DEF unfiled, leaf, new
<1>5. /\ new.dirs[root].depth = tree.dirs[root].depth
      /\ DirPaths(new) \subseteq DirPaths(tree) \cup {path}
      /\ DOMAIN new.files \subseteq DOMAIN tree.files \cup {<<path, "name">>}
    <2>1. CASE kind # "dir"
        <3>1. new = WithFile(unfiled, path, "name", kind)
            BY <1>1, <2>1
        <3>2. /\ new.dirs = unfiled.dirs /\ DirPaths(new) = DirPaths(unfiled)
              /\ DOMAIN new.files = DOMAIN unfiled.files \cup {<<path, "name">>}
            BY <3>1, WithFileIs
        <3> QED BY <1>2, <3>2
    <2>2. CASE kind = "dir" /\ path \in DirPaths(tree) /\ ~rescan
        <3>1. new = WithKind(unfiled, path, kind) /\ path \in DirPaths(unfiled)
            BY <1>1, <1>2, <2>2
        <3>2. /\ DirPaths(new) = DirPaths(unfiled)
              /\ \A q \in DirPaths(unfiled) : new.dirs[q].depth = unfiled.dirs[q].depth
              /\ new.files = unfiled.files
            BY <3>1, WithKindIs
        <3> QED BY <1>2, <1>4, <3>2
    <2>3. CASE kind = "dir" /\ ~(path \in DirPaths(tree) /\ ~rescan)
        <3>1. new = WithDir(unfiled, path, leaf)
            BY <1>1, <2>3
        <3>2. /\ DirPaths(new) = {q \in DirPaths(unfiled) : ~StartsWith(q, path)} \cup DirPaths(leaf)
              /\ \A q \in DirPaths(unfiled) \ DirPaths(leaf) :
                   ~StartsWith(q, path) => new.dirs[q] = unfiled.dirs[q]
              /\ DOMAIN new.files = {f \in DOMAIN unfiled.files : ~StrictlyBelow(f[1], path)}
                                     \cup DOMAIN leaf.files
            BY <3>1, WithDirIs
        <3> QED BY <1>2, <1>3, <1>4, <3>2
    <2> QED BY <2>1, <2>2, <2>3
<1>6. \A p \in FoundIn(new) : p \in DirPaths(new) \/ <<p, "name">> \in DOMAIN new.files
    BY DEF FoundIn
<1>7. \A p : p \in DirPaths(tree) \/ <<p, "name">> \in DOMAIN tree.files => p \in FoundIn(tree)
    BY FilesAreNamed DEF WellFormed
<1>8. \A p \in FoundIn(new) : p \in FoundIn(tree) \/ p = path
    BY <1>5, <1>6, <1>7
<1> QED BY <1>5, <1>8 DEF Finds, new

\* update: whatever an event says of a path, and however late, nothing is found
\* afterwards that was not found before but the path itself and what exists.
LEMMA UpdateFinds ==
    ASSUME NEW root \in Path, NEW tree, WellFormed(tree, root), NEW path \in Path,
           StartsWith(path, root), NEW kind, NEW rescan,
           NEW disk, NEW wanted \in SUBSET Path
    PROVE  Finds(tree, root, path, disk, Update(tree, root, path, kind, rescan, disk, wanted).tree)
<1> DEFINE new == Update(tree, root, path, kind, rescan, disk, wanted).tree
           missing == FirstMissing(tree, root, path)
<1>0. root \in DirPaths(tree) /\ \A q \in DirPaths(tree) : tree.dirs[q].depth \in Int
    BY DepthsAreInts DEF WellFormed, Rooted
<1>1. ASSUME new = tree PROVE Finds(tree, root, path, disk, new)
    BY <1>1 DEF Finds
<1>2. ASSUME NEW q \in DirPaths(tree), new = WithKind(tree, q, kind)
      PROVE  Finds(tree, root, path, disk, new)
    <2>1. FoundIn(new) = FoundIn(tree)
        BY <1>2, WithKindIsWellFormed
    <2>2. new.dirs[root].depth = tree.dirs[root].depth
        BY <1>0, <1>2, WithKindIs
    <2> HIDE DEF new
    <2> QED BY <2>1, <2>2 DEF Finds
<1>3. CASE path \notin wanted
    <2>1. new = tree
        BY <1>3 DEF Update
    <2> QED BY <1>1, <2>1
<1>4. CASE path \in wanted /\ kind = "none"
    <2>1. new = Remove(tree, root, path)
        BY <1>4 DEF Update
    <2> HIDE DEF new
    <2>2. new.dirs[root].depth = tree.dirs[root].depth /\ FoundIn(new) \subseteq FoundIn(tree)
        BY <2>1, RemoveFinds
    <2> QED BY <2>2 DEF Finds, new
<1>5. CASE path \in wanted /\ kind # "none" /\ path = root
    <2>1. new = UpdateRoot(tree, root, kind, rescan, disk, wanted).tree
        BY <1>5 DEF Update
    <2>2. CASE kind = "dir" /\ rescan
        <3> DEFINE depth == tree.dirs[root].depth
        <3>1. new = Scan(disk, wanted, root, depth, tree.dirs[root].kind)
            BY <2>1, <2>2 DEF UpdateRoot
        <3>2. depth \in MinInt..MaxInt
            BY DEF WellFormed, Levelled
        <3> HIDE DEF new, depth
        <3>3. new.dirs[root].depth = depth
            <4>1. IsScan(new, disk, wanted, root, depth)
                BY <3>1, ScanIs
            <4>2. Distance(root, root) = 0
                BY PathsAreLong DEF Distance
            <4> QED BY <3>2, <4>1, <4>2, PathAssumption DEF IsScan, SubdirectoryDepth, MinInt
        <3>4. \A p \in FoundIn(new) : p = path \/ disk[p] # "none"
            BY <1>5, <3>1, ScanFinds
        <3> QED BY <3>3, <3>4 DEF Finds, new, depth
    <2>3. CASE ~(kind = "dir" /\ rescan)
        <3>1. new = WithKind(tree, root, kind)
            BY <2>1, <2>3 DEF UpdateRoot
        <3> QED BY <1>0, <1>2, <3>1
    <2> QED BY <2>2, <2>3
<1>6. CASE path \in wanted /\ kind # "none" /\ path # root
    <2>0. StrictlyBelow(path, root)
        BY <1>6 DEF StrictlyBelow
    <2>1. new = UpdateBelow(tree, root, path, kind, rescan, disk, wanted).tree
        BY <1>6 DEF Update
    <2>2. CASE Parent(path) \in DirPaths(tree)
        <3>1. CASE tree.dirs[Parent(path)].depth < 0
            <4>1. new = tree
                BY <2>1, <2>2, <3>1 DEF UpdateBelow
            <4> QED BY <1>1, <4>1
        <3>2. CASE ~(tree.dirs[Parent(path)].depth < 0) /\ (kind # "dir" \/ tree.dirs[Parent(path)].depth = 0)
            <4>1. new = UpdateLeaf(tree, path, kind, rescan).tree
                BY <2>1, <2>2, <3>2 DEF UpdateBelow
            <4> QED BY <2>0, <4>1, UpdateLeafFinds
        <3>3. CASE ~(tree.dirs[Parent(path)].depth < 0) /\ ~(kind # "dir" \/ tree.dirs[Parent(path)].depth = 0)
            <4>1. CASE path \in DirPaths(tree) /\ ~rescan
                <5>1. new = WithKind(tree, path, kind)
                    BY <2>1, <2>2, <3>3, <4>1 DEF UpdateBelow
                <5> QED BY <1>2, <4>1, <5>1
            <4>2. CASE ~(path \in DirPaths(tree) /\ ~rescan)
                <5>1. new = AddDirectory(tree, root, path, kind, disk, wanted).tree
                    BY <2>1, <2>2, <3>3, <4>2 DEF UpdateBelow
                <5>2. HasRoom(tree, path)
                    BY <1>0, <2>2, <3>3 DEF HasRoom
                <5> QED BY <2>0, <5>1, <5>2, AddDirectoryFinds
            <4> QED BY <4>1, <4>2
        <3> QED BY <3>1, <3>2, <3>3
    <2>3. CASE Parent(path) \notin DirPaths(tree)
        <3>1. CASE tree.dirs[Parent(missing)].depth <= 0
            <4>1. new = tree
                BY <2>1, <2>3, <3>1 DEF UpdateBelow
            <4> QED BY <1>1, <4>1
        <3>2. CASE ~(tree.dirs[Parent(missing)].depth <= 0)
            <4>1. new = AddDirectory(tree, root, missing, disk[missing], disk, wanted).tree
                BY <2>1, <2>3, <3>2 DEF UpdateBelow
            <4>2. /\ missing \in Path /\ StrictlyBelow(missing, root)
                  /\ Parent(missing) \in DirPaths(tree)
                BY <1>0, <2>0, <2>3, FirstIsMissing
            <4> HIDE DEF missing, new
            <4>3. HasRoom(tree, missing)
                BY <1>0, <3>2, <4>2 DEF HasRoom
            <4>4. Finds(tree, root, path, disk, AddDirectory(tree, root, missing, disk[missing], disk, wanted).tree)
                BY <4>2, <4>3, AddDirectoryFinds
            <4> QED BY <4>1, <4>4 DEF new
        <3> QED BY <3>1, <3>2
    <2> QED BY <2>2, <2>3
<1> QED BY <1>3, <1>4, <1>5, <1>6

\* newCachedDirectory: a root that is made where something exists finds only what
\* exists, and goes no deeper than it was asked to.
LEMMA NewFinds ==
    ASSUME IsDisk(fs), NEW path \in Path, NEW depth \in -1..MaxInt,
           ~NoSuchFile(path, depth), depth # -1
    PROVE  /\ NewCachedDirectory(path, depth).dirs[path].depth <= depth
           /\ \A p \in FoundIn(NewCachedDirectory(path, depth)) : fs[p] # "none"
<1> DEFINE fallback == IF fs[path] \in Content /\ depth >= 0 THEN -1 ELSE depth
           new == NewCachedDirectory(path, depth)
<1>0. MaxInt \in Nat
    BY PathAssumption
<1>1. fallback \in MinInt..MaxInt /\ fallback <= depth
    BY <1>0 DEF MinInt
<1>2. new = Scan(fs, Wanted, path, fallback, fs[path])
    BY DEF NewCachedDirectory
<1>3. fs[path] # "none"
    BY <1>0 DEF NoSuchFile
<1> HIDE DEF fallback, new
<1>4. new.dirs[path].depth = fallback
    <2>1. /\ WellFormed(Scan(fs, Wanted, path, fallback, fs[path]), path)
          /\ Scan(fs, Wanted, path, fallback, fs[path]).dirs[path].depth = fallback
        BY <1>1, WantedIsThere, ScanIsWellFormed DEF IsDisk
    <2> QED BY <1>2, <2>1
<1>5. \A p \in FoundIn(new) : p = path \/ fs[p] # "none"
    BY <1>2, WantedIsThere, ScanFinds
<1> QED BY <1>1, <1>3, <1>4, <1>5 DEF new

\* Every entry of a tree that goes no deeper than a registration of its root is
\* covered by it.
LEMMA EntriesAreCovered ==
    ASSUME Registry!TypeOK, NEW root \in DOMAIN registered, NEW tree, WellFormed(tree, root),
           tree.dirs[root].depth <= registered[root], NEW p \in Entered(tree)
    PROVE  Registry!Covers(registered, root, p)
<1> DEFINE depth == tree.dirs[root].depth
<1>1. root \in Path /\ p \in Path /\ StartsWith(p, root) /\ StartsWith(root, root)
    BY FilesAreNamed, StartsWithIsOrder DEF WellFormed, Registry!TypeOK
<1>2. /\ depth \in Int /\ depth <= MaxInt /\ MaxInt \in Nat
      /\ registered[root] \in -1..MaxInt
    BY <1>1, DepthsAreInts, DepthsAreAllowed, PathAssumption DEF WellFormed, Rooted, Registry!TypeOK
<1>3. Registry!CompMaxDepth(registered[root])
        = IF registered[root] = MaxInt THEN MaxInt ELSE registered[root] + 1
    BY <1>1, NoOverflow
<1>4. Distance(root, p) \in 0..MaxInt
    BY <1>1, DistanceIsNat
<1>5. CASE p = root
    BY <1>1, <1>5, CoversMeans
<1>6. CASE p # root
    <2>0. StrictlyBelow(p, root)
        BY <1>1, <1>6 DEF StrictlyBelow
    <2>1. depth >= 0
        <3> SUFFICES ASSUME depth < 0 PROVE FALSE
            BY <1>2
        <3> QED BY <1>1, <2>0, NothingBelow
    <2>2. p \in Listed(tree, root, depth)
        BY <1>1, <1>6, <2>1, EntriesAreWithin
    <2>3. Within(depth, Distance(root, p) - 1)
        BY <1>2, <2>1, <2>2 DEF Listed
    <2>4. Distance(root, p) <= Registry!CompMaxDepth(registered[root])
        <3> HIDE DEF depth
        <3> QED BY <1>2, <1>3, <1>4, <2>1, <2>3 DEF Within, depth
    <2> QED BY <1>1, <2>4, CoversMeans
<1> QED BY <1>5, <1>6

\* maxDepthFor of a registered path is its own depth, where registrations are apart.
LEMMA MaxDepthForIsOwn ==
    ASSUME Registry!TypeOK, NEW path \in DOMAIN registered,
           \A q \in DOMAIN registered : StartsWith(path, q) => q = path
    PROVE  Registry!MaxDepthFor(registered, path) = registered[path]
<1> DEFINE below == Registry!DepthsBelow(registered, path)
           deepest == Registry!MaxDepthFor(registered, path)
<1>1. path \in Path /\ StartsWith(path, path) /\ registered[path] \in -1..MaxInt /\ MaxInt \in Nat
    BY StartsWithIsOrder, DepthsAreAllowed, PathAssumption DEF Registry!TypeOK
<1>2. Registry!Int32(registered[path] - Distance(path, path)) = registered[path]
    <2>1. Distance(path, path) = 0
        BY <1>1, PathsAreLong DEF Distance
    <2> QED BY <1>1, <2>1, NoOverflow
<1>3. below = {Registry!Int32(registered[d] - Distance(d, path)) : d \in {d \in DOMAIN registered : StartsWith(path, d)}}
    BY DepthsBelowMeans
<1>4. \A m : m \in below <=> m = registered[path]
    <2> HIDE DEF below
    <2> QED BY <1>1, <1>2, <1>3
<1>5. deepest \in below \cup {Registry!MinInt} /\ \A d \in below : d <= deepest
    BY <1>1, MaxDepthForIsLargest
<1> HIDE DEF below, deepest
<1>6. deepest = registered[path]
    BY <1>1, <1>4, <1>5 DEF Registry!MinInt
<1> QED BY <1>6 DEF deepest

\* A registration is watched, or its call is on the way to tell the watcher.
Watches ==
    \A d \in DOMAIN registered :
        \/ \E u \in User : registering[u].stage = "added" /\ registering[u].path = d
        \/ \A q \in Path : Registry!Covers(registered, d, q) => q \in watched

\* Neither a call under way nor a cached root goes deeper than the registration.
Limited ==
    /\ \A u \in User : registering[u].stage # "idle" => registering[u].depth = registered[registering[u].path]
    /\ \A r \in DOMAIN directories : directories[r].dirs[r].depth <= registered[r]

\* The paths with a notification or an event under way, and those that events may have
\* left in the wrong order.
Due == changed \cup InFlight
Doubtful == Due \cup overtaken

\* Only one thread looks at paths.
OneWatcher == \A v, w \in Watcher : v = w

\* The newest event of a path that is late has another notification behind it; an
\* older one has a newer one beside it, or was overtaken by one.
Noticed ==
    /\ changed \subseteq watched /\ InFlight \subseteq watched /\ watched \subseteq Wanted
    /\ \A w \in DOMAIN events : events[w].newest /\ events[w].kind # fs[events[w].path]
         => events[w].path \in changed
    /\ \A w \in DOMAIN events : ~events[w].newest
         => \/ events[w].path \in overtaken
            \/ \E v \in DOMAIN events : events[v].path = events[w].path /\ events[v].newest

\* What is found and gone is about to be deleted.
GoneIsKnown == \A p \in Found(directories) : fs[p] = "none" => p \in Doubtful

Informed == Located /\ Watches /\ Limited /\ Noticed /\ GoneIsKnown

\* Then every change of what is found is noticed.
LEMMA FoundIsWatched ==
    ASSUME Typed, Located, Watches, Limited
    PROVE  Found(directories) \subseteq watched
<1> SUFFICES ASSUME NEW r \in DOMAIN directories, NEW p \in FoundIn(directories[r]) PROVE p \in watched
    BY DEF Found
<1>1. r \in DOMAIN registered /\ r \in Path /\ WellFormed(directories[r], r)
    BY DEF Located, Typed, TreesAreWellFormed
<1>2. p \in Entered(directories[r]) /\ p \in Path
    BY <1>1, FilesAreNamed DEF WellFormed
<1>3. directories[r].dirs[r].depth <= registered[r]
    BY DEF Limited
<1>4. Registry!Covers(registered, r, p)
    BY <1>1, <1>2, <1>3, EntriesAreCovered DEF Typed
<1>5. ~\E u \in User : registering[u].stage = "added" /\ registering[u].path = r
    BY DEF Located
<1> QED BY <1>1, <1>2, <1>4, <1>5 DEF Watches

\* handleDelete takes its path out of every tree.
LEMMA DeleteFinds ==
    ASSUME NEW dirs, TreesAreWellFormed(dirs), NEW path \in Path, HandleDelete(dirs, path)
    PROVE  /\ DOMAIN directories' \subseteq DOMAIN dirs
           /\ \A r \in DOMAIN directories' :
                /\ directories'[r].dirs[r].depth = dirs[r].dirs[r].depth
                /\ FoundIn(directories'[r]) \subseteq FoundIn(dirs[r])
                /\ path \notin FoundIn(directories'[r])
<1> DEFINE roots == RootsAbove(dirs, path)
           kept == [r \in DOMAIN dirs |-> IF r \in roots THEN Remove(dirs[r], r, path) ELSE dirs[r]]
<1>1. directories' = Restrict(kept, DOMAIN dirs \ {path})
    BY DEF HandleDelete
<1>2. \A r \in DOMAIN dirs : r \in roots <=> StartsWith(path, r)
    BY DEF RootsAbove
<1>3. \A r \in DOMAIN dirs : kept[r] = IF r \in roots THEN Remove(dirs[r], r, path) ELSE dirs[r]
    OBVIOUS
<1> HIDE DEF roots, kept
<1>4. DOMAIN directories' = DOMAIN dirs \ {path} /\ \A r \in DOMAIN dirs \ {path} : directories'[r] = kept[r]
    BY <1>1 DEF Restrict
<1>5. ASSUME NEW r \in DOMAIN dirs, r # path
      PROVE  /\ kept[r].dirs[r].depth = dirs[r].dirs[r].depth
             /\ FoundIn(kept[r]) \subseteq FoundIn(dirs[r])
             /\ path \notin FoundIn(kept[r])
    <2>1. r \in Path /\ WellFormed(dirs[r], r)
        BY DEF TreesAreWellFormed
    <2>2. CASE StartsWith(path, r)
        <3>1. kept[r] = Remove(dirs[r], r, path)
            BY <1>2, <1>3, <2>2
        <3> QED BY <1>5, <2>1, <2>2, <3>1, RemoveFinds
    <2>3. CASE ~StartsWith(path, r)
        <3>1. kept[r] = dirs[r]
            BY <1>2, <1>3, <2>3
        <3>2. \A p \in FoundIn(dirs[r]) : StartsWith(p, r)
            BY <2>1, FilesAreNamed DEF WellFormed
        <3> QED BY <2>3, <3>1, <3>2
    <2> QED BY <2>2, <2>3
<1> QED BY <1>4, <1>5

\* handleEvent finds nothing new that does not exist, but for the path of the event.
LEMMA HandleEventFinds ==
    ASSUME -1 \notin Depth, Typed, Located, Limited, ~closed,
           NEW path \in Path, NEW kind, Handle(path, kind)
    PROVE  /\ \A r \in DOMAIN directories' : directories'[r].dirs[r].depth <= registered[r]
           /\ \A p \in Found(directories') : p \in Found(directories) \/ p = path \/ fs[p] # "none"
           /\ kind = "none" => path \notin Found(directories')
<1> DEFINE found == Find(directories, path)
<1>1. IsDisk(fs) /\ Registry!TypeOK /\ TreesAreWellFormed(directories)
    BY DEF Typed, WatcherTyped
<1>2. \A r \in DOMAIN directories : directories[r].dirs[r].depth <= registered[r]
    BY DEF Limited
<1>3. CASE kind # "none" /\ UNCHANGED directories
    <2>1. Found(directories') = Found(directories)
        BY <1>3 DEF Found
    <2> QED BY <1>2, <1>3, <2>1
<1>4. ASSUME NEW dirs, TreesAreWellFormed(dirs), DOMAIN dirs = DOMAIN directories,
             \A r \in DOMAIN directories : /\ dirs[r].dirs[r].depth = directories[r].dirs[r].depth
                                           /\ FoundIn(dirs[r]) \subseteq FoundIn(directories[r]),
             HandleDelete(dirs, path)
      PROVE  /\ \A r \in DOMAIN directories' : directories'[r].dirs[r].depth <= registered[r]
             /\ Found(directories') \subseteq Found(directories) \ {path}
    <2>1. /\ DOMAIN directories' \subseteq DOMAIN dirs
          /\ \A r \in DOMAIN directories' :
               /\ directories'[r].dirs[r].depth = dirs[r].dirs[r].depth
               /\ FoundIn(directories'[r]) \subseteq FoundIn(dirs[r])
               /\ path \notin FoundIn(directories'[r])
        BY <1>4, DeleteFinds
    <2>2. \A r \in DOMAIN directories' : directories'[r].dirs[r].depth <= registered[r]
        BY <1>2, <1>4, <2>1
    <2>3. \A p : p \in Found(directories') <=> \E r \in DOMAIN directories' : p \in FoundIn(directories'[r])
        BY DEF Found
    <2>4. \A p : p \in Found(directories) <=> \E r \in DOMAIN directories : p \in FoundIn(directories[r])
        BY DEF Found
    <2> QED BY <1>4, <2>1, <2>2, <2>3, <2>4
<1>5. CASE kind = "none" /\ HandleDelete(directories, path)
    BY <1>1, <1>4, <1>5
<1>6. ASSUME kind # "none", NEW r \in found, HandleUpdate(r, path, kind)
      PROVE  /\ \A s \in DOMAIN directories' : directories'[s].dirs[s].depth <= registered[s]
             /\ \A p \in Found(directories') : p \in Found(directories) \/ p = path \/ fs[p] # "none"
    <2> DEFINE new == Update(directories[r], r, path, kind, RescanOnDirectoryUpdate, fs, Wanted).tree
               cleared == [directories EXCEPT ![r] = Cleared(@, r)]
    <2>1. r \in DOMAIN directories /\ r \in Path /\ StartsWith(path, r) /\ WellFormed(directories[r], r)
        BY <1>1 DEF Find, Reaches, TreesAreWellFormed
    <2>2. CASE HandleDelete(cleared, path)
        <3>1. /\ WellFormed(Cleared(directories[r], r), r)
              /\ Entered(Cleared(directories[r], r)) = {r}
            BY <2>1, ClearedIsWellFormed
        <3>2. Cleared(directories[r], r).dirs[r].depth = directories[r].dirs[r].depth
            BY DEF Cleared
        <3>3. FoundIn(Cleared(directories[r], r)) \subseteq FoundIn(directories[r])
            <4>1. FoundIn(Cleared(directories[r], r)) \subseteq {r}
                BY <2>1, <3>1, FilesAreNamed DEF WellFormed
            <4>2. r \in FoundIn(directories[r])
                BY <2>1 DEF WellFormed, Rooted, FoundIn
            <4> QED BY <4>1, <4>2
        <3>4. /\ TreesAreWellFormed(cleared) /\ DOMAIN cleared = DOMAIN directories
              /\ \A s \in DOMAIN directories : /\ cleared[s].dirs[s].depth = directories[s].dirs[s].depth
                                               /\ FoundIn(cleared[s]) \subseteq FoundIn(directories[s])
            BY <1>1, <2>1, <3>1, <3>2, <3>3 DEF TreesAreWellFormed
        <3> HIDE DEF cleared
        <3> QED BY <1>4, <2>2, <3>4
    <2>3. CASE directories' = [directories EXCEPT ![r] = new]
        <3>1. Finds(directories[r], r, path, fs, new)
            BY <2>1, WantedIsThere, UpdateFinds
        <3> HIDE DEF new
        <3>2. /\ DOMAIN directories' = DOMAIN directories /\ directories'[r] = new
              /\ \A s \in DOMAIN directories : s # r => directories'[s] = directories[s]
            BY <2>1, <2>3
        <3>3. \A p : p \in Found(directories') <=> \E s \in DOMAIN directories' : p \in FoundIn(directories'[s])
            BY DEF Found
        <3>4. \A p : p \in Found(directories) <=> \E s \in DOMAIN directories : p \in FoundIn(directories[s])
            BY DEF Found
        <3>5. \A s \in DOMAIN directories' : directories'[s].dirs[s].depth <= registered[s]
            BY <1>2, <2>1, <3>1, <3>2 DEF Finds
        <3>6. \A p \in FoundIn(new) : p \in FoundIn(directories[r]) \/ p = path \/ fs[p] # "none"
            BY <3>1 DEF Finds
        <3> QED BY <2>1, <3>2, <3>3, <3>4, <3>5, <3>6
    <2> QED BY <1>6, <2>2, <2>3 DEF HandleUpdate
<1>7. ASSUME kind # "none", path \in pendingFiles, HandlePending(path), found = {}
      PROVE  /\ \A s \in DOMAIN directories' : directories'[s].dirs[s].depth <= registered[s]
             /\ \A p \in Found(directories') : p \in Found(directories) \/ p = path \/ fs[p] # "none"
    <2> DEFINE depth == Registry!MaxDepthFor(registered, path)
               new == NewCachedDirectory(path, depth)
    <2>1. path \in DOMAIN registered /\ depth = registered[path] /\ depth \in -1..MaxInt /\ depth # -1
        <3>1. path \in DOMAIN registered /\ \A q \in DOMAIN registered : StartsWith(path, q) => q = path
            BY <1>7 DEF Located
        <3>2. depth = registered[path]
            BY <1>1, <3>1, MaxDepthForIsOwn
        <3>3. registered[path] \in Depth
            BY <1>1, <3>1 DEF Registry!TypeOK
        <3> HIDE DEF depth
        <3> QED BY <3>1, <3>2, <3>3, DepthsAreAllowed
    <2>2. CASE NoSuchFile(path, depth)
        <3>1. UNCHANGED directories
            BY <1>7, <2>2 DEF HandlePending
        <3> QED BY <1>3, <1>7, <3>1
    <2>3. CASE ~NoSuchFile(path, depth)
        <3>1. directories' = With(directories, path, new)
            BY <1>7, <2>3 DEF HandlePending
        <3> HIDE DEF depth
        <3>2. new.dirs[path].depth <= depth /\ \A p \in FoundIn(new) : fs[p] # "none"
            BY <1>1, <2>1, <2>3, NewFinds
        <3> HIDE DEF new
        <3>3. path \notin DOMAIN directories
            BY <1>7, RootFindsItself
        <3>4. /\ DOMAIN directories' = DOMAIN directories \cup {path} /\ directories'[path] = new
              /\ \A s \in DOMAIN directories : directories'[s] = directories[s]
            BY <3>1, <3>3 DEF With
        <3>5. \A p : p \in Found(directories') <=> \E s \in DOMAIN directories' : p \in FoundIn(directories'[s])
            BY DEF Found
        <3>6. \A p : p \in Found(directories) <=> \E s \in DOMAIN directories : p \in FoundIn(directories[s])
            BY DEF Found
        <3>7. \A s \in DOMAIN directories' : directories'[s].dirs[s].depth <= registered[s]
            BY <1>2, <2>1, <3>2, <3>4
        <3> QED BY <3>2, <3>4, <3>5, <3>6, <3>7
    <2> QED BY <2>2, <2>3
<1> QED BY <1>3, <1>5, <1>6, <1>7 DEF Handle

\* A look at a path keeps it due.
LEMMA StatIsDue ==
    ASSUME Typed, Noticed, NEW w \in Watcher, NEW p \in Path, Stat(w, p)
    PROVE  /\ Due \subseteq Due' /\ Doubtful \subseteq Doubtful' /\ p \in Wanted /\ Noticed'
<1>1. p \in Wanted /\ p \in changed
    BY DEF Stat, Noticed
<1>2. /\ changed' = changed \ {p} /\ UNCHANGED <<fs, overtaken, registered, watched>>
      /\ p \in Path /\ Wanted' = Wanted
    BY DEF Stat, Wanted
<1>3. /\ DOMAIN events' = DOMAIN events \cup {w} /\ w \notin DOMAIN events
      /\ events'[w].path = p /\ events'[w].kind = fs[p] /\ events'[w].newest
      /\ \A v \in DOMAIN events :
           /\ events'[v].path = events[v].path /\ events'[v].kind = events[v].kind
           /\ events'[v].newest <=> events[v].newest /\ events[v].path # p
    <2>1. p \in Wanted
        BY <1>1
    <2> QED BY <2>1, StatSees
<1>4. /\ \A q : q \in InFlight <=> \E v \in DOMAIN events : events[v].path = q
      /\ \A q : q \in InFlight' <=> \E v \in DOMAIN events' : events'[v].path = q
    BY DEF InFlight
<1>5. InFlight' = InFlight \cup {p}
    BY <1>3, <1>4
<1>6. Due \subseteq Due' /\ Doubtful \subseteq Doubtful'
    BY <1>2, <1>5 DEF Doubtful, Due
<1>7. Noticed'
    <2>1. changed' \subseteq watched' /\ InFlight' \subseteq watched' /\ watched' \subseteq Wanted'
        BY <1>1, <1>2, <1>5 DEF Noticed
    <2>2. ASSUME NEW v \in DOMAIN events', events'[v].newest, events'[v].kind # fs'[events'[v].path]
          PROVE  events'[v].path \in changed'
        BY <1>2, <1>3, <2>2 DEF Noticed
    <2>3. ASSUME NEW v \in DOMAIN events', ~events'[v].newest
          PROVE  \/ events'[v].path \in overtaken'
                 \/ \E x \in DOMAIN events' : events'[x].path = events'[v].path /\ events'[x].newest
        <3>1. v \in DOMAIN events /\ (events[v].path = p \/ ~events[v].newest)
            BY <1>3, <2>3
        <3>2. CASE events[v].path = p
            BY <1>3, <3>1, <3>2
        <3>3. CASE events[v].path # p /\ ~events[v].newest
            <4>1. \/ events[v].path \in overtaken
                  \/ \E x \in DOMAIN events : events[x].path = events[v].path /\ events[x].newest
                BY <3>1, <3>3 DEF Noticed
            <4> QED BY <1>2, <1>3, <3>1, <3>3, <4>1
        <3> QED BY <3>1, <3>2, <3>3
    <2> QED BY <2>1, <2>2, <2>3 DEF Noticed
<1> QED BY <1>1, <1>6, <1>7

\* What handleEvent was told is what is there, or the path stays due.
LEMMA HandledIsDue ==
    ASSUME Typed, Noticed, NEW w \in Watcher, HandleEvent(w)
    PROVE  /\ events[w].path \in Wanted /\ events[w].path \in InFlight
           /\ Due \subseteq Due' \cup {events[w].path}
           /\ Doubtful \subseteq Doubtful' \cup {events[w].path}
           /\ events[w].kind = fs[events[w].path] \/ events[w].path \in Doubtful'
           /\ Noticed'
<1> DEFINE path == events[w].path
<1>1. /\ w \in DOMAIN events /\ DOMAIN events' = DOMAIN events \ {w}
      /\ \A v \in DOMAIN events' : events'[v] = events[v]
      /\ InFlight' \subseteq InFlight /\ InFlight \subseteq InFlight' \cup {path}
      /\ overtaken \subseteq overtaken' /\ overtaken' \subseteq overtaken \cup {path}
      /\ UNCHANGED <<fs, changed, registered, watched>>
    BY EventIsTyped
<1>2. events[w].newest => overtaken' = overtaken \cup ({path} \cap InFlight')
    BY DEF HandleEvent
<1>3. /\ \A q : q \in InFlight <=> \E v \in DOMAIN events : events[v].path = q
      /\ \A q : q \in InFlight' <=> \E v \in DOMAIN events' : events'[v].path = q
    BY DEF InFlight
<1>4. path \in InFlight /\ path \in Wanted
    BY <1>1, <1>3 DEF Noticed
<1>5. Due \subseteq Due' \cup {path} /\ Doubtful \subseteq Doubtful' \cup {path}
    BY <1>1 DEF Doubtful, Due
<1>6. events[w].kind = fs[path] \/ path \in Doubtful'
    <2>1. CASE events[w].newest
        BY <1>1, <2>1 DEF Noticed, Doubtful, Due
    <2>2. CASE ~events[w].newest
        <3>1. path \in overtaken \/ \E v \in DOMAIN events : events[v].path = path /\ events[v].newest
            BY <1>1, <2>2 DEF Noticed
        <3>2. path \in overtaken \/ path \in InFlight'
            BY <1>1, <1>3, <2>2, <3>1
        <3> QED BY <1>1, <3>2 DEF Doubtful, Due
    <2> QED BY <2>1, <2>2
<1>7. Noticed'
    <2>1. Wanted' = Wanted
        BY <1>1 DEF Wanted
    <2>2. \A v \in DOMAIN events' : v \in DOMAIN events /\ events'[v] = events[v]
        BY <1>1
    <2>3. ASSUME NEW v \in DOMAIN events', ~events'[v].newest
          PROVE  \/ events'[v].path \in overtaken'
                 \/ \E x \in DOMAIN events' : events'[x].path = events'[v].path /\ events'[x].newest
        <3>1. \/ events[v].path \in overtaken
              \/ \E x \in DOMAIN events : events[x].path = events[v].path /\ events[x].newest
            BY <2>2, <2>3 DEF Noticed
        <3>2. CASE events[w].path = events[v].path /\ events[w].newest
            BY <1>2, <1>3, <2>2, <3>2
        <3> QED BY <1>1, <2>2, <3>1, <3>2
    <2> QED BY <1>1, <2>1, <2>2, <2>3 DEF Noticed
<1> HIDE DEF path
<1> QED BY <1>4, <1>5, <1>6, <1>7 DEF path

\* The steps of the file system.
LEMMA ChangeInforms ==
    ASSUME Typed, Informed, NEW p \in Path, NEW kind, Appear(p, kind) \/ Modify(p, kind) \/ Disappear(p)
    PROVE  Watches' /\ Limited' /\ Noticed' /\ GoneIsKnown'
<1>0. /\ Located /\ Watches /\ Limited /\ Noticed /\ GoneIsKnown
      /\ Found(directories) \subseteq watched /\ fs \in [Path -> Kind]
      /\ \A w \in DOMAIN events : events[w].path \in InFlight
    BY FoundIsWatched DEF Informed, Typed, WatcherTyped, IsDisk, InFlight
<1>1. /\ \E k : fs' = [fs EXCEPT ![p] = k]
      /\ changed' = changed \cup ({p} \cap watched)
      /\ UNCHANGED <<events, overtaken, registered, directories, registering, watched>>
    BY DEF Appear, Modify, Disappear, Change
<1>2. \A q \in Path : q # p => fs'[q] = fs[q]
    BY <1>0, <1>1
<1>3. Watches' /\ Limited'
    BY <1>0, <1>1 DEF Watches, Limited
<1>4. Wanted' = Wanted /\ Found(directories') = Found(directories) /\ InFlight' = InFlight
    BY <1>1 DEF Wanted, Found, InFlight
<1>5. watched \subseteq Path
    BY <1>0 DEF Noticed, Wanted
<1>6. Noticed'
    <2>1. \A w \in DOMAIN events : events[w].newest /\ events[w].kind # fs'[events[w].path]
            => events[w].path \in changed'
        BY <1>0, <1>1, <1>2, <1>5 DEF Noticed
    <2> QED BY <1>0, <1>1, <1>4, <2>1 DEF Noticed
<1>7. GoneIsKnown'
    BY <1>0, <1>1, <1>2, <1>4, <1>5 DEF GoneIsKnown, Doubtful, Due
<1> QED BY <1>3, <1>6, <1>7

\* The steps of the watchers.
LEMMA StatInforms ==
    ASSUME Typed, Informed, NEW w \in Watcher, NEW p \in Path, Stat(w, p)
    PROVE  Watches' /\ Limited' /\ Noticed' /\ GoneIsKnown'
<1>0. Watches /\ Limited /\ Noticed /\ GoneIsKnown
    BY DEF Informed
<1>1. UNCHANGED <<fs, registered, directories, registering, watched>>
    BY DEF Stat
<1>2. Doubtful \subseteq Doubtful' /\ Noticed'
    BY <1>0, StatIsDue
<1>3. Found(directories') = Found(directories)
    BY <1>1 DEF Found
<1> QED BY <1>0, <1>1, <1>2, <1>3 DEF Watches, Limited, GoneIsKnown

LEMMA HandleInforms ==
    ASSUME -1 \notin Depth, Typed, Informed, ~closed, NEW w \in Watcher, HandleEvent(w)
    PROVE  Watches' /\ Limited' /\ Noticed' /\ GoneIsKnown'
<1> DEFINE path == events[w].path
           kind == events[w].kind
<1>0. Located /\ Watches /\ Limited /\ Noticed /\ GoneIsKnown
    BY DEF Informed
<1>1. path \in Path /\ Handle(path, kind) /\ UNCHANGED <<fs, registered, registering, watched>>
    BY EventIsTyped
<1>2. Doubtful \subseteq Doubtful' \cup {path} /\ (kind = fs[path] \/ path \in Doubtful') /\ Noticed'
    BY <1>0, HandledIsDue
<1> HIDE DEF path, kind
<1>3. /\ \A r \in DOMAIN directories' : directories'[r].dirs[r].depth <= registered[r]
      /\ \A q \in Found(directories') : q \in Found(directories) \/ q = path \/ fs[q] # "none"
      /\ kind = "none" => path \notin Found(directories')
    BY <1>0, <1>1, HandleEventFinds
<1>4. Watches' /\ Limited'
    BY <1>0, <1>1, <1>3 DEF Watches, Limited
<1>5. GoneIsKnown'
    BY <1>0, <1>1, <1>2, <1>3 DEF GoneIsKnown
<1> QED BY <1>2, <1>4, <1>5

\* The steps of register.
LEMMA UserStepInforms ==
    ASSUME -1 \notin Depth, Typed, Informed, ~closed, RegistersApart, NEW u \in User,
           \/ \E p \in Path, d \in Depth : Register(u, p, d)
           \/ Watch(u)
           \/ Fill(u)
    PROVE  Watches' /\ Limited' /\ Noticed' /\ GoneIsKnown'
<1>0. /\ Located /\ Watches /\ Limited /\ Noticed /\ GoneIsKnown
      /\ Registry!TypeOK /\ registering \in [User -> Call]
    BY DEF Informed, Typed, CallsTyped
<1>1. ASSUME NEW p \in Path, NEW d \in Depth, Register(u, p, d)
      PROVE  Watches' /\ Limited' /\ Noticed' /\ GoneIsKnown'
    <2> DEFINE call == [stage |-> "added", path |-> p, depth |-> d]
    <2>1. /\ registering' = [registering EXCEPT ![u] = call]
          /\ call.stage = "added" /\ call.path = p /\ call.depth = d
          /\ registering[u] = Idle /\ Idle.stage = "idle"
          /\ Registry!AddDirectory(p, d)
          /\ UNCHANGED <<fs, changed, events, overtaken, directories, watched>>
        BY <1>1 DEF Register, Idle
    <2> HIDE DEF call, Idle
    <2>2. p \notin DOMAIN registered
        <3>1. \A q \in DOMAIN registered : ~StartsWith(p, q)
            BY <1>1 DEF RegistersApart
        <3> QED BY <3>1, StartsWithIsOrder
    <2>3. /\ DOMAIN registered' = DOMAIN registered \cup {p} /\ registered'[p] = d
          /\ \A q \in DOMAIN registered : registered'[q] = registered[q]
        BY <2>1, <2>2 DEF Registry!AddDirectory, Registry!Put
    <2>4. /\ registering'[u] = call
          /\ \A v \in User : v # u => registering'[v] = registering[v]
        BY <1>0, <2>1
    <2>5. Wanted \subseteq Wanted'
        BY <1>0, <2>1, AddStepNeverNarrows DEF Wanted
    <2>6. Found(directories') = Found(directories)
        BY <2>1 DEF Found
    <2>7. Watches'
        <3> SUFFICES ASSUME NEW r \in DOMAIN registered',
                            ~\E v \in User : registering'[v].stage = "added" /\ registering'[v].path = r,
                            NEW q \in Path, Registry!Covers(registered', r, q)
                     PROVE  q \in watched'
            BY DEF Watches
        <3>1. r # p
            BY <2>1, <2>4
        <3>2. r \in DOMAIN registered /\ registered'[r] = registered[r]
            BY <2>3, <3>1
        <3>3. Registry!Covers(registered, r, q)
            BY <3>2, CoversMeans
        <3>4. ~\E v \in User : registering[v].stage = "added" /\ registering[v].path = r
            BY <2>1, <2>4
        <3> QED BY <1>0, <2>1, <3>2, <3>3, <3>4 DEF Watches
    <2>8. Limited'
        <3>1. \A v \in User : registering'[v].stage # "idle" => registering'[v].depth = registered'[registering'[v].path]
            <4> SUFFICES ASSUME NEW v \in User, registering'[v].stage # "idle"
                         PROVE  registering'[v].depth = registered'[registering'[v].path]
                OBVIOUS
            <4>1. CASE v = u
                BY <2>1, <2>3, <2>4, <4>1
            <4>2. CASE v # u
                <5>1. registering'[v] = registering[v] /\ registering[v].path \in DOMAIN registered
                    BY <1>0, <2>4, <4>2 DEF Located
                <5> QED BY <1>0, <2>3, <5>1 DEF Limited
            <4> QED BY <4>1, <4>2
        <3>2. \A r \in DOMAIN directories' : directories'[r].dirs[r].depth <= registered'[r]
            <4>1. DOMAIN directories \subseteq DOMAIN registered
                BY <1>0 DEF Located
            <4> QED BY <1>0, <2>1, <2>3, <4>1 DEF Limited
        <3> QED BY <3>1, <3>2 DEF Limited
    <2>9. Noticed'
        BY <1>0, <2>1, <2>5 DEF Noticed, InFlight
    <2>10. GoneIsKnown'
        BY <1>0, <2>1, <2>6 DEF GoneIsKnown, Doubtful, Due, InFlight
    <2> QED BY <2>7, <2>8, <2>9, <2>10
<1>2. CASE Watch(u)
    <2>1. watched' = Wanted /\ UNCHANGED <<fs, changed, events, overtaken, registered, directories>>
        BY <1>2 DEF Watch
    <2>2. \A v \in User : /\ registering'[v].path = registering[v].path
                          /\ registering'[v].depth = registering[v].depth
                          /\ registering'[v].stage # "idle" <=> registering[v].stage # "idle"
        BY <1>2, WatchAdvances
    <2>3. Wanted' = Wanted /\ Found(directories') = Found(directories)
        BY <2>1 DEF Wanted, Found
    <2>4. Watches'
        <3>1. \A d \in DOMAIN registered, q \in Path : Registry!Covers(registered, d, q) => q \in Wanted
            BY DEF Wanted, Registry!Accepts
        <3> QED BY <2>1, <3>1 DEF Watches
    <2>5. Limited'
        BY <1>0, <2>1, <2>2 DEF Limited
    <2>6. Noticed'
        BY <1>0, <2>1, <2>3 DEF Noticed, InFlight
    <2>7. GoneIsKnown'
        BY <1>0, <2>1, <2>3 DEF GoneIsKnown, Doubtful, Due, InFlight
    <2> QED BY <2>4, <2>5, <2>6, <2>7
<1>3. CASE Fill(u)
    <2> DEFINE path == registering[u].path
               depth == registering[u].depth
               new == NewCachedDirectory(path, depth)
    <2>1. /\ registering[u].stage = "locked" /\ path \in Path /\ depth \in Depth
          /\ path \in DOMAIN registered \ (DOMAIN directories \cup pendingFiles)
          /\ FillsApart(u, path, depth)
        BY <1>0, <1>3, FillIsApart
    <2>2. /\ registering' = [registering EXCEPT ![u] = Idle]
          /\ UNCHANGED <<fs, changed, events, overtaken, registered, watched>>
        BY <1>3 DEF Fill
    <2>3. /\ registering'[u].stage = "idle"
          /\ \A v \in User : registering'[v].stage # "idle" => v # u /\ registering'[v] = registering[v]
          /\ \A v \in User : v # u => registering'[v] = registering[v]
        <3>1. \A v \in User : v # u => registering'[v] = registering[v]
            BY <1>0, <2>2
        <3> QED BY <2>2, <3>1, CallEnds
    <2>4. depth = registered[path] /\ depth \in -1..MaxInt /\ depth # -1
        BY <1>0, <2>1, DepthsAreAllowed DEF Limited
    <2>5. Wanted' = Wanted
        BY <2>2 DEF Wanted
    <2>6. ~NoSuchFile(path, depth) => new.dirs[path].depth <= depth /\ \A q \in FoundIn(new) : fs[q] # "none"
        BY <2>1, <2>4, NewFinds DEF Typed, WatcherTyped
    <2>7. \A r \in DOMAIN directories : directories[r].dirs[r].depth <= registered[r]
        BY <1>0 DEF Limited
    <2>8. \A p : p \in Found(directories') <=> \E s \in DOMAIN directories' : p \in FoundIn(directories'[s])
        BY DEF Found
    <2>9. \A p : p \in Found(directories) <=> \E s \in DOMAIN directories : p \in FoundIn(directories[s])
        BY DEF Found
    <2>10. /\ \A r \in DOMAIN directories' : directories'[r].dirs[r].depth <= registered[r]
           /\ \A q \in Found(directories') : q \in Found(directories) \/ fs[q] # "none"
        <3>1. CASE /\ DOMAIN directories' = DOMAIN directories
                   /\ \A r \in DOMAIN directories : directories'[r] = directories[r]
            BY <2>7, <2>8, <2>9, <3>1
        <3>2. CASE /\ ~NoSuchFile(path, depth)
                   /\ DOMAIN directories' = DOMAIN directories \cup {path}
                   /\ directories'[path] = new
                   /\ \A r \in DOMAIN directories : directories'[r] = directories[r]
            <4> HIDE DEF new, depth, path
            <4> QED BY <2>4, <2>6, <2>7, <2>8, <2>9, <3>2
        <3> QED BY <2>1, <3>1, <3>2 DEF FillsApart
    <2> HIDE DEF path, depth, new
    <2>11. Watches'
        <3> SUFFICES ASSUME NEW r \in DOMAIN registered,
                            ~\E v \in User : registering'[v].stage = "added" /\ registering'[v].path = r,
                            NEW q \in Path, Registry!Covers(registered, r, q)
                     PROVE  q \in watched
            BY <2>2 DEF Watches
        <3>1. ~\E v \in User : registering[v].stage = "added" /\ registering[v].path = r
            BY <2>1, <2>3
        <3> QED BY <1>0, <3>1 DEF Watches
    <2>12. Limited'
        BY <1>0, <2>2, <2>3, <2>10 DEF Limited
    <2>13. Noticed'
        BY <1>0, <2>2, <2>5 DEF Noticed, InFlight
    <2>14. GoneIsKnown'
        BY <1>0, <2>2, <2>10 DEF GoneIsKnown, Doubtful, Due, InFlight
    <2> QED BY <2>11, <2>12, <2>13, <2>14
<1> QED BY <1>1, <1>2, <1>3

MirrorInv ==
    /\ budget.unregister <= MaxUnregister
    /\ ~closed /\ NothingUnregistered => Informed

\* Unregistering is counted.
LEMMA OthersUnregisterNothing ==
    ASSUME Typed, [Next]_vars, \A u \in User, p \in Path : ~Unregister(u, p)
    PROVE  budget'.unregister = budget.unregister
<1>1. ASSUME NEW u \in User, NEW p \in Path, NEW d \in Depth, Register(u, p, d)
      PROVE  budget'.unregister = budget.unregister
    BY <1>1 DEF Register, Typed, CallsTyped
<1>2. ASSUME NEW p \in Path, NEW kind, Appear(p, kind) \/ Modify(p, kind) \/ Disappear(p)
      PROVE  budget'.unregister = budget.unregister
    BY <1>2 DEF Appear, Modify, Disappear, Change, Typed, CallsTyped
<1>3. ASSUME NEW w \in Watcher, (\E p \in Path : Stat(w, p)) \/ HandleEvent(w)
      PROVE  budget' = budget
    BY <1>3 DEF Stat, HandleEvent
<1>4. ASSUME NEW u \in User, Watch(u) \/ Fill(u) \/ Unwatch(u) PROVE budget' = budget
    BY <1>4 DEF Watch, Fill, Unwatch
<1>5. Close \/ UNCHANGED vars => budget' = budget
    BY DEF Close, vars
<1> QED BY <1>1, <1>2, <1>3, <1>4, <1>5 DEF Next

LEMMA UnregistersCount ==
    ASSUME Typed, [Next]_vars, budget.unregister <= MaxUnregister
    PROVE  /\ budget'.unregister <= MaxUnregister
           /\ NothingUnregistered' => NothingUnregistered /\ \A u \in User, p \in Path : ~Unregister(u, p)
           /\ ~closed' => ~closed
<1>0. budget.unregister \in Nat /\ MaxUnregister \in Nat
    BY TreeAssumption DEF Typed, CallsTyped
<1>1. ASSUME NEW u \in User, NEW p \in Path, Unregister(u, p)
      PROVE  budget'.unregister = budget.unregister - 1
    BY <1>1 DEF Unregister, Typed, CallsTyped
<1>2. closed => closed'
    BY DEF Next, Appear, Modify, Disappear, Change, Stat, HandleEvent, Register, Watch, Fill,
           Unregister, Unwatch, Close, vars
<1>3. CASE \E u \in User, p \in Path : Unregister(u, p)
    BY <1>0, <1>1, <1>2, <1>3 DEF NothingUnregistered
<1>4. CASE \A u \in User, p \in Path : ~Unregister(u, p)
    BY <1>2, <1>4, OthersUnregisterNothing DEF NothingUnregistered
<1> QED BY <1>3, <1>4

LEMMA AlwaysInformed ==
    ASSUME -1 \notin Depth
    PROVE  Spec /\ [][RegistersApart]_vars => []MirrorInv
<1>1. Init => MirrorInv
    <2> SUFFICES ASSUME Init PROVE MirrorInv
        OBVIOUS
    <2>1. /\ DOMAIN directories = {} /\ DOMAIN registered = {} /\ InFlight = {}
          /\ DOMAIN events = {}
          /\ changed = {} /\ watched = {} /\ budget.unregister = MaxUnregister
          /\ \A u \in User : registering[u].stage = "idle"
        BY DEF Init, InFlight, NoRoots, Registry!NoDirectories, NoFiles, Idle
    <2>2. Found(directories) = {}
        BY <2>1 DEF Found
    <2>3. budget.unregister <= MaxUnregister
        BY <2>1, TreeAssumption
    <2> QED BY <2>1, <2>2, <2>3, InitIsLocated DEF MirrorInv, Informed, Watches, Limited, Noticed, GoneIsKnown
<1>2. Typed /\ Typed' /\ MirrorInv /\ [Next]_vars /\ [RegistersApart]_vars => MirrorInv'
    <2> SUFFICES ASSUME Typed, Typed', MirrorInv, [Next]_vars, [RegistersApart]_vars PROVE MirrorInv'
        OBVIOUS
    <2>1. /\ budget'.unregister <= MaxUnregister
          /\ NothingUnregistered' => NothingUnregistered /\ \A u \in User, p \in Path : ~Unregister(u, p)
          /\ ~closed' => ~closed
        BY UnregistersCount DEF MirrorInv
    <2>2. ASSUME ~closed', NothingUnregistered' PROVE Informed'
        <3>1. Informed /\ ~closed /\ \A u \in User, p \in Path : ~Unregister(u, p)
            BY <2>1, <2>2 DEF MirrorInv
        <3>2. Located'
            <4>1. [UsedApart]_vars
                BY <3>1 DEF UsedApart, NothingUnregisters
            <4> QED BY <2>2, <3>1, <4>1, StepIsLocated DEF Informed
        <3>3. CASE UNCHANGED vars
            BY <3>1, <3>3 DEF vars, Informed, Located, Watches, Limited, Noticed, GoneIsKnown, Doubtful, Due, InFlight,
                              Found, Wanted
        <3>4. CASE Next /\ RegistersApart
            <4>1. \A u \in User : ~Unwatch(u)
                BY <3>1 DEF Informed, Located, Unwatch
            <4>2. ~Close
                BY <2>2 DEF Close
            <4>3. ASSUME NEW p \in Path,
                         \/ \E kind \in Kind \ {"none"} : Appear(p, kind) \/ Modify(p, kind)
                         \/ Disappear(p)
                         \/ \E w \in Watcher : Stat(w, p)
                  PROVE  Watches' /\ Limited' /\ Noticed' /\ GoneIsKnown'
                BY <3>1, <4>3, ChangeInforms, StatInforms
            <4>6. ASSUME NEW w \in Watcher, HandleEvent(w)
                  PROVE  Watches' /\ Limited' /\ Noticed' /\ GoneIsKnown'
                BY <3>1, <4>6, HandleInforms
            <4>4. ASSUME NEW u \in User,
                         (\E p \in Path, d \in Depth : Register(u, p, d)) \/ Watch(u) \/ Fill(u)
                  PROVE  Watches' /\ Limited' /\ Noticed' /\ GoneIsKnown'
                BY <3>1, <3>4, <4>4, UserStepInforms
            <4>5. Watches' /\ Limited' /\ Noticed' /\ GoneIsKnown'
                BY <3>1, <3>4, <4>1, <4>2, <4>3, <4>4, <4>6 DEF Next
            <4> QED BY <3>2, <4>5 DEF Informed
        <3> QED BY <3>3, <3>4
    <2> QED BY <2>1, <2>2 DEF MirrorInv
<1> QED BY <1>1, <1>2, AlwaysTyped, PTL DEF Spec

\* Once all is quiet nothing is found that does not exist: where the registrations lie
\* apart, each of depth 0 or more, whatever number of threads registers, of threads that
\* look at paths, the same one included, and hand over late what they saw, and of changes
\* there is, whether or not update rescans directories, and though a path may come back
\* as another kind.  The one exception is a path of which a thread handled what it saw
\* after another thread had handled what it saw later: handleEvent believes the last to
\* come and may keep an entry of a path that is gone (FileCacheDirectoryTree.handleEvent,
\* CachedDirectoryImpl.updateImpl).
THEOREM FoundExistsApart ==
    ASSUME -1 \notin Depth
    PROVE  Spec /\ [][RegistersApart]_vars => []FoundExists
<1>1. MirrorInv => FoundExists
    BY DEF MirrorInv, Informed, GoneIsKnown, Doubtful, Due, InFlight, FoundExists, Quiescent
<1> QED BY <1>1, AlwaysInformed, PTL
-----------------------------------------------------------------------------
(* What is found is shown as what it is *)

\* Both are directories, or neither is.
Alike(k, j) == (k = "dir") <=> (j = "dir")

\* Below the root every CachedDirectoryImpl is made for a directory.
DirsAreDirs(tree, root) == \A q \in DirPaths(tree) : q # root => tree.dirs[q].kind = "dir"

LEMMA KindsAre ==
    ASSUME NEW tree, NEW p
    PROVE  /\ \A k : k \in EntryKinds(tree, p) <=>
                \/ p \in DirPaths(tree) /\ k = tree.dirs[p].kind
                \/ <<p, "name">> \in DOMAIN tree.files /\ k = tree.files[<<p, "name">>]
           /\ p \in FoundIn(tree) => EntryKinds(tree, p) # {}
           /\ EntryKinds(tree, p) # {} => p \in FoundIn(tree)
<1>1. \A k : k \in EntryKinds(tree, p) <=>
                \/ p \in DirPaths(tree) /\ k = tree.dirs[p].kind
                \/ <<p, "name">> \in DOMAIN tree.files /\ k = tree.files[<<p, "name">>]
    BY DEF EntryKinds
<1>2. p \in FoundIn(tree) => p \in DirPaths(tree) \/ <<p, "name">> \in DOMAIN tree.files
    BY DEF FoundIn
<1>3. p \in DirPaths(tree) \/ <<p, "name">> \in DOMAIN tree.files => p \in FoundIn(tree)
    <2>1. <<p, "name">> \in DOMAIN tree.files => p \in FilePaths(tree)
        <3> SUFFICES ASSUME <<p, "name">> \in DOMAIN tree.files PROVE p \in FilePaths(tree)
            OBVIOUS
        <3>1. <<p, "name">>[1] = p
            OBVIOUS
        <3> QED BY <3>1 DEF FilePaths
    <2> QED BY <2>1 DEF FoundIn
<1> QED BY <1>1, <1>2, <1>3

\* What is left of a tree shows what it showed.
ShowsNoMore(tree, root, new) ==
    /\ DirsAreDirs(tree, root) => DirsAreDirs(new, root)
    /\ \A p : EntryKinds(new, p) \subseteq EntryKinds(tree, p)

LEMMA PartShowsNoMore ==
    ASSUME NEW tree, NEW root, NEW new, DirPaths(new) \subseteq DirPaths(tree),
           \A q \in DirPaths(new) : new.dirs[q] = tree.dirs[q],
           DOMAIN new.files \subseteq DOMAIN tree.files,
           \A f \in DOMAIN new.files : new.files[f] = tree.files[f]
    PROVE  ShowsNoMore(tree, root, new)
<1>1. DirsAreDirs(tree, root) => DirsAreDirs(new, root)
    BY DEF DirsAreDirs
<1>2. ASSUME NEW p, NEW k \in EntryKinds(new, p) PROVE k \in EntryKinds(tree, p)
    <2>1. \/ p \in DirPaths(new) /\ k = new.dirs[p].kind
          \/ <<p, "name">> \in DOMAIN new.files /\ k = new.files[<<p, "name">>]
        BY <1>2, KindsAre
    <2>2. \/ p \in DirPaths(tree) /\ k = tree.dirs[p].kind
          \/ <<p, "name">> \in DOMAIN tree.files /\ k = tree.files[<<p, "name">>]
        BY <2>1
    <2> QED BY <2>2, KindsAre
<1> QED BY <1>1, <1>2 DEF ShowsNoMore

LEMMA WithoutDirShows == \A tree, root, path : ShowsNoMore(tree, root, WithoutDir(tree, path))
<1> SUFFICES ASSUME NEW tree, NEW root, NEW path PROVE ShowsNoMore(tree, root, WithoutDir(tree, path))
    OBVIOUS
<1> DEFINE new == WithoutDir(tree, path)
           files == {f \in DOMAIN tree.files : ~StrictlyBelow(f[1], path)}
<1>1. /\ DirPaths(new) = {q \in DirPaths(tree) : ~StartsWith(q, path)}
      /\ \A q \in DirPaths(new) : new.dirs[q] = tree.dirs[q]
    BY WithoutDirIs
<1>2. new.files = Restrict(tree.files, files)
    BY DEF WithoutDir
<1>3. files \subseteq DOMAIN tree.files
    OBVIOUS
<1> HIDE DEF new, files
<1>4. DOMAIN new.files = files /\ \A f \in files : new.files[f] = tree.files[f]
    BY <1>2, <1>3, MapRestricted
<1>5. ShowsNoMore(tree, root, new)
    BY <1>1, <1>3, <1>4, PartShowsNoMore
<1> QED BY <1>5 DEF new

LEMMA WithoutFileShows == \A tree, root, path : ShowsNoMore(tree, root, WithoutFile(tree, path))
<1> SUFFICES ASSUME NEW tree, NEW root, NEW path PROVE ShowsNoMore(tree, root, WithoutFile(tree, path))
    OBVIOUS
<1> DEFINE new == WithoutFile(tree, path)
           files == DOMAIN tree.files \ {<<path, "name">>}
<1>1. new.dirs = tree.dirs /\ DirPaths(new) = DirPaths(tree)
    BY WithoutFileIs
<1>2. new.files = Restrict(tree.files, files) /\ files \subseteq DOMAIN tree.files
    BY DEF WithoutFile
<1> HIDE DEF new, files
<1>3. DOMAIN new.files = files /\ \A f \in files : new.files[f] = tree.files[f]
    BY <1>2, MapRestricted
<1>4. ShowsNoMore(tree, root, new)
    BY <1>1, <1>2, <1>3, PartShowsNoMore
<1> QED BY <1>4 DEF new

\* removeImpl.
LEMMA RemoveShows == \A tree, root, path : ShowsNoMore(tree, root, Remove(tree, root, path))
<1> SUFFICES ASSUME NEW tree, NEW root, NEW path PROVE ShowsNoMore(tree, root, Remove(tree, root, path))
    OBVIOUS
<1>1. ShowsNoMore(tree, root, tree)
    BY DEF ShowsNoMore
<1>2. ShowsNoMore(tree, root, WithoutDir(WithoutFile(tree, path), path))
    <2>1. ShowsNoMore(tree, root, WithoutFile(tree, path))
        BY WithoutFileShows
    <2>2. ShowsNoMore(WithoutFile(tree, path), root, WithoutDir(WithoutFile(tree, path), path))
        BY WithoutDirShows
    <2> QED BY <2>1, <2>2 DEF ShowsNoMore
<1> QED BY <1>1, <1>2 DEF Remove

\* A new entry in the files map.
LEMMA WithFileShows ==
    ASSUME NEW tree, NEW root, NEW path, NEW key, NEW kind
    PROVE  LET new == WithFile(tree, path, key, kind) IN
           /\ DirsAreDirs(tree, root) => DirsAreDirs(new, root)
           /\ \A p : \A k \in EntryKinds(new, p) :
                \/ k \in EntryKinds(tree, p) /\ (p = path /\ key = "name" => p \in DirPaths(tree) /\ k = tree.dirs[p].kind)
                \/ p = path /\ key = "name" /\ k = kind
<1> DEFINE new == WithFile(tree, path, key, kind)
<1>1. new.dirs = tree.dirs /\ DirPaths(new) = DirPaths(tree)
    BY WithFileIs
<1>2. new.files = With(tree.files, <<path, key>>, kind)
    BY DEF WithFile
<1> HIDE DEF new
<1>3. /\ DOMAIN new.files = DOMAIN tree.files \cup {<<path, key>>}
      /\ new.files[<<path, key>>] = kind
      /\ \A f \in DOMAIN tree.files : f # <<path, key>> => new.files[f] = tree.files[f]
    BY <1>2 DEF With
<1>4. DirsAreDirs(tree, root) => DirsAreDirs(new, root)
    BY <1>1 DEF DirsAreDirs
<1>5. ASSUME NEW p, NEW k \in EntryKinds(new, p)
      PROVE  \/ k \in EntryKinds(tree, p) /\ (p = path /\ key = "name" => p \in DirPaths(tree) /\ k = tree.dirs[p].kind)
             \/ p = path /\ key = "name" /\ k = kind
    <2>1. \/ p \in DirPaths(new) /\ k = new.dirs[p].kind
          \/ <<p, "name">> \in DOMAIN new.files /\ k = new.files[<<p, "name">>]
        BY <1>5, KindsAre
    <2>2. CASE p \in DirPaths(new) /\ k = new.dirs[p].kind
        BY <1>1, <2>2, KindsAre
    <2>3. CASE <<p, "name">> \in DOMAIN new.files /\ k = new.files[<<p, "name">>]
        <3>1. CASE <<p, "name">> = <<path, key>>
            BY <1>3, <2>3, <3>1
        <3>2. CASE <<p, "name">> # <<path, key>>
            <4>1. <<p, "name">> \in DOMAIN tree.files /\ k = tree.files[<<p, "name">>]
                BY <1>3, <2>3, <3>2
            <4> QED BY <3>2, <4>1, KindsAre
        <3> QED BY <3>1, <3>2
    <2> QED BY <2>1, <2>2, <2>3
<1> QED BY <1>4, <1>5 DEF new

\* A new entry for a directory.
LEMMA WithKindShows ==
    ASSUME NEW tree, NEW root, NEW path \in DirPaths(tree), NEW kind, kind = "dir" \/ path = root
    PROVE  LET new == WithKind(tree, path, kind) IN
           /\ DirsAreDirs(tree, root) => DirsAreDirs(new, root)
           /\ \A p : \A k \in EntryKinds(new, p) :
                \/ p # path /\ k \in EntryKinds(tree, p)
                \/ p = path /\ k = kind
                \/ p = path /\ <<p, "name">> \in DOMAIN tree.files /\ k = tree.files[<<p, "name">>]
<1> DEFINE entry == [depth |-> tree.dirs[path].depth, kind |-> kind]
           new == WithKind(tree, path, kind)
<1>1. new.dirs = With(tree.dirs, path, entry) /\ new.files = tree.files /\ entry.kind = kind
    BY DEF WithKind
<1> HIDE DEF entry, new
<1>2. /\ DirPaths(new) = DirPaths(tree) /\ new.dirs[path] = entry
      /\ \A q \in DirPaths(tree) : q # path => new.dirs[q] = tree.dirs[q]
    BY <1>1 DEF With, DirPaths
<1>3. DirsAreDirs(tree, root) => DirsAreDirs(new, root)
    <2> SUFFICES ASSUME DirsAreDirs(tree, root), NEW q \in DirPaths(new), q # root
                 PROVE  new.dirs[q].kind = "dir"
        BY DEF DirsAreDirs
    <2>1. CASE q = path
        BY <1>1, <1>2, <2>1
    <2>2. CASE q # path
        BY <1>2, <2>2 DEF DirsAreDirs
    <2> QED BY <2>1, <2>2
<1>4. ASSUME NEW p, NEW k \in EntryKinds(new, p)
      PROVE  \/ p # path /\ k \in EntryKinds(tree, p)
             \/ p = path /\ k = kind
             \/ p = path /\ <<p, "name">> \in DOMAIN tree.files /\ k = tree.files[<<p, "name">>]
    <2>1. \/ p \in DirPaths(new) /\ k = new.dirs[p].kind
          \/ <<p, "name">> \in DOMAIN new.files /\ k = new.files[<<p, "name">>]
        BY <1>4, KindsAre
    <2>2. CASE p = path
        BY <1>1, <1>2, <2>1, <2>2
    <2>3. CASE p # path
        <3>1. \/ p \in DirPaths(tree) /\ k = tree.dirs[p].kind
              \/ <<p, "name">> \in DOMAIN tree.files /\ k = tree.files[<<p, "name">>]
            BY <1>1, <1>2, <2>1, <2>3
        <3> QED BY <2>3, <3>1, KindsAre
    <2> QED BY <2>2, <2>3
<1> QED BY <1>3, <1>4 DEF new

\* A tree in the place of a directory; a file of the same name stays.
LEMMA WithDirShows ==
    ASSUME NEW tree, NEW root, NEW path, NEW subtree,
           DirsAreDirs(subtree, root)
    PROVE  LET new == WithDir(tree, path, subtree) IN
           /\ DirsAreDirs(tree, root) => DirsAreDirs(new, root)
           /\ \A p : EntryKinds(new, p) \subseteq EntryKinds(tree, p) \cup EntryKinds(subtree, p)
<1> DEFINE new == WithDir(tree, path, subtree)
           rest == WithoutDir(tree, path)
<1>1. ShowsNoMore(tree, root, rest)
    BY WithoutDirShows
<1>2. /\ new.dirs = WithAll(rest.dirs, subtree.dirs)
      /\ new.files = WithAll(rest.files, subtree.files)
    BY DEF WithDir
<1> HIDE DEF rest, new
<1>3. /\ DirPaths(new) = DirPaths(rest) \cup DirPaths(subtree)
      /\ \A q \in DirPaths(subtree) : new.dirs[q] = subtree.dirs[q]
      /\ \A q \in DirPaths(rest) \ DirPaths(subtree) : new.dirs[q] = rest.dirs[q]
    BY <1>2 DEF WithAll, DirPaths
<1>4. /\ DOMAIN new.files = DOMAIN rest.files \cup DOMAIN subtree.files
      /\ \A f \in DOMAIN subtree.files : new.files[f] = subtree.files[f]
      /\ \A f \in DOMAIN rest.files \ DOMAIN subtree.files : new.files[f] = rest.files[f]
    BY <1>2 DEF WithAll
<1>5. DirsAreDirs(tree, root) => DirsAreDirs(new, root)
    BY <1>1, <1>3 DEF DirsAreDirs, ShowsNoMore
<1>6. ASSUME NEW p, NEW k \in EntryKinds(new, p) PROVE k \in EntryKinds(rest, p) \/ k \in EntryKinds(subtree, p)
    <2>1. \/ p \in DirPaths(new) /\ k = new.dirs[p].kind
          \/ <<p, "name">> \in DOMAIN new.files /\ k = new.files[<<p, "name">>]
        BY <1>6, KindsAre
    <2>2. \/ p \in DirPaths(rest) /\ k = rest.dirs[p].kind
          \/ p \in DirPaths(subtree) /\ k = subtree.dirs[p].kind
          \/ <<p, "name">> \in DOMAIN rest.files /\ k = rest.files[<<p, "name">>]
          \/ <<p, "name">> \in DOMAIN subtree.files /\ k = subtree.files[<<p, "name">>]
        BY <1>3, <1>4, <2>1
    <2> QED BY <2>2, KindsAre
<1> QED BY <1>1, <1>5, <1>6 DEF ShowsNoMore, new

\* init shows what it read, besides its base.
ShowsRead(new, disk, base, kind) ==
    /\ DirsAreDirs(new, base) /\ new.dirs[base].kind = kind
    /\ \A p : \A k \in EntryKinds(new, p) : (p = base /\ k = kind) \/ (k = disk[p] /\ k # "none")

LEMMA ScanShows ==
    ASSUME NEW disk, NEW wanted \in SUBSET Path, NEW base \in Path, NEW depth, NEW kind
    PROVE  ShowsRead(Scan(disk, wanted, base, depth, kind), disk, base, kind)
<1> DEFINE new == Scan(disk, wanted, base, depth, kind)
           reads == depth >= 0 /\ disk[base] = "dir"
           inner  == IF reads THEN ScannedDirs(disk, wanted, base, depth) ELSE {}
           listed == IF reads THEN inner \cup {base} ELSE {}
           leaves == {q \in wanted \ inner : Len(q) > 1 /\ Parent(q) \in listed /\ disk[q] # "none"}
           entry(q) == [depth |-> SubdirectoryDepth(depth, Distance(base, q)),
                        kind  |-> IF q = base THEN kind ELSE "dir"]
<1>1. /\ new.dirs = [q \in inner \cup {base} |-> entry(q)]
      /\ new.files = [f \in leaves \X {"name"} |-> disk[f[1]]]
    BY DEF Scan
<1>2. \A q : entry(q).kind = IF q = base THEN kind ELSE "dir"
    OBVIOUS
<1>3. \A q \in inner : disk[q] = "dir"
    BY DEF ScannedDirs
<1>4. \A q \in leaves : disk[q] # "none"
    OBVIOUS
<1> HIDE DEF new, entry, inner, leaves
<1>5. DirPaths(new) = inner \cup {base} /\ \A q \in inner \cup {base} : new.dirs[q] = entry(q)
    BY <1>1 DEF DirPaths
<1>6. \A q : <<q, "name">> \in DOMAIN new.files => q \in leaves /\ new.files[<<q, "name">>] = disk[q]
    BY <1>1
<1>7. DirsAreDirs(new, base) /\ new.dirs[base].kind = kind
    BY <1>2, <1>5 DEF DirsAreDirs
<1>8. ASSUME NEW p, NEW k \in EntryKinds(new, p) PROVE (p = base /\ k = kind) \/ (k = disk[p] /\ k # "none")
    <2>1. \/ p \in DirPaths(new) /\ k = new.dirs[p].kind
          \/ <<p, "name">> \in DOMAIN new.files /\ k = new.files[<<p, "name">>]
        BY <1>8, KindsAre
    <2>2. CASE p \in DirPaths(new) /\ k = new.dirs[p].kind
        BY <1>2, <1>3, <1>5, <2>2
    <2>3. CASE <<p, "name">> \in DOMAIN new.files /\ k = new.files[<<p, "name">>]
        BY <1>4, <1>6, <2>3
    <2> QED BY <2>1, <2>2, <2>3
<1> QED BY <1>7, <1>8 DEF ShowsRead, new

\* What update makes of a tree: an entry is as it was, or as the disk is, or the entry
\* of the event.
Shows(tree, root, path, kind, disk, new) ==
    /\ DirsAreDirs(new, root)
    /\ \A p : \A k \in EntryKinds(new, p) :
         \/ p # path /\ k \in EntryKinds(tree, p)
         \/ k = disk[p] /\ k # "none"
         \/ p = path /\ k = kind

\* There is no entry where its parent has none.
LEMMA NoRoomNoEntry ==
    ASSUME NEW root \in Path, NEW tree, WellFormed(tree, root), NEW path \in Path,
           StrictlyBelow(path, root), ~HasRoom(tree, path)
    PROVE  EntryKinds(tree, path) = {}
<1> SUFFICES ASSUME path \in FoundIn(tree) PROVE FALSE
    BY KindsAre
<1>1. path \in Entered(tree)
    BY FilesAreNamed DEF WellFormed
<1>2. Parent(path) \in Path /\ StrictlyBelow(path, Parent(path)) /\ StartsWith(Parent(path), root)
    BY ParentIsAbove
<1> QED BY <1>1, <1>2 DEF WellFormed, Supported, HasRoom

\* addDirectory, for the path of the event or for what is missing above it.
LEMMA AddDirectoryShows ==
    ASSUME NEW root \in Path, NEW tree, DirsAreDirs(tree, root),
           NEW added \in Path, NEW kind, NEW disk, NEW wanted \in SUBSET Path,
           NEW path, NEW event,
           \/ /\ added = path /\ kind = "dir" /\ kind = event
              /\ \A k \in EntryKinds(tree, path) : k = "dir"
           \/ added # path /\ kind = disk[added] /\ EntryKinds(tree, path) = {}
    PROVE  Shows(tree, root, path, event, disk, AddDirectory(tree, root, added, kind, disk, wanted).tree)
<1> DEFINE depth == SubdirectoryDepth(tree.dirs[Parent(added)].depth, 1)
           fresh == Scan(disk, wanted, added, depth, kind)
           filed == IF kind = "dir" THEN tree ELSE WithFile(tree, added, "path", kind)
           new == AddDirectory(tree, root, added, kind, disk, wanted).tree
<1>1. CASE kind = "dir" /\ disk[added] # "none"
    <2>1. new = WithDir(tree, added, fresh)
        BY <1>1 DEF AddDirectory
    <2> HIDE DEF depth, filed, new
    <2>2. /\ DirsAreDirs(fresh, added) /\ fresh.dirs[added].kind = kind
          /\ \A p : \A k \in EntryKinds(fresh, p) : (p = added /\ k = kind) \/ (k = disk[p] /\ k # "none")
        <3>1. ShowsRead(fresh, disk, added, kind)
            BY ScanShows
        <3> HIDE DEF fresh
        <3> QED BY <3>1 DEF ShowsRead
    <2> HIDE DEF fresh
    <2>3. DirsAreDirs(fresh, root)
        BY <1>1, <2>2 DEF DirsAreDirs
    <2>4. /\ DirsAreDirs(new, root)
          /\ \A p : EntryKinds(new, p) \subseteq EntryKinds(tree, p) \cup EntryKinds(fresh, p)
        BY <2>1, <2>3, WithDirShows
    <2>5. ASSUME NEW p, NEW k \in EntryKinds(new, p)
          PROVE  \/ p # path /\ k \in EntryKinds(tree, p)
                 \/ k = disk[p] /\ k # "none"
                 \/ p = path /\ k = event
        <3>1. CASE k \in EntryKinds(tree, p)
            BY <3>1
        <3>2. CASE k \in EntryKinds(fresh, p)
            BY <1>1, <2>2, <3>2
        <3> QED BY <2>4, <2>5, <3>1, <3>2
    <2> QED BY <2>4, <2>5 DEF Shows, new
<1>2. CASE ~(kind = "dir" /\ disk[added] # "none")
    <2>1. new = Remove(filed, root, added)
        BY <1>2 DEF AddDirectory
    <2>2. /\ DirsAreDirs(filed, root)
          /\ \A p : EntryKinds(filed, p) \subseteq EntryKinds(tree, p)
        <3>1. /\ DirsAreDirs(WithFile(tree, added, "path", kind), root)
              /\ \A p : \A k \in EntryKinds(WithFile(tree, added, "path", kind), p) :
                    k \in EntryKinds(tree, p) \/ "path" = "name"
            BY WithFileShows
        <3> QED BY <3>1
    <2> HIDE DEF filed, new
    <2>3. ShowsNoMore(filed, root, new)
        BY <2>1, RemoveShows
    <2>4. DirsAreDirs(new, root) /\ \A p : EntryKinds(new, p) \subseteq EntryKinds(tree, p)
        BY <2>2, <2>3 DEF ShowsNoMore
    <2> QED BY <2>4 DEF Shows, new
<1> QED BY <1>1, <1>2

\* The last name of the path, in a directory whose entries are leaves.
LEMMA UpdateLeafShows ==
    ASSUME NEW root \in Path, NEW tree, WellFormed(tree, root), DirsAreDirs(tree, root),
           NEW path \in Path, path # root, NEW kind, NEW rescan, NEW disk,
           \A k \in EntryKinds(tree, path) : Alike(k, kind)
    PROVE  Shows(tree, root, path, kind, disk, UpdateLeaf(tree, path, kind, rescan).tree)
<1> DEFINE unfiled == WithoutFile(tree, path)
           leaf    == [dirs |-> [p \in {path} |-> [depth |-> -1, kind |-> kind]], files |-> NoFiles]
           new == UpdateLeaf(tree, path, kind, rescan).tree
<1>1. new = IF kind # "dir" THEN WithFile(unfiled, path, "name", kind)
            ELSE IF path \in DirPaths(tree) /\ ~rescan THEN WithKind(unfiled, path, kind)
            ELSE WithDir(unfiled, path, leaf)
    BY DEF UpdateLeaf
<1>2. ShowsNoMore(tree, root, unfiled)
    BY WithoutFileShows
<1>3. /\ unfiled.dirs = tree.dirs /\ DirPaths(unfiled) = DirPaths(tree)
      /\ DOMAIN unfiled.files = DOMAIN tree.files \ {<<path, "name">>}
    BY WithoutFileIs
<1>4. DirPaths(leaf) = {path} /\ leaf.dirs[path].kind = kind /\ DOMAIN leaf.files = {}
    BY DEF DirPaths, NoFiles
<1>5. DirsAreDirs(unfiled, root) /\ \A p : EntryKinds(unfiled, p) \subseteq EntryKinds(tree, p)
    BY <1>2 DEF ShowsNoMore
<1> HIDE DEF unfiled, leaf, new
<1>6. CASE kind # "dir"
    <2>1. new = WithFile(unfiled, path, "name", kind)
        BY <1>1, <1>6
    <2>2. path \notin DirPaths(tree)
        <3> SUFFICES ASSUME path \in DirPaths(tree) PROVE FALSE
            OBVIOUS
        <3>1. tree.dirs[path].kind = "dir"
            BY DEF DirsAreDirs
        <3>2. "dir" \in EntryKinds(tree, path)
            BY <3>1, KindsAre
        <3> QED BY <1>6, <3>2 DEF Alike
    <2>3. /\ DirsAreDirs(new, root)
          /\ \A p : \A k \in EntryKinds(new, p) :
                \/ k \in EntryKinds(unfiled, p) /\ (p = path => p \in DirPaths(unfiled))
                \/ p = path /\ k = kind
        BY <1>5, <2>1, WithFileShows
    <2> QED BY <1>3, <1>5, <2>2, <2>3 DEF Shows, new
<1>7. CASE kind = "dir" /\ path \in DirPaths(tree) /\ ~rescan
    <2>1. new = WithKind(unfiled, path, kind) /\ path \in DirPaths(unfiled)
        BY <1>1, <1>3, <1>7
    <2>2. /\ DirsAreDirs(new, root)
          /\ \A p : \A k \in EntryKinds(new, p) :
                \/ p # path /\ k \in EntryKinds(unfiled, p)
                \/ p = path /\ k = kind
                \/ p = path /\ <<p, "name">> \in DOMAIN unfiled.files
        BY <1>5, <1>7, <2>1, WithKindShows
    <2> QED BY <1>3, <1>5, <2>2 DEF Shows, new
<1>8. CASE kind = "dir" /\ ~(path \in DirPaths(tree) /\ ~rescan)
    <2>1. new = WithDir(unfiled, path, leaf)
        BY <1>1, <1>8
    <2>2. DirsAreDirs(leaf, root)
        BY <1>4, <1>8 DEF DirsAreDirs
    <2>3. /\ DirsAreDirs(new, root)
          /\ \A p : EntryKinds(new, p) \subseteq EntryKinds(unfiled, p) \cup EntryKinds(leaf, p)
        BY <1>5, <2>1, <2>2, WithDirShows
    <2>4. \A p : \A k \in EntryKinds(leaf, p) : p = path /\ k = kind
        BY <1>4, KindsAre
    <2>5. \A k \in EntryKinds(tree, path) : k = kind
        BY <1>8 DEF Alike
    <2>6. \A p : \A k \in EntryKinds(new, p) : k \in EntryKinds(tree, p) \/ (p = path /\ k = kind)
        BY <1>5, <2>3, <2>4
    <2> QED BY <2>3, <2>5, <2>6 DEF Shows, new
<1> QED BY <1>6, <1>7, <1>8

\* update: of each entry that it leaves or makes there is only one kind to show, if the
\* event agrees with the tree on whether its path is a directory.
LEMMA UpdateShows ==
    ASSUME NEW root \in Path, NEW tree, WellFormed(tree, root), DirsAreDirs(tree, root),
           NEW path \in Path, StartsWith(path, root), NEW kind, kind # "none", NEW rescan,
           NEW disk, NEW wanted \in SUBSET Path, path \in wanted,
           \A k \in EntryKinds(tree, path) : Alike(k, kind)
    PROVE  Shows(tree, root, path, kind, disk, Update(tree, root, path, kind, rescan, disk, wanted).tree)
<1> DEFINE new == Update(tree, root, path, kind, rescan, disk, wanted).tree
           missing == FirstMissing(tree, root, path)
<1>0. root \in DirPaths(tree) /\ \A q \in DirPaths(tree) : tree.dirs[q].depth \in Int
    BY DepthsAreInts DEF WellFormed, Rooted
<1>1. ASSUME new = tree, EntryKinds(tree, path) = {} PROVE Shows(tree, root, path, kind, disk, new)
    BY <1>1 DEF Shows
<1>2. kind = "dir" => \A k \in EntryKinds(tree, path) : k = "dir"
    BY DEF Alike
<1>3. ASSUME path \in DirPaths(tree), new = WithKind(tree, path, kind), kind = "dir" \/ path = root
      PROVE  Shows(tree, root, path, kind, disk, new)
    <2> HIDE DEF new
    <2>1. /\ DirsAreDirs(new, root)
          /\ \A p : \A k \in EntryKinds(new, p) :
                \/ p # path /\ k \in EntryKinds(tree, p)
                \/ p = path /\ k = kind
                \/ p = path /\ <<p, "name">> \in DOMAIN tree.files /\ k = tree.files[<<p, "name">>]
        BY <1>3, WithKindShows
    <2>2. <<path, "name">> \in DOMAIN tree.files => tree.files[<<path, "name">>] \in EntryKinds(tree, path)
        BY KindsAre
    <2>3. path = root => <<path, "name">> \notin DOMAIN tree.files
        <3> SUFFICES ASSUME path = root, <<path, "name">> \in DOMAIN tree.files PROVE FALSE
            OBVIOUS
        <3>1. <<path, "name">>[1] = path
            OBVIOUS
        <3> QED BY <3>1 DEF WellFormed, Rooted, StrictlyBelow
    <2> QED BY <1>2, <1>3, <2>1, <2>2, <2>3 DEF Shows
<1>4. CASE path = root
    <2>1. new = UpdateRoot(tree, root, kind, rescan, disk, wanted).tree
        BY <1>4 DEF Update
    <2>2. CASE kind = "dir" /\ rescan
        <3> DEFINE depth == tree.dirs[root].depth
                   was == tree.dirs[root].kind
        <3>1. new = Scan(disk, wanted, root, depth, was)
            BY <2>1, <2>2 DEF UpdateRoot
        <3>2. was \in EntryKinds(tree, root)
            BY <1>0, KindsAre
        <3>3. was = kind
            BY <1>2, <1>4, <2>2, <3>2
        <3> HIDE DEF new, depth, was
        <3>4. ShowsRead(new, disk, root, was)
            BY <3>1, ScanShows
        <3> QED BY <1>4, <3>3, <3>4 DEF ShowsRead, Shows, new
    <2>3. CASE ~(kind = "dir" /\ rescan)
        <3>1. new = WithKind(tree, root, kind)
            BY <2>1, <2>3 DEF UpdateRoot
        <3> QED BY <1>0, <1>3, <1>4, <3>1
    <2> QED BY <2>2, <2>3
<1>5. CASE path # root
    <2>0. StrictlyBelow(path, root)
        BY <1>5 DEF StrictlyBelow
    <2>1. new = UpdateBelow(tree, root, path, kind, rescan, disk, wanted).tree
        BY <1>5 DEF Update
    <2>2. CASE Parent(path) \in DirPaths(tree)
        <3>1. CASE tree.dirs[Parent(path)].depth < 0
            <4>1. new = tree
                BY <2>1, <2>2, <3>1 DEF UpdateBelow
            <4>2. ~HasRoom(tree, path)
                BY <1>0, <2>2, <3>1 DEF HasRoom
            <4> QED BY <1>1, <2>0, <4>1, <4>2, NoRoomNoEntry
        <3>2. CASE ~(tree.dirs[Parent(path)].depth < 0) /\ (kind # "dir" \/ tree.dirs[Parent(path)].depth = 0)
            <4>1. new = UpdateLeaf(tree, path, kind, rescan).tree
                BY <2>1, <2>2, <3>2 DEF UpdateBelow
            <4> QED BY <1>5, <4>1, UpdateLeafShows
        <3>3. CASE ~(tree.dirs[Parent(path)].depth < 0) /\ ~(kind # "dir" \/ tree.dirs[Parent(path)].depth = 0)
            <4>1. CASE path \in DirPaths(tree) /\ ~rescan
                <5>1. new = WithKind(tree, path, kind)
                    BY <2>1, <2>2, <3>3, <4>1 DEF UpdateBelow
                <5> QED BY <1>3, <3>3, <4>1, <5>1
            <4>2. CASE ~(path \in DirPaths(tree) /\ ~rescan)
                <5>1. new = AddDirectory(tree, root, path, kind, disk, wanted).tree
                    BY <2>1, <2>2, <3>3, <4>2 DEF UpdateBelow
                <5> QED BY <1>2, <3>3, <5>1, AddDirectoryShows
            <4> QED BY <4>1, <4>2
        <3> QED BY <3>1, <3>2, <3>3
    <2>3. CASE Parent(path) \notin DirPaths(tree)
        <3>0. EntryKinds(tree, path) = {}
            BY <2>0, <2>3, NoRoomNoEntry DEF HasRoom
        <3>1. CASE tree.dirs[Parent(missing)].depth <= 0
            <4>1. new = tree
                BY <2>1, <2>3, <3>1 DEF UpdateBelow
            <4> QED BY <1>1, <3>0, <4>1
        <3>2. CASE ~(tree.dirs[Parent(missing)].depth <= 0)
            <4>1. new = AddDirectory(tree, root, missing, disk[missing], disk, wanted).tree
                BY <2>1, <2>3, <3>2 DEF UpdateBelow
            <4>2. missing \in Path /\ missing # path
                BY <1>0, <2>0, <2>3, FirstIsMissing DEF StrictlyBelow
            <4> HIDE DEF missing, new
            <4>3. Shows(tree, root, path, kind, disk, AddDirectory(tree, root, missing, disk[missing], disk, wanted).tree)
                BY <3>0, <4>2, AddDirectoryShows
            <4> QED BY <4>1, <4>3 DEF new
        <3> QED BY <3>1, <3>2
    <2> QED BY <2>2, <2>3
<1> QED BY <1>4, <1>5

\* handleDelete shows nothing new.
LEMMA HandleDeleteShows ==
    ASSUME NEW dirs, NEW path, HandleDelete(dirs, path)
    PROVE  /\ DOMAIN directories' = DOMAIN dirs \ {path}
           /\ \A r \in DOMAIN directories' : ShowsNoMore(dirs[r], r, directories'[r])
<1> DEFINE roots == RootsAbove(dirs, path)
           kept == [r \in DOMAIN dirs |-> IF r \in roots THEN Remove(dirs[r], r, path) ELSE dirs[r]]
<1>1. directories' = Restrict(kept, DOMAIN dirs \ {path})
    BY DEF HandleDelete
<1>2. \A r \in DOMAIN dirs : kept[r] = Remove(dirs[r], r, path) \/ kept[r] = dirs[r]
    OBVIOUS
<1> HIDE DEF roots, kept
<1>3. DOMAIN directories' = DOMAIN dirs \ {path} /\ \A r \in DOMAIN dirs \ {path} : directories'[r] = kept[r]
    BY <1>1 DEF Restrict
<1>4. ASSUME NEW r \in DOMAIN dirs PROVE ShowsNoMore(dirs[r], r, kept[r])
    <2>1. ShowsNoMore(dirs[r], r, dirs[r])
        BY DEF ShowsNoMore
    <2>2. ShowsNoMore(dirs[r], r, Remove(dirs[r], r, path))
        BY RemoveShows
    <2>3. kept[r] = Remove(dirs[r], r, path) \/ kept[r] = dirs[r]
        BY <1>2
    <2> QED BY <2>1, <2>2, <2>3
<1> QED BY <1>3, <1>4

\* newCachedDirectory shows the disk.
LEMMA NewShows ==
    ASSUME NEW path \in Path, NEW depth \in -1..MaxInt, ~NoSuchFile(path, depth), depth # -1
    PROVE  /\ DirsAreDirs(NewCachedDirectory(path, depth), path)
           /\ \A p : \A k \in EntryKinds(NewCachedDirectory(path, depth), p) : k = fs[p] /\ k # "none"
<1> DEFINE fallback == IF fs[path] \in Content /\ depth >= 0 THEN -1 ELSE depth
           new == NewCachedDirectory(path, depth)
<1>1. new = Scan(fs, Wanted, path, fallback, fs[path])
    BY DEF NewCachedDirectory
<1>2. fs[path] # "none"
    BY PathAssumption DEF NoSuchFile
<1> HIDE DEF fallback, new
<1>3. ShowsRead(new, fs, path, fs[path])
    BY <1>1, WantedIsThere, ScanShows
<1>4. DirsAreDirs(new, path) /\ \A p : \A k \in EntryKinds(new, p) : k = fs[p] /\ k # "none"
    BY <1>2, <1>3 DEF ShowsRead
<1> QED BY <1>4 DEF new

\* Where roots lie apart, find knows the root of what is found.
LEMMA FoundIsReached ==
    ASSUME NEW dirs, TreesAreWellFormed(dirs), RootsApart(dirs),
           NEW r \in DOMAIN dirs, NEW p \in FoundIn(dirs[r])
    PROVE  r \in Find(dirs, p)
<1>1. r \in Path /\ WellFormed(dirs[r], r) /\ Len(r) \in Nat
    BY PathsAreLong DEF TreesAreWellFormed
<1>2. p \in Entered(dirs[r]) /\ p \in Path /\ StartsWith(p, r)
    BY FoundInOneRoot
<1>3. Reaches(dirs, r, p)
    <2> SUFFICES ASSUME p # r PROVE Within(dirs[r].dirs[r].depth, Distance(r, p) - 1)
        BY <1>2 DEF Reaches, Within
    <2>1. dirs[r].dirs[r].depth \in Int /\ StartsWith(r, r)
        BY <1>1, DepthsAreInts, StartsWithIsOrder DEF WellFormed, Rooted
    <2>2. dirs[r].dirs[r].depth >= 0
        <3> SUFFICES ASSUME dirs[r].dirs[r].depth < 0 PROVE FALSE
            BY <2>1
        <3>1. ~StrictlyBelow(p, r)
            BY <1>1, <1>2, <2>1, NothingBelow
        <3> QED BY <1>2, <3>1 DEF StrictlyBelow
    <2>3. p \in Listed(dirs[r], r, dirs[r].dirs[r].depth)
        BY <1>1, <1>2, <2>2, EntriesAreWithin
    <2> QED BY <2>1, <2>2, <2>3 DEF Listed
<1>4. \A s \in DOMAIN dirs : Reaches(dirs, s, p) => s = r
    BY <1>2, FoundInOneRoot DEF Reaches
<1> QED BY <1>1, <1>3, <1>4 DEF Find

\* What was seen is the same kind of thing as what is there, whichever thread saw it.
SeenAlike ==
    /\ \A w \in DOMAIN events : events[w].kind # "none" /\ fs[events[w].path] # "none"
         => Alike(events[w].kind, fs[events[w].path])
    /\ \A v, w \in DOMAIN events :
         events[v].path = events[w].path /\ events[v].kind # "none" /\ events[w].kind # "none"
         => Alike(events[v].kind, events[w].kind)

\* An entry shows the same kind of thing as the disk and as an event that is under way,
\* and what is there, unless more of the path is due.
Fits(p, k) ==
    /\ fs[p] # "none" => Alike(k, fs[p]) /\ (k = fs[p] \/ p \in Doubtful)
    /\ \A w \in DOMAIN events : events[w].path = p /\ events[w].kind # "none" => Alike(k, events[w].kind)

EntriesFit ==
    \A r \in DOMAIN directories :
        /\ DirsAreDirs(directories[r], r)
        /\ \A p : \A k \in EntryKinds(directories[r], p) : Fits(p, k)

Shown == SeenAlike /\ EntriesFit

\* What handleEvent leaves: entries of other paths, what is there, and what was seen.
EventShows(path, kind) ==
    \A r \in DOMAIN directories' :
        /\ DirsAreDirs(directories'[r], r)
        /\ \A p : \A k \in EntryKinds(directories'[r], p) :
             \/ r \in DOMAIN directories /\ k \in EntryKinds(directories[r], p)
                  /\ (p = path => kind = "none")
             \/ k = fs[p] /\ k # "none"
             \/ p = path /\ k = kind /\ k # "none"

LEMMA HandleEventShows ==
    ASSUME -1 \notin Depth, Typed, Located, EntriesFit, ~closed,
           NEW path \in Path, path \in Wanted, NEW kind, Handle(path, kind),
           \E w \in DOMAIN events : events[w].path = path /\ events[w].kind = kind
    PROVE  EventShows(path, kind)
<1> DEFINE found == Find(directories, path)
<1>1. /\ IsDisk(fs) /\ Registry!TypeOK /\ TreesAreWellFormed(directories)
      /\ path \in Path
    BY DEF Typed, WatcherTyped, Wanted
<1>2. RootsApart(directories) /\ \A r \in DOMAIN directories : r \in Path /\ DirsAreDirs(directories[r], r)
    BY <1>1 DEF Located, RootsApart, TreesAreWellFormed, EntriesFit
<1>3. \A r \in DOMAIN directories : ~StartsWith(path, r) => EntryKinds(directories[r], path) = {}
    <2> SUFFICES ASSUME NEW r \in DOMAIN directories, path \in FoundIn(directories[r])
                 PROVE  StartsWith(path, r)
        BY KindsAre
    <2> QED BY <1>1, FoundInOneRoot
<1>4. found = {} => \A r \in DOMAIN directories : EntryKinds(directories[r], path) = {}
    BY <1>1, <1>2, KindsAre, FoundIsReached
<1>5. ASSUME UNCHANGED directories, found = {} PROVE EventShows(path, kind)
    <2> HIDE DEF found
    <2> QED BY <1>2, <1>4, <1>5 DEF EventShows
<1>6. CASE kind = "none" /\ HandleDelete(directories, path)
    <2>1. /\ DOMAIN directories' = DOMAIN directories \ {path}
          /\ \A r \in DOMAIN directories' : ShowsNoMore(directories[r], r, directories'[r])
        BY <1>6, HandleDeleteShows
    <2> QED BY <1>2, <1>6, <2>1 DEF EventShows, ShowsNoMore
<1>7. ASSUME kind # "none", NEW r \in found, HandleUpdate(r, path, kind)
      PROVE  EventShows(path, kind)
    <2> DEFINE new == Update(directories[r], r, path, kind, RescanOnDirectoryUpdate, fs, Wanted).tree
               cleared == [directories EXCEPT ![r] = Cleared(@, r)]
               throws == UpdateThrows(directories[r], r, path, kind, RescanOnDirectoryUpdate, fs, Wanted)
    <2>1. r \in DOMAIN directories /\ r \in Path /\ StartsWith(path, r) /\ WellFormed(directories[r], r)
        BY <1>1 DEF Find, Reaches, TreesAreWellFormed
    <2>2. \A s \in DOMAIN directories : s # r => ~StartsWith(path, s)
        <3> SUFFICES ASSUME NEW s \in DOMAIN directories, StartsWith(path, s) PROVE s = r
            OBVIOUS
        <3>1. StartsWith(s, r) \/ StartsWith(r, s)
            BY <1>2, <2>1, StartsWithIsOrder
        <3> QED BY <1>2, <2>1, <3>1 DEF RootsApart
    <2>3. \A s \in DOMAIN directories : s # r => EntryKinds(directories[s], path) = {}
        BY <1>3, <2>2
    <2>4. CASE throws /\ HandleDelete(cleared, path)
        <3>1. path = r
            BY <2>4 DEF UpdateThrows
        <3> HIDE DEF throws
        <3>2. DOMAIN cleared = DOMAIN directories /\ \A s \in DOMAIN directories : s # r => cleared[s] = directories[s]
            OBVIOUS
        <3> HIDE DEF cleared
        <3>3. /\ DOMAIN directories' = DOMAIN cleared \ {path}
              /\ \A s \in DOMAIN directories' : ShowsNoMore(cleared[s], s, directories'[s])
            BY <2>4, HandleDeleteShows
        <3>4. \A s \in DOMAIN directories' : s \in DOMAIN directories /\ s # r /\ ShowsNoMore(directories[s], s, directories'[s])
            BY <3>1, <3>2, <3>3
        <3> QED BY <1>2, <2>3, <3>4 DEF EventShows, ShowsNoMore
    <2>5. CASE directories' = [directories EXCEPT ![r] = new]
        <3>1. \A k \in EntryKinds(directories[r], path) : Alike(k, kind)
            BY <1>1, <1>7, <2>1 DEF EntriesFit, Fits
        <3>2. Shows(directories[r], r, path, kind, fs, new)
            BY <1>1, <1>2, <1>7, <2>1, <3>1, WantedIsThere, UpdateShows
        <3> HIDE DEF new
        <3>3. /\ DOMAIN directories' = DOMAIN directories /\ directories'[r] = new
              /\ \A s \in DOMAIN directories : s # r => directories'[s] = directories[s]
            BY <2>1, <2>5
        <3> QED BY <1>2, <1>7, <2>3, <3>2, <3>3 DEF EventShows, Shows
    <2>6. (HandleDelete(cleared, path) /\ throws) \/ directories' = [directories EXCEPT ![r] = new]
        BY <1>7 DEF HandleUpdate
    <2> QED BY <2>4, <2>5, <2>6
<1>8. ASSUME path \in pendingFiles, HandlePending(path), found = {} PROVE EventShows(path, kind)
    <2> DEFINE depth == Registry!MaxDepthFor(registered, path)
               new == NewCachedDirectory(path, depth)
    <2>1. depth \in -1..MaxInt /\ depth # -1
        <3>1. path \in DOMAIN registered /\ \A q \in DOMAIN registered : StartsWith(path, q) => q = path
            BY <1>8 DEF Located
        <3>2. depth = registered[path]
            BY <1>1, <3>1, MaxDepthForIsOwn
        <3>3. registered[path] \in Depth
            BY <1>1, <3>1 DEF Registry!TypeOK
        <3> HIDE DEF depth
        <3> QED BY <3>2, <3>3, DepthsAreAllowed
    <2>2. CASE NoSuchFile(path, depth)
        <3>1. UNCHANGED directories
            BY <1>8, <2>2 DEF HandlePending
        <3> QED BY <1>5, <1>8, <3>1
    <2>3. CASE ~NoSuchFile(path, depth)
        <3>1. directories' = With(directories, path, new)
            BY <1>8, <2>3 DEF HandlePending
        <3> HIDE DEF depth
        <3>2. DirsAreDirs(new, path) /\ \A p : \A k \in EntryKinds(new, p) : k = fs[p] /\ k # "none"
            BY <1>1, <2>1, <2>3, NewShows
        <3> HIDE DEF new
        <3>3. path \notin DOMAIN directories
            BY <1>8, RootFindsItself
        <3>4. /\ DOMAIN directories' = DOMAIN directories \cup {path} /\ directories'[path] = new
              /\ \A s \in DOMAIN directories : directories'[s] = directories[s]
            BY <3>1, <3>3 DEF With
        <3> HIDE DEF found
        <3> QED BY <1>2, <1>4, <1>8, <3>2, <3>4 DEF EventShows
    <2> QED BY <2>2, <2>3
<1> QED BY <1>5, <1>6, <1>7, <1>8 DEF Handle

\* A path of which events were handled in the wrong order, and which is gone, does not
\* come back: the cache may still hold it as what it was.
GoneForGood == \A p \in overtaken : fs[p] = "none" => fs'[p] = "none"

\* The steps of the file system: what is found and gone is noticed, and the watcher
\* tells of it before a path is there again.
LEMMA ChangeShows ==
    ASSUME ~SwapsKinds, Typed, Informed, Shown, GoneForGood, NEW p \in Path,
           \/ \E kind \in Kind \ {"none"} : Appear(p, kind) \/ Modify(p, kind)
           \/ Disappear(p)
    PROVE  Shown'
<1>0. /\ Noticed /\ GoneIsKnown /\ SeenAlike /\ EntriesFit
      /\ Found(directories) \subseteq watched
      /\ fs \in [Path -> Kind] /\ TreesAreWellFormed(directories)
    BY FoundIsWatched DEF Informed, Typed, WatcherTyped, IsDisk, Shown
<1>1. \A r \in DOMAIN directories : \A q : EntryKinds(directories[r], q) # {} => q \in Found(directories) /\ q \in Path
    <2>1. \A r \in DOMAIN directories : \A q : EntryKinds(directories[r], q) # {} => q \in FoundIn(directories[r])
        BY KindsAre
    <2>2. \A r \in DOMAIN directories : \A q \in FoundIn(directories[r]) : q \in Found(directories) /\ q \in Path
        BY <1>0, FoundInOneRoot
    <2> QED BY <2>1, <2>2
<1>2. /\ UNCHANGED <<events, overtaken, directories>> /\ InFlight' = InFlight
      /\ changed' = changed \cup ({p} \cap watched)
    BY DEF Appear, Modify, Disappear, Change, InFlight
<1>3. \A q \in Path : q # p => fs'[q] = fs[q]
    BY <1>0 DEF Appear, Modify, Disappear, Change
<1>4. \/ fs'[p] = "none"
      \/ fs[p] # "none" /\ Alike(fs'[p], fs[p])
      \/ fs[p] = "none" /\ p \notin Doubtful
    <2>1. ASSUME NEW kind \in Kind \ {"none"}, Appear(p, kind) PROVE fs[p] = "none" /\ p \notin Doubtful
        <3>1. fs[p] = "none" /\ fs'[p] = kind /\ p \notin changed \cup InFlight
            BY <1>0, <2>1 DEF Appear, Change
        <3> QED BY <2>1, <3>1 DEF GoneForGood, Doubtful, Due
    <2>2. ASSUME NEW kind, Modify(p, kind) PROVE fs[p] # "none" /\ Alike(fs'[p], fs[p])
        <3>1. fs[p] # "none" /\ fs'[p] = kind /\ (IF fs[p] = "dir" THEN kind = "dir" ELSE kind \in Content)
            BY <1>0, <2>2 DEF Modify, Change
        <3> QED BY <3>1, PathAssumption DEF Alike
    <2>3. Disappear(p) => fs'[p] = "none"
        BY <1>0 DEF Disappear, Change
    <2> QED BY <2>1, <2>2, <2>3
<1>5. SeenAlike'
    <2> SUFFICES ASSUME NEW w \in DOMAIN events, NEW q, q = events[w].path,
                        events[w].kind # "none", fs'[q] # "none"
                 PROVE  Alike(events[w].kind, fs'[q])
        BY <1>0, <1>2 DEF SeenAlike
    <2>1. q \in Path /\ q \in InFlight
        BY <1>0 DEF Noticed, Wanted, InFlight
    <2>2. CASE q # p
        BY <1>0, <1>3, <2>1, <2>2 DEF SeenAlike
    <2>3. CASE q = p
        <3>1. p \in Doubtful
            BY <2>1, <2>3 DEF Doubtful, Due
        <3> QED BY <1>0, <1>4, <2>3, <3>1 DEF SeenAlike, Alike
    <2> QED BY <2>2, <2>3
<1>6. ASSUME NEW r \in DOMAIN directories, NEW q, NEW k \in EntryKinds(directories[r], q)
      PROVE  Fits(q, k)'
    <2>1. Fits(q, k) /\ q \in Found(directories) /\ q \in Path /\ q \in watched
        BY <1>0, <1>1, <1>6 DEF EntriesFit
    <2>2. \A w \in DOMAIN events : events[w].path = q /\ events[w].kind # "none" => Alike(k, events[w].kind)
        BY <2>1 DEF Fits
    <2>3. fs'[q] # "none" => Alike(k, fs'[q]) /\ (k = fs'[q] \/ q \in Doubtful')
        <3>1. CASE q # p
            BY <1>2, <1>3, <2>1, <3>1 DEF Fits, Doubtful, Due
        <3>2. CASE q = p
            <4>1. q \in Doubtful'
                BY <1>2, <2>1, <3>2 DEF Doubtful, Due
            <4>2. fs[q] = "none" => q \in Doubtful
                BY <1>0, <2>1 DEF GoneIsKnown
            <4> QED BY <1>4, <2>1, <3>2, <4>1, <4>2 DEF Fits, Alike
        <3> QED BY <3>1, <3>2
    <2> QED BY <1>2, <2>2, <2>3 DEF Fits
<1>7. EntriesFit'
    BY <1>0, <1>2, <1>6 DEF EntriesFit
<1> QED BY <1>5, <1>7 DEF Shown

\* The steps of the watcher.
LEMMA StatShows ==
    ASSUME Typed, Informed, Shown, NEW w \in Watcher, NEW p \in Path, Stat(w, p)
    PROVE  Shown'
<1>0. Noticed /\ SeenAlike /\ EntriesFit
    BY DEF Informed, Shown
<1>1. UNCHANGED <<fs, directories>> /\ Doubtful \subseteq Doubtful' /\ p \in Wanted
    BY <1>0, StatIsDue DEF Stat
<1>2. /\ DOMAIN events' = DOMAIN events \cup {w}
      /\ events'[w].path = p /\ events'[w].kind = fs[p]
      /\ \A v \in DOMAIN events : events'[v].path = events[v].path /\ events'[v].kind = events[v].kind
    BY <1>1, StatSees, Zenon
<1>3. SeenAlike'
    <2>1. \A v \in DOMAIN events' : events'[v].kind # "none" /\ fs'[events'[v].path] # "none"
            => Alike(events'[v].kind, fs'[events'[v].path])
        BY <1>0, <1>1, <1>2 DEF SeenAlike, Alike
    <2>2. \A v \in DOMAIN events : events[v].path = p /\ events[v].kind # "none" /\ fs[p] # "none"
            => Alike(events[v].kind, fs[p])
        BY <1>0 DEF SeenAlike
    <2>3. \A v, x \in DOMAIN events' :
            events'[v].path = events'[x].path /\ events'[v].kind # "none" /\ events'[x].kind # "none"
            => Alike(events'[v].kind, events'[x].kind)
        BY <1>0, <1>2, <2>2 DEF SeenAlike, Alike
    <2> QED BY <2>1, <2>3 DEF SeenAlike
<1>4. \A q, k : Fits(q, k) => Fits(q, k)'
    BY <1>1, <1>2 DEF Fits
<1>5. EntriesFit'
    BY <1>0, <1>1, <1>4 DEF EntriesFit
<1> QED BY <1>3, <1>5 DEF Shown

LEMMA EventIsShown ==
    ASSUME -1 \notin Depth, Typed, Informed, Shown, ~closed, NEW w \in Watcher, HandleEvent(w)
    PROVE  Shown'
<1> DEFINE path == events[w].path
           kind == events[w].kind
<1>0. Located /\ Noticed /\ SeenAlike /\ EntriesFit
    BY DEF Informed, Shown
<1>1. /\ path \in Path /\ Handle(path, kind) /\ w \in DOMAIN events
      /\ DOMAIN events' \subseteq DOMAIN events /\ \A v \in DOMAIN events' : events'[v] = events[v]
      /\ UNCHANGED <<fs, changed>>
    BY EventIsTyped
<1>2. /\ path \in Wanted /\ Doubtful \subseteq Doubtful' \cup {path}
      /\ kind = fs[path] \/ path \in Doubtful'
    BY <1>0, HandledIsDue
<1>3. EventShows(path, kind)
    BY <1>0, <1>1, <1>2, HandleEventShows
<1>4. SeenAlike'
    BY <1>0, <1>1 DEF SeenAlike
<1>5. /\ kind # "none" /\ fs[path] # "none" => Alike(kind, fs[path])
      /\ \A v \in DOMAIN events' : events'[v].path = path /\ events'[v].kind # "none" /\ kind # "none"
           => Alike(kind, events'[v].kind)
    BY <1>0, <1>1 DEF SeenAlike
<1> HIDE DEF path, kind
<1>6. ASSUME NEW r \in DOMAIN directories', NEW p, NEW k \in EntryKinds(directories'[r], p) PROVE Fits(p, k)'
    <2>1. CASE k = fs[p] /\ k # "none"
        BY <1>0, <1>1, <2>1 DEF SeenAlike, Fits, Alike
    <2>2. CASE p = path /\ k = kind /\ k # "none"
        BY <1>1, <1>2, <1>5, <2>2 DEF Fits
    <2>3. CASE /\ r \in DOMAIN directories /\ k \in EntryKinds(directories[r], p)
               /\ p = path => kind = "none"
        <3>1. Fits(p, k)
            BY <1>0, <2>3 DEF EntriesFit
        <3>2. \A v \in DOMAIN events' : events'[v].path = p /\ events'[v].kind # "none" => Alike(k, events'[v].kind)
            BY <1>1, <3>1 DEF Fits
        <3>3. fs[p] # "none" => Alike(k, fs[p]) /\ (k = fs[p] \/ p \in Doubtful')
            BY <1>2, <2>3, <3>1 DEF Fits
        <3> QED BY <1>1, <3>2, <3>3 DEF Fits
    <2> QED BY <1>3, <1>6, <2>1, <2>2, <2>3 DEF EventShows
<1>7. EntriesFit'
    BY <1>3, <1>6 DEF EntriesFit, EventShows
<1> QED BY <1>4, <1>7 DEF Shown

\* register.
LEMMA FillShows ==
    ASSUME -1 \notin Depth, Typed, Informed, Shown, NEW u \in User, Fill(u)
    PROVE  Shown'
<1> DEFINE path == registering[u].path
           depth == registering[u].depth
           new == NewCachedDirectory(path, depth)
<1>0. Located /\ SeenAlike /\ EntriesFit
    BY DEF Informed, Shown
<1>1. /\ path \in Path /\ depth \in Depth /\ path \notin DOMAIN directories
      /\ FillsApart(u, path, depth)
    BY <1>0, FillIsApart
<1>2. UNCHANGED <<fs, changed, events, overtaken>> /\ InFlight' = InFlight
    BY DEF Fill, InFlight
<1>3. depth \in -1..MaxInt /\ depth # -1
    BY <1>1, DepthsAreAllowed
<1>4. ~NoSuchFile(path, depth) => DirsAreDirs(new, path) /\ \A p : \A k \in EntryKinds(new, p) : k = fs[p] /\ k # "none"
    BY <1>1, <1>3, NewShows
<1>5. SeenAlike'
    BY <1>0, <1>2 DEF SeenAlike
<1>6. \A p, k : Fits(p, k) => Fits(p, k)'
    BY <1>2 DEF Fits, Doubtful, Due
<1>7. CASE /\ DOMAIN directories' = DOMAIN directories
           /\ \A r \in DOMAIN directories : directories'[r] = directories[r]
    <2>1. EntriesFit'
        BY <1>0, <1>6, <1>7 DEF EntriesFit
    <2> QED BY <1>5, <2>1 DEF Shown
<1>8. CASE /\ ~NoSuchFile(path, depth)
           /\ DOMAIN directories' = DOMAIN directories \cup {path}
           /\ directories'[path] = new
           /\ \A r \in DOMAIN directories : directories'[r] = directories[r]
    <2>1. \A p, k : k = fs[p] /\ k # "none" => Fits(p, k)'
        BY <1>0, <1>2 DEF Fits, SeenAlike, Alike
    <2> HIDE DEF new, depth, path
    <2>2. EntriesFit'
        BY <1>0, <1>4, <1>6, <1>8, <2>1 DEF EntriesFit
    <2> QED BY <1>5, <2>2 DEF Shown
<1> QED BY <1>1, <1>7, <1>8 DEF FillsApart

\* A step that changes none of it.
LEMMA SameIsShown ==
    ASSUME Shown, UNCHANGED <<fs, changed, events, overtaken, directories>>
    PROVE  Shown'
BY DEF Shown, SeenAlike, EntriesFit, Fits, Doubtful, Due, InFlight

KindsInv == ~closed /\ NothingUnregistered => Shown

LEMMA AlwaysShown ==
    ASSUME -1 \notin Depth, ~SwapsKinds
    PROVE  Spec /\ [][RegistersApart]_vars /\ [][GoneForGood]_vars => []KindsInv
<1>1. Init => KindsInv
    <2> SUFFICES ASSUME Init PROVE Shown
        BY DEF KindsInv
    <2>1. DOMAIN directories = {} /\ DOMAIN events = {}
        BY DEF Init, NoRoots, NoFiles
    <2> QED BY <2>1 DEF Shown, SeenAlike, EntriesFit
<1>2. Typed /\ MirrorInv /\ KindsInv /\ [Next]_vars /\ [GoneForGood]_vars => KindsInv'
    <2> SUFFICES ASSUME Typed, MirrorInv, KindsInv, [Next]_vars, [GoneForGood]_vars,
                        ~closed', NothingUnregistered'
                 PROVE  Shown'
        BY DEF KindsInv
    <2>1. /\ ~closed /\ NothingUnregistered
          /\ \A u \in User, p \in Path : ~Unregister(u, p)
        BY UnregistersCount DEF MirrorInv
    <2>2. Informed /\ Shown
        BY <2>1 DEF MirrorInv, KindsInv
    <2>3. ASSUME NEW p \in Path,
                 \/ \E kind \in Kind \ {"none"} : Appear(p, kind) \/ Modify(p, kind)
                 \/ Disappear(p)
                 \/ \E w \in Watcher : Stat(w, p)
          PROVE  Shown'
        <3>1. GoneForGood \/ UNCHANGED vars
            OBVIOUS
        <3>2. CASE UNCHANGED vars
            BY <2>2, <3>2, SameIsShown DEF vars
        <3> QED BY <2>1, <2>2, <2>3, <3>1, <3>2, ChangeShows, StatShows
    <2>9. ASSUME NEW w \in Watcher, HandleEvent(w) PROVE Shown'
        BY <2>1, <2>2, <2>9, EventIsShown
    <2>4. ASSUME NEW u \in User, NEW p \in Path, NEW d \in Depth, Register(u, p, d) PROVE Shown'
        BY <2>2, <2>4, SameIsShown DEF Register
    <2>5. ASSUME NEW u \in User, Watch(u) \/ Unwatch(u) PROVE Shown'
        BY <2>2, <2>5, SameIsShown DEF Watch, Unwatch
    <2>6. ASSUME NEW u \in User, Fill(u) PROVE Shown'
        BY <2>2, <2>6, FillShows
    <2>7. CASE UNCHANGED vars
        BY <2>2, <2>7, SameIsShown DEF vars
    <2>8. ~Close
        BY DEF Close
    <2> QED BY <2>1, <2>3, <2>4, <2>5, <2>6, <2>7, <2>8, <2>9 DEF Next
<1> QED BY <1>1, <1>2, AlwaysTyped, AlwaysInformed, PTL DEF Spec

\* Once all is quiet what is found is shown as what it is: where the registrations lie
\* apart, each of depth 0 or more, and a path that is gone does not come back before the
\* watcher has told of it, no update, rescan or deletion leaves an entry with a kind or
\* a content of before, however late its event, and though several threads hold events of
\* one path (CachedDirectoryImpl.updateImpl).  Excepted is again a path of which an older
\* event was handled last; such a path must not come back once it is gone (GoneForGood),
\* for its entry, a ghost, may then be of the wrong kind for what is put below it.
THEOREM EntriesMatchApart ==
    ASSUME -1 \notin Depth, ~SwapsKinds
    PROVE  Spec /\ [][RegistersApart]_vars /\ [][GoneForGood]_vars => []EntriesMatch
<1>1. KindsInv => EntriesMatch
    <2> SUFFICES ASSUME Quiescent, Shown, NEW r \in DOMAIN directories, NEW p \in FoundIn(directories[r]),
                        p \notin overtaken, fs[p] # "none"
                 PROVE  EntryKinds(directories[r], p) = {fs[p]}
        BY DEF KindsInv, EntriesMatch, Quiescent
    <2>1. EntryKinds(directories[r], p) # {}
        BY KindsAre
    <2>2. \A k \in EntryKinds(directories[r], p) : k = fs[p]
        BY DEF Shown, EntriesFit, Fits, Doubtful, Due, InFlight, Quiescent
    <2> QED BY <2>1, <2>2
<1> QED BY <1>1, AlwaysShown, PTL
-----------------------------------------------------------------------------
(* Nothing is missing *)

\* Every directory of a tree, a leaf too, is as deep as its distance from the root
\* leaves it.
Exact(tree, root) ==
    \A q \in DirPaths(tree) : tree.dirs[q].depth = SubdirectoryDepth(tree.dirs[root].depth, Distance(root, q))

\* The entry of p stays, and so does the room for it.
Leaves(tree, new, p) ==
    /\ HasRoom(tree, p)
    /\ new.dirs[Parent(p)].depth = tree.dirs[Parent(p)].depth
    /\ p \in DirPaths(tree) => p \in DirPaths(new)
    /\ p \in FoundIn(tree) => p \in FoundIn(new)
    /\ p \in Entered(tree) => p \in Entered(new)

\* The entry of p is found, and is one with entries of its own if it should be.
HasRead(tree, p, disk) ==
    /\ p \in FoundIn(tree)
    /\ disk[p] = "dir" /\ tree.dirs[Parent(p)].depth > 0 => p \in DirPaths(tree)

\* Whatever an operation makes room for is there: it was already, or it was read; or it
\* is what was missing above the path, which is no directory and is filed by its path.
Fills(tree, root, path, disk, wanted, new) ==
    /\ Exact(new, root)
    /\ \A p \in wanted : StrictlyBelow(p, root) /\ HasRoom(new, p) /\ disk[p] # "none" =>
         \/ p # path /\ Leaves(tree, new, p)
         \/ HasRead(new, p, disk)
         \/ StrictlyBelow(path, p) /\ disk[p] # "dir" /\ p \in Entered(new)

LEMMA FoundMeans ==
    \A tree, p : p \in FoundIn(tree) <=> p \in DirPaths(tree) \/ <<p, "name">> \in DOMAIN tree.files
BY KindsAre DEF EntryKinds

\* A tree that keeps every entry of p.
LEMMA EntryStays ==
    ASSUME NEW tree, NEW new, NEW p, HasRoom(tree, p),
           new.dirs[Parent(p)].depth = tree.dirs[Parent(p)].depth,
           p \in DirPaths(tree) => p \in DirPaths(new),
           \A f \in DOMAIN tree.files : f[1] = p => f \in DOMAIN new.files
    PROVE  Leaves(tree, new, p)
<1>1. <<p, "name">>[1] = p
    OBVIOUS
<1>2. p \in FoundIn(tree) => p \in FoundIn(new)
    BY <1>1, FoundMeans
<1>3. p \in FilePaths(tree) => p \in FilePaths(new)
    <2> SUFFICES ASSUME NEW f \in DOMAIN tree.files, f[1] = p PROVE p \in FilePaths(new)
        BY DEF FilePaths
    <2>1. f \in DOMAIN new.files
        OBVIOUS
    <2> QED BY <2>1 DEF FilePaths
<1> QED BY <1>2, <1>3 DEF Leaves, Entered

\* A part of an exact tree is exact.
LEMMA PartIsExact ==
    ASSUME NEW root, NEW tree, Exact(tree, root), NEW new, root \in DirPaths(new),
           DirPaths(new) \subseteq DirPaths(tree),
           \A q \in DirPaths(new) : new.dirs[q].depth = tree.dirs[q].depth
    PROVE  Exact(new, root)
BY DEF Exact

\* init reads all that exists and is wanted, as deep as it may.
LEMMA ScanFills ==
    ASSUME NEW disk, IsDisk(disk), NEW wanted \in SUBSET Path, NEW base \in Path,
           NEW depth \in MinInt..MaxInt, NEW kind
    PROVE  LET new == Scan(disk, wanted, base, depth, kind)
           IN  /\ Exact(new, base)
               /\ \A p \in wanted : StrictlyBelow(p, base) /\ HasRoom(new, p) /\ disk[p] # "none"
                                       => HasRead(new, p, disk)
<1> DEFINE new == Scan(disk, wanted, base, depth, kind)
           scanned == ScannedDirs(disk, wanted, base, depth)
<1>1. IsScan(new, disk, wanted, base, depth)
    BY ScanIs
<1>2. WellFormed(new, base) /\ new.dirs[base].depth = depth
    BY ScanIsWellFormed DEF IsDisk
<1> HIDE DEF new
<1>3. Exact(new, base)
    BY <1>1, <1>2 DEF Exact, IsScan
<1>4. ASSUME NEW p \in wanted, StrictlyBelow(p, base), HasRoom(new, p), disk[p] # "none"
      PROVE  HasRead(new, p, disk)
    <2> DEFINE parent == Parent(p)
    <2>1. /\ parent \in Path /\ Len(p) > 1 /\ StrictlyBelow(p, parent) /\ StartsWith(parent, base)
          /\ Len(parent) = Len(p) - 1 /\ p \in Path
        BY <1>4, ParentIsAbove
    <2>2. parent \in DirPaths(new) /\ new.dirs[parent].depth >= 0
          /\ new.dirs[parent].depth = SubdirectoryDepth(depth, Distance(base, parent))
        BY <1>1, <1>4 DEF HasRoom, IsScan
    <2>3. Distance(base, parent) \in 0..MaxInt /\ Distance(base, p) = Distance(base, parent) + 1
        BY <2>1, DistanceIsNat, PathsAreLong DEF Distance
    <2>4. MaxInt \in Nat /\ depth \in Int /\ depth <= MaxInt
        BY PathAssumption DEF MinInt
    <2>5. depth >= 0
        BY <2>2, <2>3, <2>4 DEF SubdirectoryDepth
    <2>6. disk[base] = "dir"
        BY <1>4, <2>1 DEF IsDisk, IsFileSystem
    <2>7. p \in FoundIn(new)
        <3>1. CASE p \in scanned
            BY <1>1, <2>5, <2>6, <3>1, FoundMeans DEF IsScan
        <3>2. CASE p \notin scanned
            <4>1. <<p, "name">> \in DOMAIN new.files
                BY <1>1, <1>4, <2>1, <2>2, <2>5, <2>6, <3>2 DEF IsScan
            <4> QED BY <4>1, FoundMeans
        <3> QED BY <3>1, <3>2
    <2>8. ASSUME disk[p] = "dir", new.dirs[parent].depth > 0 PROVE p \in DirPaths(new)
        <3>1. Within(depth, Distance(base, p))
            BY <2>2, <2>3, <2>4, <2>8 DEF Within, SubdirectoryDepth
        <3>2. \A r \in Path : StrictlyBelow(r, base) /\ StartsWith(p, r) => r \in wanted
            <4> SUFFICES ASSUME NEW r \in Path, StrictlyBelow(r, base), StartsWith(p, r), r # p PROVE r \in wanted
                BY <1>4
            <4>1. StrictlyBelow(p, r)
                BY DEF StrictlyBelow
            <4>2. StartsWith(parent, r)
                BY <2>1, <4>1, ParentIsAbove
            <4>3. parent # base
                BY <2>1, <4>2, ParentIsAbove
            <4>4. parent \in scanned
                BY <1>1, <2>2, <4>3 DEF IsScan
            <4> QED BY <4>2, <4>4 DEF ScannedDirs
        <3>3. p \in scanned
            BY <1>4, <2>1, <2>8, <3>1, <3>2 DEF ScannedDirs
        <3> QED BY <1>1, <2>5, <2>6, <3>3 DEF IsScan
    <2> QED BY <2>7, <2>8 DEF HasRead
<1> QED BY <1>3, <1>4 DEF new

\* removeImpl takes away what is at or below its path.
LEMMA RemoveFills ==
    ASSUME NEW root \in Path, NEW tree, WellFormed(tree, root), Exact(tree, root),
           NEW path \in Path, StartsWith(path, root)
    PROVE  LET new == Remove(tree, root, path)
           IN  /\ Exact(new, root)
               /\ \A p \in Path : StrictlyBelow(p, root) /\ HasRoom(new, p) /\ p # path => Leaves(tree, new, p)
               /\ DirPaths(new) \subseteq DirPaths(tree)
<1> DEFINE new == Remove(tree, root, path)
<1>1. CASE path = root \/ Parent(path) \notin DirPaths(tree)
    <2>1. new = tree
        BY <1>1 DEF Remove
    <2> QED BY <2>1 DEF Leaves
<1>2. CASE ~(path = root \/ Parent(path) \notin DirPaths(tree))
    <2> DEFINE unfiled == WithoutFile(tree, path)
    <2>1. new = WithoutDir(unfiled, path)
        BY <1>2 DEF Remove
    <2>2. /\ unfiled.dirs = tree.dirs /\ DirPaths(unfiled) = DirPaths(tree)
          /\ DOMAIN unfiled.files = DOMAIN tree.files \ {<<path, "name">>}
        BY WithoutFileIs
    <2> HIDE DEF unfiled, new
    <2>3. /\ DirPaths(new) = {q \in DirPaths(unfiled) : ~StartsWith(q, path)}
          /\ \A q \in DirPaths(new) : new.dirs[q] = unfiled.dirs[q]
          /\ DOMAIN new.files = {f \in DOMAIN unfiled.files : ~StrictlyBelow(f[1], path)}
        BY <2>1, WithoutDirIs
    <2>4. root \in DirPaths(tree) /\ ~StartsWith(root, path)
        BY <1>2, ParentIsAbove DEF WellFormed, Rooted, StrictlyBelow
    <2>5. Exact(new, root)
        BY <2>2, <2>3, <2>4, PartIsExact
    <2>6. ASSUME NEW p \in Path, StrictlyBelow(p, root), HasRoom(new, p), p # path
          PROVE  Leaves(tree, new, p)
        <3>1. ~StrictlyBelow(p, path)
            <4>1. ~StartsWith(Parent(p), path)
                BY <2>3, <2>6 DEF HasRoom
            <4> QED BY <4>1, ParentIsAbove
        <3>2. HasRoom(tree, p) /\ new.dirs[Parent(p)].depth = tree.dirs[Parent(p)].depth
            BY <2>2, <2>3, <2>6 DEF HasRoom
        <3>3. p \in DirPaths(tree) => p \in DirPaths(new)
            BY <2>2, <2>3, <2>6, <3>1 DEF StrictlyBelow
        <3>4. <<path, "name">>[1] = path
            OBVIOUS
        <3>5. \A f \in DOMAIN tree.files : f[1] = p => f \in DOMAIN new.files
            BY <2>2, <2>3, <2>6, <3>1, <3>4
        <3> QED BY <3>2, <3>3, <3>5, EntryStays
    <2> QED BY <2>2, <2>3, <2>5, <2>6 DEF new
<1> QED BY <1>1, <1>2

\* subdirectories.put leaves what does not lie at or below its path.
LEMMA WithDirFills ==
    ASSUME NEW root \in Path, NEW tree, WellFormed(tree, root), Exact(tree, root),
           NEW path \in Path, StrictlyBelow(path, root),
           NEW subtree, DirPaths(subtree) \subseteq Path,
           \A q \in DirPaths(subtree) : StartsWith(q, path),
           \A q \in DirPaths(subtree) :
              subtree.dirs[q].depth = SubdirectoryDepth(tree.dirs[root].depth, Distance(root, q))
    PROVE  LET new == WithDir(tree, path, subtree)
           IN  /\ Exact(new, root)
               /\ \A p \in Path : StrictlyBelow(p, root) /\ HasRoom(new, p) /\ ~StartsWith(p, path)
                                    => Leaves(tree, new, p)
<1> DEFINE new == WithDir(tree, path, subtree)
<1>1. /\ DirPaths(new) = {q \in DirPaths(tree) : ~StartsWith(q, path)} \cup DirPaths(subtree)
      /\ \A q \in DirPaths(subtree) : new.dirs[q] = subtree.dirs[q]
      /\ \A q \in DirPaths(tree) \ DirPaths(subtree) :
           ~StartsWith(q, path) => new.dirs[q] = tree.dirs[q]
      /\ DOMAIN new.files = {f \in DOMAIN tree.files : ~StrictlyBelow(f[1], path)} \cup DOMAIN subtree.files
    BY WithDirIs
<1> HIDE DEF new
<1>2. root \in DirPaths(tree) /\ ~StartsWith(root, path)
    BY ParentIsAbove DEF WellFormed, Rooted
<1>3. new.dirs[root].depth = tree.dirs[root].depth
    BY <1>1, <1>2
<1>4. Exact(new, root)
    <2> SUFFICES ASSUME NEW q \in DirPaths(new)
                 PROVE  new.dirs[q].depth = SubdirectoryDepth(new.dirs[root].depth, Distance(root, q))
        BY DEF Exact
    <2>1. CASE q \in DirPaths(subtree)
        BY <1>1, <1>3, <2>1
    <2>2. CASE q \notin DirPaths(subtree)
        BY <1>1, <1>3, <2>2 DEF Exact
    <2> QED BY <2>1, <2>2
<1>5. ASSUME NEW p \in Path, StrictlyBelow(p, root), HasRoom(new, p), ~StartsWith(p, path)
      PROVE  Leaves(tree, new, p)
    <2>1. Parent(p) \in Path /\ StartsWith(p, Parent(p))
        BY <1>5, ParentIsAbove DEF StrictlyBelow
    <2>2. ~StartsWith(Parent(p), path)
        BY <1>5, <2>1, StartsWithIsOrder
    <2>3. HasRoom(tree, p) /\ new.dirs[Parent(p)].depth = tree.dirs[Parent(p)].depth
        BY <1>1, <1>5, <2>2 DEF HasRoom
    <2>4. p \in DirPaths(tree) => p \in DirPaths(new)
        BY <1>1, <1>5
    <2>5. \A f \in DOMAIN tree.files : f[1] = p => f \in DOMAIN new.files
        BY <1>1, <1>5 DEF StrictlyBelow
    <2> QED BY <2>3, <2>4, <2>5, EntryStays
<1> QED BY <1>4, <1>5 DEF new

\* A directory that was read anew, in the place of what its tree had at its path.
LEMMA WithScanFills ==
    ASSUME NEW root \in Path, NEW tree, WellFormed(tree, root), Exact(tree, root),
           NEW added \in Path, StrictlyBelow(added, root),
           Parent(added) \in DirPaths(tree), tree.dirs[Parent(added)].depth > 0,
           NEW disk, IsDisk(disk), NEW wanted \in SUBSET Path, NEW kind
    PROVE  LET depth == SubdirectoryDepth(tree.dirs[Parent(added)].depth, 1)
               new == WithDir(tree, added, Scan(disk, wanted, added, depth, kind))
           IN  /\ Exact(new, root)
               /\ \A p \in wanted : StrictlyBelow(p, root) /\ HasRoom(new, p) /\ disk[p] # "none" =>
                    (p # added /\ Leaves(tree, new, p)) \/ HasRead(new, p, disk)
<1> DEFINE depth == SubdirectoryDepth(tree.dirs[Parent(added)].depth, 1)
           fresh == Scan(disk, wanted, added, depth, kind)
           new == WithDir(tree, added, fresh)
           rootDepth == tree.dirs[root].depth
<1>1. /\ Parent(added) \in Path /\ StrictlyBelow(added, Parent(added))
      /\ StartsWith(Parent(added), root) /\ Len(Parent(added)) = Len(added) - 1
    BY ParentIsAbove
<1>2. /\ MaxInt \in Nat /\ rootDepth \in Int /\ rootDepth <= MaxInt
      /\ tree.dirs[Parent(added)].depth \in Int /\ tree.dirs[Parent(added)].depth <= MaxInt
    BY DepthsAreInts, PathAssumption DEF WellFormed, Rooted
<1>3. depth \in MinInt..MaxInt
    BY <1>2 DEF SubdirectoryDepth, MinInt
<1>4. depth = SubdirectoryDepth(rootDepth, Distance(root, added))
    <2>1. tree.dirs[Parent(added)].depth = SubdirectoryDepth(rootDepth, Distance(root, Parent(added)))
        BY DEF Exact
    <2>2. /\ Distance(root, Parent(added)) \in 0..MaxInt
          /\ Distance(root, added) = Distance(root, Parent(added)) + 1
        BY <1>1, DistanceIsNat, PathsAreLong DEF Distance
    <2> HIDE DEF rootDepth
    <2> QED BY <1>2, <2>1, <2>2 DEF SubdirectoryDepth
<1> HIDE DEF depth
<1>5. WellFormed(fresh, added) /\ fresh.dirs[added].depth = depth
    BY <1>3, ScanIsWellFormed DEF IsDisk
<1>6. /\ Exact(fresh, added)
      /\ \A p \in wanted : StrictlyBelow(p, added) /\ HasRoom(fresh, p) /\ disk[p] # "none"
                              => HasRead(fresh, p, disk)
    BY <1>3, ScanFills
<1> HIDE DEF fresh
<1>7. \A q \in DirPaths(fresh) : q \in Path /\ StartsWith(q, added)
    BY <1>5 DEF WellFormed, Rooted
<1>8. ASSUME NEW q \in DirPaths(fresh)
      PROVE  fresh.dirs[q].depth = SubdirectoryDepth(rootDepth, Distance(root, q))
    <2>1. fresh.dirs[q].depth = SubdirectoryDepth(depth, Distance(added, q))
        BY <1>5, <1>6 DEF Exact
    <2>2. /\ Distance(root, q) = Distance(root, added) + Distance(added, q)
          /\ Distance(root, added) \in 1..MaxInt /\ Distance(added, q) \in 0..MaxInt
        BY <1>7, DistancesAdd, DistanceIsNat, StrictIsFar DEF StrictlyBelow
    <2> HIDE DEF rootDepth
    <2> QED BY <1>2, <1>4, <2>1, <2>2 DEF SubdirectoryDepth
<1>9. /\ Exact(new, root)
      /\ \A p \in Path : StrictlyBelow(p, root) /\ HasRoom(new, p) /\ ~StartsWith(p, added)
                           => Leaves(tree, new, p)
    BY <1>7, <1>8, WithDirFills
<1>10. /\ DirPaths(new) = {q \in DirPaths(tree) : ~StartsWith(q, added)} \cup DirPaths(fresh)
       /\ \A q \in DirPaths(fresh) : new.dirs[q] = fresh.dirs[q]
       /\ DOMAIN new.files = {f \in DOMAIN tree.files : ~StrictlyBelow(f[1], added)} \cup DOMAIN fresh.files
    BY WithDirIs
<1> HIDE DEF new
<1>11. ASSUME NEW p \in wanted, StrictlyBelow(p, root), HasRoom(new, p), disk[p] # "none", StartsWith(p, added)
       PROVE  HasRead(new, p, disk)
    <2>1. CASE p = added
        <3>1. added \in DirPaths(new)
            BY <1>5, <1>10 DEF WellFormed, Rooted
        <3> QED BY <2>1, <3>1, FoundMeans DEF HasRead
    <2>2. CASE p # added
        <3>1. StrictlyBelow(p, added)
            BY <1>11, <2>2 DEF StrictlyBelow
        <3>2. StartsWith(Parent(p), added)
            BY <3>1, ParentIsAbove
        <3>3. Parent(p) \in DirPaths(fresh) /\ new.dirs[Parent(p)] = fresh.dirs[Parent(p)]
            BY <1>10, <1>11, <3>2 DEF HasRoom
        <3>4. HasRoom(fresh, p)
            BY <1>11, <3>3 DEF HasRoom
        <3>5. HasRead(fresh, p, disk)
            BY <1>6, <1>11, <3>1, <3>4
        <3>6. p \in FoundIn(new)
            BY <1>10, <3>5, FoundMeans DEF HasRead
        <3> QED BY <1>10, <3>3, <3>5, <3>6 DEF HasRead
    <2> QED BY <2>1, <2>2
<1>12. ASSUME NEW p \in wanted, StrictlyBelow(p, root), HasRoom(new, p), disk[p] # "none"
       PROVE  (p # added /\ Leaves(tree, new, p)) \/ HasRead(new, p, disk)
    <2>1. StartsWith(added, added)
        BY StartsWithIsOrder
    <2> QED BY <1>9, <1>11, <1>12, <2>1
<1> QED BY <1>9, <1>12 DEF new, fresh, depth

\* addDirectory, for the path of the event or for what is missing above it.
LEMMA AddDirectoryFills ==
    ASSUME NEW root \in Path, NEW tree, WellFormed(tree, root), Exact(tree, root),
           NEW added \in Path, StrictlyBelow(added, root),
           Parent(added) \in DirPaths(tree), tree.dirs[Parent(added)].depth > 0,
           NEW disk, IsDisk(disk), NEW wanted \in SUBSET Path, NEW kind, NEW path \in Path,
           \/ added = path /\ kind = "dir"
           \/ StrictlyBelow(path, added) /\ kind = disk[added] /\ ~HasRoom(tree, path)
    PROVE  Fills(tree, root, path, disk, wanted, AddDirectory(tree, root, added, kind, disk, wanted).tree)
<1> DEFINE depth == SubdirectoryDepth(tree.dirs[Parent(added)].depth, 1)
           fresh == Scan(disk, wanted, added, depth, kind)
           filed == IF kind = "dir" THEN tree ELSE WithFile(tree, added, "path", kind)
           new == AddDirectory(tree, root, added, kind, disk, wanted).tree
<1>0. HasRoom(tree, added) /\ StartsWith(added, root)
    BY DepthsAreInts DEF HasRoom, StrictlyBelow
<1>1. CASE kind = "dir" /\ disk[added] # "none"
    <2>1. new = WithDir(tree, added, fresh)
        BY <1>1 DEF AddDirectory
    <2>2. /\ Exact(WithDir(tree, added, fresh), root)
          /\ \A p \in wanted : StrictlyBelow(p, root) /\ HasRoom(WithDir(tree, added, fresh), p) /\ disk[p] # "none" =>
               (p # added /\ Leaves(tree, WithDir(tree, added, fresh), p)) \/ HasRead(WithDir(tree, added, fresh), p, disk)
        BY WithScanFills
    <2> HIDE DEF fresh, new
    <2>3. \A p : Leaves(tree, new, p) /\ p # added => p # path
        BY DEF Leaves
    <2> QED BY <2>1, <2>2, <2>3 DEF Fills, new
<1>2. CASE ~(kind = "dir" /\ disk[added] # "none")
    <2>1. new = Remove(filed, root, added)
        BY <1>2 DEF AddDirectory
    <2>2. /\ filed.dirs = tree.dirs /\ DirPaths(filed) = DirPaths(tree)
          /\ kind = "dir" => DOMAIN filed.files = DOMAIN tree.files
          /\ kind # "dir" => DOMAIN filed.files = DOMAIN tree.files \cup {<<added, "path">>}
        <3>1. CASE kind = "dir"
            BY <3>1
        <3>2. CASE kind # "dir"
            <4>1. filed = WithFile(tree, added, "path", kind)
                BY <3>2
            <4> HIDE DEF filed
            <4> QED BY <3>2, <4>1, WithFileIs
        <3> QED BY <3>1, <3>2
    <2>3. WellFormed(filed, root)
        BY <1>0, FiledByPath
    <2> HIDE DEF filed, new
    <2>4. Exact(filed, root)
        BY <2>2 DEF Exact
    <2>5. /\ Exact(new, root)
          /\ \A p \in Path : StrictlyBelow(p, root) /\ HasRoom(new, p) /\ p # added => Leaves(filed, new, p)
        BY <1>0, <2>1, <2>3, <2>4, RemoveFills
    <2>6. ASSUME NEW p \in wanted, StrictlyBelow(p, root), HasRoom(new, p), p # added PROVE p # path /\ Leaves(tree, new, p)
        <3>1. Leaves(filed, new, p)
            BY <2>5, <2>6
        <3>2. \A f \in DOMAIN tree.files : f \in DOMAIN filed.files
            BY <2>2
        <3>3. /\ p \in FoundIn(tree) => p \in FoundIn(filed)
              /\ p \in Entered(tree) => p \in Entered(filed)
            BY <2>2, <3>2, FoundMeans DEF Entered, FilePaths
        <3>4. Leaves(tree, new, p)
            BY <2>2, <3>1, <3>3 DEF Leaves, HasRoom
        <3> QED BY <2>6, <3>4 DEF Leaves
    <2>7. ASSUME added \in wanted, HasRoom(new, added), disk[added] # "none"
          PROVE  StrictlyBelow(path, added) /\ disk[added] # "dir" /\ added \in Entered(new)
        <3>1. kind # "dir" /\ StrictlyBelow(path, added) /\ disk[added] # "dir"
            BY <1>2, <2>7
        <3>2. <<added, "path">> \in DOMAIN filed.files
            BY <2>2, <3>1
        <3>3. added \in FilePaths(new)
            <4> DEFINE unfiled == WithoutFile(filed, added)
            <4>1. new = filed \/ new = WithoutDir(unfiled, added)
                BY <2>1 DEF Remove
            <4>2. DOMAIN unfiled.files = DOMAIN filed.files \ {<<added, "name">>}
                BY WithoutFileIs
            <4>3. <<added, "path">>[1] = added
                OBVIOUS
            <4> HIDE DEF unfiled
            <4>4. new = WithoutDir(unfiled, added) =>
                    DOMAIN new.files = {f \in DOMAIN unfiled.files : ~StrictlyBelow(f[1], added)}
                BY WithoutDirIs
            <4>5. <<added, "path">> \in DOMAIN new.files
                BY <3>2, <4>1, <4>2, <4>3, <4>4 DEF StrictlyBelow
            <4> QED BY <4>3, <4>5 DEF FilePaths
        <3> QED BY <3>1, <3>3 DEF Entered
    <2> QED BY <2>5, <2>6, <2>7 DEF Fills, new
<1> QED BY <1>1, <1>2

\* Taking a file away leaves the others.
LEMMA WithoutFileLeaves ==
    ASSUME NEW tree, NEW path, NEW new, NEW p, p # path, Leaves(WithoutFile(tree, path), new, p)
    PROVE  Leaves(tree, new, p)
<1> DEFINE unfiled == WithoutFile(tree, path)
<1>1. /\ unfiled.dirs = tree.dirs /\ DirPaths(unfiled) = DirPaths(tree)
      /\ DOMAIN unfiled.files = DOMAIN tree.files \ {<<path, "name">>}
    BY WithoutFileIs
<1>2. Leaves(unfiled, new, p)
    OBVIOUS
<1>3. <<path, "name">>[1] = path
    OBVIOUS
<1> HIDE DEF unfiled
<1>4. \A f \in DOMAIN tree.files : f[1] = p => f \in DOMAIN unfiled.files
    BY <1>1, <1>3
<1>5. p \in FilePaths(tree) => p \in FilePaths(unfiled)
    BY <1>4 DEF FilePaths
<1>6. p \in FoundIn(tree) => p \in FoundIn(unfiled)
    BY <1>1, <1>5, <1>3, FoundMeans
<1> QED BY <1>1, <1>2, <1>5, <1>6 DEF Leaves, HasRoom, Entered

\* The last name of the path, in a directory whose entries are leaves.
LEMMA UpdateLeafFills ==
    ASSUME NEW root \in Path, NEW tree, WellFormed(tree, root), Exact(tree, root),
           NEW path \in Path, StrictlyBelow(path, root), HasRoom(tree, path), NEW kind, NEW rescan,
           kind = "dir" => tree.dirs[Parent(path)].depth = 0,
           NEW disk, disk[path] # "none" => Alike(kind, disk[path]), NEW wanted \in SUBSET Path
    PROVE  Fills(tree, root, path, disk, wanted, UpdateLeaf(tree, path, kind, rescan).tree)
<1> DEFINE unfiled == WithoutFile(tree, path)
           leaf    == [dirs |-> [p \in {path} |-> [depth |-> -1, kind |-> kind]], files |-> NoFiles]
           new == UpdateLeaf(tree, path, kind, rescan).tree
<1>1. new = IF kind # "dir" THEN WithFile(unfiled, path, "name", kind)
            ELSE IF path \in DirPaths(tree) /\ ~rescan THEN WithKind(unfiled, path, kind)
            ELSE WithDir(unfiled, path, leaf)
    BY DEF UpdateLeaf
<1>2. /\ unfiled.dirs = tree.dirs /\ DirPaths(unfiled) = DirPaths(tree)
      /\ DOMAIN unfiled.files = DOMAIN tree.files \ {<<path, "name">>}
    BY WithoutFileIs
<1>3. WellFormed(unfiled, root)
    BY WithoutFileIsWellFormed
<1>4. DirPaths(leaf) = {path} /\ leaf.dirs[path].depth = -1 /\ DOMAIN leaf.files = {}
    BY DEF DirPaths, NoFiles
<1>5. \A p : p # path /\ Leaves(unfiled, new, p) => Leaves(tree, new, p)
    BY WithoutFileLeaves
<1>6. Exact(unfiled, root)
    BY <1>2 DEF Exact
<1>7. root \in DirPaths(tree) /\ StartsWith(path, path)
    BY StartsWithIsOrder DEF WellFormed, Rooted
<1> HIDE DEF unfiled, leaf, new
<1>8. CASE kind # "dir"
    <2>1. new = WithFile(unfiled, path, "name", kind)
        BY <1>1, <1>8
    <2>2. /\ new.dirs = unfiled.dirs /\ DirPaths(new) = DirPaths(unfiled)
          /\ DOMAIN new.files = DOMAIN unfiled.files \cup {<<path, "name">>}
        BY <2>1, WithFileIs
    <2>3. Exact(new, root)
        BY <1>6, <2>2 DEF Exact
    <2>4. ASSUME NEW p, HasRoom(new, p) PROVE Leaves(unfiled, new, p)
        <3>1. HasRoom(unfiled, p) /\ new.dirs[Parent(p)].depth = unfiled.dirs[Parent(p)].depth
            BY <2>2, <2>4 DEF HasRoom
        <3> QED BY <2>2, <3>1, EntryStays
    <2>5. disk[path] # "none" => HasRead(new, path, disk)
        BY <1>8, <2>2, FoundMeans DEF HasRead, Alike
    <2> QED BY <1>5, <2>3, <2>4, <2>5 DEF Fills, new
<1>9. CASE kind = "dir" /\ path \in DirPaths(tree) /\ ~rescan
    <2>1. new = WithKind(unfiled, path, kind) /\ path \in DirPaths(unfiled)
        BY <1>1, <1>2, <1>9
    <2>2. /\ DirPaths(new) = DirPaths(unfiled)
          /\ \A q \in DirPaths(unfiled) : new.dirs[q].depth = unfiled.dirs[q].depth
          /\ new.files = unfiled.files
        BY <2>1, WithKindIs
    <2>3. Exact(new, root)
        BY <1>2, <1>6, <1>7, <2>2, PartIsExact
    <2>4. ASSUME NEW p, HasRoom(new, p) PROVE Leaves(unfiled, new, p)
        <3>1. HasRoom(unfiled, p) /\ new.dirs[Parent(p)].depth = unfiled.dirs[Parent(p)].depth
            BY <2>2, <2>4 DEF HasRoom
        <3> QED BY <2>2, <3>1, EntryStays
    <2>5. HasRead(new, path, disk)
        BY <2>1, <2>2, FoundMeans DEF HasRead
    <2> QED BY <1>5, <2>3, <2>4, <2>5 DEF Fills, new
<1>10. CASE kind = "dir" /\ ~(path \in DirPaths(tree) /\ ~rescan)
    <2>1. new = WithDir(unfiled, path, leaf)
        BY <1>1, <1>10
    <2>2. SubdirectoryDepth(unfiled.dirs[root].depth, Distance(root, path)) = -1
        <3> DEFINE rootDepth == tree.dirs[root].depth
        <3>1. /\ StartsWith(Parent(path), root) /\ Len(Parent(path)) = Len(path) - 1 /\ Parent(path) \in Path
              /\ MaxInt \in Nat \ {0} /\ rootDepth \in Int
            BY <1>7, ParentIsAbove, PathAssumption, DepthsAreInts
        <3>2. 0 = SubdirectoryDepth(rootDepth, Distance(root, Parent(path)))
            BY <1>10 DEF Exact, HasRoom
        <3>3. /\ Distance(root, Parent(path)) \in 0..MaxInt
              /\ Distance(root, path) = Distance(root, Parent(path)) + 1
            BY <3>1, DistanceIsNat, PathsAreLong DEF Distance
        <3> HIDE DEF rootDepth
        <3>4. SubdirectoryDepth(rootDepth, Distance(root, path)) = -1
            BY <3>1, <3>2, <3>3 DEF SubdirectoryDepth
        <3> QED BY <1>2, <3>4 DEF rootDepth
    <2>3. /\ Exact(new, root)
          /\ \A p \in Path : StrictlyBelow(p, root) /\ HasRoom(new, p) /\ ~StartsWith(p, path) => Leaves(unfiled, new, p)
        BY <1>3, <1>4, <1>6, <1>7, <2>1, <2>2, WithDirFills
    <2>4. /\ DirPaths(new) = {q \in DirPaths(unfiled) : ~StartsWith(q, path)} \cup DirPaths(leaf)
          /\ \A q \in DirPaths(leaf) : new.dirs[q] = leaf.dirs[q]
        BY <2>1, WithDirIs
    <2>5. HasRead(new, path, disk)
        BY <1>4, <2>4, FoundMeans DEF HasRead
    <2>6. ASSUME NEW p \in Path, StrictlyBelow(p, path) PROVE ~HasRoom(new, p)
        <3>1. StartsWith(Parent(p), path)
            BY <2>6, ParentIsAbove
        <3> QED BY <1>4, <2>4, <3>1 DEF HasRoom
    <2>7. \A p \in Path : StrictlyBelow(p, root) /\ HasRoom(new, p) /\ p # path => Leaves(tree, new, p)
        BY <1>5, <1>7, <2>3, <2>6 DEF StrictlyBelow
    <2> QED BY <2>3, <2>5, <2>7 DEF Fills, new
<1> QED BY <1>8, <1>9, <1>10

\* update: of what a tree has room for, it leaves what is there or reads what is missing,
\* if the event agrees with the disk on whether its path is a directory.
LEMMA UpdateFills ==
    ASSUME NEW root \in Path, NEW tree, WellFormed(tree, root), Exact(tree, root),
           NEW path \in Path, StartsWith(path, root), NEW kind, kind # "none", NEW rescan,
           NEW disk, IsDisk(disk), disk[path] # "none" => Alike(kind, disk[path]),
           NEW wanted \in SUBSET Path, path \in wanted
    PROVE  Fills(tree, root, path, disk, wanted, Update(tree, root, path, kind, rescan, disk, wanted).tree)
<1> DEFINE new == Update(tree, root, path, kind, rescan, disk, wanted).tree
           missing == FirstMissing(tree, root, path)
<1>0. root \in DirPaths(tree) /\ \A q \in DirPaths(tree) : tree.dirs[q].depth \in Int
    BY DepthsAreInts DEF WellFormed, Rooted
<1>1. ASSUME DirPaths(new) = DirPaths(tree), new.files = tree.files,
             \A q \in DirPaths(tree) : new.dirs[q].depth = tree.dirs[q].depth,
             path \in DirPaths(tree) \/ ~HasRoom(tree, path)
      PROVE  Fills(tree, root, path, disk, wanted, new)
    <2> HIDE DEF new
    <2>1. Exact(new, root)
        BY <1>0, <1>1, PartIsExact
    <2>2. ASSUME NEW p \in wanted, HasRoom(new, p)
          PROVE  (p # path /\ Leaves(tree, new, p)) \/ HasRead(new, p, disk)
        <3>1. HasRoom(tree, p) /\ new.dirs[Parent(p)].depth = tree.dirs[Parent(p)].depth
            BY <1>1, <2>2 DEF HasRoom
        <3>2. Leaves(tree, new, p)
            BY <1>1, <3>1, EntryStays
        <3>3. p \in DirPaths(tree) => HasRead(new, p, disk)
            BY <1>1, FoundMeans DEF HasRead
        <3> QED BY <1>1, <3>1, <3>2, <3>3
    <2> QED BY <2>1, <2>2 DEF Fills
<1>2. ASSUME new = WithKind(tree, path, kind), path \in DirPaths(tree)
      PROVE  Fills(tree, root, path, disk, wanted, new)
    BY <1>1, <1>2, WithKindIs
<1>3. CASE path = root
    <2>1. new = UpdateRoot(tree, root, kind, rescan, disk, wanted).tree
        BY <1>3 DEF Update
    <2>2. CASE kind = "dir" /\ rescan
        <3> DEFINE depth == tree.dirs[root].depth
                   was == tree.dirs[root].kind
        <3>1. new = Scan(disk, wanted, root, depth, was)
            BY <2>1, <2>2 DEF UpdateRoot
        <3>2. depth \in MinInt..MaxInt
            BY DEF WellFormed, Levelled
        <3> HIDE DEF new, depth, was
        <3>3. /\ Exact(new, root)
              /\ \A p \in wanted : StrictlyBelow(p, root) /\ HasRoom(new, p) /\ disk[p] # "none" => HasRead(new, p, disk)
            BY <3>1, <3>2, ScanFills
        <3> QED BY <3>3 DEF Fills, new
    <2>3. CASE ~(kind = "dir" /\ rescan)
        <3>1. new = WithKind(tree, root, kind)
            BY <2>1, <2>3 DEF UpdateRoot
        <3> QED BY <1>0, <1>2, <1>3, <3>1
    <2> QED BY <2>2, <2>3
<1>4. CASE path # root
    <2>0. StrictlyBelow(path, root)
        BY <1>4 DEF StrictlyBelow
    <2>1. new = UpdateBelow(tree, root, path, kind, rescan, disk, wanted).tree
        BY <1>4 DEF Update
    <2>2. CASE Parent(path) \in DirPaths(tree)
        <3>1. CASE tree.dirs[Parent(path)].depth < 0
            <4>1. new = tree
                BY <2>1, <2>2, <3>1 DEF UpdateBelow
            <4>2. ~HasRoom(tree, path)
                BY <1>0, <2>2, <3>1 DEF HasRoom
            <4> QED BY <1>1, <4>1, <4>2
        <3>2. CASE ~(tree.dirs[Parent(path)].depth < 0) /\ (kind # "dir" \/ tree.dirs[Parent(path)].depth = 0)
            <4>1. new = UpdateLeaf(tree, path, kind, rescan).tree
                BY <2>1, <2>2, <3>2 DEF UpdateBelow
            <4>2. HasRoom(tree, path) /\ (kind = "dir" => tree.dirs[Parent(path)].depth = 0)
                BY <1>0, <2>2, <3>2 DEF HasRoom
            <4> QED BY <2>0, <4>1, <4>2, UpdateLeafFills
        <3>3. CASE ~(tree.dirs[Parent(path)].depth < 0) /\ ~(kind # "dir" \/ tree.dirs[Parent(path)].depth = 0)
            <4>1. CASE path \in DirPaths(tree) /\ ~rescan
                <5>1. new = WithKind(tree, path, kind)
                    BY <2>1, <2>2, <3>3, <4>1 DEF UpdateBelow
                <5> QED BY <1>2, <4>1, <5>1
            <4>2. CASE ~(path \in DirPaths(tree) /\ ~rescan)
                <5>1. new = AddDirectory(tree, root, path, kind, disk, wanted).tree
                    BY <2>1, <2>2, <3>3, <4>2 DEF UpdateBelow
                <5>2. tree.dirs[Parent(path)].depth > 0
                    BY <1>0, <2>2, <3>3
                <5> QED BY <2>0, <2>2, <3>3, <5>1, <5>2, AddDirectoryFills
            <4> QED BY <4>1, <4>2
        <3> QED BY <3>1, <3>2, <3>3
    <2>3. CASE Parent(path) \notin DirPaths(tree)
        <3>0. ~HasRoom(tree, path)
            BY <2>3 DEF HasRoom
        <3>1. CASE tree.dirs[Parent(missing)].depth <= 0
            <4>1. new = tree
                BY <2>1, <2>3, <3>1 DEF UpdateBelow
            <4> QED BY <1>1, <3>0, <4>1
        <3>2. CASE ~(tree.dirs[Parent(missing)].depth <= 0)
            <4>1. new = AddDirectory(tree, root, missing, disk[missing], disk, wanted).tree
                BY <2>1, <2>3, <3>2 DEF UpdateBelow
            <4>2. /\ missing \in Path /\ StrictlyBelow(missing, root) /\ StrictlyBelow(path, missing)
                  /\ Parent(missing) \in DirPaths(tree)
                BY <1>0, <2>0, <2>3, FirstIsMissing
            <4> HIDE DEF missing, new
            <4>3. tree.dirs[Parent(missing)].depth > 0
                BY <1>0, <3>2, <4>2
            <4>4. Fills(tree, root, path, disk, wanted, AddDirectory(tree, root, missing, disk[missing], disk, wanted).tree)
                BY <3>0, <4>2, <4>3, AddDirectoryFills
            <4> QED BY <4>1, <4>4 DEF new
        <3> QED BY <3>1, <3>2
    <2> QED BY <2>2, <2>3
<1> QED BY <1>3, <1>4

\* newCachedDirectory.
LEMMA NewFills ==
    ASSUME IsDisk(fs), NEW path \in Path, NEW depth \in -1..MaxInt
    PROVE  LET new == NewCachedDirectory(path, depth)
           IN  /\ Exact(new, path) /\ WellFormed(new, path)
               /\ new.dirs[path].depth # depth => fs[path] # "dir"
               /\ \A p \in Wanted : StrictlyBelow(p, path) /\ HasRoom(new, p) /\ fs[p] # "none"
                                       => HasRead(new, p, fs)
<1> DEFINE fallback == IF fs[path] \in Content /\ depth >= 0 THEN -1 ELSE depth
           new == NewCachedDirectory(path, depth)
<1>1. fallback \in MinInt..MaxInt
    BY PathAssumption DEF MinInt
<1>2. new = Scan(fs, Wanted, path, fallback, fs[path])
    BY DEF NewCachedDirectory
<1>3. fallback # depth => fs[path] # "dir"
    BY PathAssumption
<1> HIDE DEF fallback, new
<1>4. WellFormed(new, path) /\ new.dirs[path].depth = fallback
    <2>1. /\ WellFormed(Scan(fs, Wanted, path, fallback, fs[path]), path)
          /\ Scan(fs, Wanted, path, fallback, fs[path]).dirs[path].depth = fallback
        BY <1>1, WantedIsThere, ScanIsWellFormed DEF IsDisk
    <2> QED BY <1>2, <2>1
<1>5. /\ Exact(new, path)
      /\ \A p \in Wanted : StrictlyBelow(p, path) /\ HasRoom(new, p) /\ fs[p] # "none" => HasRead(new, p, fs)
    BY <1>1, <1>2, WantedIsThere, ScanFills
<1> QED BY <1>3, <1>4, <1>5 DEF new

\* What a tree has of a path that exists; with one watcher thread the entry is found.
Holds(tree, p) ==
    /\ p \in Entered(tree) /\ (OneWatcher => p \in FoundIn(tree))
    /\ fs[p] = "dir" /\ tree.dirs[Parent(p)].depth > 0 => p \in DirPaths(tree)

\* A root is as deep as its registration, unless it is no directory; and of what its
\* registration covers the tree holds all that exists and that it has room for, but for
\* what is due.
Full(tree, root, due) ==
    /\ Exact(tree, root)
    /\ tree.dirs[root].depth # registered[root] => fs[root] # "dir"
    /\ \A p \in Path :
         Registry!Covers(registered, root, p) /\ StrictlyBelow(p, root) /\ HasRoom(tree, p) /\ fs[p] # "none"
           => p \in due \/ Holds(tree, p)

LEMMA ReadIsHeld ==
    ASSUME NEW tree, NEW root, WellFormed(tree, root), NEW p, HasRead(tree, p, fs)
    PROVE  Holds(tree, p)
BY FilesAreNamed DEF WellFormed, HasRead, Holds

LEMMA LeftIsHeld ==
    ASSUME NEW tree, NEW new, NEW p, Leaves(tree, new, p), Holds(tree, p)
    PROVE  Holds(new, p)
BY DEF Leaves, Holds

\* What a registration covers is wanted.
LEMMA CoveredIsWanted ==
    \A r \in DOMAIN registered, p \in Path : Registry!Covers(registered, r, p) => p \in Wanted
BY DEF Wanted, Registry!Accepts

\* An event that brings nothing to a tree.
LEMMA FullWithout ==
    ASSUME NEW tree, NEW root, NEW due, Full(tree, root, due), NEW path,
           ~(/\ Registry!Covers(registered, root, path) /\ StrictlyBelow(path, root)
             /\ HasRoom(tree, path) /\ fs[path] # "none")
    PROVE  Full(tree, root, due \ {path})
BY DEF Full

\* A path that is gone is taken out of a tree.
LEMMA FullAfterRemove ==
    ASSUME NEW tree, NEW root, NEW due, Full(tree, root, due), NEW path, fs[path] = "none",
           NEW new, Exact(new, root), new.dirs[root].depth = tree.dirs[root].depth,
           \A p \in Path : StrictlyBelow(p, root) /\ HasRoom(new, p) /\ p # path => Leaves(tree, new, p)
    PROVE  Full(new, root, due \ {path})
<1> SUFFICES ASSUME NEW p \in Path, Registry!Covers(registered, root, p), StrictlyBelow(p, root),
                    HasRoom(new, p), fs[p] # "none", p \notin due
             PROVE  Holds(new, p)
    BY DEF Full
<1>1. Leaves(tree, new, p)
    OBVIOUS
<1>2. Holds(tree, p)
    BY <1>1 DEF Full, Leaves
<1> QED BY <1>1, <1>2, LeftIsHeld

\* The update of a tree.
LEMMA FullAfterUpdate ==
    ASSUME NEW tree, NEW root \in DOMAIN registered, NEW due, Full(tree, root, due), NEW path,
           NEW new, WellFormed(new, root), new.dirs[root].depth = tree.dirs[root].depth,
           Fills(tree, root, path, fs, Wanted, new),
           OneWatcher => \A p \in Wanted : StrictlyBelow(path, p) /\ fs[p] # "none" => fs[p] = "dir"
    PROVE  Full(new, root, due \ {path})
<1>1. Exact(new, root)
    BY DEF Fills
<1>2. ASSUME NEW p \in Path, Registry!Covers(registered, root, p), StrictlyBelow(p, root),
             HasRoom(new, p), fs[p] # "none"
      PROVE  p \in due \ {path} \/ Holds(new, p)
    <2>1. p \in Wanted
        BY <1>2, CoveredIsWanted
    <2>2. \/ p # path /\ Leaves(tree, new, p)
          \/ HasRead(new, p, fs)
          \/ StrictlyBelow(path, p) /\ fs[p] # "dir" /\ p \in Entered(new)
        BY <1>2, <2>1 DEF Fills
    <2>3. CASE p # path /\ Leaves(tree, new, p)
        <3>1. p \in due \/ Holds(tree, p)
            BY <1>2, <2>3 DEF Full, Leaves
        <3> QED BY <2>3, <3>1, LeftIsHeld
    <2>4. CASE HasRead(new, p, fs)
        BY <2>4, ReadIsHeld
    <2>5. CASE StrictlyBelow(path, p) /\ fs[p] # "dir" /\ p \in Entered(new)
        BY <1>2, <2>1, <2>5 DEF Holds
    <2> QED BY <2>2, <2>3, <2>4, <2>5
<1> QED BY <1>1, <1>2 DEF Full

\* handleDelete.
LEMMA DeleteFills ==
    ASSUME NEW dirs, NEW path \in Path, HandleDelete(dirs, path),
           \A r \in DOMAIN dirs \ {path} : r \in Path /\ WellFormed(dirs[r], r) /\ Exact(dirs[r], r)
    PROVE  /\ DOMAIN directories' = DOMAIN dirs \ {path}
           /\ pendingFiles \subseteq pendingFiles'
           /\ path \in DOMAIN dirs \cap DOMAIN registered => path \in pendingFiles'
           /\ \A r \in DOMAIN directories' :
                /\ Exact(directories'[r], r)
                /\ directories'[r].dirs[r].depth = dirs[r].dirs[r].depth
                /\ \A p \in Path : StrictlyBelow(p, r) /\ HasRoom(directories'[r], p) /\ p # path
                     => Leaves(dirs[r], directories'[r], p)
<1> DEFINE roots == RootsAbove(dirs, path)
           kept == [r \in DOMAIN dirs |-> IF r \in roots THEN Remove(dirs[r], r, path) ELSE dirs[r]]
<1>1. directories' = Restrict(kept, DOMAIN dirs \ {path})
    BY DEF HandleDelete
<1>2. \A r \in DOMAIN dirs : r \in roots <=> StartsWith(path, r)
    BY DEF RootsAbove
<1>3. \A r \in DOMAIN dirs : kept[r] = IF r \in roots THEN Remove(dirs[r], r, path) ELSE dirs[r]
    OBVIOUS
<1>4. /\ pendingFiles \subseteq pendingFiles'
      /\ path \in DOMAIN dirs \cap DOMAIN registered => path \in pendingFiles'
    <2>1. path \in DOMAIN dirs => roots # {}
        BY StartsWithIsOrder DEF RootsAbove
    <2> QED BY <2>1 DEF HandleDelete
<1> HIDE DEF roots, kept
<1>5. DOMAIN directories' = DOMAIN dirs \ {path} /\ \A r \in DOMAIN dirs \ {path} : directories'[r] = kept[r]
    BY <1>1 DEF Restrict
<1>6. ASSUME NEW r \in DOMAIN dirs \ {path}
      PROVE  /\ Exact(kept[r], r)
             /\ kept[r].dirs[r].depth = dirs[r].dirs[r].depth
             /\ \A p \in Path : StrictlyBelow(p, r) /\ HasRoom(kept[r], p) /\ p # path
                  => Leaves(dirs[r], kept[r], p)
    <2>1. CASE StartsWith(path, r)
        <3>1. kept[r] = Remove(dirs[r], r, path)
            BY <1>2, <1>3, <2>1
        <3>2. Remove(dirs[r], r, path).dirs[r].depth = dirs[r].dirs[r].depth
            BY <2>1, RemoveFinds
        <3>3. /\ Exact(Remove(dirs[r], r, path), r)
              /\ \A p \in Path : StrictlyBelow(p, r) /\ HasRoom(Remove(dirs[r], r, path), p) /\ p # path
                   => Leaves(dirs[r], Remove(dirs[r], r, path), p)
            BY <2>1, RemoveFills
        <3> QED BY <3>1, <3>2, <3>3
    <2>2. CASE ~StartsWith(path, r)
        <3>1. kept[r] = dirs[r]
            BY <1>2, <1>3, <2>2
        <3> QED BY <1>6, <3>1 DEF Leaves
    <2> QED BY <2>1, <2>2
<1> QED BY <1>4, <1>5, <1>6

\* Where roots lie apart, find knows the root that has room for a path.
LEMMA RoomIsReached ==
    ASSUME NEW dirs, TreesAreWellFormed(dirs), RootsApart(dirs),
           NEW r \in DOMAIN dirs, NEW p \in Path, StrictlyBelow(p, r), HasRoom(dirs[r], p)
    PROVE  r \in Find(dirs, p)
<1> DEFINE depth == dirs[r].dirs[r].depth
           parent == Parent(p)
<1>1. r \in Path /\ WellFormed(dirs[r], r) /\ Len(r) \in Nat /\ DOMAIN dirs \subseteq Path
    BY PathsAreLong DEF TreesAreWellFormed
<1>2. /\ parent \in Path /\ StartsWith(parent, r) /\ Len(parent) = Len(p) - 1
      /\ Len(p) \in Nat /\ StartsWith(p, r) /\ p # r
    BY <1>1, ParentIsAbove, PathsAreLong DEF StrictlyBelow
<1>3. /\ parent \in DirPaths(dirs[r]) /\ dirs[r].dirs[parent].depth >= 0
      /\ dirs[r].dirs[parent].depth \in {-1, SubdirectoryDepth(depth, Distance(r, parent))}
    BY <1>1 DEF HasRoom, WellFormed, Levelled
<1>4. depth \in Int /\ MaxInt \in Nat
    BY <1>1, DepthsAreInts, PathAssumption DEF WellFormed, Rooted
<1>5. Distance(r, p) \in Int /\ Distance(r, parent) = Distance(r, p) - 1
    BY <1>1, <1>2 DEF Distance
<1>6. depth = MaxInt \/ Distance(r, p) - 1 <= depth
    <2> HIDE DEF depth
    <2> QED BY <1>3, <1>4, <1>5 DEF SubdirectoryDepth
<1>7. Reaches(dirs, r, p)
    BY <1>2, <1>6 DEF Reaches
<1>8. ASSUME NEW s \in DOMAIN dirs, Reaches(dirs, s, p) PROVE s = r
    <2>1. StartsWith(p, s) /\ s \in Path
        BY <1>1, <1>8 DEF Reaches
    <2>2. StartsWith(s, r) \/ StartsWith(r, s)
        BY <1>1, <1>2, <2>1, StartsWithIsOrder
    <2> QED BY <2>2 DEF RootsApart
<1> QED BY <1>1, <1>7, <1>8 DEF Find

TreesAreFull == \A r \in DOMAIN directories : Full(directories[r], r, Due)

\* A registration without a root is being made, or waits for its path, which then does
\* not exist or is noticed.
PendingAreKnown ==
    \A d \in DOMAIN registered \ DOMAIN directories :
        \/ \E u \in User : registering[u].stage # "idle" /\ registering[u].path = d
        \/ d \in pendingFiles /\ (fs[d] # "none" => d \in Due)

\* What was seen to be gone does not come back before it is handled.
GoneStaysGone == \A w \in DOMAIN events : events[w].kind = "none" => fs[events[w].path] = "none"

\* What lies above a watched path is watched if it is wanted.
WatchedAbove == \A p \in watched, q \in Wanted : StartsWith(p, q) => q \in watched

\* With one watcher thread: what lies above the path of the event is still a directory,
\* or its removal is noticed.
AboveIsThere ==
    OneWatcher =>
        \A x \in DOMAIN events, m \in Wanted :
            events[x].kind # "none" /\ StrictlyBelow(events[x].path, m)
              => fs[m] = "dir" \/ (fs[m] = "none" /\ m \in changed)

Complete == TreesAreFull /\ PendingAreKnown /\ GoneStaysGone /\ WatchedAbove /\ AboveIsThere

\* What handleEvent leaves.
EventFills(path) ==
    /\ \A r \in DOMAIN directories' : Full(directories'[r], r, Due \ {path})
    /\ DOMAIN directories \ {path} \subseteq DOMAIN directories'
    /\ pendingFiles \subseteq pendingFiles'
    /\ path \in DOMAIN directories \ DOMAIN directories' => path \in pendingFiles' /\ fs[path] = "none"
    /\ path \in pendingFiles \ DOMAIN directories' => fs[path] = "none"

\* A path that is gone, from whatever part of the trees is left.
LEMMA DeleteIsFull ==
    ASSUME Typed, TreesAreFull, NEW path \in Path, fs[path] = "none",
           DOMAIN directories \subseteq DOMAIN registered,
           NEW dirs, HandleDelete(dirs, path), DOMAIN dirs = DOMAIN directories,
           \A r \in DOMAIN dirs \ {path} : dirs[r] = directories[r]
    PROVE  EventFills(path)
<1>1. \A r \in DOMAIN directories :
        r \in Path /\ WellFormed(directories[r], r) /\ Full(directories[r], r, Due) /\ Exact(directories[r], r)
    BY DEF Typed, TreesAreWellFormed, TreesAreFull, Full
<1>2. \A r \in DOMAIN dirs \ {path} : r \in Path /\ WellFormed(dirs[r], r) /\ Exact(dirs[r], r)
    BY <1>1
<1>3. /\ DOMAIN directories' = DOMAIN dirs \ {path}
      /\ pendingFiles \subseteq pendingFiles'
      /\ path \in DOMAIN dirs \cap DOMAIN registered => path \in pendingFiles'
      /\ \A r \in DOMAIN directories' :
           /\ Exact(directories'[r], r)
           /\ directories'[r].dirs[r].depth = dirs[r].dirs[r].depth
           /\ \A p \in Path : StrictlyBelow(p, r) /\ HasRoom(directories'[r], p) /\ p # path
                => Leaves(dirs[r], directories'[r], p)
    BY <1>2, DeleteFills
<1>4. ASSUME NEW r \in DOMAIN directories' PROVE Full(directories'[r], r, Due \ {path})
    <2>1. r \in DOMAIN dirs \ {path} /\ dirs[r] = directories[r] /\ Full(directories[r], r, Due)
        BY <1>1, <1>3
    <2>2. /\ Exact(directories'[r], r)
          /\ directories'[r].dirs[r].depth = directories[r].dirs[r].depth
          /\ \A p \in Path : StrictlyBelow(p, r) /\ HasRoom(directories'[r], p) /\ p # path
               => Leaves(directories[r], directories'[r], p)
        BY <1>3, <2>1
    <2> QED BY <2>1, <2>2, FullAfterRemove
<1> QED BY <1>3, <1>4 DEF EventFills

\* An update of a root that find has found.
LEMMA UpdateIsFull ==
    ASSUME -1 \notin Depth, Typed, Located, Noticed, Shown, TreesAreFull, GoneStaysGone, AboveIsThere,
           NEW w \in DOMAIN events, NEW path \in Wanted, NEW kind, path = events[w].path,
           kind = events[w].kind, kind # "none",
           NEW r \in Find(directories, path), HandleUpdate(r, path, kind)
    PROVE  EventFills(path)
<1> DEFINE new == Update(directories[r], r, path, kind, RescanOnDirectoryUpdate, fs, Wanted).tree
           cleared == [directories EXCEPT ![r] = Cleared(@, r)]
           throws == UpdateThrows(directories[r], r, path, kind, RescanOnDirectoryUpdate, fs, Wanted)
<1>1. /\ IsDisk(fs) /\ TreesAreWellFormed(directories) /\ Wanted \in SUBSET Path
      /\ path \in Path /\ path \in Wanted
      /\ fs[path] # "none" => Alike(kind, fs[path])
    BY WantedIsThere DEF Typed, WatcherTyped, Wanted, Shown, SeenAlike
<1>2. /\ r \in DOMAIN directories /\ r \in Path /\ StartsWith(path, r)
      /\ WellFormed(directories[r], r) /\ Full(directories[r], r, Due) /\ r \in DOMAIN registered
    BY <1>1 DEF Find, Reaches, TreesAreWellFormed, TreesAreFull, Located
<1>3. CASE throws /\ HandleDelete(cleared, path)
    <2>1. path = r /\ kind = "dir" /\ fs[path] # "dir"
        BY <1>3 DEF UpdateThrows, CanInit
    <2>2. fs[path] = "none"
        BY <1>1, <2>1 DEF Alike
    <2> HIDE DEF throws
    <2>3. DOMAIN cleared = DOMAIN directories /\ \A s \in DOMAIN cleared \ {path} : cleared[s] = directories[s]
        BY <2>1
    <2> HIDE DEF cleared
    <2> QED BY <1>1, <1>3, <2>2, <2>3, DeleteIsFull DEF Located
<1>4. CASE directories' = [directories EXCEPT ![r] = new] /\ pendingFiles' = pendingFiles
    <2>1. Exact(directories[r], r)
        BY <1>2 DEF Full
    <2>2. Fills(directories[r], r, path, fs, Wanted, new)
        BY <1>1, <1>2, <2>1, UpdateFills
    <2>3. WellFormed(new, r)
        BY <1>1, <1>2, UpdateKeeps DEF Keeps
    <2>4. new.dirs[r].depth = directories[r].dirs[r].depth
        BY <1>1, <1>2, UpdateFinds DEF Finds
    <2> HIDE DEF new
    <2>5. OneWatcher => \A p \in Wanted : StrictlyBelow(path, p) /\ fs[p] # "none" => fs[p] = "dir"
        BY DEF AboveIsThere
    <2>6. Full(new, r, Due \ {path})
        BY <1>2, <2>2, <2>3, <2>4, <2>5, FullAfterUpdate
    <2>7. /\ DOMAIN directories' = DOMAIN directories /\ directories'[r] = new
          /\ \A s \in DOMAIN directories : s # r => directories'[s] = directories[s]
        BY <1>2, <1>4
    <2>8. ASSUME NEW s \in DOMAIN directories, s # r PROVE Full(directories[s], s, Due \ {path})
        <3>1. ~StartsWith(path, s)
            <4> SUFFICES ASSUME StartsWith(path, s) PROVE s = r
                BY <2>8
            <4>1. StartsWith(s, r) \/ StartsWith(r, s)
                BY <1>1, <1>2, StartsWithIsOrder DEF TreesAreWellFormed
            <4> QED BY <1>2, <4>1 DEF Located
        <3>2. Full(directories[s], s, Due)
            BY DEF TreesAreFull
        <3> QED BY <3>1, <3>2, FullWithout DEF StrictlyBelow
    <2>9. path \in pendingFiles \ DOMAIN directories' => fs[path] = "none"
        <3> SUFFICES ASSUME path \in pendingFiles PROVE path \in DOMAIN directories'
            OBVIOUS
        <3>1. path \in DOMAIN registered
            BY DEF Located
        <3>2. path = r
            BY <1>2, <3>1 DEF Located
        <3> QED BY <1>2, <2>7, <3>2
    <2> QED BY <1>4, <2>6, <2>7, <2>8, <2>9 DEF EventFills
<1> QED BY <1>3, <1>4 DEF HandleUpdate

\* A tree as deep as its registration that was read just now.
LEMMA ReadIsFull ==
    ASSUME NEW tree, NEW root \in DOMAIN registered, WellFormed(tree, root), Exact(tree, root),
           tree.dirs[root].depth # registered[root] => fs[root] # "dir",
           \A p \in Wanted : StrictlyBelow(p, root) /\ HasRoom(tree, p) /\ fs[p] # "none" => HasRead(tree, p, fs)
    PROVE  \A due : Full(tree, root, due)
<1>1. ASSUME NEW p \in Path, Registry!Covers(registered, root, p), StrictlyBelow(p, root),
             HasRoom(tree, p), fs[p] # "none"
      PROVE  Holds(tree, p)
    <2>1. p \in Wanted
        BY <1>1, CoveredIsWanted
    <2> QED BY <1>1, <2>1, ReadIsHeld
<1> QED BY <1>1 DEF Full

LEMMA NewIsFull ==
    ASSUME IsDisk(fs), NEW path \in DOMAIN registered, path \in Path, registered[path] \in -1..MaxInt
    PROVE  \A due : Full(NewCachedDirectory(path, registered[path]), path, due)
<1> DEFINE new == NewCachedDirectory(path, registered[path])
<1>1. /\ Exact(new, path) /\ WellFormed(new, path)
      /\ new.dirs[path].depth # registered[path] => fs[path] # "dir"
      /\ \A p \in Wanted : StrictlyBelow(p, path) /\ HasRoom(new, p) /\ fs[p] # "none" => HasRead(new, p, fs)
    BY NewFills
<1> HIDE DEF new
<1>2. \A due : Full(new, path, due)
    BY <1>1, ReadIsFull
<1> QED BY <1>2 DEF new

\* A registered path that is there now.
LEMMA PendingIsFull ==
    ASSUME -1 \notin Depth, Typed, Located, TreesAreFull, NEW path \in pendingFiles,
           Find(directories, path) = {}, HandlePending(path),
           \A r \in DOMAIN directories : Full(directories[r], r, Due \ {path})
    PROVE  EventFills(path)
<1> DEFINE depth == Registry!MaxDepthFor(registered, path)
           new == NewCachedDirectory(path, depth)
<1>1. IsDisk(fs) /\ path \in Path /\ Registry!TypeOK
    BY DEF Typed, WatcherTyped
<1>2. path \in DOMAIN registered /\ depth = registered[path] /\ depth \in -1..MaxInt /\ depth # -1
    <2>1. path \in DOMAIN registered /\ \A q \in DOMAIN registered : StartsWith(path, q) => q = path
        BY DEF Located
    <2>2. depth = registered[path]
        BY <1>1, <2>1, MaxDepthForIsOwn
    <2>3. registered[path] \in Depth
        BY <1>1, <2>1 DEF Registry!TypeOK
    <2> HIDE DEF depth
    <2> QED BY <2>1, <2>2, <2>3, DepthsAreAllowed
<1>3. path \notin DOMAIN directories
    BY <1>1, RootFindsItself
<1>4. CASE NoSuchFile(path, depth)
    <2>1. UNCHANGED <<directories, pendingFiles>>
        BY <1>4 DEF HandlePending
    <2>2. fs[path] = "none"
        BY <1>4 DEF NoSuchFile
    <2> QED BY <2>1, <2>2 DEF EventFills
<1>5. CASE ~NoSuchFile(path, depth)
    <2>1. directories' = With(directories, path, new) /\ pendingFiles' = pendingFiles
        BY <1>5 DEF HandlePending
    <2> HIDE DEF depth
    <2>2. Full(new, path, Due \ {path})
        <3>1. Full(NewCachedDirectory(path, registered[path]), path, Due \ {path})
            BY <1>1, <1>2, NewIsFull
        <3> QED BY <1>2, <3>1 DEF new
    <2> HIDE DEF new
    <2>3. /\ DOMAIN directories' = DOMAIN directories \cup {path} /\ directories'[path] = new
          /\ \A s \in DOMAIN directories : directories'[s] = directories[s]
        BY <1>3, <2>1 DEF With
    <2> QED BY <2>1, <2>2, <2>3 DEF EventFills
<1> QED BY <1>4, <1>5

LEMMA HandleEventFills ==
    ASSUME -1 \notin Depth, Typed, Located, Noticed, Shown, TreesAreFull, GoneStaysGone, AboveIsThere,
           ~closed, NEW w \in DOMAIN events, NEW path \in Wanted, NEW kind, path = events[w].path,
           kind = events[w].kind, Handle(path, kind)
    PROVE  EventFills(path)
<1> DEFINE found == Find(directories, path)
<1>1. path \in Path /\ TreesAreWellFormed(directories) /\ RootsApart(directories)
    BY DEF Typed, Located, RootsApart, Wanted
<1>2. CASE kind = "none" /\ HandleDelete(directories, path)
    <2>1. fs[path] = "none"
        BY <1>1, <1>2 DEF GoneStaysGone
    <2> QED BY <1>1, <1>2, <2>1, DeleteIsFull DEF Located
<1>3. ASSUME kind # "none", NEW r \in found, HandleUpdate(r, path, kind) PROVE EventFills(path)
    BY <1>1, <1>3, UpdateIsFull
<1>4. found = {} => \A r \in DOMAIN directories : Full(directories[r], r, Due \ {path})
    <2> SUFFICES ASSUME found = {}, NEW r \in DOMAIN directories PROVE Full(directories[r], r, Due \ {path})
        OBVIOUS
    <2>1. ~(StrictlyBelow(path, r) /\ HasRoom(directories[r], path))
        BY <1>1, RoomIsReached
    <2>2. Full(directories[r], r, Due)
        BY DEF TreesAreFull
    <2> QED BY <2>1, <2>2, FullWithout
<1>5. CASE found = {} /\ path \in pendingFiles /\ HandlePending(path)
    BY <1>4, <1>5, PendingIsFull
<1>6. CASE found = {} /\ path \notin pendingFiles /\ UNCHANGED <<directories, pendingFiles, observed>>
    BY <1>4, <1>6 DEF EventFills
<1> QED BY <1>2, <1>3, <1>5, <1>6 DEF Handle

LEMMA EventCompletes ==
    ASSUME -1 \notin Depth, Typed, Informed, Shown, Complete, ~closed, NEW w \in Watcher, HandleEvent(w)
    PROVE  Complete'
<1> DEFINE path == events[w].path
           kind == events[w].kind
<1>0. /\ Located /\ Noticed /\ TreesAreFull /\ PendingAreKnown /\ GoneStaysGone /\ WatchedAbove
      /\ AboveIsThere
    BY DEF Informed, Complete
<1>1. /\ path \in Wanted /\ Due \subseteq Due' \cup {path}
      /\ Handle(path, kind) /\ w \in DOMAIN events
    BY <1>0, EventIsTyped, HandledIsDue
<1>11. EventFills(path)
    BY <1>0, <1>1, HandleEventFills
<1>2. UNCHANGED <<fs, changed, registered, registering, watched>>
    BY DEF HandleEvent
<1>3. DOMAIN events' \subseteq DOMAIN events /\ \A v \in DOMAIN events' : events'[v] = events[v]
    BY EventIsTyped
<1> HIDE DEF path, kind
<1>4. Wanted' = Wanted
    BY <1>2 DEF Wanted
<1>5. \A p \in Due \ {path} : p \in Due'
    BY <1>1
<1>6. TreesAreFull'
    <2> SUFFICES ASSUME NEW r \in DOMAIN directories' PROVE Full(directories[r], r, Due)'
        BY DEF TreesAreFull
    <2>1. Full(directories'[r], r, Due \ {path})
        BY <1>11 DEF EventFills
    <2> QED BY <1>2, <1>5, <2>1 DEF Full, Holds
<1>7. PendingAreKnown'
    <2> SUFFICES ASSUME NEW d \in DOMAIN registered \ DOMAIN directories',
                        ~\E u \in User : registering[u].stage # "idle" /\ registering[u].path = d
                 PROVE  d \in pendingFiles' /\ (fs[d] # "none" => d \in Due')
        BY <1>2 DEF PendingAreKnown
    <2>1. CASE d = path
        BY <1>0, <1>11, <2>1 DEF EventFills, PendingAreKnown
    <2>2. CASE d # path
        BY <1>0, <1>11, <1>5, <2>2 DEF EventFills, PendingAreKnown
    <2> QED BY <2>1, <2>2
<1>8. GoneStaysGone'
    BY <1>0, <1>2, <1>3 DEF GoneStaysGone
<1>9. WatchedAbove'
    BY <1>0, <1>2, <1>4 DEF WatchedAbove
<1>10. AboveIsThere'
    BY <1>0, <1>2, <1>3, <1>4 DEF AboveIsThere
<1> QED BY <1>6, <1>7, <1>8, <1>9, <1>10 DEF Complete

\* The file system: what the cache should have is watched, and the watcher tells of a
\* path before it is there again.
LEMMA ChangeCompletes ==
    ASSUME ~SwapsKinds, Typed, Informed, Complete, GoneForGood, NEW p \in Path,
           \/ \E kind \in Kind \ {"none"} : Appear(p, kind) \/ Modify(p, kind)
           \/ Disappear(p)
    PROVE  Complete'
<1>0. /\ Located /\ Watches /\ Noticed /\ GoneIsKnown
      /\ TreesAreFull /\ PendingAreKnown /\ GoneStaysGone /\ WatchedAbove /\ AboveIsThere
      /\ fs \in [Path -> Kind] /\ TreesAreWellFormed(directories) /\ Registry!TypeOK
    BY DEF Informed, Complete, Typed, WatcherTyped, IsDisk
<1>1. /\ UNCHANGED <<events, overtaken, registered, directories, pendingFiles, registering, watched>>
      /\ InFlight' = InFlight /\ changed' = changed \cup ({p} \cap watched)
    BY DEF Appear, Modify, Disappear, Change, InFlight
<1>2. \A q \in Path : q # p => fs'[q] = fs[q]
    BY <1>0 DEF Appear, Modify, Disappear, Change
<1>3. \/ fs'[p] = "none"
      \/ fs[p] # "none" /\ Alike(fs'[p], fs[p])
      \/ fs[p] = "none" /\ p \notin Due /\ p \notin Doubtful
    <2>1. ASSUME NEW kind \in Kind \ {"none"}, Appear(p, kind)
          PROVE  fs[p] = "none" /\ p \notin Due /\ p \notin Doubtful
        <3>1. fs[p] = "none" /\ fs'[p] = kind /\ p \notin changed \cup InFlight
            BY <1>0, <2>1 DEF Appear, Change
        <3> QED BY <2>1, <3>1 DEF GoneForGood, Doubtful, Due
    <2>2. ASSUME NEW kind, Modify(p, kind) PROVE fs[p] # "none" /\ Alike(fs'[p], fs[p])
        <3>1. fs[p] # "none" /\ fs'[p] = kind /\ (IF fs[p] = "dir" THEN kind = "dir" ELSE kind \in Content)
            BY <1>0, <2>2 DEF Modify, Change
        <3> QED BY <3>1, PathAssumption DEF Alike
    <2>3. Disappear(p) => fs'[p] = "none"
        BY <1>0 DEF Disappear, Change
    <2> QED BY <2>1, <2>2, <2>3
<1>4. Wanted' = Wanted
    BY <1>1 DEF Wanted
<1>5. Due \subseteq Due' /\ (p \in watched => p \in Due')
    BY <1>1 DEF Due
<1>6. TreesAreFull'
    <2> SUFFICES ASSUME NEW r \in DOMAIN directories PROVE Full(directories[r], r, Due)'
        BY <1>1 DEF TreesAreFull
    <2> DEFINE tree == directories[r]
    <2>1. Full(tree, r, Due) /\ r \in Path /\ r \in DOMAIN registered /\ tree' = tree
        BY <1>0, <1>1 DEF TreesAreFull, Located, TreesAreWellFormed
    <2>2. ASSUME tree.dirs[r].depth # registered[r] PROVE fs'[r] # "dir"
        <3>1. fs[r] # "dir"
            BY <2>1, <2>2 DEF Full
        <3>2. r \in Found(directories)
            <4>1. r \in DirPaths(directories[r])
                BY <1>0 DEF TreesAreWellFormed, WellFormed, Rooted
            <4>2. r \in FoundIn(directories[r])
                BY <4>1, FoundMeans
            <4> QED BY <4>2 DEF Found
        <3>3. fs[r] = "none" => r \in Doubtful
            BY <1>0, <3>2 DEF GoneIsKnown
        <3> QED BY <1>2, <1>3, <2>1, <3>1, <3>3 DEF Alike
    <2>3. ASSUME NEW q \in Path, Registry!Covers(registered, r, q), StrictlyBelow(q, r),
                 HasRoom(tree, q), fs'[q] # "none"
          PROVE  q \in Due' \/ Holds(tree, q)'
        <3>1. CASE q # p
            <4>1. fs'[q] = fs[q]
                BY <1>2, <3>1
            <4>2. q \in Due \/ Holds(tree, q)
                BY <2>1, <2>3, <4>1 DEF Full
            <4> QED BY <1>5, <2>1, <4>1, <4>2 DEF Holds
        <3>2. CASE q = p
            <4>1. ~\E u \in User : registering[u].stage = "added" /\ registering[u].path = r
                BY <1>0 DEF Located
            <4>2. q \in watched
                BY <1>0, <2>1, <2>3, <4>1 DEF Watches
            <4> QED BY <1>5, <3>2, <4>2
        <3> QED BY <3>1, <3>2
    <2> HIDE DEF tree
    <2>4. Full(tree, r, Due)'
        BY <1>1, <2>1, <2>2, <2>3 DEF Full, Exact, HasRoom
    <2> QED BY <2>4 DEF tree
<1>7. PendingAreKnown'
    <2> SUFFICES ASSUME NEW d \in DOMAIN registered \ DOMAIN directories,
                        ~\E u \in User : registering[u].stage # "idle" /\ registering[u].path = d
                 PROVE  d \in pendingFiles /\ (fs'[d] # "none" => d \in Due')
        BY <1>1 DEF PendingAreKnown
    <2>1. d \in pendingFiles /\ (fs[d] # "none" => d \in Due)
        BY <1>0 DEF PendingAreKnown
    <2>2. d \in Path /\ StartsWith(d, d)
        BY <1>0, StartsWithIsOrder DEF Registry!TypeOK
    <2>3. d \in watched
        <3>1. Registry!Covers(registered, d, d)
            BY <2>2, CoversMeans
        <3> QED BY <1>0, <2>2, <3>1 DEF Watches
    <2> QED BY <1>2, <1>5, <2>1, <2>2, <2>3
<1>8. GoneStaysGone'
    <2> SUFFICES ASSUME NEW w \in DOMAIN events, NEW q, q = events[w].path, events[w].kind = "none"
                 PROVE  fs'[q] = "none"
        BY <1>1 DEF GoneStaysGone
    <2>1. fs[q] = "none" /\ q \in Due /\ q \in Path
        BY <1>0 DEF GoneStaysGone, Due, InFlight, Noticed, Wanted
    <2> QED BY <1>2, <1>3, <2>1
<1>9. WatchedAbove'
    BY <1>0, <1>1, <1>4 DEF WatchedAbove
<1>10. AboveIsThere'
    <2> SUFFICES ASSUME OneWatcher, NEW x \in DOMAIN events, NEW m \in Wanted,
                        events[x].kind # "none", StrictlyBelow(events[x].path, m)
                 PROVE  fs'[m] = "dir" \/ (fs'[m] = "none" /\ m \in changed')
        BY <1>0, <1>1, <1>4 DEF AboveIsThere
    <2>1. fs[m] = "dir" \/ (fs[m] = "none" /\ m \in changed)
        BY <1>0 DEF AboveIsThere
    <2>2. m \in watched /\ m \in Path
        <3>1. events[x].path \in watched /\ StartsWith(events[x].path, m)
            BY <1>0 DEF Noticed, InFlight, StrictlyBelow
        <3> QED BY <1>0, <3>1 DEF WatchedAbove, Wanted
    <2>3. CASE m # p
        BY <1>1, <1>2, <2>1, <2>2, <2>3
    <2>4. CASE m = p
        <3>1. m \in changed'
            BY <1>1, <2>2, <2>4
        <3> QED BY <1>3, <2>1, <2>4, <3>1 DEF Alike, Due
    <2> QED BY <2>3, <2>4
<1> QED BY <1>6, <1>7, <1>8, <1>9, <1>10 DEF Complete

\* The watcher looks at a path.
LEMMA StatCompletes ==
    ASSUME Typed, Informed, Complete, NEW w \in Watcher, NEW p \in Path, Stat(w, p)
    PROVE  Complete'
<1>0. /\ Located /\ Noticed
      /\ TreesAreFull /\ PendingAreKnown /\ GoneStaysGone /\ WatchedAbove /\ AboveIsThere
      /\ IsFileSystem(fs)
    BY DEF Informed, Complete, Typed, WatcherTyped, IsDisk
<1>1. /\ w \notin DOMAIN events
      /\ UNCHANGED <<fs, registered, directories, pendingFiles, registering, watched>>
    BY DEF Stat
<1>2. Due \subseteq Due' /\ p \in Wanted
    BY <1>0, StatIsDue
<1>3. /\ DOMAIN events' = DOMAIN events \cup {w}
      /\ events'[w].path = p /\ events'[w].kind = fs[p]
      /\ \A v \in DOMAIN events : events'[v].path = events[v].path /\ events'[v].kind = events[v].kind
    BY <1>2, StatSees, Zenon
<1>4. Wanted' = Wanted
    BY <1>1 DEF Wanted
<1>5. TreesAreFull'
    <2> SUFFICES ASSUME NEW r \in DOMAIN directories PROVE Full(directories[r], r, Due)'
        BY <1>1 DEF TreesAreFull
    <2>1. Full(directories[r], r, Due)
        BY <1>0 DEF TreesAreFull
    <2> QED BY <1>1, <1>2, <2>1 DEF Full, Holds
<1>6. PendingAreKnown'
    BY <1>0, <1>1, <1>2 DEF PendingAreKnown
<1>7. GoneStaysGone'
    BY <1>0, <1>1, <1>3 DEF GoneStaysGone
<1>8. WatchedAbove'
    BY <1>0, <1>1, <1>4 DEF WatchedAbove
<1>9. AboveIsThere'
    <2> SUFFICES ASSUME OneWatcher
                 PROVE  \A x \in DOMAIN events', m \in Wanted :
                          events'[x].kind # "none" /\ StrictlyBelow(events'[x].path, m) => fs[m] = "dir"
        BY <1>1, <1>4 DEF AboveIsThere
    <2>1. DOMAIN events' = {w}
        <3>1. DOMAIN events \subseteq Watcher
            BY DEF Typed, WatcherTyped
        <3> QED BY <1>1, <1>3, <3>1 DEF OneWatcher
    <2>2. \A m \in Wanted : fs[p] # "none" /\ StrictlyBelow(p, m) => fs[m] = "dir"
        BY <1>0 DEF IsFileSystem, Wanted
    <2> QED BY <1>3, <2>1, <2>2
<1> QED BY <1>5, <1>6, <1>7, <1>8, <1>9 DEF Complete

\* register: what lies above something that is wanted already was wanted too.
LEMMA RegisterCompletes ==
    ASSUME Typed, Informed, Complete, NEW u \in User, NEW p \in Path, NEW d \in Depth, Register(u, p, d),
           \A q \in DOMAIN registered : ~StartsWith(p, q) /\ ~StartsWith(q, p)
    PROVE  Complete'
<1> DEFINE call == [stage |-> "added", path |-> p, depth |-> d]
<1>0. /\ Located /\ Noticed
      /\ TreesAreFull /\ PendingAreKnown /\ GoneStaysGone /\ WatchedAbove /\ AboveIsThere
      /\ Registry!TypeOK /\ registering \in [User -> Call]
    BY DEF Informed, Complete, Typed, CallsTyped
<1>1. /\ registering' = [registering EXCEPT ![u] = call]
      /\ call.stage = "added" /\ call.path = p
      /\ registering[u] = Idle /\ Idle.stage = "idle"
      /\ Registry!AddDirectory(p, d)
      /\ UNCHANGED <<fs, changed, events, directories, pendingFiles, watched>>
    BY DEF Register, Idle
<1> HIDE DEF call, Idle
<1>2. p \notin DOMAIN registered
    BY StartsWithIsOrder
<1>3. /\ DOMAIN registered' = DOMAIN registered \cup {p}
      /\ \A q \in DOMAIN registered : registered'[q] = registered[q]
    BY <1>1, <1>2 DEF Registry!AddDirectory, Registry!Put
<1>4. /\ registering'[u] = call
      /\ \A v \in User : v # u => registering'[v] = registering[v]
    BY <1>0, <1>1
<1>5. Due' = Due
    BY <1>1 DEF Due, InFlight
<1>6. \A r \in DOMAIN registered, q \in Path : Registry!Covers(registered', r, q) <=> Registry!Covers(registered, r, q)
    BY <1>3, CoversMeans
<1>7. ASSUME NEW x \in Wanted, NEW m \in Wanted', StartsWith(x, m) PROVE m \in Wanted
    <2>1. x \in Path /\ m \in Path /\ DOMAIN registered \subseteq Path
        BY <1>0 DEF Wanted, Registry!TypeOK
    <2>2. PICK r \in DOMAIN registered : StartsWith(x, r)
        BY CoversMeans DEF Wanted, Registry!Accepts
    <2>3. PICK s \in DOMAIN registered' : Registry!Covers(registered', s, m)
        BY DEF Wanted, Registry!Accepts
    <2>4. s # p
        <3> SUFFICES ASSUME s = p PROVE FALSE
            OBVIOUS
        <3>1. StartsWith(m, p)
            BY <2>3, CoversMeans
        <3>2. StartsWith(x, p)
            BY <1>7, <2>1, <3>1, StartsWithIsOrder
        <3>3. StartsWith(p, r) \/ StartsWith(r, p)
            BY <2>1, <2>2, <3>2, StartsWithIsOrder
        <3> QED BY <3>3
    <2> QED BY <1>3, <1>6, <2>1, <2>3, <2>4, CoveredIsWanted
<1>8. TreesAreFull'
    <2> SUFFICES ASSUME NEW r \in DOMAIN directories PROVE Full(directories[r], r, Due)'
        BY <1>1 DEF TreesAreFull
    <2>1. Full(directories[r], r, Due) /\ r \in DOMAIN registered
        BY <1>0 DEF TreesAreFull, Located
    <2> QED BY <1>1, <1>3, <1>5, <1>6, <2>1 DEF Full, Holds
<1>9. PendingAreKnown'
    <2> SUFFICES ASSUME NEW q \in DOMAIN registered' \ DOMAIN directories,
                        ~\E v \in User : registering'[v].stage # "idle" /\ registering'[v].path = q
                 PROVE  q \in pendingFiles /\ (fs[q] # "none" => q \in Due)
        BY <1>1, <1>5 DEF PendingAreKnown
    <2>1. q # p
        BY <1>1, <1>4
    <2>2. ~\E v \in User : registering[v].stage # "idle" /\ registering[v].path = q
        BY <1>1, <1>4
    <2> QED BY <1>0, <1>3, <2>1, <2>2 DEF PendingAreKnown
<1>10. GoneStaysGone'
    BY <1>0, <1>1 DEF GoneStaysGone
<1>11. WatchedAbove'
    BY <1>0, <1>1, <1>7 DEF WatchedAbove, Noticed
<1>12. AboveIsThere'
    <2>1. \A x \in DOMAIN events, m \in Wanted' : StrictlyBelow(events[x].path, m) => m \in Wanted
        BY <1>0, <1>7 DEF StrictlyBelow, Noticed, InFlight
    <2> QED BY <1>0, <1>1, <2>1 DEF AboveIsThere
<1> QED BY <1>8, <1>9, <1>10, <1>11, <1>12 DEF Complete

LEMMA WatchCompletes ==
    ASSUME Typed, Complete, ~closed, NEW u \in User, Watch(u)
    PROVE  Complete'
<1>0. TreesAreFull /\ PendingAreKnown /\ GoneStaysGone /\ AboveIsThere
    BY DEF Complete
<1>1. watched' = Wanted /\ UNCHANGED <<fs, changed, events, registered, directories, pendingFiles>>
    BY DEF Watch
<1>2. \A v \in User : /\ registering'[v].path = registering[v].path
                      /\ registering'[v].stage # "idle" <=> registering[v].stage # "idle"
    BY WatchAdvances
<1>3. Wanted' = Wanted /\ Due' = Due
    BY <1>1 DEF Wanted, Due, InFlight
<1>4. TreesAreFull'
    <2> SUFFICES ASSUME NEW r \in DOMAIN directories PROVE Full(directories[r], r, Due)'
        BY <1>1 DEF TreesAreFull
    <2>1. Full(directories[r], r, Due)
        BY <1>0 DEF TreesAreFull
    <2> QED BY <1>1, <1>3, <2>1 DEF Full, Holds
<1>5. PendingAreKnown'
    BY <1>0, <1>1, <1>2, <1>3 DEF PendingAreKnown
<1>6. GoneStaysGone' /\ WatchedAbove' /\ AboveIsThere'
    BY <1>0, <1>1, <1>3 DEF GoneStaysGone, WatchedAbove, AboveIsThere
<1> QED BY <1>4, <1>5, <1>6 DEF Complete

LEMMA FillCompletes ==
    ASSUME -1 \notin Depth, Typed, Informed, Complete, NEW u \in User, Fill(u)
    PROVE  Complete'
<1> DEFINE path == registering[u].path
           new == NewCachedDirectory(path, registered[path])
<1>0. /\ Located /\ Limited /\ IsDisk(fs)
      /\ TreesAreFull /\ PendingAreKnown /\ GoneStaysGone /\ WatchedAbove /\ AboveIsThere
    BY DEF Informed, Complete, Typed, WatcherTyped
<1>1. /\ registering[u].stage = "locked" /\ path \in Path
      /\ path \in DOMAIN registered \ (DOMAIN directories \cup pendingFiles)
      /\ registering[u].depth \in Depth
      /\ FillsApart(u, path, registering[u].depth)
    BY <1>0, FillIsApart
<1>2. registering[u].depth = registered[path]
    BY <1>0, <1>1 DEF Limited
<1>3. registered[path] \in -1..MaxInt /\ FillsApart(u, path, registered[path])
    BY <1>1, <1>2, DepthsAreAllowed
<1>4. /\ registering' = [registering EXCEPT ![u] = Idle]
      /\ UNCHANGED <<fs, changed, events, registered, watched>>
    BY DEF Fill
<1>5. \A v \in User : v # u => registering'[v] = registering[v]
    BY <1>4 DEF Typed, CallsTyped
<1>6. Wanted' = Wanted /\ Due' = Due
    BY <1>4 DEF Wanted, Due, InFlight
<1>7. Full(new, path, Due)
    BY <1>0, <1>1, <1>3, NewIsFull
<1>8. \A r \in DOMAIN directories : Full(directories[r], r, Due)
    BY <1>0 DEF TreesAreFull
<1>9. /\ pendingFiles \subseteq pendingFiles'
      /\ \A r \in DOMAIN directories : r \in DOMAIN directories' /\ directories'[r] = directories[r]
      /\ \A r \in DOMAIN directories' : r \in DOMAIN directories \/ (r = path /\ directories'[path] = new)
      /\ path \in DOMAIN directories' \/ (path \in pendingFiles' /\ fs[path] = "none")
    <2> HIDE DEF new, path
    <2>1. FillsApart(u, path, registered[path]) => \/ /\ NoSuchFile(path, registered[path]) /\ pendingFiles' = pendingFiles \cup {path}
                                                      /\ DOMAIN directories' = DOMAIN directories
                                                      /\ \A r \in DOMAIN directories : directories'[r] = directories[r]
                                                   \/ /\ pendingFiles' = pendingFiles
                                                      /\ DOMAIN directories' = DOMAIN directories \cup {path}
                                                      /\ directories'[path] = new
                                                      /\ \A r \in DOMAIN directories : directories'[r] = directories[r]
        BY DEF FillsApart, new
    <2> QED BY <1>3, <2>1 DEF NoSuchFile
<1> HIDE DEF new, path
<1>10. \A r \in DOMAIN directories' : Full(directories'[r], r, Due)
    BY <1>7, <1>8, <1>9
<1>11. TreesAreFull'
    <2> SUFFICES ASSUME NEW r \in DOMAIN directories' PROVE Full(directories[r], r, Due)'
        BY DEF TreesAreFull
    <2>1. Full(directories'[r], r, Due)
        BY <1>10
    <2> QED BY <1>4, <1>6, <2>1 DEF Full, Holds
<1>12. PendingAreKnown'
    <2> SUFFICES ASSUME NEW q \in DOMAIN registered \ DOMAIN directories',
                        ~\E v \in User : registering'[v].stage # "idle" /\ registering'[v].path = q
                 PROVE  q \in pendingFiles' /\ (fs[q] # "none" => q \in Due)
        BY <1>4, <1>6 DEF PendingAreKnown
    <2>1. CASE q = path
        BY <1>9, <2>1
    <2>2. CASE q # path
        <3>1. ~\E v \in User : registering[v].stage # "idle" /\ registering[v].path = q
            BY <1>5, <2>2 DEF path
        <3>2. q \notin DOMAIN directories
            BY <1>9
        <3> QED BY <1>0, <1>9, <3>1, <3>2 DEF PendingAreKnown
    <2> QED BY <2>1, <2>2
<1>13. GoneStaysGone' /\ WatchedAbove' /\ AboveIsThere'
    BY <1>0, <1>4, <1>6 DEF GoneStaysGone, WatchedAbove, AboveIsThere
<1> QED BY <1>11, <1>12, <1>13 DEF Complete

\* A tree has room for whatever its registration covers, from its parent on.
LEMMA CoveredHasRoom ==
    ASSUME Registry!TypeOK, NEW root \in DOMAIN registered, NEW tree, Exact(tree, root),
           tree.dirs[root].depth = registered[root], registered[root] >= 0,
           NEW p \in Path, StrictlyBelow(p, root), Registry!Covers(registered, root, p),
           Parent(p) \in DirPaths(tree)
    PROVE  /\ HasRoom(tree, p)
           /\ \A q \in Path : StrictlyBelow(q, p) /\ Registry!Covers(registered, root, q)
                => tree.dirs[Parent(p)].depth > 0
<1> DEFINE depth == registered[root]
           parent == Parent(p)
<1>1. root \in Path /\ depth \in 0..MaxInt /\ MaxInt \in Nat \ {0}
    BY DepthsAreAllowed, PathAssumption DEF Registry!TypeOK
<1>2. /\ parent \in Path /\ StartsWith(parent, root) /\ Len(parent) = Len(p) - 1
      /\ StartsWith(p, root) /\ p # root
    BY <1>1, ParentIsAbove DEF StrictlyBelow
<1>3. Registry!CompMaxDepth(depth) = IF depth = MaxInt THEN MaxInt ELSE depth + 1
    BY <1>2, NoOverflow
<1>4. tree.dirs[parent].depth = SubdirectoryDepth(depth, Distance(root, parent))
    BY DEF Exact
<1>5. Distance(root, p) \in 1..MaxInt /\ Distance(root, parent) = Distance(root, p) - 1
    BY <1>1, <1>2, StrictIsFar, PathsAreLong DEF Distance
<1>6. Distance(root, p) <= Registry!CompMaxDepth(depth)
    BY <1>2, CoversMeans
<1>7. ASSUME NEW q \in Path, StrictlyBelow(q, p), Registry!Covers(registered, root, q)
      PROVE  tree.dirs[parent].depth > 0
    <2>1. /\ StartsWith(q, p) /\ StrictlyBelow(q, root)
        BY <1>1, <1>2, <1>7, BelowIsOrder DEF StrictlyBelow
    <2>2. Distance(root, q) = Distance(root, p) + Distance(p, q) /\ Distance(p, q) \in 1..MaxInt
        BY <1>1, <1>2, <1>7, <2>1, DistancesAdd, StrictIsFar
    <2>3. Distance(root, q) <= Registry!CompMaxDepth(depth)
        BY <1>7, <2>1, CoversMeans DEF StrictlyBelow
    <2> HIDE DEF depth, parent
    <2> QED BY <1>1, <1>3, <1>4, <1>5, <2>2, <2>3 DEF SubdirectoryDepth
<1>8. tree.dirs[parent].depth >= 0
    <2> HIDE DEF depth, parent
    <2> QED BY <1>1, <1>3, <1>4, <1>5, <1>6 DEF SubdirectoryDepth
<1> QED BY <1>7, <1>8 DEF HasRoom

\* Once nothing is under way, what is registered and exists has its entry: the first name
\* on the way to it that were missing would have to be there.
LEMMA WantedIsHeld ==
    ASSUME -1 \notin Depth, Typed, Located, TreesAreFull, PendingAreKnown, Due = {},
           \A u \in User : registering[u].stage = "idle",
           NEW p \in Wanted, fs[p] # "none"
    PROVE  \E r \in DOMAIN directories :
             p \in Entered(directories[r]) /\ (OneWatcher => p \in FoundIn(directories[r]))
<1>1. IsFileSystem(fs) /\ Registry!TypeOK /\ p \in Path
    BY DEF Typed, WatcherTyped, IsDisk, Wanted
<1>2. PICK root \in DOMAIN registered : Registry!Covers(registered, root, p)
    BY DEF Wanted, Registry!Accepts
<1>3. root \in Path /\ StartsWith(p, root) /\ registered[root] \in Depth
    BY <1>1, <1>2, CoversMeans DEF Registry!TypeOK
<1>4. registered[root] \in Int /\ registered[root] >= 0
    BY <1>3, DepthsAreAllowed, PathAssumption
<1>5. root \in DOMAIN directories
    <2>1. fs[root] # "none"
        BY <1>1, <1>3 DEF IsFileSystem, StrictlyBelow
    <2> QED BY <2>1 DEF PendingAreKnown
<1> DEFINE tree == directories[root]
<1>6. Full(tree, root, {}) /\ WellFormed(tree, root) /\ root \in DirPaths(tree)
    BY <1>5 DEF TreesAreFull, Typed, TreesAreWellFormed, WellFormed, Rooted
<1> HIDE DEF tree
<1>7. CASE p = root
    BY <1>5, <1>6, <1>7, FoundMeans DEF tree, Entered
<1>8. CASE p # root
    <2>1. StrictlyBelow(p, root) /\ fs[root] = "dir"
        BY <1>1, <1>3, <1>8 DEF IsFileSystem, StrictlyBelow
    <2>2. Exact(tree, root) /\ tree.dirs[root].depth = registered[root]
        BY <1>6, <2>1 DEF Full
    <2>3. Parent(p) \in DirPaths(tree)
        <3> SUFFICES ASSUME Parent(p) \notin DirPaths(tree) PROVE FALSE
            OBVIOUS
        <3> DEFINE first == FirstMissing(tree, root, p)
        <3>1. /\ first \in Path /\ StrictlyBelow(first, root) /\ StrictlyBelow(p, first)
              /\ first \notin DirPaths(tree) /\ Parent(first) \in DirPaths(tree)
            BY <1>1, <1>3, <1>6, <2>1, FirstIsMissing
        <3> HIDE DEF first
        <3>2. fs[first] = "dir"
            BY <1>1, <3>1 DEF IsFileSystem
        <3>3. Registry!Covers(registered, root, first)
            <4>1. Distance(root, p) = Distance(root, first) + Distance(first, p) /\ Distance(first, p) \in 1..MaxInt
                BY <1>1, <1>3, <3>1, DistancesAdd, StrictIsFar DEF StrictlyBelow
            <4>2. Distance(root, p) <= Registry!CompMaxDepth(registered[root])
                BY <1>2, <1>8, CoversMeans
            <4>3. Distance(root, first) \in Int /\ Registry!CompMaxDepth(registered[root]) \in Int
                BY <1>1, <1>3, <1>4, <3>1, NoOverflow, StrictIsFar, PathAssumption
            <4>4. Distance(root, first) <= Registry!CompMaxDepth(registered[root])
                BY <4>1, <4>2, <4>3
            <4> QED BY <3>1, <4>4, CoversMeans DEF StrictlyBelow
        <3>4. HasRoom(tree, first) /\ tree.dirs[Parent(first)].depth > 0
            BY <1>1, <1>2, <1>4, <2>2, <3>1, <3>3, CoveredHasRoom
        <3>5. Holds(tree, first)
            BY <1>6, <3>1, <3>2, <3>3, <3>4 DEF Full
        <3> QED BY <3>1, <3>2, <3>4, <3>5 DEF Holds
    <2>4. HasRoom(tree, p)
        BY <1>1, <1>2, <1>4, <2>1, <2>2, <2>3, CoveredHasRoom
    <2>5. Holds(tree, p)
        BY <1>1, <1>2, <1>6, <2>1, <2>4 DEF Full
    <2> QED BY <1>5, <2>5 DEF Holds, tree
<1> QED BY <1>7, <1>8

CompleteInv == ~closed /\ NothingUnregistered => Complete

\* No step before the first unregister makes the cache miss anything.
LEMMA AlwaysComplete ==
    ASSUME -1 \notin Depth, ~SwapsKinds
    PROVE  Spec /\ [][RegistersApart]_vars /\ [][GoneForGood]_vars => []CompleteInv
<1>1. Init => CompleteInv
    <2> SUFFICES ASSUME Init PROVE Complete
        BY DEF CompleteInv
    <2>1. DOMAIN directories = {} /\ DOMAIN registered = {} /\ DOMAIN events = {} /\ watched = {}
        BY DEF Init, NoRoots, NoFiles, Registry!NoDirectories
    <2> QED BY <2>1 DEF Complete, TreesAreFull, PendingAreKnown, GoneStaysGone, WatchedAbove, AboveIsThere
<1>2. Typed /\ MirrorInv /\ KindsInv /\ CompleteInv /\ [Next]_vars /\ [RegistersApart]_vars
        /\ [GoneForGood]_vars => CompleteInv'
    <2> SUFFICES ASSUME Typed, MirrorInv, KindsInv, CompleteInv, [Next]_vars, [RegistersApart]_vars,
                        [GoneForGood]_vars, ~closed', NothingUnregistered'
                 PROVE  Complete'
        BY DEF CompleteInv
    <2>1. /\ ~closed /\ NothingUnregistered
          /\ \A u \in User, p \in Path : ~Unregister(u, p)
        BY UnregistersCount DEF MirrorInv
    <2>2. Informed /\ Shown /\ Complete
        BY <2>1 DEF MirrorInv, KindsInv, CompleteInv
    <2>3. ASSUME NEW p \in Path,
                 \/ \E kind \in Kind \ {"none"} : Appear(p, kind) \/ Modify(p, kind)
                 \/ Disappear(p),
                 GoneForGood
          PROVE  Complete'
        BY <2>2, <2>3, ChangeCompletes
    <2>4. ASSUME NEW w \in Watcher, (\E p \in Path : Stat(w, p)) \/ HandleEvent(w) PROVE Complete'
        BY <2>1, <2>2, <2>4, StatCompletes, EventCompletes
    <2>5. ASSUME NEW u \in User, NEW p \in Path, NEW d \in Depth, Register(u, p, d), RegistersApart
          PROVE  Complete'
        BY <2>2, <2>5, RegisterCompletes DEF RegistersApart
    <2>6. ASSUME NEW u \in User, Watch(u) \/ Fill(u) PROVE Complete'
        BY <2>1, <2>2, <2>6, WatchCompletes, FillCompletes
    <2>7. \A u \in User : ~Unwatch(u)
        BY <2>2 DEF Informed, Located, Unwatch
    <2>8. ~Close
        BY DEF Close
    <2>9. CASE UNCHANGED vars
        <3>1. /\ UNCHANGED <<fs, changed, events, registered, directories, pendingFiles, registering, watched>>
              /\ Wanted' = Wanted /\ Due' = Due
            BY <2>9 DEF vars, Wanted, Due, InFlight
        <3>2. TreesAreFull'
            <4> SUFFICES ASSUME NEW r \in DOMAIN directories PROVE Full(directories[r], r, Due)'
                BY <3>1 DEF TreesAreFull
            <4>1. Full(directories[r], r, Due)
                BY <2>2 DEF Complete, TreesAreFull
            <4> QED BY <3>1, <4>1 DEF Full, Holds
        <3>3. PendingAreKnown' /\ GoneStaysGone' /\ WatchedAbove' /\ AboveIsThere'
            BY <2>2, <3>1 DEF Complete, PendingAreKnown, GoneStaysGone, WatchedAbove, AboveIsThere
        <3> QED BY <3>2, <3>3 DEF Complete
    <2>10. CASE Next /\ RegistersApart /\ GoneForGood
        BY <2>1, <2>3, <2>4, <2>5, <2>6, <2>7, <2>8, <2>10 DEF Next
    <2> QED BY <2>9, <2>10
<1> QED BY <1>1, <1>2, AlwaysTyped, AlwaysInformed, AlwaysShown, PTL DEF Spec

\* What exists and is registered is shown, also below a path that did not exist when it
\* was registered.
RegisteredIsShown ==
    Quiescent /\ NothingUnregistered => \A p \in Wanted : fs[p] # "none" => p \in Visible(directories)

\* Once all is quiet whatever exists and is registered is shown, where the registrations
\* lie apart, each of depth 0 or more, a path that is gone does not come back before the
\* watcher has told of it, nor at all once events of it were handled in the wrong order
\* (a root that the cache holds as a file since then keeps no entries below it): however
\* late handleEvent sees the events, in whatever order several threads saw them, whether
\* or not the path was there when it was registered, and whichever of the directories
\* above it came and went in between (FileCacheDirectoryTree.handleEvent,
\* CachedDirectoryImpl.updateImpl).  So the exception that CachedUnlessPending makes is
\* one for nested registrations alone.
THEOREM CachedUnlessPendingApart ==
    ASSUME -1 \notin Depth, ~SwapsKinds
    PROVE  Spec /\ [][RegistersApart]_vars /\ [][GoneForGood]_vars
             => [](RegisteredIsShown /\ CachedUnlessPending)
<1>1. Typed /\ MirrorInv /\ CompleteInv => RegisteredIsShown
    <2> SUFFICES ASSUME Typed, MirrorInv, CompleteInv, Quiescent, NothingUnregistered,
                        NEW p \in Wanted, fs[p] # "none"
                 PROVE  p \in Visible(directories)
        BY DEF RegisteredIsShown
    <2>1. Located /\ TreesAreFull /\ PendingAreKnown
        BY DEF Quiescent, MirrorInv, CompleteInv, Informed, Complete
    <2>2. Due = {} /\ \A u \in User : registering[u].stage = "idle"
        BY DEF Quiescent, Due, InFlight, Idle
    <2>3. PICK r \in DOMAIN directories : p \in Entered(directories[r])
        BY <2>1, <2>2, WantedIsHeld
    <2> QED BY <2>3, VisibleIsEntered DEF Typed
<1>2. RegisteredIsShown => CachedUnlessPending
    BY DEF RegisteredIsShown, CachedUnlessPending
<1> QED BY <1>1, <1>2, AlwaysTyped, AlwaysInformed, AlwaysComplete, PTL

\* One thread overtakes nothing.
InOrder == overtaken = {}

LEMMA OneIsInOrder ==
    ASSUME OneWatcher
    PROVE  Spec => [][GoneForGood]_vars
<1>1. Init => InOrder
    BY DEF Init, InOrder
<1>2. Typed /\ InOrder /\ [Next]_vars => InOrder' /\ [GoneForGood]_vars
    <2> SUFFICES ASSUME Typed, overtaken = {}, [Next]_vars PROVE overtaken' = {}
        BY DEF GoneForGood, InOrder
    <2>1. ASSUME NEW w \in Watcher, HandleEvent(w) PROVE overtaken' = {}
        <3>1. DOMAIN events \subseteq Watcher /\ DOMAIN events' = DOMAIN events \ {w}
            BY <2>1, EventIsTyped DEF Typed, WatcherTyped
        <3>2. DOMAIN events' = {}
            BY <3>1 DEF OneWatcher
        <3>3. InFlight' = {}
            BY <3>2 DEF InFlight
        <3> QED BY <2>1, <3>3 DEF HandleEvent
    <2>2. ASSUME NEW w \in Watcher, NEW p \in Path, Stat(w, p) PROVE overtaken' = {}
        BY <2>2 DEF Stat
    <2>3. ASSUME NEW p \in Path, NEW kind, Appear(p, kind) \/ Modify(p, kind) \/ Disappear(p)
          PROVE  overtaken' = {}
        BY <2>3 DEF Appear, Modify, Disappear, Change
    <2>4. ASSUME NEW u \in User,
                 \/ \E p \in Path, d \in Depth : Register(u, p, d)
                 \/ Watch(u) \/ Fill(u) \/ Unwatch(u)
                 \/ \E p \in Path : Unregister(u, p)
          PROVE  overtaken' = {}
        BY <2>4 DEF Register, Watch, Fill, Unwatch, Unregister
    <2>5. Close \/ UNCHANGED vars => overtaken' = {}
        BY DEF Close, vars
    <2> QED BY <2>1, <2>2, <2>3, <2>4, <2>5 DEF Next
<1> QED BY <1>1, <1>2, AlwaysTyped, PTL DEF Spec

\* And where one thread looks at paths and handles what it saw, and nothing is
\* unregistered, all of it is found by its path: the entry that is filed without its
\* name, for an event of a path whose directory has gone meanwhile, is one whose own
\* deletion is still to come (CachedDirectoryImpl.updateImpl,
\* FileCacheDirectoryTree.handleEvent).
THEOREM RegisteredIsCachedApart ==
    ASSUME -1 \notin Depth, ~SwapsKinds, OneWatcher
    PROVE  Spec /\ [][UsedApart]_vars => []RegisteredIsCached
<1>1. Init => NothingUnregistered
    BY DEF Init, NothingUnregistered
<1>2. Typed /\ NothingUnregistered /\ [Next]_vars /\ [UsedApart]_vars => NothingUnregistered'
    <2> SUFFICES ASSUME Typed, NothingUnregistered, [Next]_vars, [UsedApart]_vars PROVE NothingUnregistered'
        OBVIOUS
    <2>1. CASE UNCHANGED vars
        BY <2>1 DEF vars, NothingUnregistered
    <2>2. CASE Next /\ NothingUnregisters
        BY <2>2, OthersUnregisterNothing DEF NothingUnregisters, NothingUnregistered
    <2> QED BY <2>1, <2>2 DEF UsedApart
<1>3. Typed /\ MirrorInv /\ CompleteInv /\ NothingUnregistered => RegisteredIsCached
    <2> SUFFICES ASSUME Typed, MirrorInv, CompleteInv, NothingUnregistered, Quiescent,
                        NEW p \in Wanted, fs[p] # "none"
                 PROVE  p \in Found(directories)
        BY DEF RegisteredIsCached
    <2>1. Located /\ TreesAreFull /\ PendingAreKnown
        BY DEF Quiescent, MirrorInv, CompleteInv, Informed, Complete
    <2>2. Due = {} /\ \A u \in User : registering[u].stage = "idle"
        BY DEF Quiescent, Due, InFlight, Idle
    <2>3. PICK r \in DOMAIN directories : p \in FoundIn(directories[r])
        BY <2>1, <2>2, WantedIsHeld
    <2> QED BY <2>3 DEF Found
<1>4. [UsedApart]_vars => [RegistersApart]_vars
    BY DEF UsedApart
<1>5. Spec /\ [][UsedApart]_vars => []NothingUnregistered
    BY <1>1, <1>2, AlwaysTyped, PTL DEF Spec
<1> QED BY <1>3, <1>4, <1>5, AlwaysTyped, AlwaysInformed, AlwaysComplete, OneIsInOrder, PTL

\* What a run checks: with one registration of depth 0 or more, nothing unregistered and
\* one watcher thread, all of it is found at rest, for every path, disk and number of
\* users and changes (FileCacheDirectoryTree.register, handleEvent).
THEOREM OneRootIsCached ==
    ASSUME -1 \notin Depth, ~SwapsKinds, OneWatcher, MaxRegister = 1, MaxUnregister = 0
    PROVE  Spec => []RegisteredIsCached
BY OneRootIsApart, RegisteredIsCachedApart, PTL
=============================================================================
