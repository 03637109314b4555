--------------------------- MODULE DirectoryRegistry ---------------------------
(***************************************************************************)
(* DirectoryRegistryImpl (DirectoryRegistry.java): the set of directories  *)
(* the user asked to monitor, each with the number of levels below it that *)
(* matter.  The path watchers and the cache ask it, for every file they    *)
(* meet, whether the file is wanted (accept), whether it lies on the way   *)
(* to a wanted one (acceptPrefix) and how deep to look (maxDepthFor).      *)
(*                                                                         *)
(* Every method runs under the lock of the map, so each is one atomic      *)
(* step; the lock may also time out, and the method then does nothing.     *)
(***************************************************************************)
EXTENDS Paths, FiniteSets

CONSTANTS
    Path,      \* the paths that are registered and asked about
    Depth,     \* the maxDepth arguments callers pass
    MaxInt     \* Integer.MAX_VALUE: as a maxDepth it means "no limit"

MinInt == -MaxInt - 1

\* A path has fewer names than an int can count, depths are ints and -1, "the
\* path alone", is the least one a caller passes.
ASSUME RegistryAssumption ==
    /\ MaxInt \in Nat \ {0}
    /\ Depth \subseteq -1..MaxInt
    /\ \A p \in Path : p \in Seq(STRING) /\ Len(p) <= MaxInt

VARIABLE
    registered \* registeredDirectoriesByPath: a map from paths to maxDepths

-----------------------------------------------------------------------------
\* Java's int addition and subtraction.
Int32(n) == IF n > MaxInt THEN n - 2 * (MaxInt + 1)
            ELSE IF n < MinInt THEN n + 2 * (MaxInt + 1)
            ELSE n

\* Mutant: compMaxDepth computed without the test for Integer.MAX_VALUE.
CompMaxDepthOverflows(maxDepth) == Int32(maxDepth + 1)

\* RegisteredDirectory.compMaxDepth: the largest distance a path may have.
CompMaxDepth(maxDepth) == IF maxDepth = MaxInt THEN maxDepth ELSE Int32(maxDepth + 1)

\* RegisteredDirectory.accept
Covers(reg, dir, path) ==
    /\ StartsWith(path, dir)
    /\ \/ path = dir
       \/ Distance(dir, path) <= CompMaxDepth(reg[dir])

Accepts(reg, path) == \E dir \in DOMAIN reg : Covers(reg, dir, path)

\* Mutant: only the directory's own subtree, not the way down to it.
AcceptsNoPrefix(reg, path) == \E dir \in DOMAIN reg : Covers(reg, dir, path)

AcceptsPrefix(reg, path) ==
    \E dir \in DOMAIN reg : StartsWith(dir, path) \/ Covers(reg, dir, path)

\* What each registered directory at or above the path leaves for the path.
DepthsBelow(reg, path) ==
    {Int32(reg[dir] - Distance(dir, path)) : dir \in {d \in DOMAIN reg : StartsWith(path, d)}}

\* The loop of maxDepthFor keeps the largest, from Integer.MIN_VALUE on.
MaxDepthFor(reg, path) ==
    CHOOSE m \in DepthsBelow(reg, path) \cup {MinInt} :
        \A d \in DepthsBelow(reg, path) : d <= m

\* Mutant: a new depth replaces the old one whenever it differs.
ExtendsOnChange(reg, path, maxDepth) == path \in DOMAIN reg => maxDepth # reg[path]

\* addDirectory answers true, and writes, for a new path or a larger maxDepth.
Extends(reg, path, maxDepth) == path \in DOMAIN reg => maxDepth > reg[path]

\* Mutant: the map keeps compMaxDepth in place of maxDepth.
PutCompared(reg, path, maxDepth) ==
    [p \in DOMAIN reg \cup {path} |-> IF p = path THEN CompMaxDepth(maxDepth) ELSE reg[p]]

Put(reg, path, maxDepth) ==
    [p \in DOMAIN reg \cup {path} |-> IF p = path THEN maxDepth ELSE reg[p]]

Without(reg, path) == [p \in DOMAIN reg \ {path} |-> reg[p]]

NoDirectories == [p \in {} |-> 0]
-----------------------------------------------------------------------------
Init == registered = NoDirectories

AddDirectory(path, maxDepth) ==
    /\ Extends(registered, path, maxDepth)
    /\ registered' = Put(registered, path, maxDepth)

RemoveDirectory(path) ==
    /\ path \in DOMAIN registered
    /\ registered' = Without(registered, path)

Close ==
    /\ registered # NoDirectories
    /\ registered' = NoDirectories

Next ==
    \/ \E path \in Path, maxDepth \in Depth : AddDirectory(path, maxDepth)
    \/ \E path \in Path : RemoveDirectory(path)
    \/ Close

Spec == Init /\ [][Next]_registered
-----------------------------------------------------------------------------
\* The map sends paths to depths.
TypeOK ==
    /\ DOMAIN registered \subseteq Path
    /\ registered \in [DOMAIN registered -> Depth]

\* accept and maxDepthFor compute distance and depth by different routes, one
\* through compMaxDepth and one by subtraction, and the cache uses both for the
\* same path (accept to filter a listing, maxDepthFor to bound it).  They agree:
\* a path is accepted exactly when at least its own level remains.
AcceptMatchesMaxDepth ==
    \A p \in Path : Accepts(registered, p) <=> MaxDepthFor(registered, p) >= -1

\* A watcher walks down from a root and enters a directory only when
\* acceptPrefix takes it.  No accepted path is cut off by one of its ancestors.
AcceptedIsReachable ==
    \A p, q \in Path :
        Accepts(registered, p) /\ StartsWith(p, q) => AcceptsPrefix(registered, q)

\* Registering a directory, again or anew, never takes a path away from what
\* is monitored: only unregistering (or closing) does.
AddNeverNarrows ==
    [][DOMAIN registered \subseteq DOMAIN registered'
         => \A p \in Path : Accepts(registered, p) => Accepts(registered', p)]_registered
=============================================================================
