-------------------------- MODULE PollingPathWatcherProofs --------------------------
(***************************************************************************)
(* First DirectoryRegistry: its properties, for every set of paths and of  *)
(* depths and every width of int.                                          *)
(*                                                                         *)
(* Then why the polling watcher misses nothing although its two monitors   *)
(* exclude nothing from each other: an entry that is out of date stays out *)
(* of date, because last modified times do not come back.  For every file  *)
(* system, every number of users and every choice of depths.               *)
(***************************************************************************)
EXTENDS PollingPathWatcher, WellFoundedInduction, TLAPS

-----------------------------------------------------------------------------
(* Paths *)

\* Two prefixes of a path are prefixes of one another.
LEMMA PrefixesAreOrdered ==
    ASSUME NEW p \in Path, NEW q \in Path, NEW r \in Path,
           StartsWith(p, q), StartsWith(p, r)
    PROVE  StartsWith(q, r) \/ StartsWith(r, q)
<1>1. Len(q) \in Nat /\ Len(r) \in Nat /\ Len(p) \in Nat
    BY RegistryAssumption
<1>2. CASE Len(r) <= Len(q)
    BY <1>1, <1>2 DEF StartsWith
<1>3. CASE Len(q) <= Len(r)
    BY <1>1, <1>3 DEF StartsWith
<1> QED BY <1>1, <1>2, <1>3

\* The number of names between a path and one of its prefixes is a natural
\* number that an int can hold, and is zero only for the path itself.
LEMMA DistanceIsNat ==
    ASSUME NEW p \in Path, NEW q \in Path, StartsWith(p, q)
    PROVE  /\ Distance(q, p) \in 0..MaxInt
           /\ Distance(q, p) = 0 => p = q
<1>1. Len(q) \in Nat /\ Len(p) \in Nat /\ Len(q) <= Len(p) /\ Len(p) <= MaxInt
    BY RegistryAssumption DEF StartsWith
<1>2. Distance(q, p) \in 0..MaxInt
    BY <1>1, RegistryAssumption DEF Distance
<1>3. ASSUME Distance(q, p) = 0 PROVE p = q
    <2>1. Len(p) = Len(q)
        BY <1>1, <1>3 DEF Distance
    <2>2. p \in Seq(STRING) /\ q \in Seq(STRING)
        BY RegistryAssumption
    <2>3. \A i \in 1..Len(q) : p[i] = q[i]
        BY DEF StartsWith
    <2> QED BY <2>1, <2>2, <2>3
<1> QED BY <1>2, <1>3

\* A path below q lies at least as far below a prefix of q as q does.
LEMMA DistanceGrows ==
    ASSUME NEW p \in Path, NEW q \in Path, NEW r \in Path,
           StartsWith(p, q), StartsWith(q, r)
    PROVE  StartsWith(p, r) /\ Distance(r, q) <= Distance(r, p)
<1>1. Len(q) \in Nat /\ Len(r) \in Nat /\ Len(p) \in Nat
    BY RegistryAssumption
<1> QED BY <1>1 DEF StartsWith, Distance
-----------------------------------------------------------------------------
(* Type correctness *)

\* The methods of the registry write maps from paths to depths.
LEMMA RegistryKeepsType == TypeOK /\ [Next]_registered => TypeOK'
<1> SUFFICES ASSUME TypeOK, [Next]_registered
             PROVE  TypeOK'
    OBVIOUS
<1>1. ASSUME NEW path \in Path, NEW maxDepth \in Depth, AddDirectory(path, maxDepth)
      PROVE  TypeOK'
    BY <1>1 DEF TypeOK, AddDirectory, Put
<1>2. ASSUME NEW path \in Path, RemoveDirectory(path)
      PROVE  TypeOK'
    BY <1>2 DEF TypeOK, RemoveDirectory, Without
<1>3. CASE Close
    BY <1>3 DEF TypeOK, Close, NoDirectories
<1>4. CASE UNCHANGED registered
    BY <1>4 DEF TypeOK
<1> QED BY <1>1, <1>2, <1>3, <1>4 DEF Next

\* The registry stays a map from paths to depths (DirectoryRegistryImpl).
THEOREM RegistryTypeCorrect == Spec => []TypeOK
<1>1. Init => TypeOK
    BY DEF Init, TypeOK, NoDirectories
<1> QED BY <1>1, RegistryKeepsType, PTL DEF Spec
-----------------------------------------------------------------------------
(* Depths *)

\* A nonempty set of ints has a largest element: the loop of maxDepthFor
\* computes one.
LEMMA LargestInt ==
    ASSUME NEW S \in SUBSET (MinInt..MaxInt), S # {}
    PROVE  \E m \in S : \A n \in S : n <= m
<1> DEFINE gap == {MaxInt - n : n \in S}
           less == {ss \in Nat \X Nat : ss[1] < ss[2]}
<1>0. MaxInt \in Nat /\ MinInt \in Int
    BY RegistryAssumption DEF MinInt
<1>1. gap \subseteq Nat /\ gap # {}
    <2>1. ASSUME NEW n \in S PROVE MaxInt - n \in Nat
        BY <1>0
    <2> QED BY <2>1
<1>2. less = OpToRel(<, Nat)
    BY Zenon DEF OpToRel
<1>3. PICK least \in gap : \A g \in gap : ~ (<<g, least>> \in less)
    <2> HIDE DEF gap, less
    <2>1. IsWellFoundedOn(less, Nat)
        BY <1>2, NatLessThanWellFounded
    <2> QED BY <1>1, <2>1, WFMin
<1>4. \A g \in gap : least <= g
    <2> SUFFICES ASSUME NEW g \in gap PROVE least <= g
        OBVIOUS
    <2>1. ~ (<<g, least>> \in less)
        BY <1>3
    <2>2. g \in Nat /\ least \in Nat
        BY <1>1
    <2> HIDE DEF gap
    <2> QED BY <2>1, <2>2
<1>5. PICK m \in S : least = MaxInt - m
    OBVIOUS
<1>6. \A n \in S : n <= m
    <2> SUFFICES ASSUME NEW n \in S PROVE n <= m
        OBVIOUS
    <2>1. MaxInt - n \in gap
        OBVIOUS
    <2>2. MaxInt - m <= MaxInt - n
        BY <1>4, <1>5, <2>1
    <2> QED BY <2>2, <1>0
<1> QED BY <1>6

\* No subtraction of maxDepthFor and no addition of compMaxDepth overflows.
LEMMA NoOverflow ==
    ASSUME TypeOK, NEW p \in Path, NEW dir \in DOMAIN registered, StartsWith(p, dir)
    PROVE  /\ Int32(registered[dir] - Distance(dir, p)) = registered[dir] - Distance(dir, p)
           /\ registered[dir] - Distance(dir, p) \in MinInt..MaxInt
           /\ CompMaxDepth(registered[dir])
                = IF registered[dir] = MaxInt THEN MaxInt ELSE registered[dir] + 1
<1>1. MaxInt \in Nat /\ registered[dir] \in -1..MaxInt
    BY RegistryAssumption DEF TypeOK
<1>2. Distance(dir, p) \in 0..MaxInt
    BY DistanceIsNat DEF TypeOK
<1> QED BY <1>1, <1>2 DEF Int32, CompMaxDepth, MinInt

\* What maxDepthFor answers: an upper bound of what the registered directories
\* leave for the path, and one of these values unless there is none.
LEMMA MaxDepthForIsLargest ==
    ASSUME TypeOK, NEW p \in Path
    PROVE  /\ MaxDepthFor(registered, p) \in DepthsBelow(registered, p) \cup {MinInt}
           /\ \A d \in DepthsBelow(registered, p) : d <= MaxDepthFor(registered, p)
<1> DEFINE S == DepthsBelow(registered, p)
<1>0. MaxInt \in Nat
    BY RegistryAssumption
<1>1. S \in SUBSET (MinInt..MaxInt)
    BY NoOverflow DEF DepthsBelow
<1>2. \E m \in S \cup {MinInt} : \A d \in S : d <= m
    <2>1. CASE S = {}
        BY <2>1
    <2>2. CASE S # {}
        BY <1>1, <2>2, LargestInt
    <2> QED BY <2>1, <2>2
<1> HIDE DEF S
<1> QED BY <1>2 DEF MaxDepthFor, S

\* A directory covers a path exactly when it leaves the path its own level.
LEMMA CoversMeansLevelLeft ==
    ASSUME TypeOK, NEW p \in Path, NEW dir \in DOMAIN registered, StartsWith(p, dir)
    PROVE  Covers(registered, dir, p) <=> registered[dir] - Distance(dir, p) >= -1
<1>1. MaxInt \in Nat /\ registered[dir] \in -1..MaxInt /\ dir \in Path
    BY RegistryAssumption DEF TypeOK
<1>2. Distance(dir, p) \in 0..MaxInt
    BY <1>1, DistanceIsNat
<1>3. CASE p = dir
    <2>1. Distance(dir, p) = 0
        BY <1>3, <1>1, RegistryAssumption DEF Distance
    <2> QED BY <1>1, <1>3, <2>1 DEF Covers
<1>4. CASE p # dir
    BY <1>1, <1>2, <1>4, NoOverflow DEF Covers
<1> QED BY <1>3, <1>4

\* In a well typed registry, accept and maxDepthFor agree on every path.
LEMMA AcceptMatches == TypeOK => AcceptMatchesMaxDepth
<1> SUFFICES ASSUME TypeOK, NEW p \in Path
             PROVE  Accepts(registered, p) <=> MaxDepthFor(registered, p) >= -1
    BY DEF AcceptMatchesMaxDepth
<1> DEFINE S == DepthsBelow(registered, p)
<1>0. MaxInt \in Nat \ {0} /\ DOMAIN registered \subseteq Path
    BY RegistryAssumption DEF TypeOK
<1>1. S \subseteq MinInt..MaxInt
    BY NoOverflow DEF DepthsBelow
<1>2. ASSUME Accepts(registered, p) PROVE MaxDepthFor(registered, p) >= -1
    <2>1. PICK dir \in DOMAIN registered : Covers(registered, dir, p)
        BY <1>2 DEF Accepts
    <2>2. StartsWith(p, dir)
        BY <2>1 DEF Covers
    <2>3. registered[dir] - Distance(dir, p) \in S
        BY <2>2, NoOverflow DEF DepthsBelow
    <2>4. registered[dir] - Distance(dir, p) >= -1
        BY <2>1, <2>2, CoversMeansLevelLeft
    <2>5. registered[dir] - Distance(dir, p) <= MaxDepthFor(registered, p)
        BY <2>3, MaxDepthForIsLargest
    <2>6. MaxDepthFor(registered, p) \in Int /\ registered[dir] - Distance(dir, p) \in Int
        BY <1>0, <1>1, <2>3, MaxDepthForIsLargest DEF MinInt
    <2> QED BY <2>4, <2>5, <2>6
<1>3. ASSUME MaxDepthFor(registered, p) >= -1 PROVE Accepts(registered, p)
    <2>1. MaxDepthFor(registered, p) \in S
        BY <1>0, <1>3, MaxDepthForIsLargest DEF MinInt
    <2>2. PICK dir \in DOMAIN registered :
              /\ StartsWith(p, dir)
              /\ MaxDepthFor(registered, p) = Int32(registered[dir] - Distance(dir, p))
        BY <2>1 DEF DepthsBelow
    <2>3. registered[dir] - Distance(dir, p) >= -1
        BY <1>3, <2>2, NoOverflow
    <2>4. Covers(registered, dir, p)
        BY <2>2, <2>3, CoversMeansLevelLeft
    <2> QED BY <2>4 DEF Accepts
<1> QED BY <1>2, <1>3

\* accept and maxDepthFor of DirectoryRegistryImpl agree, whatever the
\* registered depths and however deep the path.
THEOREM AcceptAgreesWithMaxDepth == Spec => []AcceptMatchesMaxDepth
BY RegistryTypeCorrect, AcceptMatches, PTL
-----------------------------------------------------------------------------
(* Reachability and monotonicity *)

\* In a well typed registry, every path above an accepted one is taken by
\* acceptPrefix.
LEMMA PrefixOfAccepted == TypeOK => AcceptedIsReachable
<1> SUFFICES ASSUME TypeOK, NEW p \in Path, NEW q \in Path,
                    Accepts(registered, p), StartsWith(p, q)
             PROVE  AcceptsPrefix(registered, q)
    BY DEF AcceptedIsReachable
<1>1. PICK dir \in DOMAIN registered : Covers(registered, dir, p)
    BY DEF Accepts
<1>2. dir \in Path /\ StartsWith(p, dir)
    BY <1>1 DEF Covers, TypeOK
<1>3. CASE StartsWith(dir, q)
    BY <1>3 DEF AcceptsPrefix
<1>4. CASE StartsWith(q, dir)
    <2>1. Distance(dir, q) <= Distance(dir, p)
        BY <1>2, <1>4, DistanceGrows
    <2>2. Distance(dir, q) \in Int /\ Distance(dir, p) \in Int /\ registered[dir] \in Int
        BY <1>2, <1>4, DistanceIsNat, RegistryAssumption DEF TypeOK
    <2>3. registered[dir] - Distance(dir, p) >= -1
        BY <1>1, <1>2, CoversMeansLevelLeft
    <2>4. Covers(registered, dir, q)
        BY <1>4, <2>1, <2>2, <2>3, CoversMeansLevelLeft
    <2> QED BY <2>4 DEF AcceptsPrefix
<1> QED BY <1>2, <1>3, <1>4, PrefixesAreOrdered

\* A watcher that descends along acceptPrefix reaches every accepted path.
THEOREM AcceptedPathsAreReachable == Spec => []AcceptedIsReachable
BY RegistryTypeCorrect, PrefixOfAccepted, PTL

\* A larger depth covers whatever a smaller one covers.
LEMMA DeeperCoversMore ==
    ASSUME NEW p \in Path, NEW dir \in Path, StartsWith(p, dir),
           NEW reg, NEW bigger, reg[dir] \in Depth, bigger[dir] \in Depth,
           reg[dir] <= bigger[dir], Covers(reg, dir, p)
    PROVE  Covers(bigger, dir, p)
<1>1. MaxInt \in Nat /\ reg[dir] \in -1..MaxInt /\ bigger[dir] \in -1..MaxInt
    BY RegistryAssumption
<1>2. Distance(dir, p) \in 0..MaxInt
    BY DistanceIsNat
<1>3. CompMaxDepth(reg[dir]) <= CompMaxDepth(bigger[dir])
    BY <1>1 DEF CompMaxDepth, Int32, MinInt
<1>4. CompMaxDepth(reg[dir]) \in Int /\ CompMaxDepth(bigger[dir]) \in Int
    BY <1>1 DEF CompMaxDepth, Int32, MinInt
<1> QED BY <1>2, <1>3, <1>4 DEF Covers

\* addDirectory keeps accepting every path that was accepted before it.
LEMMA AddStepNeverNarrows ==
    ASSUME TypeOK, NEW path \in Path, NEW maxDepth \in Depth, AddDirectory(path, maxDepth),
           NEW p \in Path, Accepts(registered, p)
    PROVE  Accepts(registered', p)
<1>1. PICK dir \in DOMAIN registered : Covers(registered, dir, p)
    BY DEF Accepts
<1>2. dir \in Path /\ StartsWith(p, dir) /\ registered[dir] \in Depth
    BY <1>1 DEF Covers, TypeOK
<1>3. dir \in DOMAIN registered' /\ registered'[dir] \in Depth
    BY <1>2 DEF AddDirectory, Put
<1>4. registered[dir] <= registered'[dir]
    <2>0. \A d \in Depth : d \in Int
        BY RegistryAssumption
    <2>1. registered[dir] \in Int /\ maxDepth \in Int
        BY <1>2, <2>0
    <2>2. CASE dir = path
        BY <2>1, <2>2 DEF AddDirectory, Extends, Put
    <2>3. CASE dir # path
        BY <2>1, <2>3 DEF AddDirectory, Put
    <2> QED BY <2>2, <2>3
<1>5. Covers(registered', dir, p)
    BY <1>1, <1>2, <1>3, <1>4, DeeperCoversMore
<1> QED BY <1>3, <1>5 DEF Accepts

\* Only removeDirectory and close take a path away from what is monitored.
THEOREM RegisteringNeverNarrows == Spec => AddNeverNarrows
<1>1. TypeOK /\ [Next]_registered
        => [DOMAIN registered \subseteq DOMAIN registered'
             => \A p \in Path : Accepts(registered, p) => Accepts(registered', p)]_registered
    <2> SUFFICES ASSUME TypeOK, Next, DOMAIN registered \subseteq DOMAIN registered',
                        NEW p \in Path, Accepts(registered, p)
                 PROVE  Accepts(registered', p)
        OBVIOUS
    <2>1. ASSUME NEW path \in Path, NEW maxDepth \in Depth, AddDirectory(path, maxDepth)
          PROVE  Accepts(registered', p)
        BY <2>1, AddStepNeverNarrows
    <2>2. ASSUME NEW path \in Path, RemoveDirectory(path) PROVE FALSE
        BY <2>2 DEF RemoveDirectory, Without
    <2>3. ASSUME Close PROVE FALSE
        BY <2>3 DEF Close, NoDirectories, TypeOK
    <2> QED BY <2>1, <2>2, <2>3 DEF Next
<1> QED BY <1>1, RegistryTypeCorrect, PTL DEF Spec, AddNeverNarrows
-----------------------------------------------------------------------------
(* The inductive invariant *)

\* The last modified time of the latest change.
Clock == MaxChanges - budget.changes + 1

\* Listings hold times that were on the clock, and registries depths.
Stamped(entries) ==
    DOMAIN entries \subseteq Path /\ \A p \in DOMAIN entries : entries[p] \in 1..Clock
Depths(reg) == DOMAIN reg \subseteq Path /\ \A p \in DOMAIN reg : reg[p] \in Depth

\* The paths that a listing of dir to maxDepth may hold.
InReach(dir, maxDepth, p) ==
    StartsWith(p, dir) /\ (p = dir \/ maxDepth = MaxInt \/ Distance(dir, p) - 1 <= maxDepth)

\* The file system: what exists has its parents, and nothing is newer than the clock.
FileSystem ==
    /\ budget = [changes |-> budget.changes, register |-> budget.register,
                 unregister |-> budget.unregister]
    /\ budget.changes \in 0..MaxChanges
    /\ fs \in [Path -> 0..Clock]
    /\ \A p, q \in Path : StartsWith(p, q) /\ fs[p] # Missing => fs[q] # Missing

\* The watcher: every listing it keeps was made some time.
Listings ==
    /\ Depths(registered)
    /\ poll = [stage |-> poll.stage, todo |-> poll.todo, newEntries |-> poll.newEntries]
    /\ Depths(poll.todo)
    /\ Stamped(oldEntries) /\ Stamped(poll.newEntries)
    /\ DOMAIN registering = User
    /\ \A u \in User :
        \/ registering[u] = Idle
        \/ /\ registering[u].path \in Path /\ registering[u].depth \in Depth
           /\ Stamped(registering[u].entries)
           /\ \A p \in DOMAIN registering[u].entries :
                InReach(registering[u].path, registering[u].depth, p)

\* The listing that the next poll compares with.
Compared == IF poll.stage = "diffed" THEN poll.newEntries ELSE oldEntries

\* What is compared is known, unless it is out of date already.
KnownInStep ==
    \A p \in AllEntries(registered) :
        p \in DOMAIN Compared /\ Compared[p] = fs[p] => p \in DOMAIN known /\ known[p] = fs[p]

PollInv == FileSystem /\ Listings /\ KnownInStep
-----------------------------------------------------------------------------
(* Paths, listings and what is registered *)

\* A path starts with itself, and with what its parent starts with.
LEMMA Ancestors ==
    ASSUME NEW p \in Path
    PROVE  /\ StartsWith(p, p)
           /\ \A q \in Path : StrictlyBelow(p, q) =>
                Len(p) > 1 /\ Parent(p) \in Path /\ StartsWith(Parent(p), q)
<1>1. p \in Seq(STRING) /\ Len(p) \in Nat /\ Len(p) >= 1
    BY PollingAssumption, RegistryAssumption
<1>2. StartsWith(p, p)
    BY <1>1 DEF StartsWith
<1>3. ASSUME NEW q \in Path, StrictlyBelow(p, q)
      PROVE  Len(p) > 1 /\ Parent(p) \in Path /\ StartsWith(Parent(p), q)
    <2>1. q \in Seq(STRING) /\ Len(q) \in Nat /\ Len(q) >= 1 /\ Len(q) <= Len(p)
        BY <1>3, PollingAssumption, RegistryAssumption DEF StrictlyBelow, StartsWith
    <2>2. \A i \in 1..Len(q) : p[i] = q[i]
        BY <1>3 DEF StrictlyBelow, StartsWith
    <2>3. Len(q) # Len(p)
        BY <1>1, <1>3, <2>1, <2>2 DEF StrictlyBelow
    <2>4. Len(p) > 1 /\ Parent(p) \in Path
        BY <1>1, <2>1, <2>3, PollingAssumption, RegistryAssumption
    <2>5. Len(Parent(p)) = Len(p) - 1 /\ \A i \in 1..Len(p) - 1 : Parent(p)[i] = p[i]
        <3> DEFINE n == Len(p) - 1
        <3>1. n \in Nat /\ n < Len(p) /\ Parent(p) = SubSeq(p, 1, n)
            BY <1>1 DEF Parent
        <3> HIDE DEF n
        <3>2. Len(SubSeq(p, 1, n)) = n /\ \A i \in 1..n : SubSeq(p, 1, n)[i] = p[i]
            BY <1>1, <3>1
        <3> QED BY <3>1, <3>2 DEF n
    <2>6. StartsWith(Parent(p), q)
        BY <1>1, <2>1, <2>2, <2>3, <2>5 DEF StartsWith
    <2> QED BY <2>4, <2>6
<1> QED BY <1>2, <1>3

\* A listing holds what exists within its reach, and says of it when it was modified.
LEMMA ListedNow ==
    ASSUME FileSystem, NEW dir \in Path, NEW maxDepth
    PROVE  /\ \A p \in Path : p \in DOMAIN GetEntries(dir, maxDepth)
                                <=> fs[p] # Missing /\ InReach(dir, maxDepth, p)
           /\ DOMAIN GetEntries(dir, maxDepth) \subseteq Path
           /\ \A p \in DOMAIN GetEntries(dir, maxDepth) : GetEntries(dir, maxDepth)[p] = fs[p]
           /\ Stamped(GetEntries(dir, maxDepth))
<1> DEFINE below == {q \in Path : /\ StrictlyBelow(q, dir) /\ fs[q] # Missing
                                  /\ maxDepth = MaxInt \/ Distance(dir, q) - 1 <= maxDepth}
           listed == IF fs[dir] = Missing THEN {} ELSE {dir} \cup below
<1>1. GetEntries(dir, maxDepth) = [p \in listed |-> fs[p]]
    BY DEF GetEntries, Restrict
<1>2. DOMAIN GetEntries(dir, maxDepth) = listed
    BY <1>1
<1>3. listed \subseteq Path /\ \A p \in listed : fs[p] # Missing
    OBVIOUS
<1>4. ASSUME NEW p \in Path PROVE p \in listed <=> fs[p] # Missing /\ InReach(dir, maxDepth, p)
    <2>1. StartsWith(dir, dir)
        BY Ancestors
    <2>2. fs[p] # Missing /\ StartsWith(p, dir) => fs[dir] # Missing
        BY DEF FileSystem
    <2> QED BY <2>1, <2>2 DEF StrictlyBelow, InReach
<1> HIDE DEF listed
<1>5. \A p \in listed : GetEntries(dir, maxDepth)[p] = fs[p]
    BY <1>1
<1>6. ASSUME NEW p \in listed PROVE fs[p] \in 1..Clock
    BY <1>3, PollingAssumption, RegistryAssumption DEF FileSystem, Missing, Clock
<1>7. Stamped(GetEntries(dir, maxDepth))
    BY <1>2, <1>3, <1>5, <1>6 DEF Stamped
<1> QED BY <1>2, <1>3, <1>4, <1>5, <1>7

\* One listing added to another.
LEMMA StampedAdded ==
    ASSUME NEW a, NEW b, Stamped(a), Stamped(b)
    PROVE  Stamped(WithAll(a, b))
BY DEF Stamped, WithAll

\* What the registered directories hold is accepted.
LEMMA EntriesAccepted ==
    ASSUME FileSystem, NEW reg, Depths(reg), NEW p \in AllEntries(reg)
    PROVE  Accepts(reg, p)
<1>1. PICK dir \in DOMAIN reg : p \in Path /\ p \in DOMAIN GetEntries(dir, reg[dir])
    BY DEF AllEntries
<1>2. dir \in Path /\ reg[dir] \in Depth /\ reg[dir] \in -1..MaxInt
    BY PollingAssumption, RegistryAssumption DEF Depths
<1>3. InReach(dir, reg[dir], p)
    BY <1>1, <1>2, ListedNow
<1>4. Len(p) \in Nat /\ Len(p) <= MaxInt /\ Len(dir) \in Nat /\ MaxInt \in Nat
    BY <1>1, <1>2, PollingAssumption, RegistryAssumption
<1>5. p # dir => Distance(dir, p) <= CompMaxDepth(reg[dir])
    BY <1>2, <1>3, <1>4 DEF InReach, Distance, CompMaxDepth, Int32, MinInt
<1>6. Covers(reg, dir, p)
    BY <1>3, <1>5 DEF InReach, Covers
<1> QED BY <1>6 DEF Accepts
-----------------------------------------------------------------------------
(* Every step keeps the invariant *)

\* Nothing is registered and nothing is known.
LEMMA PollInit == PollingInit => PollInv
<1> SUFFICES ASSUME PollingInit PROVE PollInv
    OBVIOUS
<1>1. /\ registered = NoDirectories /\ oldEntries = NoEntries /\ poll = Sleeping
      /\ registering = [u \in User |-> Idle]
      /\ budget = [changes |-> MaxChanges, register |-> MaxRegister, unregister |-> MaxUnregister]
    BY DEF PollingInit
<1>2. MaxChanges \in Nat /\ Clock = 1
    BY <1>1, PollingAssumption, RegistryAssumption DEF Clock
<1>3. FileSystem
    <2>1. fs \in [Path -> 0..Clock]
        BY <1>2 DEF PollingInit, Missing
    <2>2. \A p, q \in Path : StartsWith(p, q) /\ fs[p] # Missing => fs[q] # Missing
        BY DEF PollingInit
    <2> QED BY <1>1, <1>2, <2>1, <2>2 DEF FileSystem
<1>4. Depths(registered) /\ Depths(NoEntries) /\ Stamped(NoEntries)
    BY <1>1 DEF Depths, Stamped, NoEntries, NoDirectories
<1>5. Listings
    BY <1>1, <1>4 DEF Listings, Sleeping
<1>6. KnownInStep
    BY <1>1 DEF KnownInStep, AllEntries, NoDirectories
<1> QED BY <1>3, <1>5, <1>6 DEF PollInv

\* A step that leaves the file system alone leaves all listings as they were.
LEMMA SameFileSystem ==
    ASSUME FileSystem, UNCHANGED fs, UNCHANGED budget.changes,
           budget' = [changes |-> budget'.changes, register |-> budget'.register,
                      unregister |-> budget'.unregister]
    PROVE  /\ FileSystem' /\ Clock' = Clock
           /\ \A e : Stamped(e) => Stamped(e)'
           /\ \A d, m : GetEntries(d, m)' = GetEntries(d, m)
           /\ \A reg : AllEntries(reg)' = AllEntries(reg)
<1>1. Clock' = Clock
    BY DEF Clock
<1>2. FileSystem'
    BY <1>1 DEF FileSystem
<1>3. \A e : Stamped(e) => Stamped(e)'
    BY <1>1 DEF Stamped
<1>4. \A d, m : GetEntries(d, m)' = GetEntries(d, m)
    BY DEF GetEntries
<1>5. \A reg : AllEntries(reg)' = AllEntries(reg)
    BY <1>4 DEF AllEntries
<1> QED BY <1>1, <1>2, <1>3, <1>4, <1>5

\* A change is one less of the budget.
LEMMA ChangeSpent ==
    ASSUME budget = [changes |-> budget.changes, register |-> budget.register,
                     unregister |-> budget.unregister],
           budget' = [budget EXCEPT !.changes = @ - 1]
    PROVE  budget' = [changes |-> budget.changes - 1, register |-> budget.register,
                      unregister |-> budget.unregister]
OBVIOUS

\* A change makes what was listed of the path out of date, for ever.
LEMMA ChangeKeeps ==
    ASSUME PollInv, NEW p \in Path, Touch(p) \/ Disappear(p)
    PROVE  PollInv'
<1> USE PollingAssumption, RegistryAssumption DEF Missing
<1>1. PICK stamp : /\ Change(p, stamp)
                   /\ \/ stamp = Clock + 1 /\ (Len(p) > 1 => fs[Parent(p)] # Missing)
                      \/ /\ stamp = 0 /\ fs[p] # Missing
                         /\ \A q \in Path : StrictlyBelow(q, p) => fs[q] = Missing
    BY DEF Touch, Disappear, PollInv, FileSystem, Clock
<1>2. /\ fs' = [fs EXCEPT ![p] = stamp] /\ budget' = [budget EXCEPT !.changes = @ - 1]
      /\ budget.changes > 0
      /\ UNCHANGED <<registered, oldEntries, poll, registering, closing, known>>
    BY <1>1 DEF Change
<1>3. /\ budget.changes \in 1..MaxChanges /\ budget'.changes = budget.changes - 1
      /\ budget' = [changes |-> budget'.changes, register |-> budget'.register,
                    unregister |-> budget'.unregister]
    <2>1. budget = [changes |-> budget.changes, register |-> budget.register,
                    unregister |-> budget.unregister]
        BY DEF PollInv, FileSystem
    <2>2. budget' = [changes |-> budget.changes - 1, register |-> budget.register,
                     unregister |-> budget.unregister]
        BY <1>2, <2>1, ChangeSpent, Zenon
    <2>3. budget.changes \in 0..MaxChanges
        BY DEF PollInv, FileSystem
    <2>4. budget.changes > 0
        BY <1>2
    <2>5. budget'.changes = budget.changes - 1
        BY <2>2
    <2>6. budget' = [changes |-> budget'.changes, register |-> budget'.register,
                     unregister |-> budget'.unregister]
        BY <2>2
    <2>7. budget.changes \in 1..MaxChanges
        BY <2>3, <2>4
    <2> QED BY <2>5, <2>6, <2>7
<1>4. Clock \in Nat /\ Clock' = Clock + 1
    BY <1>3 DEF Clock
<1>5. fs \in [Path -> 0..Clock]
    BY DEF PollInv, FileSystem
<1>6. FileSystem'
    <2>1. fs' \in [Path -> 0..Clock']
        BY <1>1, <1>2, <1>4, <1>5
    <2>2. ASSUME NEW r \in Path, NEW q \in Path, StartsWith(r, q), fs'[r] # Missing
          PROVE  fs'[q] # Missing
        <3>1. CASE r = p
            <4>1. CASE q = p
                BY <2>2, <3>1, <4>1
            <4>2. CASE q # p
                <5>1. StrictlyBelow(p, q) /\ stamp # 0
                    BY <1>1, <1>2, <1>5, <2>2, <3>1, <4>2 DEF StrictlyBelow
                <5>2. Len(p) > 1 /\ Parent(p) \in Path /\ StartsWith(Parent(p), q)
                    BY <5>1, Ancestors
                <5>3. fs[q] # Missing
                    BY <1>1, <5>1, <5>2 DEF PollInv, FileSystem
                <5> QED BY <1>2, <1>5, <4>2, <5>3
            <4> QED BY <4>1, <4>2
        <3>2. CASE r # p
            <4>1. fs[r] # Missing /\ fs[q] # Missing
                BY <1>2, <1>5, <2>2, <3>2 DEF PollInv, FileSystem
            <4>2. q = p => stamp # 0
                <5>1. q = p => StrictlyBelow(r, p)
                    BY <2>2, <3>2 DEF StrictlyBelow
                <5> QED BY <1>1, <1>4, <4>1, <5>1
            <4> QED BY <1>2, <1>5, <4>1, <4>2
        <3> QED BY <3>1, <3>2
    <2>3. budget'.changes \in 0..MaxChanges
        BY <1>3
    <2> QED BY <1>3, <2>1, <2>2, <2>3 DEF FileSystem
<1>7. \A e : Stamped(e) => Stamped(e)'
    BY <1>4 DEF Stamped
<1>8. Listings'
    BY <1>2, <1>7 DEF PollInv, Listings, Depths, Idle, NoEntries
<1>9. KnownInStep'
    <2>1. Compared' = Compared /\ Stamped(Compared)
        BY <1>2 DEF Compared, PollInv, Listings
    <2>2. ASSUME NEW q, q \in AllEntries(registered)', q \in DOMAIN Compared, Compared[q] = fs'[q]
          PROVE  q # p /\ fs'[q] = fs[q] /\ q \in AllEntries(registered)
        <3>1. q \in Path /\ Compared[q] \in 1..Clock
            BY <2>1, <2>2 DEF Stamped
        <3>2. q # p /\ fs'[q] = fs[q] /\ fs[q] # Missing
            BY <1>1, <1>2, <1>4, <1>5, <2>2, <3>1
        <3>3. PICK dir \in DOMAIN registered : q \in DOMAIN GetEntries(dir, registered[dir])'
            BY <1>2, <2>2 DEF AllEntries
        <3>4. StartsWith(q, dir) /\ InReach(dir, registered[dir], q) /\ dir \in Path
            <4>1. StartsWith(q, q)
                BY <3>1, Ancestors
            <4>2. dir \in Path
                BY DEF PollInv, Listings, Depths
            <4> QED BY <1>2, <3>3, <4>1, <4>2 DEF GetEntries, Restrict, InReach, StrictlyBelow
        <3>5. q \in DOMAIN GetEntries(dir, registered[dir])
            BY <3>1, <3>2, <3>4, ListedNow DEF PollInv
        <3> QED BY <3>1, <3>2, <3>5 DEF AllEntries
    <2> QED BY <1>2, <2>1, <2>2 DEF PollInv, KnownInStep
<1> QED BY <1>6, <1>8, <1>9 DEF PollInv

\* The listing of register: the file system may have moved on when it is added.
LEMMA RegisterKeeps ==
    ASSUME PollInv, NEW u \in User, NEW path \in Path, NEW maxDepth \in Depth,
           Register(u, path, maxDepth)
    PROVE  PollInv'
<1> DEFINE entries == GetEntries(path, maxDepth)
           call == [path |-> path, depth |-> maxDepth, entries |-> entries]
<1>1. /\ registering' = [registering EXCEPT ![u] = call]
      /\ budget' = [budget EXCEPT !.register = @ - 1]
      /\ UNCHANGED <<fs, registered, oldEntries, poll, known>>
    BY DEF Register
<1>2. /\ budget'.changes = budget.changes
      /\ budget' = [changes |-> budget'.changes, register |-> budget'.register,
                    unregister |-> budget'.unregister]
    BY <1>1 DEF PollInv, FileSystem
<1>3. /\ FileSystem' /\ \A e : Stamped(e) => Stamped(e)'
      /\ \A reg : AllEntries(reg)' = AllEntries(reg)
    BY <1>1, <1>2, SameFileSystem DEF PollInv
<1>4. Stamped(entries) /\ \A p \in DOMAIN entries : InReach(path, maxDepth, p)
    BY ListedNow DEF PollInv
<1> HIDE DEF entries
<1>5. Listings'
    BY <1>1, <1>3, <1>4 DEF PollInv, Listings, Depths, Idle
<1>6. KnownInStep'
    BY <1>1, <1>3 DEF PollInv, KnownInStep, Compared
<1> QED BY <1>3, <1>5, <1>6 DEF PollInv

\* Its synchronized part: what it adds to the old entries and is still true the caller
\* has just seen for itself.
LEMMA RegisteredKeeps ==
    ASSUME PollInv, NEW u \in User, Registered(u)
    PROVE  PollInv'
<1> DEFINE call == registering[u]
           seen == GetEntries(call.path, call.depth)
<1>1. /\ call # Idle
      /\ registering' = [registering EXCEPT ![u] = Idle]
      /\ oldEntries' = WithAll(oldEntries, call.entries)
      /\ registered' = IF Extends(registered, call.path, call.depth)
                       THEN Put(registered, call.path, call.depth) ELSE registered
      /\ known' = WithAll(known, seen)
      /\ UNCHANGED <<fs, poll, budget>>
    BY DEF Registered, AddAll
<1>2. /\ call.path \in Path /\ call.depth \in Depth /\ Stamped(call.entries)
      /\ \A p \in DOMAIN call.entries : InReach(call.path, call.depth, p)
    BY <1>1 DEF PollInv, Listings
<1>3. /\ FileSystem' /\ \A e : Stamped(e) => Stamped(e)'
      /\ \A reg : AllEntries(reg)' = AllEntries(reg)
    BY <1>1, SameFileSystem DEF PollInv, FileSystem
<1>4. Depths(registered')
    BY <1>1, <1>2 DEF PollInv, Listings, Depths, Put
<1>5. Stamped(oldEntries')
    BY <1>1, <1>2, StampedAdded DEF PollInv, Listings
<1>6. Listings'
    BY <1>1, <1>3, <1>4, <1>5 DEF PollInv, Listings, Depths, Idle
<1>7. KnownInStep'
    <2> SUFFICES ASSUME NEW p, p \in AllEntries(registered)', p \in DOMAIN Compared',
                        Compared'[p] = fs'[p]
                 PROVE  p \in DOMAIN known' /\ known'[p] = fs'[p]
        BY DEF KnownInStep
    <2>1. p \in AllEntries(registered')
        BY <1>3
    <2>2. PICK dir \in DOMAIN registered' : p \in Path /\ p \in DOMAIN GetEntries(dir, registered'[dir])
        BY <2>1 DEF AllEntries
    <2>3. CASE p \in DOMAIN seen
        <3>1. seen[p] = fs[p]
            BY <1>2, <2>3, ListedNow DEF PollInv
        <3> HIDE DEF seen
        <3> QED BY <1>1, <2>3, <3>1 DEF WithAll
    <2>4. CASE p \notin DOMAIN seen
        <3>1. dir \in DOMAIN registered /\ registered'[dir] = registered[dir]
            BY <1>1, <2>2, <2>4 DEF Put
        <3>2. p \in AllEntries(registered) /\ fs[p] # Missing
            <4>1. dir \in Path
                BY <3>1 DEF PollInv, Listings, Depths
            <4> QED BY <2>2, <3>1, <4>1, ListedNow DEF AllEntries, PollInv
        <3>3. p \notin DOMAIN call.entries
            BY <1>2, <2>2, <2>4, <3>2, ListedNow DEF PollInv
        <3> HIDE DEF seen, call
        <3>4. p \in DOMAIN Compared /\ Compared[p] = fs[p]
            BY <1>1, <3>3 DEF Compared, WithAll
        <3>5. p \in DOMAIN known /\ known[p] = fs[p]
            BY <3>2, <3>4 DEF PollInv, KnownInStep
        <3> QED BY <1>1, <2>4, <3>5 DEF WithAll
    <2> QED BY <2>3, <2>4
<1> QED BY <1>3, <1>6, <1>7 DEF PollInv

\* unregister and close: the caller forgets no more than what is accepted no more.
LEMMA UnregisterKeeps ==
    ASSUME PollInv, CloseRegistry \/ CloseTask \/ \E u \in User, path \in Path : Unregister(u, path)
    PROVE  PollInv'
<1>1. CASE CloseRegistry \/ CloseTask
    <2>1. /\ UNCHANGED <<fs, oldEntries, poll, registering, known, budget>>
          /\ registered' \in {registered, NoDirectories}
        BY <1>1 DEF CloseRegistry, CloseTask
    <2>2. /\ FileSystem' /\ \A e : Stamped(e) => Stamped(e)'
          /\ \A reg : AllEntries(reg)' = AllEntries(reg)
        BY <2>1, SameFileSystem DEF PollInv, FileSystem
    <2>3. Depths(registered') /\ AllEntries(registered') \subseteq AllEntries(registered)
        BY <2>1 DEF PollInv, Listings, Depths, AllEntries, NoDirectories
    <2>4. Listings'
        BY <2>1, <2>2, <2>3 DEF PollInv, Listings, Depths, Idle
    <2>5. KnownInStep'
        BY <2>1, <2>2, <2>3 DEF PollInv, KnownInStep, Compared
    <2> QED BY <2>2, <2>4, <2>5 DEF PollInv
<1>2. ASSUME NEW u \in User, NEW path \in Path, Unregister(u, path)
      PROVE  PollInv'
    <2>1. /\ budget' = [budget EXCEPT !.unregister = @ - 1]
          /\ registered' = Without(registered, path)
          /\ known' = Restrict(known, {p \in DOMAIN known : Accepts(registered', p)})
          /\ UNCHANGED <<fs, oldEntries, poll, registering>>
        BY <1>2 DEF Unregister
    <2>2. /\ budget'.changes = budget.changes
          /\ budget' = [changes |-> budget'.changes, register |-> budget'.register,
                        unregister |-> budget'.unregister]
        BY <2>1 DEF PollInv, FileSystem
    <2>3. /\ FileSystem' /\ \A e : Stamped(e) => Stamped(e)'
          /\ \A reg : AllEntries(reg)' = AllEntries(reg)
        BY <2>1, <2>2, SameFileSystem DEF PollInv
    <2>4. Depths(registered') /\ AllEntries(registered') \subseteq AllEntries(registered)
        BY <2>1 DEF PollInv, Listings, Depths, AllEntries, Without
    <2>5. \A p \in AllEntries(registered') : Accepts(registered', p)
        BY <2>4, EntriesAccepted DEF PollInv
    <2>6. Listings'
        BY <2>1, <2>3, <2>4 DEF PollInv, Listings, Depths, Idle
    <2>7. KnownInStep'
        BY <2>1, <2>3, <2>4, <2>5 DEF PollInv, KnownInStep, Compared, Restrict
    <2> QED BY <2>3, <2>6, <2>7 DEF PollInv
<1> QED BY <1>1, <1>2

\* A poll: what it does not report was known before, and what it takes from the
\* observer it no longer compares with.
LEMMA PollKeeps ==
    ASSUME PollInv, PollStart \/ PollDiff \/ PollSwap \/ \E dir \in Path : PollList(dir)
    PROVE  PollInv'
<1>1. UNCHANGED <<fs, registered, registering, budget>>
    BY DEF PollStart, PollDiff, PollSwap, PollList
<1>2. /\ FileSystem' /\ \A e : Stamped(e) => Stamped(e)'
      /\ \A reg : AllEntries(reg)' = AllEntries(reg)
    BY <1>1, SameFileSystem DEF PollInv, FileSystem
<1>3. /\ Depths(registered) /\ Depths(poll.todo)
      /\ poll = [stage |-> poll.stage, todo |-> poll.todo, newEntries |-> poll.newEntries]
      /\ Stamped(oldEntries) /\ Stamped(poll.newEntries)
    BY DEF PollInv, Listings
<1>4. Stamped(NoEntries) /\ Depths(NoEntries)
    BY DEF Stamped, Depths, NoEntries
<1>5. ASSUME poll' = [stage |-> poll'.stage, todo |-> poll'.todo, newEntries |-> poll'.newEntries],
             Depths(poll'.todo), Stamped(oldEntries'), Stamped(poll'.newEntries)
      PROVE  Listings'
    BY <1>1, <1>2, <1>5 DEF PollInv, Listings, Depths, Idle
<1>6. CASE PollStart
    <2>1. /\ poll' = [stage |-> "listing", todo |-> registered, newEntries |-> NoEntries]
          /\ poll.stage = "sleeping" /\ UNCHANGED <<oldEntries, known>>
        BY <1>6 DEF PollStart, Sleeping
    <2>2. KnownInStep'
        BY <1>1, <1>2, <2>1 DEF PollInv, KnownInStep, Compared
    <2> QED BY <1>2, <1>3, <1>4, <1>5, <2>1, <2>2 DEF PollInv
<1>7. ASSUME NEW dir \in Path, PollList(dir)
      PROVE  PollInv'
    <2> DEFINE entries == GetEntries(dir, poll.todo[dir])
               todo == Restrict(poll.todo, DOMAIN poll.todo \ {dir})
    <2>1. /\ poll' = [stage |-> poll.stage, todo |-> todo,
                      newEntries |-> WithAll(poll.newEntries, entries)]
          /\ poll.stage = "listing" /\ UNCHANGED <<oldEntries, known>>
        BY <1>3, <1>7 DEF PollList, AddAll
    <2>2. Depths(todo)
        BY <1>3 DEF Depths, Restrict
    <2>3. Stamped(WithAll(poll.newEntries, entries))
        <3>1. Stamped(entries)
            BY ListedNow DEF PollInv
        <3> QED BY <1>3, <3>1, StampedAdded
    <2> HIDE DEF entries, todo
    <2>4. KnownInStep'
        BY <1>1, <1>2, <2>1 DEF PollInv, KnownInStep, Compared
    <2> QED BY <1>2, <1>3, <1>5, <2>1, <2>2, <2>3, <2>4 DEF PollInv
<1>8. CASE PollDiff
    <2> DEFINE new == poll.newEntries
               gone == DOMAIN oldEntries \ DOMAIN new
    <2>1. /\ poll' = [stage |-> "diffed", todo |-> poll.todo, newEntries |-> new]
          /\ poll.stage = "listing" /\ UNCHANGED oldEntries
          /\ known' = WithAll(Restrict(known, DOMAIN known \ gone),
                              Restrict(new, Reported(oldEntries, new)))
        BY <1>3, <1>8 DEF PollDiff
    <2>2. KnownInStep'
        <3> SUFFICES ASSUME NEW p \in AllEntries(registered), p \in DOMAIN new, new[p] = fs[p]
                     PROVE  p \in DOMAIN known' /\ known'[p] = fs[p]
            BY <1>1, <1>2, <2>1 DEF KnownInStep, Compared
        <3> HIDE DEF new
        <3>1. CASE p \in Reported(oldEntries, new)
            BY <2>1, <3>1 DEF WithAll, Restrict
        <3>2. CASE p \notin Reported(oldEntries, new)
            <4>1. p \in DOMAIN oldEntries /\ oldEntries[p] = fs[p]
                BY <3>2 DEF Reported
            <4>2. p \in DOMAIN known /\ known[p] = fs[p]
                BY <2>1, <4>1 DEF PollInv, KnownInStep, Compared
            <4> QED BY <2>1, <3>2, <4>2 DEF WithAll, Restrict
        <3> QED BY <3>1, <3>2
    <2> QED BY <1>2, <1>3, <1>5, <2>1, <2>2 DEF PollInv
<1>9. CASE PollSwap
    <2>1. /\ poll' = [stage |-> "sleeping", todo |-> NoEntries, newEntries |-> NoEntries]
          /\ poll.stage = "diffed" /\ oldEntries' = poll.newEntries /\ UNCHANGED known
        BY <1>9 DEF PollSwap, Sleeping
    <2>2. KnownInStep'
        BY <1>1, <1>2, <2>1 DEF PollInv, KnownInStep, Compared
    <2> QED BY <1>2, <1>3, <1>4, <1>5, <2>1, <2>2 DEF PollInv
<1> QED BY <1>6, <1>7, <1>8, <1>9

\* Every step keeps the invariant.
LEMMA PollStep == PollInv /\ [PollingNext]_vars => PollInv'
<1> SUFFICES ASSUME PollInv, [PollingNext]_vars PROVE PollInv'
    OBVIOUS
<1>1. CASE UNCHANGED vars
    <2>1. UNCHANGED <<fs, registered, oldEntries, poll, registering, known, budget>>
        BY <1>1 DEF vars
    <2>2. /\ FileSystem' /\ \A e : Stamped(e) => Stamped(e)'
          /\ \A reg : AllEntries(reg)' = AllEntries(reg)
        BY <2>1, SameFileSystem DEF PollInv, FileSystem
    <2>3. Listings'
        BY <2>1, <2>2 DEF PollInv, Listings, Depths, Idle
    <2>4. KnownInStep'
        BY <2>1, <2>2 DEF PollInv, KnownInStep, Compared
    <2> QED BY <2>2, <2>3, <2>4 DEF PollInv
<1>2. CASE PollingNext
    BY <1>2, ChangeKeeps, RegisterKeeps, RegisteredKeeps, UnregisterKeeps, PollKeeps DEF PollingNext
<1> QED BY <1>1, <1>2

\* For every file system and every number of threads that register and unregister while
\* polls run: once a poll has listed what is there, an observer knows all of it, although
\* `register` and the polling thread lock different monitors and overwrite each other's
\* entries (`synchronized (this)` at PollingPathWatcher.java:69, :135 and :181).
THEOREM PollingMissesNothing == PollingSpec => []NothingMissed
<1>1. PollInv => NothingMissed
    <2> SUFFICES ASSUME PollInv, UpToDate, NEW p \in AllEntries(registered)
                 PROVE  p \in DOMAIN known /\ known[p] = fs[p]
        BY DEF NothingMissed
    <2>1. poll.stage = "sleeping" /\ oldEntries = Restrict(fs, AllEntries(registered))
        BY DEF UpToDate, Sleeping
    <2>2. p \in DOMAIN oldEntries /\ oldEntries[p] = fs[p]
        BY <2>1 DEF Restrict
    <2> QED BY <2>1, <2>2 DEF PollInv, KnownInStep, Compared
<1> QED BY <1>1, PollInit, PollStep, PTL DEF PollingSpec
-----------------------------------------------------------------------------
(* The watcher and its registry *)

\* What the watcher does to its registry is what the registry's own specification
\* allows, although users register, unregister and close while polls run: so the
\* four theorems about DirectoryRegistry hold inside of the watcher too.
THEOREM PollingUsesRegistry == PollingSpec => Spec
<1>1. PollingInit => Init /\ TypeOK
    BY DEF PollingInit, Init, TypeOK, NoDirectories
<1>2. PollInv /\ TypeOK /\ [PollingNext]_vars => [Next]_registered
    <2> SUFFICES ASSUME PollInv, TypeOK, [PollingNext]_vars, registered' # registered PROVE Next
        OBVIOUS
    <2>1. ASSUME NEW u \in User, Registered(u) PROVE Next
        <3>1. registering[u].path \in Path /\ registering[u].depth \in Depth
            BY <2>1 DEF Registered, PollInv, Listings
        <3> QED BY <2>1, <3>1 DEF Registered, AddDirectory, Next
    <2>2. ASSUME NEW u \in User, NEW path \in Path, Unregister(u, path) PROVE Next
        <3>1. registered' = [p \in DOMAIN registered \ {path} |-> registered[p]]
            BY <2>2 DEF Unregister, Without
        <3>2. path \in DOMAIN registered
            <4> SUFFICES ASSUME path \notin DOMAIN registered PROVE FALSE
                OBVIOUS
            <4>1. DOMAIN registered \ {path} = DOMAIN registered
                OBVIOUS
            <4>2. registered = [p \in DOMAIN registered |-> registered[p]]
                BY DEF TypeOK
            <4> QED BY <3>1, <4>1, <4>2
        <3> QED BY <2>2, <3>2 DEF Unregister, RemoveDirectory, Next
    <2>3. CASE CloseRegistry
        BY <2>3 DEF CloseRegistry, Close, Next
    <2>4. ASSUME NEW p \in Path, Disappear(p) \/ PollList(p) \/ Touch(p) PROVE FALSE
        BY <2>4 DEF Disappear, PollList, Touch, Change
    <2>5. ASSUME NEW u \in User, NEW p \in Path, NEW d \in Depth, Register(u, p, d) PROVE FALSE
        BY <2>5 DEF Register
    <2>6. CASE PollStart \/ PollDiff \/ PollSwap \/ CloseTask \/ UNCHANGED vars
        BY <2>6 DEF PollStart, PollDiff, PollSwap, CloseTask, vars
    <2> QED BY <2>1, <2>2, <2>3, <2>4, <2>5, <2>6 DEF PollingNext
<1> QED BY <1>1, <1>2, RegistryKeepsType, PollInit, PollStep, PTL DEF PollingSpec, Spec
=============================================================================
