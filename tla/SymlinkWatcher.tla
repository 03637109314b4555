----------------------------- MODULE SymlinkWatcher -----------------------------
(***************************************************************************)
(* SymlinkWatcher.java: maps the targets of symbolic links to the links,   *)
(* watches the targets with a path watcher of its own, and reports a       *)
(* change of a target as a change of its links.                            *)
(*                                                                         *)
(* The inner watcher is NioPathWatcher, reduced to its registry and to the *)
(* promise that every change of an accepted path is reported.  A link      *)
(* always points to the same target; loops of links are not modelled.      *)
(***************************************************************************)
EXTENDS Paths, FiniteSets, Functions

CONSTANTS
    Path,        \* targets, and paths below them
    Link,        \* the symbolic links
    PointsTo,    \* Link -> Path: the real path of each link
    DepthOf,     \* Link -> the maxDepth that addSymlink gets with it
    MaxInt,      \* Integer.MAX_VALUE
    Deletable,   \* the paths that may be deleted
    MaxChanges,  \* bound on the changes of the file system
    MaxAdd,      \* bound on the calls of addSymlink
    MaxRemove    \* bound on the calls of remove

\* A path has fewer names than an int can count, and -1, "the path alone", is the
\* least depth that a caller passes.
ASSUME SymlinkAssumption ==
    /\ PointsTo \in [Link -> Path] /\ Deletable \subseteq Path
    /\ MaxInt \in Nat \ {0} /\ DepthOf \in [Link -> -1..MaxInt]
    /\ \A p \in Path : p \in Seq(STRING) /\ Len(p) <= MaxInt
    /\ {MaxChanges, MaxAdd, MaxRemove} \subseteq Nat

VARIABLES
    fs,         \* the paths that exist
    registered, \* the registry of the inner watcher
    changed,    \* changed paths that the inner watcher has still to report
    handling,   \* the observer of the inner watcher: what it is doing
    watchedSymlinksByTarget, \* target -> links
    adding,     \* links whose addSymlink has passed its first checks
    isClosed,
    monitored,  \* links that were added, and neither removed nor left without target
    missed,     \* monitored links with a change, within their depth, that nobody was
                \* told of
    surplus,    \* link -> how often it was reported since it was last monitored
    budget      \* calls and changes left

vars == <<fs, registered, changed, handling, watchedSymlinksByTarget, adding, isClosed, monitored,
          missed, surplus, budget>>

Depth == {DepthOf[l] : l \in Link}
Registry == INSTANCE DirectoryRegistry

NoTargets == [t \in {} |-> {}]
Resting == [stage |-> "resting", path |-> <<>>, links |-> {}]
-----------------------------------------------------------------------------
(* The file system and the inner watcher *)

\* What a caller of addSymlink asks for: the target as deep as maxDepth.
Wants(l, p) ==
    Registry!Covers([t \in {PointsTo[l]} |-> DepthOf[l]], PointsTo[l], p)

Change(p, after) ==
    /\ budget.changes > 0
    /\ budget' = [budget EXCEPT !.changes = @ - 1]
    /\ fs' = after
    /\ changed' = changed \cup {q \in {p} : Registry!Accepts(registered, q)}
    /\ missed' = missed \cup {l \in monitored : Wants(l, p)}
    /\ UNCHANGED <<registered, handling, watchedSymlinksByTarget, adding, isClosed, monitored,
                   surplus>>

\* p is created or modified.
Touch(p) ==
    /\ \A q \in Path : StrictlyBelow(p, q) => q \in fs
    /\ Change(p, fs \cup {p})

Disappear(p) ==
    /\ p \in fs \cap Deletable /\ ~\E q \in fs : StrictlyBelow(q, p)
    /\ Change(p, fs \ {p})
-----------------------------------------------------------------------------
(* addSymlink: the checks, then the part under the lock *)

AddSymlink(l) ==
    /\ ~isClosed /\ budget.add > 0
    /\ budget' = [budget EXCEPT !.add = @ - 1]
    /\ PointsTo[l] \in fs /\ l \notin adding
    /\ adding' = adding \cup {l}
    /\ UNCHANGED <<fs, registered, changed, handling, watchedSymlinksByTarget, isClosed, monitored,
                   missed, surplus>>

\* targetRegistrationPath.paths.add(path)
WithLink(map, l) == [map EXCEPT ![PointsTo[l]] = @ \cup {l}]

\* watcher.register answers true when it extends what it watches.
AddLocked(l) ==
    LET target == PointsTo[l]
        extends == Registry!MaxDepthFor(registered, target) < DepthOf[l]
    IN /\ l \in adding
       /\ adding' = adding \ {l}
       /\ monitored' = monitored \cup {l}
       /\ \/ /\ target \in DOMAIN watchedSymlinksByTarget
             /\ watchedSymlinksByTarget' = WithLink(watchedSymlinksByTarget, l)
             /\ UNCHANGED registered
          \/ /\ target \notin DOMAIN watchedSymlinksByTarget /\ extends
             /\ registered' = Registry!Put(registered, target, DepthOf[l])
             /\ watchedSymlinksByTarget' = With(watchedSymlinksByTarget, target, {l})
          \/ /\ target \notin DOMAIN watchedSymlinksByTarget /\ ~extends
             /\ UNCHANGED <<registered, watchedSymlinksByTarget>>
       /\ surplus' = [surplus EXCEPT ![l] = 0]
       /\ UNCHANGED <<fs, changed, handling, isClosed, missed, budget>>
-----------------------------------------------------------------------------
(* remove *)

\* Mutant: a link is taken away only where others remain.
LastLinkStays(map, l) == [t \in DOMAIN map |-> IF map[t] = {l} THEN {l} ELSE map[t] \ {l}]

WithoutLink(map, l) == [t \in {s \in DOMAIN map : map[s] # {l}} |-> map[t] \ {l}]

\* The registration with the inner watcher stays.
Remove(l) ==
    /\ ~isClosed /\ budget.remove > 0
    /\ budget' = [budget EXCEPT !.remove = @ - 1]
    /\ watchedSymlinksByTarget' = WithoutLink(watchedSymlinksByTarget, l)
    /\ monitored' = monitored \ {l}
    /\ missed' = missed \ {l}
    /\ UNCHANGED <<fs, registered, changed, handling, adding, isClosed, surplus>>
-----------------------------------------------------------------------------
(* onNext, the observer of the inner watcher *)

\* Mutant: the parents of path are not searched.
FindTargetItself(path) == {path} \cap DOMAIN watchedSymlinksByTarget

\* find: the nearest target at or above path.
FindTarget(path) ==
    {t \in DOMAIN watchedSymlinksByTarget :
        /\ StartsWith(path, t)
        /\ \A s \in DOMAIN watchedSymlinksByTarget : StartsWith(path, s) => Len(s) <= Len(t)}

Collect(p) ==
    /\ p \in changed /\ handling = Resting
    /\ changed' = changed \ {p}
    /\ handling' = IF isClosed THEN Resting
                   ELSE [stage |-> "collected", path |-> p,
                         links |-> UNION {watchedSymlinksByTarget[t] : t \in FindTarget(p)}]
    /\ UNCHANGED <<fs, registered, watchedSymlinksByTarget, adding, isClosed, monitored, missed,
                   surplus, budget>>

\* Files.exists(path), with no lock held: the path may come back, and links may come
\* and go, before a target that was found missing is dropped.
CheckTarget ==
    /\ handling.stage = "collected"
    /\ handling' = [handling EXCEPT !.stage = IF handling.path \in fs THEN "checked" ELSE "missing"]
    /\ UNCHANGED <<fs, registered, changed, watchedSymlinksByTarget, adding, isClosed, monitored,
                   missed, surplus, budget>>

\* A target that was missing is forgotten.  The inner watcher is told only when the
\* target has no links left, which is never so: the target stays registered.
DropTarget ==
    LET dropped == {handling.path} \cap DOMAIN watchedSymlinksByTarget
    IN /\ handling.stage = "missing"
       /\ handling' = [handling EXCEPT !.stage = "checked"]
       /\ watchedSymlinksByTarget' =
            Restrict(watchedSymlinksByTarget, DOMAIN watchedSymlinksByTarget \ dropped)
       /\ monitored' = monitored \ UNION {watchedSymlinksByTarget[t] : t \in dropped}
       /\ UNCHANGED <<fs, registered, changed, adding, isClosed, missed, surplus, budget>>

\* The event of a link says what its path is by now.
Notify ==
    /\ handling.stage = "checked"
    /\ handling' = Resting
    /\ missed' = (missed \ handling.links) \cap monitored
    /\ surplus' = [l \in Link |->
                     surplus[l] + (IF l \in handling.links \ monitored THEN 1 ELSE 0)]
    /\ UNCHANGED <<fs, registered, changed, watchedSymlinksByTarget, adding, isClosed, monitored,
                   budget>>

Close ==
    /\ ~isClosed
    /\ isClosed' = TRUE
    /\ watchedSymlinksByTarget' = NoTargets
    /\ monitored' = {} /\ missed' = {}
    /\ UNCHANGED <<fs, registered, changed, handling, adding, surplus, budget>>
-----------------------------------------------------------------------------
Init ==
    /\ fs \in {f \in SUBSET Path : \A p \in f, q \in Path : StartsWith(p, q) => q \in f}
    /\ registered = Registry!NoDirectories
    /\ changed = {}
    /\ handling = Resting
    /\ watchedSymlinksByTarget = NoTargets
    /\ adding = {}
    /\ isClosed = FALSE
    /\ monitored = {} /\ missed = {} /\ surplus = [l \in Link |-> 0]
    /\ budget = [changes |-> MaxChanges, add |-> MaxAdd, remove |-> MaxRemove]

Next ==
    \/ \E p \in Path : Touch(p) \/ Disappear(p) \/ Collect(p)
    \/ \E l \in Link : AddSymlink(l) \/ AddLocked(l) \/ Remove(l)
    \/ CheckTarget \/ DropTarget \/ Notify \/ Close

Spec == Init /\ [][Next]_vars
-----------------------------------------------------------------------------
\* The map of targets holds no link that was removed or lost its target, and no
\* target without links, however remove, the observer and addSymlink of other links
\* interleave.
OnlyMonitored ==
    \A t \in DOMAIN watchedSymlinksByTarget :
        watchedSymlinksByTarget[t] \in (SUBSET monitored) \ {{}}

\* A link that was removed, or that lost its target, is reported once more at most: by
\* the observer that had looked it up before.  The observer lets go of the lock before
\* it notifies, so a last event after remove is what the code allows; two are not.
RemovedFallsSilent == \A l \in Link : surplus[l] <= 1

\* A link that the map of targets holds is told of every change of its target within
\* its depth, however late it was added and whichever links come and go beside it:
\* once the observer has handled all that the inner watcher reported, none of these
\* links has a target that changed since the link was last looked at.
HeldLinksAreTold ==
    ~isClosed /\ changed = {} /\ handling = Resting =>
        \A t \in DOMAIN watchedSymlinksByTarget : watchedSymlinksByTarget[t] \cap missed = {}

\* "When the symlink target is modified, the watcher will detect the update and
\* invoke a provided Consumer for the symlink" (SymlinkWatcher.java:36-37): the
\* same for every link that was added and not removed.
LinksAreTold ==
    ~isClosed /\ changed = {} /\ handling = Resting => missed = {}

\* A target is forgotten because it is gone: not so when it comes back, and with it a
\* link, between Files.exists and the lock (SymlinkWatcher.java:83-84).
OnlyGoneTargetsAreDropped == [][DropTarget => handling.path \notin fs]_vars
=============================================================================
