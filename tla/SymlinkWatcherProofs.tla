--------------------------- MODULE SymlinkWatcherProofs ---------------------------
(***************************************************************************)
(* The map from targets to links of SymlinkWatcher, for every set of paths *)
(* and of links, wherever the links point.                                 *)
(***************************************************************************)
EXTENDS SymlinkWatcher, TLAPS

\* A link is held by no target but its own, so that a target that is dropped takes
\* its links from no other.
LinksByTarget ==
    \A t \in DOMAIN watchedSymlinksByTarget :
        /\ watchedSymlinksByTarget[t] # {}
        /\ watchedSymlinksByTarget[t] \subseteq {l \in monitored : PointsTo[l] = t}

\* addSymlink, under the lock.
LEMMA AddKeepsLinks ==
    ASSUME LinksByTarget, NEW l \in Link, AddLocked(l)
    PROVE  LinksByTarget'
<1> DEFINE target == PointsTo[l]
<1>1. monitored' = monitored \cup {l}
    BY DEF AddLocked
<1>2. CASE target \in DOMAIN watchedSymlinksByTarget
    <2>1. watchedSymlinksByTarget' = [watchedSymlinksByTarget EXCEPT ![target] = @ \cup {l}]
        BY <1>2 DEF AddLocked, WithLink
    <2> QED BY <1>1, <1>2, <2>1 DEF LinksByTarget
<1>3. CASE watchedSymlinksByTarget' = With(watchedSymlinksByTarget, target, {l})
    <2>1. /\ DOMAIN watchedSymlinksByTarget' = {target} \cup DOMAIN watchedSymlinksByTarget
          /\ watchedSymlinksByTarget'[target] = {l}
          /\ \A t \in DOMAIN watchedSymlinksByTarget \ {target} :
                watchedSymlinksByTarget'[t] = watchedSymlinksByTarget[t]
        BY <1>3 DEF With
    <2> QED BY <1>1, <2>1 DEF LinksByTarget
<1>4. CASE UNCHANGED watchedSymlinksByTarget
    BY <1>1, <1>4 DEF LinksByTarget
<1> QED BY <1>2, <1>3, <1>4 DEF AddLocked

\* remove, under the lock.
LEMMA RemoveKeepsLinks ==
    ASSUME LinksByTarget, NEW l \in Link, Remove(l)
    PROVE  LinksByTarget'
<1>1. monitored' = monitored \ {l}
    BY DEF Remove
<1>2. /\ DOMAIN watchedSymlinksByTarget' =
            {t \in DOMAIN watchedSymlinksByTarget : watchedSymlinksByTarget[t] # {l}}
      /\ \A t \in DOMAIN watchedSymlinksByTarget' :
            watchedSymlinksByTarget'[t] = watchedSymlinksByTarget[t] \ {l}
    BY DEF Remove, WithoutLink
<1> QED BY <1>1, <1>2 DEF LinksByTarget

\* A target that was missing is dropped, in the second region of the observer.
LEMMA DropKeepsLinks ==
    ASSUME LinksByTarget, DropTarget
    PROVE  LinksByTarget'
<1> DEFINE dropped == {handling.path} \cap DOMAIN watchedSymlinksByTarget
<1>1. /\ DOMAIN watchedSymlinksByTarget' = DOMAIN watchedSymlinksByTarget \ dropped
      /\ \A t \in DOMAIN watchedSymlinksByTarget' :
            watchedSymlinksByTarget'[t] = watchedSymlinksByTarget[t]
    BY DEF DropTarget, Restrict
<1>2. monitored' = monitored \ UNION {watchedSymlinksByTarget[t] : t \in dropped}
    BY DEF DropTarget
<1> SUFFICES ASSUME NEW t \in DOMAIN watchedSymlinksByTarget'
             PROVE  /\ watchedSymlinksByTarget'[t] # {}
                    /\ watchedSymlinksByTarget'[t] \subseteq {l \in monitored' : PointsTo[l] = t}
    BY DEF LinksByTarget
<1>3. ASSUME NEW l \in watchedSymlinksByTarget[t], NEW s \in dropped
      PROVE  l \notin watchedSymlinksByTarget[s]
    BY <1>1, <1>3 DEF LinksByTarget
<1> QED BY <1>1, <1>2, <1>3 DEF LinksByTarget

\* Every other step leaves the map alone, or empties it.
LEMMA LinksInductive == LinksByTarget /\ [Next]_vars => LinksByTarget'
<1> SUFFICES ASSUME LinksByTarget, [Next]_vars PROVE LinksByTarget'
    OBVIOUS
<1>1. CASE UNCHANGED <<watchedSymlinksByTarget, monitored>>
    BY <1>1 DEF LinksByTarget
<1>2. CASE Close
    BY <1>2 DEF Close, NoTargets, LinksByTarget
<1>3. CASE \E p \in Path : Touch(p) \/ Disappear(p) \/ Collect(p)
    BY <1>1, <1>3 DEF Touch, Disappear, Change, Collect
<1>4. CASE \E l \in Link : AddSymlink(l)
    BY <1>1, <1>4 DEF AddSymlink
<1>5. CASE CheckTarget \/ Notify \/ UNCHANGED vars
    BY <1>1, <1>5 DEF CheckTarget, Notify, vars
<1> QED BY <1>2, <1>3, <1>4, <1>5, AddKeepsLinks, RemoveKeepsLinks, DropKeepsLinks DEF Next

\* The map keeps no target without links and no link that was removed or lost its
\* target, in whatever order addSymlink, remove, the two regions of the observer and
\* close take the lock (SymlinkWatcher.java).
THEOREM OnlyMonitoredLinksAreHeld == Spec => []OnlyMonitored
<1>1. Init => LinksByTarget
    BY DEF Init, NoTargets, LinksByTarget
<1>2. LinksByTarget => OnlyMonitored
    BY DEF LinksByTarget, OnlyMonitored
<1> QED BY <1>1, <1>2, LinksInductive, PTL DEF Spec

\* A link is monitored, or about to be reported for the last time, or has been.
Silence ==
    /\ surplus \in [Link -> 0..1]
    /\ \A l \in Link : l \in monitored => surplus[l] = 0
    /\ \A l \in Link : l \in handling.links => surplus[l] = 0
    /\ handling = [stage |-> handling.stage, path |-> handling.path, links |-> handling.links]

LEMMA SilenceKept ==
    ASSUME Silence, UNCHANGED <<surplus, handling>>, monitored' \subseteq monitored
    PROVE  Silence'
BY DEF Silence

\* addSymlink begins anew.
LEMMA AddIsSilent ==
    ASSUME Silence, NEW l \in Link, AddLocked(l)
    PROVE  Silence'
<1>1. /\ surplus' = [surplus EXCEPT ![l] = 0] /\ monitored' = monitored \cup {l}
      /\ UNCHANGED handling
    BY DEF AddLocked
<1> QED BY <1>1 DEF Silence

\* The observer looks up links that are monitored.
LEMMA CollectIsSilent ==
    ASSUME Silence, LinksByTarget, NEW p \in Path, Collect(p)
    PROVE  Silence'
<1> DEFINE links == UNION {watchedSymlinksByTarget[t] : t \in FindTarget(p)}
<1>1. /\ UNCHANGED <<surplus, monitored>>
      /\ handling' = Resting \/ handling' = [stage |-> "collected", path |-> p, links |-> links]
    BY DEF Collect
<1>2. links \subseteq monitored
    BY DEF FindTarget, LinksByTarget
<1> HIDE DEF links
<1> QED BY <1>1, <1>2 DEF Silence, Resting

LEMMA CheckIsSilent ==
    ASSUME Silence, CheckTarget \/ DropTarget
    PROVE  Silence'
<1>1. PICK stage : /\ handling' = [handling EXCEPT !.stage = stage]
                   /\ UNCHANGED surplus /\ monitored' \subseteq monitored
    BY DEF CheckTarget, DropTarget
<1>2. [handling EXCEPT !.stage = stage] =
        [stage |-> stage, path |-> handling.path, links |-> handling.links]
    BY DEF Silence
<1>3. handling' = [stage |-> stage, path |-> handling.path, links |-> handling.links]
    BY <1>1, <1>2
<1> QED BY <1>1, <1>3 DEF Silence

\* A link that was removed meanwhile is reported once, and then no observer holds it.
LEMMA NotifyIsSilent ==
    ASSUME Silence, Notify
    PROVE  Silence'
<1>1. /\ handling' = Resting /\ UNCHANGED monitored
      /\ surplus' = [l \in Link |->
                       surplus[l] + (IF l \in handling.links \ monitored THEN 1 ELSE 0)]
    BY DEF Notify
<1>2. ASSUME NEW l \in Link
      PROVE  surplus'[l] \in 0..1 /\ (l \in monitored => surplus'[l] = 0)
    BY <1>1 DEF Silence
<1>3. surplus' \in [Link -> 0..1]
    BY <1>1, <1>2
<1> QED BY <1>1, <1>2, <1>3 DEF Silence, Resting

LEMMA SilenceInductive == LinksByTarget /\ Silence /\ [Next]_vars => Silence'
<1> SUFFICES ASSUME LinksByTarget, Silence, [Next]_vars PROVE Silence'
    OBVIOUS
<1>1. CASE \E p \in Path : Touch(p) \/ Disappear(p)
    BY <1>1, SilenceKept DEF Touch, Disappear, Change
<1>2. CASE \E l \in Link : AddSymlink(l) \/ Remove(l)
    BY <1>2, SilenceKept DEF AddSymlink, Remove
<1>3. CASE Close \/ UNCHANGED vars
    BY <1>3, SilenceKept DEF Close, vars
<1> QED BY <1>1, <1>2, <1>3, AddIsSilent, CollectIsSilent, CheckIsSilent, NotifyIsSilent DEF Next

\* A link that was removed, or lost its target, is reported once more at most until it
\* is added again, however many changes follow and wherever the observer stands when
\* remove takes the lock (SymlinkWatcher.java:72-107).
THEOREM RemovedLinksFallSilent == Spec => []RemovedFallsSilent
<1>1. Init => LinksByTarget /\ Silence
    BY DEF Init, NoTargets, LinksByTarget, Silence, Resting
<1>2. Silence => RemovedFallsSilent
    BY DEF Silence, RemovedFallsSilent
<1> QED BY <1>1, <1>2, LinksInductive, SilenceInductive, PTL DEF Spec
-----------------------------------------------------------------------------
(* Who is told.  Two things must not be, each of which is known to leave a    *)
(* link without its events: a target below another, and links of one target   *)
(* with different depths.                                                     *)

TargetsAreApart ==
    \A l, m \in Link : StartsWith(PointsTo[l], PointsTo[m]) => PointsTo[l] = PointsTo[m]

DepthsAgree ==
    \A l, m \in Link : PointsTo[l] = PointsTo[m] => DepthOf[l] = DepthOf[m]

Alike == TargetsAreApart /\ DepthsAgree

\* Targets that have links are registered with the inner watcher, with their depth.
TargetsRegistered ==
    /\ DOMAIN watchedSymlinksByTarget \subseteq DOMAIN registered
    /\ DOMAIN registered \subseteq {PointsTo[l] : l \in Link}
    /\ \A l \in Link : PointsTo[l] \in DOMAIN registered => registered[PointsTo[l]] = DepthOf[l]

\* A link is held by its target from the beginning, or its target was dropped and
\* is registered for ever: the inner watcher then refuses it.
HeldOrRefused ==
    /\ monitored \cup missed \subseteq Link
    /\ \A l \in monitored \cup missed :
        /\ PointsTo[l] \in DOMAIN registered
        /\ PointsTo[l] \in DOMAIN watchedSymlinksByTarget =>
             l \in watchedSymlinksByTarget[PointsTo[l]]

\* A held link whose target changed has an event that is not handled yet.
EventIsThere(t, l) ==
    \/ \E p \in changed : StartsWith(p, t)
    \/ handling.stage # "resting" /\ l \in handling.links

MissedIsPending ==
    ~isClosed => \A t \in DOMAIN watchedSymlinksByTarget :
        \A l \in watchedSymlinksByTarget[t] \cap missed : EventIsThere(t, l)

HandlingTyped ==
    handling = [stage |-> handling.stage, path |-> handling.path, links |-> handling.links]

ToldInv ==
    LinksByTarget /\ TargetsRegistered /\ HeldOrRefused /\ MissedIsPending /\ HandlingTyped
    /\ changed \subseteq Path
-----------------------------------------------------------------------------
(* Paths and the registry of the inner watcher *)

\* No path lies below two targets.
LEMMA OneTargetAbove ==
    ASSUME Alike, NEW l \in Link, NEW m \in Link, NEW p \in Path,
           StartsWith(p, PointsTo[l]), StartsWith(p, PointsTo[m])
    PROVE  PointsTo[l] = PointsTo[m]
<1>1. PointsTo[l] \in Path /\ PointsTo[m] \in Path
    BY SymlinkAssumption
<1>2. Len(p) \in Nat /\ Len(PointsTo[l]) \in Nat /\ Len(PointsTo[m]) \in Nat
    BY <1>1, SymlinkAssumption
<1>3. CASE Len(PointsTo[m]) <= Len(PointsTo[l])
    <2>1. StartsWith(PointsTo[l], PointsTo[m])
        BY <1>2, <1>3 DEF StartsWith
    <2> QED BY <2>1 DEF Alike, TargetsAreApart
<1>4. CASE Len(PointsTo[l]) <= Len(PointsTo[m])
    <2>1. StartsWith(PointsTo[m], PointsTo[l])
        BY <1>2, <1>4 DEF StartsWith
    <2> QED BY <2>1 DEF Alike, TargetsAreApart
<1> QED BY <1>2, <1>3, <1>4

\* So that find, which looks for the nearest one, finds the target above a path.
LEMMA TargetIsFound ==
    ASSUME Alike, TargetsRegistered, NEW p \in Path,
           NEW t \in DOMAIN watchedSymlinksByTarget, StartsWith(p, t)
    PROVE  t \in FindTarget(p)
<1> SUFFICES ASSUME NEW s \in DOMAIN watchedSymlinksByTarget, StartsWith(p, s)
             PROVE  Len(s) <= Len(t)
    BY DEF FindTarget
<1>1. PICK l \in Link : t = PointsTo[l]
    BY DEF TargetsRegistered
<1>2. PICK m \in Link : s = PointsTo[m]
    BY DEF TargetsRegistered
<1>3. s = t
    BY <1>1, <1>2, OneTargetAbove
<1>4. Len(t) \in Nat
    BY <1>1, SymlinkAssumption
<1> QED BY <1>3, <1>4

\* The inner watcher reports what the links of a registered target ask for.
LEMMA WantedIsAccepted ==
    ASSUME TargetsRegistered, NEW p \in Path, NEW l \in Link,
           PointsTo[l] \in DOMAIN registered, Wants(l, p)
    PROVE  StartsWith(p, PointsTo[l]) /\ Registry!Accepts(registered, p)
<1> DEFINE t == PointsTo[l]
           asked == [d \in {t} |-> DepthOf[l]]
<1>1. registered[t] = DepthOf[l] /\ asked[t] = DepthOf[l]
    BY DEF TargetsRegistered
<1>2. Registry!Covers(asked, t, p)
    BY DEF Wants
<1> HIDE DEF asked
<1>3. Registry!Covers(registered, t, p)
    BY <1>1, <1>2 DEF Registry!Covers
<1>4. StartsWith(p, t)
    BY <1>2 DEF Registry!Covers, Registry!StartsWith, StartsWith
<1> QED BY <1>3, <1>4 DEF Registry!Accepts

\* register answers true for a target exactly when it is new.
LEMMA OnlyNewTargetsExtend ==
    ASSUME Alike, TargetsRegistered, NEW l \in Link
    PROVE  Registry!MaxDepthFor(registered, PointsTo[l]) < DepthOf[l]
                <=> PointsTo[l] \notin DOMAIN registered
<1> DEFINE t == PointsTo[l]
           depths == Registry!DepthsBelow(registered, t)
           largest == Registry!MaxDepthFor(registered, t)
<1>1. t \in Path /\ Len(t) \in Nat /\ DepthOf[l] \in -1..MaxInt /\ MaxInt \in Nat \ {0}
    BY SymlinkAssumption
<1>2. {d \in DOMAIN registered : StartsWith(t, d)} = {t} \cap DOMAIN registered
    <2>1. StartsWith(t, t)
        BY <1>1 DEF StartsWith
    <2>2. ASSUME NEW d \in DOMAIN registered, StartsWith(t, d) PROVE d = t
        BY <2>2 DEF TargetsRegistered, Alike, TargetsAreApart
    <2> QED BY <2>1, <2>2
<1>3. depths = {Registry!Int32(registered[d] - Distance(d, t)) : d \in {t} \cap DOMAIN registered}
    BY <1>2 DEF Registry!DepthsBelow, Registry!StartsWith, StartsWith, Registry!Distance, Distance
<1>4. largest = CHOOSE m \in depths \cup {Registry!MinInt} : \A d \in depths : d <= m
    BY DEF Registry!MaxDepthFor
<1>5. Registry!MinInt \in Int /\ Registry!MinInt < DepthOf[l]
    BY <1>1 DEF Registry!MinInt
<1>6. CASE t \notin DOMAIN registered
    <2>1. depths = {}
        BY <1>3, <1>6
    <2> HIDE DEF depths
    <2>2. largest = Registry!MinInt
        BY <1>4, <2>1
    <2> QED BY <1>5, <1>6, <2>2
<1>7. CASE t \in DOMAIN registered
    <2>1. registered[t] = DepthOf[l]
        BY <1>7 DEF TargetsRegistered
    <2>2. Distance(t, t) = 0
        BY <1>1 DEF Distance
    <2>3. depths = {DepthOf[l]}
        BY <1>1, <1>3, <1>7, <2>1, <2>2 DEF Registry!Int32, Registry!MinInt
    <2> HIDE DEF depths
    <2>4. \E m \in depths \cup {Registry!MinInt} : \A d \in depths : d <= m
        BY <1>1, <2>3
    <2>5. DepthOf[l] <= largest /\ largest \in {DepthOf[l], Registry!MinInt}
        BY <1>4, <2>3, <2>4
    <2>6. ~(largest < DepthOf[l])
        BY <1>1, <1>5, <2>5
    <2> QED BY <1>7, <2>6
<1> QED BY <1>6, <1>7
-----------------------------------------------------------------------------
(* The steps *)

\* A change below the target of a held link is reported.
LEMMA ChangeTells ==
    ASSUME ToldInv, NEW p \in Path, NEW after, Change(p, after)
    PROVE  ToldInv'
<1>1. /\ changed' = changed \cup {q \in {p} : Registry!Accepts(registered, q)}
      /\ missed' = missed \cup {l \in monitored : Wants(l, p)}
      /\ UNCHANGED <<registered, handling, watchedSymlinksByTarget, isClosed, monitored>>
    BY DEF Change
<1>2. LinksByTarget' /\ TargetsRegistered' /\ HandlingTyped' /\ changed' \subseteq Path
    BY <1>1 DEF ToldInv, LinksByTarget, TargetsRegistered, HandlingTyped
<1>3. HeldOrRefused'
    BY <1>1 DEF ToldInv, HeldOrRefused
<1>4. ASSUME ~isClosed', NEW t \in DOMAIN watchedSymlinksByTarget',
             NEW l \in watchedSymlinksByTarget'[t] \cap missed'
      PROVE  EventIsThere(t, l)'
    <2>1. t = PointsTo[l] /\ l \in monitored /\ t \in DOMAIN registered
        BY <1>1, <1>4 DEF ToldInv, LinksByTarget, TargetsRegistered
    <2>2. CASE l \in missed
        <3>1. EventIsThere(t, l)
            BY <1>1, <1>4, <2>2 DEF ToldInv, MissedIsPending
        <3> QED BY <1>1, <3>1 DEF EventIsThere
    <2>3. CASE Wants(l, p)
        <3>1. StartsWith(p, PointsTo[l]) /\ Registry!Accepts(registered, p)
            BY <2>1, <2>3, WantedIsAccepted DEF ToldInv, HeldOrRefused
        <3>2. p \in changed'
            BY <1>1, <3>1
        <3> QED BY <2>1, <3>1, <3>2 DEF EventIsThere
    <2> QED BY <1>1, <1>4, <2>2, <2>3
<1> QED BY <1>2, <1>3, <1>4 DEF ToldInv, MissedIsPending

\* addSymlink, under the lock: a link that is held only now has missed nothing.
LEMMA AddTells ==
    ASSUME Alike, ToldInv, NEW l \in Link, AddLocked(l)
    PROVE  ToldInv'
<1> DEFINE target == PointsTo[l]
<1>1. monitored' = monitored \cup {l} /\ UNCHANGED <<changed, handling, isClosed, missed>>
    BY DEF AddLocked
<1>2. LinksByTarget' /\ HandlingTyped' /\ changed' \subseteq Path
    BY <1>1, AddKeepsLinks DEF ToldInv, HandlingTyped
<1>3. CASE target \in DOMAIN watchedSymlinksByTarget
    <2>1. /\ watchedSymlinksByTarget' = [watchedSymlinksByTarget EXCEPT ![target] = @ \cup {l}]
          /\ UNCHANGED registered
        BY <1>3 DEF AddLocked, WithLink
    <2>2. /\ DOMAIN watchedSymlinksByTarget' = DOMAIN watchedSymlinksByTarget
          /\ \A t \in DOMAIN watchedSymlinksByTarget' :
                /\ watchedSymlinksByTarget[t] \subseteq watchedSymlinksByTarget'[t]
                /\ watchedSymlinksByTarget'[t] \subseteq watchedSymlinksByTarget[t] \cup {l}
          /\ l \in watchedSymlinksByTarget'[target]
        BY <1>3, <2>1
    <2>3. TargetsRegistered'
        BY <2>1, <2>2 DEF ToldInv, TargetsRegistered
    <2>4. HeldOrRefused'
        BY <1>1, <1>3, <2>1, <2>2, <2>3 DEF ToldInv, HeldOrRefused, TargetsRegistered
    <2>5. ASSUME ~isClosed', NEW t \in DOMAIN watchedSymlinksByTarget',
                 NEW m \in watchedSymlinksByTarget'[t] \cap missed'
          PROVE  EventIsThere(t, m)'
        <3>1. t = PointsTo[m] /\ m \in missed
            BY <1>1, <1>2, <2>5 DEF LinksByTarget
        <3>2. m \in watchedSymlinksByTarget[t]
            BY <2>2, <3>1 DEF ToldInv, HeldOrRefused
        <3>3. EventIsThere(t, m)
            BY <1>1, <2>2, <2>5, <3>1, <3>2 DEF ToldInv, MissedIsPending
        <3> QED BY <1>1, <3>3 DEF EventIsThere
    <2> QED BY <1>2, <2>3, <2>4, <2>5 DEF ToldInv, MissedIsPending
<1>4. CASE /\ target \notin DOMAIN watchedSymlinksByTarget
           /\ target \notin DOMAIN registered
    <2>1. /\ watchedSymlinksByTarget' = With(watchedSymlinksByTarget, target, {l})
          /\ registered' = Registry!Put(registered, target, DepthOf[l])
        BY <1>4, OnlyNewTargetsExtend DEF AddLocked, ToldInv
    <2>2. /\ DOMAIN watchedSymlinksByTarget' = {target} \cup DOMAIN watchedSymlinksByTarget
          /\ watchedSymlinksByTarget'[target] = {l}
          /\ \A t \in DOMAIN watchedSymlinksByTarget \ {target} :
                watchedSymlinksByTarget'[t] = watchedSymlinksByTarget[t]
        BY <2>1 DEF With
    <2>3. /\ DOMAIN registered' = {target} \cup DOMAIN registered
          /\ registered'[target] = DepthOf[l]
          /\ \A t \in DOMAIN registered \ {target} : registered'[t] = registered[t]
        BY <2>1 DEF Registry!Put
    <2>4. TargetsRegistered'
        <3>1. \A m \in Link : PointsTo[m] = target => DepthOf[m] = DepthOf[l]
            BY DEF Alike, DepthsAgree
        <3> QED BY <2>2, <2>3, <3>1 DEF ToldInv, TargetsRegistered
    <2>5. \A m \in monitored \cup missed : PointsTo[m] # target
        BY <1>4 DEF ToldInv, HeldOrRefused
    <2>6. HeldOrRefused'
        BY <1>1, <2>2, <2>3, <2>5 DEF ToldInv, HeldOrRefused
    <2>7. ASSUME ~isClosed', NEW t \in DOMAIN watchedSymlinksByTarget',
                 NEW m \in watchedSymlinksByTarget'[t] \cap missed'
          PROVE  EventIsThere(t, m)'
        <3>1. t = PointsTo[m] /\ m \in missed
            BY <1>1, <1>2, <2>7 DEF LinksByTarget
        <3>2. t # target
            BY <2>5, <3>1
        <3>3. EventIsThere(t, m)
            BY <1>1, <2>2, <2>7, <3>1, <3>2 DEF ToldInv, MissedIsPending
        <3> QED BY <1>1, <3>3 DEF EventIsThere
    <2> QED BY <1>2, <2>4, <2>6, <2>7 DEF ToldInv, MissedIsPending
<1>5. CASE /\ target \notin DOMAIN watchedSymlinksByTarget
           /\ target \in DOMAIN registered
    <2>1. UNCHANGED <<registered, watchedSymlinksByTarget>>
        BY <1>5, OnlyNewTargetsExtend DEF AddLocked, ToldInv
    <2>2. TargetsRegistered' /\ HeldOrRefused'
        BY <1>1, <1>5, <2>1 DEF ToldInv, TargetsRegistered, HeldOrRefused
    <2>3. MissedIsPending'
        BY <1>1, <2>1 DEF ToldInv, MissedIsPending, EventIsThere
    <2> QED BY <1>2, <2>2, <2>3 DEF ToldInv
<1> QED BY <1>3, <1>4, <1>5

LEMMA RemoveTells ==
    ASSUME ToldInv, NEW l \in Link, Remove(l)
    PROVE  ToldInv'
<1>1. /\ monitored' = monitored \ {l} /\ missed' = missed \ {l}
      /\ UNCHANGED <<registered, changed, handling, isClosed>>
    BY DEF Remove
<1>2. /\ DOMAIN watchedSymlinksByTarget' =
            {t \in DOMAIN watchedSymlinksByTarget : watchedSymlinksByTarget[t] # {l}}
      /\ \A t \in DOMAIN watchedSymlinksByTarget' :
            watchedSymlinksByTarget'[t] = watchedSymlinksByTarget[t] \ {l}
    BY DEF Remove, WithoutLink
<1>3. LinksByTarget' /\ HandlingTyped' /\ changed' \subseteq Path
    BY <1>1, RemoveKeepsLinks DEF ToldInv, HandlingTyped
<1>4. TargetsRegistered' /\ HeldOrRefused'
    BY <1>1, <1>2 DEF ToldInv, TargetsRegistered, HeldOrRefused
<1>5. MissedIsPending'
    BY <1>1, <1>2 DEF ToldInv, MissedIsPending, EventIsThere
<1> QED BY <1>3, <1>4, <1>5 DEF ToldInv

\* The first region of the observer: the links of the target above the path.
LEMMA CollectTells ==
    ASSUME Alike, ToldInv, NEW p \in Path, Collect(p)
    PROVE  ToldInv'
<1> DEFINE links == UNION {watchedSymlinksByTarget[t] : t \in FindTarget(p)}
<1>1. /\ handling = Resting /\ changed' = changed \ {p}
      /\ ~isClosed => handling' = [stage |-> "collected", path |-> p, links |-> links]
      /\ isClosed => handling' = Resting
      /\ UNCHANGED <<registered, watchedSymlinksByTarget, isClosed, monitored, missed>>
    BY DEF Collect
<1>2. LinksByTarget' /\ TargetsRegistered' /\ HeldOrRefused' /\ changed' \subseteq Path
    BY <1>1 DEF ToldInv, LinksByTarget, TargetsRegistered, HeldOrRefused
<1>3. HandlingTyped'
    <2> HIDE DEF links
    <2> QED BY <1>1 DEF HandlingTyped, Resting
<1>4. ASSUME ~isClosed', NEW t \in DOMAIN watchedSymlinksByTarget',
             NEW l \in watchedSymlinksByTarget'[t] \cap missed'
      PROVE  EventIsThere(t, l)'
    <2>1. PICK q \in changed : StartsWith(q, t)
        BY <1>1, <1>4 DEF ToldInv, MissedIsPending, EventIsThere, Resting
    <2>2. CASE q # p
        BY <1>1, <2>1, <2>2 DEF EventIsThere
    <2>3. CASE q = p
        <3>1. t \in FindTarget(p)
            BY <1>1, <1>4, <2>1, <2>3, TargetIsFound DEF ToldInv
        <3>2. l \in links
            BY <1>1, <1>4, <3>1
        <3> HIDE DEF links
        <3>3. handling'.stage # "resting" /\ l \in handling'.links
            BY <1>1, <1>4, <3>2
        <3> QED BY <3>3 DEF EventIsThere
    <2> QED BY <2>2, <2>3
<1> QED BY <1>2, <1>3, <1>4 DEF ToldInv, MissedIsPending

\* The second region: a target that is gone stays registered.
LEMMA DropTells ==
    ASSUME ToldInv, DropTarget
    PROVE  ToldInv'
<1> DEFINE dropped == {handling.path} \cap DOMAIN watchedSymlinksByTarget
           after == [stage |-> "checked", path |-> handling.path, links |-> handling.links]
<1>1. /\ [handling EXCEPT !.stage = "checked"] = after
      /\ handling.stage = "missing"
    BY DEF DropTarget, ToldInv, HandlingTyped
<1>2. handling' = after /\ UNCHANGED <<registered, changed, isClosed, missed>>
    BY <1>1 DEF DropTarget
<1>3. /\ DOMAIN watchedSymlinksByTarget' = DOMAIN watchedSymlinksByTarget \ dropped
      /\ \A t \in DOMAIN watchedSymlinksByTarget' :
            watchedSymlinksByTarget'[t] = watchedSymlinksByTarget[t]
      /\ monitored' \subseteq monitored
    BY DEF DropTarget, Restrict
<1>4. LinksByTarget' /\ changed' \subseteq Path
    BY <1>2, DropKeepsLinks DEF ToldInv
<1>5. TargetsRegistered' /\ HeldOrRefused'
    BY <1>2, <1>3 DEF ToldInv, TargetsRegistered, HeldOrRefused
<1>6. HandlingTyped' /\ handling'.stage # "resting" /\ handling'.links = handling.links
    BY <1>2 DEF HandlingTyped
<1>7. \A t, l : EventIsThere(t, l) => EventIsThere(t, l)'
    BY <1>2, <1>6 DEF EventIsThere
<1>8. MissedIsPending'
    BY <1>2, <1>3, <1>7 DEF ToldInv, MissedIsPending
<1> QED BY <1>4, <1>5, <1>6, <1>8 DEF ToldInv

\* What Files.exists answers changes nothing but what comes next.
LEMMA CheckTells ==
    ASSUME ToldInv, CheckTarget
    PROVE  ToldInv'
<1>1. PICK stage \in {"checked", "missing"} : handling' = [handling EXCEPT !.stage = stage]
    BY DEF CheckTarget
<1>2. [handling EXCEPT !.stage = stage] =
        [stage |-> stage, path |-> handling.path, links |-> handling.links]
    BY DEF ToldInv, HandlingTyped
<1>3. /\ handling' = [stage |-> stage, path |-> handling.path, links |-> handling.links]
      /\ UNCHANGED <<registered, changed, watchedSymlinksByTarget, isClosed, monitored, missed>>
    BY <1>1, <1>2 DEF CheckTarget
<1>4. \A t, l : EventIsThere(t, l) => EventIsThere(t, l)'
    BY <1>3 DEF EventIsThere
<1> QED BY <1>3, <1>4 DEF ToldInv, LinksByTarget, TargetsRegistered, HeldOrRefused, MissedIsPending,
                          HandlingTyped

\* The events of the links that were collected.
LEMMA NotifyTells ==
    ASSUME ToldInv, Notify
    PROVE  ToldInv'
<1>1. /\ handling' = Resting /\ missed' = (missed \ handling.links) \cap monitored
      /\ UNCHANGED <<registered, changed, watchedSymlinksByTarget, isClosed, monitored>>
    BY DEF Notify
<1>2. LinksByTarget' /\ TargetsRegistered' /\ HeldOrRefused' /\ changed' \subseteq Path
    BY <1>1 DEF ToldInv, LinksByTarget, TargetsRegistered, HeldOrRefused
<1>3. HandlingTyped'
    BY <1>1 DEF HandlingTyped, Resting
<1>4. MissedIsPending'
    BY <1>1 DEF ToldInv, MissedIsPending, EventIsThere
<1> QED BY <1>2, <1>3, <1>4 DEF ToldInv

LEMMA CloseTells ==
    ASSUME ToldInv, Close
    PROVE  ToldInv'
<1>1. /\ isClosed' /\ watchedSymlinksByTarget' = NoTargets /\ monitored' = {} /\ missed' = {}
      /\ UNCHANGED <<registered, changed, handling>>
    BY Zenon DEF Close
<1>2. DOMAIN watchedSymlinksByTarget' = {}
    BY <1>1 DEF NoTargets
<1>3. LinksByTarget' /\ TargetsRegistered' /\ HeldOrRefused'
    BY <1>1, <1>2 DEF ToldInv, LinksByTarget, TargetsRegistered, HeldOrRefused
<1>4. MissedIsPending'
    BY <1>1 DEF MissedIsPending
<1> QED BY <1>1, <1>3, <1>4 DEF ToldInv, HandlingTyped

LEMMA ToldKept ==
    ToldInv /\ UNCHANGED <<registered, changed, handling, watchedSymlinksByTarget, isClosed,
                           monitored, missed>> => ToldInv'
BY DEF ToldInv, LinksByTarget, TargetsRegistered, HeldOrRefused, MissedIsPending, EventIsThere,
       HandlingTyped

LEMMA ToldInductive == Alike /\ ToldInv /\ [Next]_vars => ToldInv'
<1> SUFFICES ASSUME Alike, ToldInv, [Next]_vars PROVE ToldInv'
    OBVIOUS
<1>1. CASE \E p \in Path : Touch(p) \/ Disappear(p)
    BY <1>1, ChangeTells DEF Touch, Disappear
<1>2. CASE \E p \in Path : Collect(p)
    BY <1>2, CollectTells
<1>3. CASE \E l \in Link : AddSymlink(l)
    BY <1>3, ToldKept DEF AddSymlink
<1>4. CASE \E l \in Link : AddLocked(l) \/ Remove(l)
    BY <1>4, AddTells, RemoveTells
<1>5. CASE CheckTarget \/ DropTarget \/ Notify \/ Close
    BY <1>5, CheckTells, DropTells, NotifyTells, CloseTells
<1>6. CASE UNCHANGED vars
    BY <1>6, ToldKept DEF vars
<1> QED BY <1>1, <1>2, <1>3, <1>4, <1>5, <1>6 DEF Next

\* If no target lies below another and links to one target have one depth, then every
\* link that the map holds is told of every change of its target within that depth, in
\* whatever order addSymlink, remove, the two regions of the observer and the changes
\* come (SymlinkWatcher.java).
THEOREM HeldLinksHear == ASSUME Alike PROVE Spec => []HeldLinksAreTold
<1>1. Init => ToldInv
    <2> SUFFICES ASSUME Init PROVE ToldInv
        OBVIOUS
    <2>1. /\ registered = Registry!NoDirectories /\ changed = {} /\ handling = Resting
          /\ watchedSymlinksByTarget = NoTargets /\ monitored = {} /\ missed = {}
        BY DEF Init
    <2> QED BY <2>1 DEF Registry!NoDirectories, NoTargets, Resting, ToldInv, LinksByTarget,
                        TargetsRegistered, HeldOrRefused, MissedIsPending, EventIsThere, HandlingTyped
<1>2. ToldInv => HeldLinksAreTold
    BY DEF ToldInv, MissedIsPending, EventIsThere, HeldLinksAreTold, Resting
<1>3. ToldInv /\ [Next]_vars => ToldInv'
    BY ToldInductive
<1> QED BY <1>1, <1>2, <1>3, PTL DEF Spec
=============================================================================
