--------------------------- MODULE NioPathWatcherProofs ---------------------------
(***************************************************************************)
(* The watch keys of NioPathWatcherService and the trees that hold them,   *)
(* for every set of directories, every size of the queues and any number   *)
(* of calls and changes.                                                   *)
(***************************************************************************)
EXTENDS NioPathWatcher, SequenceTheorems, WellFoundedInduction, TLAPS

\* What the watch service reports, and what it keeps.
Kind == {"create", "modify", "delete", "overflow"}
Event == [kind : Kind, path : Path]
Key == [path : Dir, valid : BOOLEAN, open : BOOLEAN, events : Seq(Event)]

\* keys is a sequence of keys, and its open ones are in watchedDirectoriesByPath.
KeysInv == keys \in Seq(Key) /\ KeysMatch

\* Keys are added, and never change their path.
KeysGrow ==
    DOMAIN keys \subseteq DOMAIN keys' /\ \A k \in DOMAIN keys : keys'[k].path = keys[k].path

StayOpen == \A k \in DOMAIN keys : keys'[k].open = keys[k].open

\* Two states of keys differ in nothing but their events and whether they are valid.
SameKeys ==
    /\ keys' \in Seq(Key) /\ Len(keys') = Len(keys)
    /\ \A k \in DOMAIN keys : keys'[k].path = keys[k].path /\ keys'[k].open = keys[k].open

-----------------------------------------------------------------------------
\* The sequence of keys, by its places.
LEMMA KeysArePlaces ==
    ASSUME keys \in Seq(Key)
    PROVE  /\ Len(keys) \in Nat /\ DOMAIN keys = 1..Len(keys)
           /\ \A k \in DOMAIN keys : keys[k] \in Key
OBVIOUS

\* A new value for each key.
LEMMA KeysReplaced ==
    ASSUME keys \in Seq(Key), NEW f, f \in [DOMAIN keys -> Key]
    PROVE  f \in Seq(Key) /\ Len(f) = Len(keys) /\ DOMAIN f = DOMAIN keys
<1>1. DOMAIN keys = 1..Len(keys) /\ Len(keys) \in Nat
    OBVIOUS
<1> QED BY <1>1

\* What an event does to a key.
LEMMA SignalKeeps ==
    ASSUME NEW key \in Key, NEW event \in Event
    PROVE  /\ Signal(key, event) \in Key
           /\ Signal(key, event).path = key.path /\ Signal(key, event).open = key.open
<1>1. <<[kind |-> "overflow", path |-> key.path]>> \in Seq(Event)
    <2> DEFINE overflow == [kind |-> "overflow", path |-> key.path]
    <2>1. key.path \in Path
        BY NioAssumption DEF Key
    <2>2. overflow \in Event
        BY <2>1 DEF Event, Kind
    <2>3. <<overflow>> \in Seq(Event)
        <3> HIDE DEF overflow
        <3> QED BY <2>2
    <2> QED BY <2>3
<1>2. Append(key.events, event) \in Seq(Event)
    BY DEF Key
<1> QED BY <1>1, <1>2 DEF Signal, Key

\* Keys that keep their paths and stay open match as they did.
LEMMA SameKeysMatch ==
    ASSUME KeysInv, SameKeys, UNCHANGED watchedDirectoriesByPath
    PROVE  KeysInv' /\ KeysGrow /\ StayOpen
<1>1. DOMAIN keys' = DOMAIN keys
    BY DEF KeysInv, SameKeys
<1>2. KeysInv'
    BY <1>1 DEF KeysInv, SameKeys, KeysMatch
<1> QED BY <1>1, <1>2 DEF SameKeys, KeysGrow, StayOpen

\* A change of the file system.
LEMMA ChangeKeeps ==
    ASSUME KeysInv, NEW p \in Path, NEW kind \in Kind, NEW value, Change(p, kind, value)
    PROVE  KeysInv' /\ KeysGrow /\ StayOpen
<1> DEFINE event == [kind |-> kind, path |-> p]
           after(k) == IF keys[k].path = Parent(p) THEN Signal(keys[k], event)
                       ELSE IF keys[k].path = p /\ value = "none"
                            THEN [keys[k] EXCEPT !.valid = FALSE]
                       ELSE keys[k]
<1>1. keys' = [k \in DOMAIN keys |-> after(k)] /\ UNCHANGED watchedDirectoriesByPath
    BY DEF Change
<1>2. ASSUME NEW k \in DOMAIN keys
      PROVE  after(k) \in Key /\ after(k).path = keys[k].path /\ after(k).open = keys[k].open
    <2>1. keys[k] \in Key /\ event \in Event
        BY KeysArePlaces DEF KeysInv, Event
    <2>2. /\ Signal(keys[k], event) \in Key
          /\ Signal(keys[k], event).path = keys[k].path
          /\ Signal(keys[k], event).open = keys[k].open
        BY <2>1, SignalKeeps
    <2> QED BY <2>1, <2>2 DEF Key
<1> HIDE DEF after
<1>3. SameKeys
    BY <1>1, <1>2, KeysReplaced DEF SameKeys, KeysInv
<1> QED BY <1>1, <1>3, SameKeysMatch

\* The loop thread takes an event.
LEMMA TakeKeeps ==
    ASSUME KeysInv, NEW n \in DOMAIN keys, Take(n)
    PROVE  KeysInv' /\ KeysGrow /\ StayOpen
<1>1. /\ keys' = [keys EXCEPT ![n].events = Tail(@)] /\ keys[n].events # <<>>
      /\ UNCHANGED watchedDirectoriesByPath
    BY DEF Take
<1>2. \A k \in DOMAIN keys : keys[k] \in Key
    BY KeysArePlaces DEF KeysInv
<1>3. Tail(keys[n].events) \in Seq(Event)
    BY <1>1, <1>2 DEF Key
<1>4. ASSUME NEW k \in DOMAIN keys
      PROVE  keys'[k] \in Key /\ keys'[k].path = keys[k].path /\ keys'[k].open = keys[k].open
    BY <1>1, <1>2, <1>3 DEF Key
<1>5. keys' \in [DOMAIN keys -> Key]
    BY <1>1, <1>4
<1>6. SameKeys
    BY <1>4, <1>5, KeysReplaced DEF SameKeys, KeysInv
<1> QED BY <1>1, <1>6, SameKeysMatch

\* service.register: the key that a directory has, or a new one; or none.
LEMMA RegisterKeeps ==
    ASSUME KeysInv, NEW d \in Dir, ScanWatch(d)
    PROVE  /\ KeysInv' /\ KeysGrow /\ StayOpen
           /\ \A k \in DOMAIN keys : keys'[k] = keys[k]
           /\ \A k \in DOMAIN keys' \ DOMAIN keys : keys'[k].path = d /\ keys'[k].events = <<>>
           /\ KeyFor(d) # Invalid => /\ KeyFor(d) \in DOMAIN keys'
                                     /\ keys'[KeyFor(d)].path = d /\ keys'[KeyFor(d)].open
<1>1. Len(keys) \in Nat /\ DOMAIN keys = 1..Len(keys)
    BY KeysArePlaces DEF KeysInv
<1>2. CASE d \in DOMAIN watchedDirectoriesByPath
    <2>1. KeyFor(d) = watchedDirectoriesByPath[d] /\ KeyFor(d) \in 1..Len(keys)
        BY <1>1, <1>2 DEF KeyFor, KeysInv, KeysMatch
    <2>2. keys' = keys
        <3>1. ~(KeyFor(d) > Len(keys))
            BY <1>1, <2>1
        <3> QED BY <3>1 DEF ScanWatch
    <2>3. /\ DOMAIN watchedDirectoriesByPath' = DOMAIN watchedDirectoriesByPath
          /\ \A p \in DOMAIN watchedDirectoriesByPath :
                watchedDirectoriesByPath'[p] = watchedDirectoriesByPath[p]
        BY <1>2, <2>1 DEF ScanWatch, With
    <2>4. KeysInv'
        BY <2>2, <2>3 DEF KeysInv, KeysMatch
    <2>5. KeyFor(d) \in DOMAIN keys /\ keys[KeyFor(d)].path = d /\ keys[KeyFor(d)].open
        BY <1>1, <1>2, <2>1 DEF KeysInv, KeysMatch
    <2> QED BY <2>2, <2>4, <2>5 DEF KeysGrow, StayOpen
<1>3. CASE d \notin DOMAIN watchedDirectoriesByPath /\ fs[d] = "dir"
    <2> DEFINE new == [path |-> d, valid |-> TRUE, open |-> TRUE, events |-> <<>>]
    <2>1. KeyFor(d) = Len(keys) + 1 /\ KeyFor(d) # Invalid /\ KeyFor(d) > Len(keys)
        BY <1>1, <1>3 DEF KeyFor, Invalid
    <2>2. keys' = Append(keys, new) /\ new \in Key
        BY <2>1 DEF ScanWatch, Key
    <2>3. /\ keys' \in Seq(Key) /\ DOMAIN keys' = 1..(Len(keys) + 1)
          /\ keys'[Len(keys) + 1] = new
          /\ \A k \in DOMAIN keys : keys'[k] = keys[k]
        BY <1>1, <2>2 DEF KeysInv
    <2>4. /\ DOMAIN watchedDirectoriesByPath' = DOMAIN watchedDirectoriesByPath \cup {d}
          /\ watchedDirectoriesByPath'[d] = Len(keys) + 1
          /\ \A p \in DOMAIN watchedDirectoriesByPath :
                watchedDirectoriesByPath'[p] = watchedDirectoriesByPath[p]
        BY <1>3, <2>1 DEF ScanWatch, With
    <2>5. new.path = d /\ new.open /\ new.events = <<>>
        OBVIOUS
    <2> HIDE DEF new
    <2>6. KeysInv'
        BY <1>1, <1>3, <2>3, <2>4, <2>5 DEF KeysInv, KeysMatch
    <2>7. KeysGrow /\ StayOpen
        BY <1>1, <2>3 DEF KeysGrow, StayOpen
    <2> QED BY <1>1, <2>1, <2>3, <2>5, <2>6, <2>7
<1>4. CASE d \notin DOMAIN watchedDirectoriesByPath /\ fs[d] # "dir"
    <2>1. UNCHANGED <<keys, watchedDirectoriesByPath>>
        <3>1. KeyFor(d) = Invalid /\ ~(KeyFor(d) > Len(keys))
            BY <1>1, <1>4 DEF KeyFor, Invalid
        <3> QED BY <3>1 DEF ScanWatch
    <2>2. KeyFor(d) = Invalid
        BY <1>4 DEF KeyFor
    <2>3. KeysInv'
        BY <2>1 DEF KeysInv, KeysMatch
    <2> QED BY <2>1, <2>2, <2>3 DEF KeysGrow, StayOpen
<1> QED BY <1>2, <1>3, <1>4

\* Keys are closed and forgotten together.
LEMMA CloseKeysKeeps ==
    ASSUME KeysInv, NEW numbers, CloseKeys(numbers)
    PROVE  /\ KeysInv' /\ KeysGrow
           /\ \A k \in DOMAIN keys : /\ keys'[k].events = keys[k].events
                                     /\ keys'[k].open <=> keys[k].open /\ k \notin numbers
           /\ DOMAIN keys' = DOMAIN keys
<1>1. \A k \in DOMAIN keys : keys[k] \in Key
    BY KeysArePlaces DEF KeysInv
<1>2. /\ DOMAIN keys' = DOMAIN keys
      /\ \A k \in DOMAIN keys :
            keys'[k] = IF k \in numbers THEN [keys[k] EXCEPT !.open = FALSE] ELSE keys[k]
    BY DEF CloseKeys
<1>3. \A k \in DOMAIN keys : /\ keys'[k] \in Key /\ keys'[k].path = keys[k].path
                             /\ keys'[k].open <=> keys[k].open /\ k \notin numbers
    BY <1>1, <1>2 DEF Key
<1>4. keys' \in [DOMAIN keys -> Key]
    BY <1>3 DEF CloseKeys
<1>5. keys' \in Seq(Key)
    BY <1>4, KeysReplaced DEF KeysInv
<1>6. /\ DOMAIN watchedDirectoriesByPath' =
            {p \in DOMAIN watchedDirectoriesByPath : watchedDirectoriesByPath[p] \notin numbers}
      /\ \A p \in DOMAIN watchedDirectoriesByPath' :
            watchedDirectoriesByPath'[p] = watchedDirectoriesByPath[p]
    BY DEF CloseKeys, Forget
<1>7. ASSUME NEW p \in DOMAIN watchedDirectoriesByPath', NEW k, k = watchedDirectoriesByPath'[p]
      PROVE  k \in DOMAIN keys' /\ keys'[k].path = p /\ keys'[k].open
    BY <1>2, <1>3, <1>6, <1>7 DEF KeysInv, KeysMatch
<1>8. ASSUME NEW k \in DOMAIN keys', keys'[k].open
      PROVE  /\ keys'[k].path \in DOMAIN watchedDirectoriesByPath'
             /\ watchedDirectoriesByPath'[keys'[k].path] = k
    BY <1>2, <1>3, <1>6, <1>8 DEF KeysInv, KeysMatch
<1>9. KeysMatch'
    BY <1>7, <1>8 DEF KeysMatch
<1>10. \A k \in DOMAIN keys : keys'[k].events = keys[k].events
    BY <1>1, <1>2 DEF Key
<1> QED BY <1>2, <1>3, <1>5, <1>9, <1>10 DEF KeysInv, KeysGrow
-----------------------------------------------------------------------------
\* Every step keeps the keys in step; most leave them alone.
LEMMA KeysInductive == KeysInv /\ [Next]_vars => KeysInv' /\ (Close \/ KeysGrow)
<1> SUFFICES ASSUME KeysInv, [Next]_vars PROVE KeysInv' /\ (Close \/ KeysGrow)
    OBVIOUS
<1>1. ASSUME UNCHANGED service PROVE KeysInv' /\ KeysGrow
    BY <1>1 DEF service, KeysInv, KeysMatch, KeysGrow
<1>2. ASSUME NEW p \in Path, NEW value, Create(p, value) \/ Modify(p, value) \/ Delete(p)
      PROVE  KeysInv' /\ KeysGrow
    <2>1. \/ Change(p, "create", value) \/ Change(p, "modify", value)
          \/ Change(p, "delete", "none")
        BY <1>2 DEF Create, Modify, Delete
    <2>2. {"create", "modify", "delete"} \subseteq Kind
        BY DEF Kind
    <2> QED BY <2>1, <2>2, ChangeKeeps, Zenon
<1>3. CASE Scan
    BY <1>1, <1>3, RegisterKeeps DEF Scan, ScanList
<1>4. CASE Loop
    <2>1. CASE \E k \in DOMAIN keys : Take(k)
        BY <2>1, TakeKeeps
    <2>2. CASE CloseOne("loop")
        BY <2>2, CloseKeysKeeps DEF CloseOne
    <2>3. CASE Look \/ Act \/ Overflow \/ AddInit \/ AddUpdate \/ Report \/ \E p \in Path : Add(p)
        BY <1>1, <2>3 DEF Look, Act, Overflow, AddInit, AddUpdate, Report, Add
    <2> QED BY <1>4, <2>1, <2>2, <2>3 DEF Loop
<1>5. CASE Calling
    <2>1. CASE CloseOne("call")
        BY <2>1, CloseKeysKeeps DEF CloseOne
    <2>2. CASE UnregisterRoot
        BY <1>1, <2>2, CloseKeysKeeps DEF UnregisterRoot
    <2>3. CASE GetOrAdd \/ RegisterInit \/ RegisterFind \/ RegisterUpdate \/ RegisterGraft \/ Return
        BY <1>1, <2>3 DEF GetOrAdd, RegisterInit, RegisterFind, RegisterUpdate, RegisterGraft, Return
    <2> QED BY <1>5, <2>1, <2>2, <2>3 DEF Calling
<1>6. CASE Close
    BY <1>6 DEF Close, KeysInv, KeysMatch, NoMap
<1>7. CASE UNCHANGED vars
    BY <1>1, <1>7 DEF vars, service
<1>8. ASSUME NEW p \in Path, Unregister(p) \/ \E d \in Depth : Register(p, d)
      PROVE  KeysInv' /\ KeysGrow
    <2>1. UNCHANGED service
        BY <1>8 DEF Unregister, Register
    <2> QED BY <1>1, <2>1
<1> QED BY <1>2, <1>3, <1>4, <1>5, <1>6, <1>7, <1>8 DEF Next

\* No two open keys are for one directory and the map of the service holds the open
\* ones, whatever the scans of the loop thread and of register find, close, and leave
\* out, and whatever is deleted meanwhile (NioPathWatcherService.java).
THEOREM OneKeyPerDirectory == Spec => []KeysMatch
<1>1. Init => KeysInv
    BY DEF Init, KeysInv, KeysMatch, NoMap
<1>2. KeysInv => KeysMatch
    BY DEF KeysInv
<1> QED BY <1>1, <1>2, KeysInductive, PTL DEF Spec
-----------------------------------------------------------------------------
(* Paths *)

\* What PathAssumption says of the path that is above another one.
LEMMA PathsAreLong ==
    /\ \A p \in Path : Len(p) \in Nat \ {0} /\ (p \notin Permanent => Len(p) > 1)
    /\ \A p \in Path : Len(p) > 1 =>
         /\ Parent(p) \in Dir /\ StartsWith(p, Parent(p)) /\ Len(Parent(p)) = Len(p) - 1
         /\ p \in Permanent => Parent(p) \in Permanent
<1>1. ASSUME NEW p \in Path PROVE Len(p) \in Nat \ {0} /\ (p \notin Permanent => Len(p) > 1)
    <2>1. p \in Seq(STRING) /\ p # <<>>
        BY PathAssumption
    <2>2. Len(p) \in Nat \ {0}
        BY <2>1, EmptySeq
    <2>3. Len(p) = 1 => p \in Permanent
        BY PathAssumption
    <2>4. \A n \in Nat \ {0} : n # 1 => n > 1
        OBVIOUS
    <2> QED BY <2>2, <2>3, <2>4, Zenon
<1>2. ASSUME NEW p \in Path, Len(p) > 1
      PROVE  /\ Parent(p) \in Dir /\ StartsWith(p, Parent(p)) /\ Len(Parent(p)) = Len(p) - 1
             /\ p \in Permanent => Parent(p) \in Permanent
    <2>1. p \in Seq(STRING) /\ Len(p) \in Nat /\ Len(p) - 1 \in 1..Len(p) - 1
        BY <1>1, <1>2, PathAssumption
    <2>2. SubSeq(p, 1, Len(p) - 1) \in IF p \in Permanent THEN Permanent ELSE Dir
        BY <2>1, PathAssumption
    <2>3. /\ Len(SubSeq(p, 1, Len(p) - 1)) = Len(p) - 1
          /\ \A i \in 1..Len(p) - 1 : SubSeq(p, 1, Len(p) - 1)[i] = p[i]
        BY <2>1
    <2> QED BY <2>1, <2>2, <2>3, NioAssumption DEF Parent, StartsWith
<1> QED BY <1>1, <1>2

\* startsWith is a partial order, and two prefixes of one path are in order.
LEMMA StartsWithIsOrder ==
    /\ \A p \in Path : StartsWith(p, p)
    /\ \A p, q, r \in Path : StartsWith(p, q) /\ StartsWith(q, r) => StartsWith(p, r)
    /\ \A p, q \in Path : StartsWith(p, q) /\ StartsWith(q, p) => p = q
    /\ \A p, q, r \in Path :
         StartsWith(p, q) /\ StartsWith(p, r) => StartsWith(q, r) \/ StartsWith(r, q)
    /\ \A p, q \in Path : StartsWith(p, q) => Len(q) <= Len(p)
<1>1. \A p \in Path : Len(p) \in Nat /\ p \in Seq(STRING)
    BY PathsAreLong, PathAssumption
<1>2. ASSUME NEW p \in Path, NEW q \in Path, StartsWith(p, q), StartsWith(q, p) PROVE p = q
    <2>1. Len(p) = Len(q) /\ \A i \in 1..Len(p) : p[i] = q[i]
        BY <1>1, <1>2 DEF StartsWith
    <2> QED BY <1>1, <2>1
<1>3. ASSUME NEW p \in Path, NEW q \in Path, NEW r \in Path, StartsWith(p, q), StartsWith(p, r)
      PROVE  StartsWith(q, r) \/ StartsWith(r, q)
    <2>1. CASE Len(q) <= Len(r)
        BY <1>1, <1>3, <2>1 DEF StartsWith
    <2>2. CASE Len(r) <= Len(q)
        BY <1>1, <1>3, <2>2 DEF StartsWith
    <2> QED BY <1>1, <2>1, <2>2
<1> QED BY <1>1, <1>2, <1>3 DEF StartsWith

\* What is above a directory is a directory, and what is above a permanent one is
\* permanent.
LEMMA PrefixIsThere ==
    ASSUME NEW p \in Path, NEW n \in 1..Len(p)
    PROVE  /\ Len(SubSeq(p, 1, n)) = n /\ StartsWith(p, SubSeq(p, 1, n))
           /\ p \in Dir => SubSeq(p, 1, n) \in Dir
           /\ p \in Permanent => SubSeq(p, 1, n) \in Permanent
           /\ n = Len(p) => SubSeq(p, 1, n) = p
           /\ n > 1 => Parent(SubSeq(p, 1, n)) = SubSeq(p, 1, n - 1)
<1>1. p \in Seq(STRING) /\ Len(p) \in Nat /\ n \in Nat /\ n >= 1 /\ n <= Len(p)
    BY PathAssumption
<1> DEFINE q == SubSeq(p, 1, n)
<1>2. q \in Seq(STRING) /\ Len(q) = n /\ \A i \in 1..n : q[i] = p[i]
    BY <1>1
<1>3. n = Len(p) => q = p
    BY <1>1, <1>2
<1>4. n < Len(p) => q \in IF p \in Permanent THEN Permanent ELSE Dir
    BY <1>1, PathAssumption
<1>5. n > 1 => Parent(q) = SubSeq(p, 1, n - 1)
    <2> SUFFICES ASSUME n > 1 PROVE SubSeq(q, 1, n - 1) = SubSeq(p, 1, n - 1)
        BY <1>2 DEF Parent
    <2>1. /\ SubSeq(p, 1, n - 1) \in Seq(STRING) /\ Len(SubSeq(p, 1, n - 1)) = n - 1
          /\ \A i \in 1..n - 1 : SubSeq(p, 1, n - 1)[i] = p[i]
        BY <1>1
    <2>2. /\ SubSeq(q, 1, n - 1) \in Seq(STRING) /\ Len(SubSeq(q, 1, n - 1)) = n - 1
          /\ \A i \in 1..n - 1 : SubSeq(q, 1, n - 1)[i] = q[i]
        <3> HIDE DEF q
        <3> QED BY <1>1, <1>2
    <2>3. \A i \in 1..n - 1 : q[i] = p[i]
        BY <1>1, <1>2
    <2> HIDE DEF q
    <2> QED BY <1>1, <2>1, <2>2, <2>3
<1>6. StartsWith(p, q)
    BY <1>1, <1>2 DEF StartsWith
<1> HIDE DEF q
<1>7. (p \in Dir => q \in Dir) /\ (p \in Permanent => q \in Permanent)
    BY <1>1, <1>3, <1>4, NioAssumption
<1> QED BY <1>2, <1>3, <1>5, <1>6, <1>7 DEF q

\* A path is the prefix of what starts with it.
LEMMA PrefixIsPath ==
    ASSUME NEW p \in Path, NEW q \in Path, StartsWith(p, q)
    PROVE  Len(q) \in 1..Len(p) /\ q = SubSeq(p, 1, Len(q))
<1>1. /\ p \in Seq(STRING) /\ q \in Seq(STRING) /\ Len(q) \in Nat \ {0} /\ Len(p) \in Nat
      /\ Len(q) <= Len(p) /\ \A i \in 1..Len(q) : p[i] = q[i]
    BY PathAssumption, PathsAreLong DEF StartsWith
<1>2. /\ SubSeq(p, 1, Len(q)) \in Seq(STRING) /\ Len(SubSeq(p, 1, Len(q))) = Len(q)
      /\ \A i \in 1..Len(q) : SubSeq(p, 1, Len(q))[i] = p[i]
    BY <1>1
<1> QED BY <1>1, <1>2

\* A nonempty set of numbers has a least one.
LEMMA LeastNumber ==
    ASSUME NEW S \in SUBSET Nat, S # {}
    PROVE  \E m \in S : \A n \in S : m <= n
<1> DEFINE less == {ss \in Nat \X Nat : ss[1] < ss[2]}
<1>1. less = OpToRel(<, Nat)
    BY Zenon DEF OpToRel
<1>2. PICK m \in S : \A n \in S : ~ (<<n, m>> \in less)
    <2> HIDE DEF less
    <2> QED BY <1>1, NatLessThanWellFounded, WFMin
<1>3. ASSUME NEW n \in S PROVE m <= n
    <2>1. m \in Nat /\ n \in Nat /\ ~ (<<n, m>> \in less)
        BY <1>2
    <2> QED BY <2>1
<1> QED BY <1>3
-----------------------------------------------------------------------------
(* The trees *)

\* In a tree there is a first directory to add on the way to any other below its root.
LEMMA FirstIsToAdd ==
    ASSUME NEW tree, NEW root \in Dir, root \in DOMAIN tree, \A d \in DOMAIN tree : d \in Dir /\ StartsWith(d, root),
           NEW path \in Dir, StartsWith(path, root), path # root
    PROVE  LET first == FirstToAdd(tree, path)
           IN  /\ first \in Dir /\ StartsWith(first, root) /\ ~StartsWith(root, first)
               /\ StartsWith(path, first) /\ Len(first) > 1 /\ Parent(first) \in DOMAIN tree
<1>1. /\ path \in Path /\ root \in Path /\ Len(path) \in Nat /\ Len(root) \in Nat \ {0}
      /\ Len(root) < Len(path)
    <2>1. path \in Path /\ root \in Path
        BY NioAssumption
    <2>2. Len(path) \in Nat /\ Len(root) \in Nat \ {0} /\ Len(root) <= Len(path)
        BY <2>1, PathsAreLong, StartsWithIsOrder
    <2>3. root = SubSeq(path, 1, Len(root)) /\ path = SubSeq(path, 1, Len(path))
        BY <2>1, <2>2, PrefixIsPath, PrefixIsThere
    <2> QED BY <2>1, <2>2, <2>3
<1> DEFINE S == {n \in Len(root) + 1 .. Len(path) :
                   n = Len(path) \/ SubSeq(path, 1, n) \notin DOMAIN tree}
<1>2. PICK n \in S : \A m \in S : n <= m
    <2>1. Len(path) \in S /\ S \in SUBSET Nat
        BY <1>1
    <2> HIDE DEF S
    <2> QED BY <2>1, LeastNumber
<1>3. n \in 2..Len(path) /\ n - 1 \in 1..Len(path) /\ n \in 1..Len(path) /\ Len(root) <= n - 1
    BY <1>1
<1>4. SubSeq(path, 1, n - 1) \in DOMAIN tree
    <2>1. CASE n - 1 = Len(root)
        BY <1>1, <2>1, PrefixIsPath
    <2>2. CASE n - 1 > Len(root)
        <3>1. n - 1 \notin S
            <4> HIDE DEF S
            <4> QED BY <1>2, <1>3
        <3> QED BY <1>1, <1>3, <2>2, <3>1
    <2> QED BY <1>1, <1>3, <2>1, <2>2
<1> DEFINE q == SubSeq(path, 1, n)
           Q == {SubSeq(path, 1, m) : m \in 2..Len(path)}
<1>5. q \in Q /\ (q = path \/ q \notin DOMAIN tree) /\ Parent(q) \in DOMAIN tree
    <2>1. Parent(q) = SubSeq(path, 1, n - 1)
        BY <1>1, <1>3, PrefixIsThere
    <2>2. n = Len(path) => q = path
        BY <1>1, <1>3, PrefixIsThere
    <2> QED BY <1>3, <1>4, <2>1, <2>2
<1> DEFINE first == FirstToAdd(tree, path)
<1>6. first \in Q /\ Parent(first) \in DOMAIN tree
    <2> HIDE DEF q
    <2> QED BY <1>5 DEF FirstToAdd
<1>7. PICK m \in 2..Len(path) : first = SubSeq(path, 1, m)
    BY <1>6
<1>8. m \in 1..Len(path) /\ m \in Nat
    BY <1>1
<1> HIDE DEF first, Q, q, S
<1>9. first \in Dir /\ first \in Path /\ Len(first) = m /\ Len(first) > 1 /\ StartsWith(path, first)
    BY <1>1, <1>7, <1>8, PrefixIsThere, NioAssumption
<1>10. /\ Parent(first) \in Path /\ StartsWith(first, Parent(first))
       /\ Len(Parent(first)) = Len(first) - 1 /\ StartsWith(Parent(first), root)
    BY <1>6, <1>9, PathsAreLong, NioAssumption
<1>11. StartsWith(first, root)
    BY <1>1, <1>9, <1>10, StartsWithIsOrder
<1>12. Len(root) <= Len(first) - 1
    BY <1>1, <1>9, <1>10, StartsWithIsOrder
<1>13. ~StartsWith(root, first)
    BY <1>1, <1>8, <1>9, <1>12, StartsWithIsOrder
<1> QED BY <1>6, <1>9, <1>11, <1>13 DEF first

\* lastPath finds a directory of the tree.
LEMMA LastIsThere ==
    ASSUME NEW tree, NEW root \in DOMAIN tree, DOMAIN tree \subseteq Path,
           NEW path \in Path, StartsWith(path, root)
    PROVE  LastPath(tree, path) \in DOMAIN tree
<1> DEFINE above == {d \in DOMAIN tree : StartsWith(path, d)}
           S == {Len(path) - Len(d) : d \in above}
<1>1. \A d \in above : Len(d) \in Nat /\ Len(path) - Len(d) \in Nat
    <2> SUFFICES ASSUME NEW d \in above PROVE Len(d) \in Nat /\ Len(path) - Len(d) \in Nat
        OBVIOUS
    <2>1. Len(d) \in Nat /\ Len(path) \in Nat /\ Len(d) <= Len(path)
        BY PathsAreLong, StartsWithIsOrder
    <2> QED BY <2>1
<1>2. PICK n \in S : \A m \in S : n <= m
    <2>1. S \in SUBSET Nat /\ S # {}
        BY <1>1
    <2> HIDE DEF S
    <2> QED BY <2>1, LeastNumber
<1>3. PICK q \in above : n = Len(path) - Len(q)
    OBVIOUS
<1>4. ASSUME NEW d \in above PROVE Len(d) <= Len(q)
    <2>1. Len(path) - Len(q) <= Len(path) - Len(d)
        BY <1>2, <1>3
    <2>2. Len(path) \in Nat
        BY PathsAreLong
    <2> QED BY <1>1, <2>1, <2>2
<1> QED BY <1>3, <1>4 DEF LastPath
-----------------------------------------------------------------------------
(* What the types of the trees rest on *)

\* The events that a key for directory d can have.
EventOf(d) ==
    {e \in Event : \/ e.kind = "overflow" /\ e.path = d
                   \/ e.kind # "overflow" /\ e.path \notin Permanent /\ Parent(e.path) = d}

EventsMatch == \A k \in DOMAIN keys : keys[k].events \in Seq(EventOf(keys[k].path))

\* A map from directories at and below root to numbers of their keys.
KeysOfDirs(sequence, map, root) ==
    \A d \in DOMAIN map :
        /\ d \in Dir /\ StartsWith(d, root)
        /\ map[d] # Invalid => map[d] \in DOMAIN sequence /\ sequence[map[d]].path = d

RootsTyped ==
    \A r \in DOMAIN rootDirectories :
        /\ r \in Permanent /\ r \in DOMAIN rootDirectories[r]
        /\ KeysOfDirs(keys, rootDirectories[r], r)

\* A scan looks at directories below its root, which it finds, or which has a tree.
ScanTyped ==
    /\ KeysOfDirs(keys, scan.found, scan.root)
    /\ \A d \in scan.toWatch \cup scan.toList : d \in Dir /\ StartsWith(d, scan.root)
    /\ scan.toList \subseteq DOMAIN scan.found
    /\ scan # NoScan /\ (scan.stage = "init" \/ scan.base = scan.root) =>
         scan.root \in scan.toWatch \cup DOMAIN scan.found

ScanRooted ==
    /\ scan = NoScan \/ scan.stage \in {"init", "update"}
    /\ scan.stage = "init" =>
         /\ scan.base \in Path /\ Len(scan.base) > 1
         /\ scan.root = Parent(scan.base) /\ scan.root \in Permanent
         /\ IF scan.by = "call" THEN call.stage = "added" /\ scan.base = call.path
            ELSE MaxUnregister > 0 /\ scan.base \in Dir
    /\ scan.stage = "update" =>
         /\ scan.root \in DOMAIN rootDirectories /\ scan.base \in Dir
         /\ StartsWith(scan.base, scan.root)

CallTyped ==
    /\ call.stage \in {"added", "rooted"} => call.path \in Path
    /\ call.stage = "unregistering" => MaxUnregister > 0
    /\ call.stage = "added" => Len(call.path) > 1 /\ Parent(call.path) \in Permanent
    /\ call.stage \in {"rooted", "found"} => call.root \in DOMAIN rootDirectories
    /\ call.stage = "rooted" => StartsWith(call.path, call.root)
    /\ call.stage = "found" => call.last \in Dir /\ StartsWith(call.last, call.root)

LoopTyped ==
    /\ loop = [stage |-> loop.stage, path |-> loop.path, kind |-> loop.kind,
               exists |-> loop.exists, todo |-> loop.todo, told |-> loop.told]
    /\ loop.stage # "waiting" =>
         /\ loop.path \in Path
         /\ IF loop.kind = "overflow" THEN loop.path \in Dir ELSE loop.path \notin Permanent
    /\ loop.stage = "acting" => loop.kind # "overflow"
    /\ loop.stage # "adding" => loop.todo = {}
    /\ \A p \in loop.todo : p \in Dir /\ Len(p) > 1 /\ StartsWith(p, loop.path)
    /\ loop.told \subseteq Path

\* Unless a root was dropped each key, and what it reports, is below a root, or below
\* the one that is being added.
Covered(p) ==
    \/ \E r \in DOMAIN rootDirectories : StartsWith(p, r)
    \/ scan.stage = "init" /\ StartsWith(p, scan.root)

AllCovered ==
    MaxUnregister = 0 =>
        /\ \A k \in DOMAIN keys : Covered(keys[k].path)
        /\ loop.stage # "waiting" => Covered(loop.path)

\* What is to be closed has, or had, a key.
ClosingTyped ==
    /\ closing \in [{"loop", "call"} -> SUBSET (DOMAIN keys \cup {Invalid})]
    /\ reused \subseteq Dir

EnvironmentTyped ==
    /\ fs \in [Path -> {"none", "dir"} \cup Content] /\ \A d \in Permanent : fs[d] = "dir"
    /\ known \in [Path -> {"none", "dir"} \cup Content] /\ monitored \subseteq Path
    /\ budget = [changes |-> budget.changes, register |-> budget.register,
                 unregister |-> budget.unregister]
    /\ budget.unregister \in 0..MaxUnregister

TreesInv ==
    /\ EventsMatch /\ RootsTyped /\ ScanTyped /\ ScanRooted /\ CallTyped /\ LoopTyped /\ AllCovered
    /\ ClosingTyped /\ EnvironmentTyped

-----------------------------------------------------------------------------
(* Events *)

\* An event that happens in the directory of a key.
LEMMA SignalTells ==
    ASSUME NEW key \in Key, NEW event \in EventOf(key.path),
           key.events \in Seq(EventOf(key.path))
    PROVE  Signal(key, event).events \in Seq(EventOf(key.path))
<1>1. key.path \in Dir /\ key.path \in Path /\ event \in Event
    BY NioAssumption DEF Key, EventOf
<1>2. <<[kind |-> "overflow", path |-> key.path]>> \in Seq(EventOf(key.path))
    <2> DEFINE overflow == [kind |-> "overflow", path |-> key.path]
    <2>1. overflow \in EventOf(key.path)
        BY <1>1 DEF EventOf, Event, Kind
    <2> HIDE DEF overflow
    <2>2. <<overflow>> \in Seq(EventOf(key.path))
        BY <2>1
    <2> QED BY <2>2 DEF overflow
<1>3. Append(key.events, event) \in Seq(EventOf(key.path))
    OBVIOUS
<1>4. \/ Signal(key, event) = key
      \/ Signal(key, event) =
            [key EXCEPT !.events = <<[kind |-> "overflow", path |-> key.path]>>]
      \/ Signal(key, event) = [key EXCEPT !.events = Append(key.events, event)]
    BY DEF Signal
<1> QED BY <1>2, <1>3, <1>4 DEF Key

LEMMA EventsChange ==
    ASSUME KeysInv, EventsMatch, NEW p \in Path \ Permanent, NEW kind \in Kind \ {"overflow"},
           NEW value, Change(p, kind, value)
    PROVE  EventsMatch'
<1> DEFINE event == [kind |-> kind, path |-> p]
           after(k) == IF keys[k].path = Parent(p) THEN Signal(keys[k], event)
                       ELSE IF keys[k].path = p /\ value = "none"
                            THEN [keys[k] EXCEPT !.valid = FALSE]
                       ELSE keys[k]
<1>1. keys' = [k \in DOMAIN keys |-> after(k)]
    BY DEF Change
<1>2. ASSUME NEW k \in DOMAIN keys
      PROVE  after(k).path = keys[k].path /\ after(k).events \in Seq(EventOf(keys[k].path))
    <2>1. keys[k] \in Key /\ event \in Event /\ keys[k].events \in Seq(EventOf(keys[k].path))
        BY KeysArePlaces DEF KeysInv, Event, EventsMatch
    <2>2. CASE keys[k].path = Parent(p)
        <3>1. event \in EventOf(keys[k].path)
            BY <2>1, <2>2 DEF EventOf
        <3> HIDE DEF event
        <3>2. Signal(keys[k], event).path = keys[k].path
            BY <2>1, SignalKeeps
        <3>3. Signal(keys[k], event).events \in Seq(EventOf(keys[k].path))
            BY <2>1, <3>1, SignalTells
        <3> QED BY <2>2, <3>2, <3>3
    <2>3. CASE keys[k].path # Parent(p)
        BY <2>1, <2>3 DEF Key
    <2> QED BY <2>2, <2>3
<1> HIDE DEF after
<1> QED BY <1>1, <1>2 DEF EventsMatch

LEMMA EventsTaken ==
    ASSUME KeysInv, EventsMatch, NEW n \in DOMAIN keys, Take(n)
    PROVE  EventsMatch'
<1>1. keys' = [keys EXCEPT ![n].events = Tail(@)] /\ keys[n].events # <<>>
    BY DEF Take
<1>2. keys[n] \in Key /\ keys[n].events \in Seq(EventOf(keys[n].path))
    BY KeysArePlaces DEF KeysInv, EventsMatch
<1>3. Tail(keys[n].events) \in Seq(EventOf(keys[n].path))
    <2>1. \A E : \A s \in Seq(E) : s # <<>> => Tail(s) \in Seq(E)
        OBVIOUS
    <2> QED BY <1>1, <1>2, <2>1
<1>4. /\ DOMAIN keys' = DOMAIN keys /\ \A k \in DOMAIN keys \ {n} : keys'[k] = keys[k]
      /\ keys'[n].path = keys[n].path /\ keys'[n].events = Tail(keys[n].events)
    BY <1>1, <1>2 DEF Key
<1> QED BY <1>3, <1>4 DEF EventsMatch

\* The change that a step of the file system makes is outside of what is permanent.
LEMMA ChangesAreOutside ==
    ASSUME EnvironmentTyped, NEW p \in Path, NEW value \in {"dir"} \cup Content,
           Create(p, value) \/ Modify(p, value) \/ Delete(p)
    PROVE  \E kind \in Kind \ {"overflow"}, after \in {"none", "dir"} \cup Content :
             p \notin Permanent /\ Change(p, kind, after)
<1>1. CASE Create(p, value)
    <2>1. p \notin Permanent /\ Change(p, "create", value) /\ "create" \in Kind \ {"overflow"}
        BY <1>1 DEF Create, Kind
    <2> QED BY <2>1
<1>2. CASE Modify(p, value)
    <2>1. Change(p, "modify", value) /\ "modify" \in Kind \ {"overflow"} /\ fs[p] \in Content
        BY <1>2 DEF Modify, Kind
    <2>2. p \notin Permanent
        BY <2>1, NioAssumption DEF EnvironmentTyped
    <2> QED BY <2>1, <2>2
<1>3. CASE Delete(p)
    <2>1. p \notin Permanent /\ Change(p, "delete", "none") /\ "delete" \in Kind \ {"overflow"}
        BY <1>3 DEF Delete, Kind
    <2> QED BY <2>1
<1> QED BY <1>1, <1>2, <1>3

LEMMA EventsInductive ==
    KeysInv /\ EventsMatch /\ EnvironmentTyped /\ [Next]_vars => EventsMatch'
<1> SUFFICES ASSUME KeysInv, EventsMatch, EnvironmentTyped, [Next]_vars PROVE EventsMatch'
    OBVIOUS
<1>1. CASE UNCHANGED service
    BY <1>1 DEF service, EventsMatch
<1>2. ASSUME NEW p \in Path, NEW value \in {"dir"} \cup Content,
             Create(p, value) \/ Modify(p, value) \/ Delete(p)
      PROVE  EventsMatch'
    BY <1>2, ChangesAreOutside, EventsChange
<1>3. ASSUME NEW numbers, CloseKeys(numbers) PROVE EventsMatch'
    BY <1>3, CloseKeysKeeps DEF EventsMatch, KeysGrow
<1>4. CASE Scan
    <2>1. ASSUME NEW d \in Dir, ScanWatch(d) PROVE EventsMatch'
        <3>1. \A k \in DOMAIN keys' : \/ k \in DOMAIN keys /\ keys'[k] = keys[k]
                                      \/ keys'[k].events = <<>>
            BY <2>1, RegisterKeeps
        <3> QED BY <3>1, EmptySeq DEF EventsMatch
    <2> QED BY <1>1, <1>4, <2>1 DEF Scan, ScanList
<1>5. CASE Loop
    <2>1. CASE \E k \in DOMAIN keys : Take(k)
        BY <2>1, EventsTaken
    <2>2. CASE CloseOne("loop")
        BY <1>3, <2>2 DEF CloseOne
    <2>3. CASE Look \/ Act \/ Overflow \/ AddInit \/ AddUpdate \/ Report \/ \E p \in Path : Add(p)
        BY <1>1, <2>3 DEF Look, Act, Overflow, AddInit, AddUpdate, Report, Add
    <2> QED BY <1>5, <2>1, <2>2, <2>3 DEF Loop
<1>6. CASE Calling
    <2>1. CASE CloseOne("call")
        BY <1>3, <2>1 DEF CloseOne
    <2>2. CASE UnregisterRoot
        BY <1>1, <1>3, <2>2 DEF UnregisterRoot
    <2>3. CASE GetOrAdd \/ RegisterInit \/ RegisterFind \/ RegisterUpdate \/ RegisterGraft \/ Return
        BY <1>1, <2>3 DEF GetOrAdd, RegisterInit, RegisterFind, RegisterUpdate, RegisterGraft, Return
    <2> QED BY <1>6, <2>1, <2>2, <2>3 DEF Calling
<1>7. CASE Close
    BY <1>7 DEF Close, EventsMatch
<1>8. CASE UNCHANGED vars
    BY <1>1, <1>8 DEF vars, service
<1>9. ASSUME NEW p \in Path, Unregister(p) \/ \E d \in Depth : Register(p, d)
      PROVE  EventsMatch'
    <2>1. UNCHANGED service
        BY <1>9 DEF Unregister, Register
    <2> QED BY <1>1, <2>1
<1> QED BY <1>2, <1>4, <1>5, <1>6, <1>7, <1>8, <1>9 DEF Next
-----------------------------------------------------------------------------
(* Maps to keys *)

\* Keys that are added take nothing from a map.
LEMMA MapsStay ==
    ASSUME KeysGrow, NEW map, NEW root, KeysOfDirs(keys, map, root)
    PROVE  KeysOfDirs(keys', map, root)
BY DEF KeysGrow, KeysOfDirs

\* Less, and more.
LEMMA MapsRestricted ==
    ASSUME NEW sequence, NEW map, NEW root, KeysOfDirs(sequence, map, root), NEW dirs
    PROVE  /\ KeysOfDirs(sequence, Restrict(map, DOMAIN map \ dirs), root)
           /\ DOMAIN Restrict(map, DOMAIN map \ dirs) = DOMAIN map \ dirs
BY DEF KeysOfDirs, Restrict

LEMMA MapsJoined ==
    ASSUME NEW sequence, NEW map, NEW root, KeysOfDirs(sequence, map, root),
           NEW other, KeysOfDirs(sequence, other, root)
    PROVE  /\ KeysOfDirs(sequence, WithAll(map, other), root)
           /\ DOMAIN WithAll(map, other) = DOMAIN map \cup DOMAIN other
BY DEF KeysOfDirs, WithAll

LEMMA MapsExtended ==
    ASSUME NEW sequence, NEW map, NEW root, KeysOfDirs(sequence, map, root),
           NEW d \in Dir, StartsWith(d, root),
           NEW k, k # Invalid => k \in DOMAIN sequence /\ sequence[k].path = d
    PROVE  /\ KeysOfDirs(sequence, With(map, d, k), root)
           /\ DOMAIN With(map, d, k) = DOMAIN map \cup {d}
BY DEF KeysOfDirs, With

\* What is below a directory that is not permanent may go: the root stays.
LEMMA RootStays ==
    ASSUME NEW r \in Permanent, NEW tree, r \in DOMAIN tree, NEW p \in Path,
           p \notin Permanent \/ ~StartsWith(r, p), StartsWith(p, r), KeysOfDirs(keys, tree, r)
    PROVE  r \in DOMAIN Cut(tree, p) /\ KeysOfDirs(keys, Cut(tree, p), r)
<1>1. ~StartsWith(r, p)
    BY StartsWithIsOrder, NioAssumption
<1> QED BY <1>1, MapsRestricted DEF Cut, Below
-----------------------------------------------------------------------------
(* The environment *)

LEMMA InformedIsTyped ==
    ASSUME EnvironmentTyped, NEW told
    PROVE  Informed(told) \in [Path -> {"none", "dir"} \cup Content]
BY DEF EnvironmentTyped, Informed

LEMMA EnvironmentInductive ==
    EnvironmentTyped /\ [Next]_vars => EnvironmentTyped'
<1> SUFFICES ASSUME EnvironmentTyped, [Next]_vars PROVE EnvironmentTyped'
    OBVIOUS
<1>1. ASSUME UNCHANGED environment PROVE EnvironmentTyped'
    BY <1>1 DEF environment, EnvironmentTyped
<1>2. ASSUME NEW p \in Path, NEW value \in {"dir"} \cup Content,
             Create(p, value) \/ Modify(p, value) \/ Delete(p)
      PROVE  EnvironmentTyped'
    <2>1. PICK kind \in Kind \ {"overflow"}, after \in {"none", "dir"} \cup Content :
             p \notin Permanent /\ Change(p, kind, after)
        BY <1>2, ChangesAreOutside
    <2>2. /\ fs' = [fs EXCEPT ![p] = after] /\ UNCHANGED <<known, monitored>>
          /\ budget' = [budget EXCEPT !.changes = @ - 1]
        BY <2>1 DEF Change
    <2> QED BY <2>1, <2>2, NioAssumption DEF EnvironmentTyped
<1>3. CASE Report
    <2>1. /\ UNCHANGED <<fs, monitored, budget>>
          /\ known' \in [Path -> {"none", "dir"} \cup Content]
        BY <1>3, InformedIsTyped DEF Report
    <2> QED BY <2>1 DEF EnvironmentTyped
<1>4. CASE Return
    <2>1. /\ UNCHANGED <<fs, budget>> /\ monitored' \subseteq Path
          /\ known' \in [Path -> {"none", "dir"} \cup Content]
        BY <1>4, InformedIsTyped DEF Return, EnvironmentTyped
    <2> QED BY <2>1 DEF EnvironmentTyped
<1>5. ASSUME NEW p \in Path, NEW d \in Depth, Register(p, d) PROVE EnvironmentTyped'
    BY <1>5 DEF Register, EnvironmentTyped
<1>6. ASSUME NEW p \in Path, Unregister(p) PROVE EnvironmentTyped'
    <2>1. /\ budget' = [budget EXCEPT !.unregister = @ - 1] /\ budget.unregister > 0
          /\ UNCHANGED <<fs, known>> /\ monitored' \subseteq monitored
        BY <1>6 DEF Unregister
    <2>2. budget.unregister - 1 \in 0..MaxUnregister
        BY <2>1, NioAssumption DEF EnvironmentTyped
    <2> QED BY <2>1, <2>2 DEF EnvironmentTyped
<1>7. CASE Scan
    BY <1>1, <1>7 DEF Scan, ScanWatch, ScanList
<1>8. CASE Loop
    <2>1. CASE Look \/ Act \/ Overflow \/ AddInit \/ AddUpdate \/ CloseOne("loop") \/ \E k \in DOMAIN keys : Take(k)
        BY <1>1, <2>1 DEF Look, Act, Overflow, AddInit, AddUpdate, CloseOne, Take
    <2>2. CASE \E p \in Path : Add(p)
        BY <1>1, <2>2 DEF Add
    <2> QED BY <1>3, <1>8, <2>1, <2>2 DEF Loop
<1>9. CASE Calling
    <2>1. CASE GetOrAdd \/ RegisterInit \/ RegisterFind \/ RegisterUpdate \/ RegisterGraft \/ UnregisterRoot
               \/ CloseOne("call")
        BY <1>1, <2>1 DEF GetOrAdd, RegisterInit, RegisterFind, RegisterUpdate, RegisterGraft, UnregisterRoot,
                          CloseOne
    <2> QED BY <1>4, <1>9, <2>1 DEF Calling
<1>10. CASE Close
    BY <1>1, <1>10 DEF Close
<1>11. CASE UNCHANGED vars
    BY <1>1, <1>11 DEF vars, environment
<1> QED BY <1>2, <1>5, <1>6, <1>7, <1>8, <1>9, <1>10, <1>11 DEF Next
-----------------------------------------------------------------------------
(* The loop thread *)

\* Waiting, and an event that was taken.
LEMMA WaitingIsTyped == loop' = Waiting => LoopTyped'
BY DEF LoopTyped, Waiting

\* The handling of an event goes on.
LEMMA LoopGoesOn ==
    ASSUME LoopTyped, loop.stage # "waiting",
           NEW stage \in {"acting", "adding"}, stage = "acting" => loop.kind # "overflow",
           NEW exists, NEW todo, stage = "acting" => todo = {},
           \A p \in todo : p \in Dir /\ Len(p) > 1 /\ StartsWith(p, loop.path),
           NEW told \in SUBSET Path, loop' = LoopWith(stage, exists, todo, told)
    PROVE  LoopTyped'
<1>1. /\ loop'.stage = stage /\ loop'.path = loop.path /\ loop'.kind = loop.kind
      /\ loop'.exists = exists /\ loop'.todo = todo /\ loop'.told = told
      /\ loop' = [stage |-> loop'.stage, path |-> loop'.path, kind |-> loop'.kind,
                  exists |-> loop'.exists, todo |-> loop'.todo, told |-> loop'.told]
    BY DEF LoopWith
<1> QED BY <1>1 DEF LoopTyped

\* What the loop thread takes from a key.
LEMMA LoopTakes ==
    ASSUME KeysInv, EventsMatch, NEW k \in DOMAIN keys, Take(k)
    PROVE  LoopTyped'
<1> DEFINE event == Head(keys[k].events)
<1>1. event \in EventOf(keys[k].path) /\ keys[k].path \in Dir
    <2>1. keys[k].events \in Seq(EventOf(keys[k].path)) /\ keys[k].events # <<>>
        BY DEF EventsMatch, Take
    <2>2. keys[k] \in Key
        BY KeysArePlaces DEF KeysInv
    <2>3. \A E : \A s \in Seq(E) : s # <<>> => Head(s) \in E
        OBVIOUS
    <2> QED BY <2>1, <2>2, <2>3 DEF Key
<1>2. loop' = [stage |-> "taken", path |-> event.path, kind |-> event.kind, exists |-> FALSE,
               todo |-> {}, told |-> {}]
    BY DEF Take
<1> HIDE DEF event
<1>3. /\ event.path \in Path
      /\ IF event.kind = "overflow" THEN event.path \in Dir ELSE event.path \notin Permanent
    BY <1>1 DEF EventOf, Event
<1> QED BY <1>2, <1>3 DEF LoopTyped

\* What an update of a tree finds and leaves out is known paths.
LEMMA UpdateTellsPaths ==
    ASSUME RootsTyped, ScanTyped, scan.root \in DOMAIN rootDirectories
    PROVE  Announced(Created) \subseteq Path /\ Deleted \subseteq Path
<1>1. DOMAIN scan.found \subseteq Path /\ DOMAIN rootDirectories[scan.root] \subseteq Path
    BY NioAssumption DEF RootsTyped, ScanTyped, KeysOfDirs
<1> QED BY <1>1 DEF Announced, Created, Deleted, Below

LEMMA LoopInductive ==
    /\ KeysInv /\ EventsMatch /\ RootsTyped /\ ScanTyped /\ ScanRooted /\ LoopTyped
    /\ EnvironmentTyped /\ [Next]_vars
    => LoopTyped'
<1> SUFFICES ASSUME KeysInv, EventsMatch, RootsTyped, ScanTyped, ScanRooted, LoopTyped,
                    EnvironmentTyped, [Next]_vars
             PROVE  LoopTyped'
    OBVIOUS
<1>1. ASSUME UNCHANGED loop PROVE LoopTyped'
    BY <1>1 DEF LoopTyped
<1>2. ASSUME NEW r \in DOMAIN rootDirectories
      PROVE  DOMAIN rootDirectories[r] \subseteq Path
    BY NioAssumption DEF RootsTyped, KeysOfDirs
<1>3. CASE Look
    <2>1. loop.stage = "taken" /\ loop.kind # "overflow"
        BY <1>3 DEF Look
    <2>2. CASE loop' = Waiting
        BY <2>2, WaitingIsTyped
    <2>3. CASE loop' = LoopWith("acting", fs[loop.path] # "none", {}, {})
        BY <2>1, <2>3, LoopGoesOn
    <2> QED BY <1>3, <2>2, <2>3 DEF Look
<1>4. CASE Act
    <2>1. PICK gone \in SUBSET Path : loop' = Acted(gone)
        <3>1. \/ loop' = Acted({})
              \/ \E r \in DOMAIN rootDirectories : loop' = Acted(Below(rootDirectories[r], loop.path))
            BY <1>4 DEF Act, Find
        <3>2. \A r \in DOMAIN rootDirectories : Below(rootDirectories[r], loop.path) \in SUBSET Path
            BY <1>2 DEF Below
        <3> QED BY <3>1, <3>2
    <2>2. /\ loop.stage = "acting" /\ loop.kind # "overflow"
          /\ loop.path \in Path /\ loop.path \notin Permanent
        BY <1>4 DEF Act, LoopTyped
    <2> DEFINE todo == IF loop.exists /\ loop.path \in Dir THEN {loop.path} ELSE {}
               told == gone \cup (IF loop.exists \/ loop.kind = "delete" THEN {loop.path} ELSE {})
    <2>3. \A p \in todo : p \in Dir /\ Len(p) > 1 /\ StartsWith(p, loop.path)
        BY <2>2, PathsAreLong, StartsWithIsOrder
    <2>4. told \in SUBSET Path /\ loop' = LoopWith("adding", loop.exists, todo, told)
        BY <2>1, <2>2 DEF Acted
    <2> HIDE DEF todo, told
    <2> QED BY <2>2, <2>3, <2>4, LoopGoesOn
<1>5. CASE Overflow
    <2>1. loop.stage = "taken" /\ loop.path \in Dir /\ loop.path \in Path
        BY <1>5, NioAssumption DEF Overflow, LoopTyped
    <2>2. ASSUME NEW todo \in {{}, Listed(loop.path)},
                 loop' = LoopWith("adding", loop.exists, todo, {loop.path})
          PROVE  LoopTyped'
        <3>1. ASSUME NEW p \in todo
              PROVE  p \in Dir /\ Len(p) > 1 /\ StartsWith(p, loop.path)
            <4>1. p \in Dir /\ p \in Path /\ Len(p) > 1 /\ Parent(p) = loop.path
                BY NioAssumption DEF Listed
            <4> QED BY <4>1, PathsAreLong
        <3> QED BY <2>1, <2>2, <3>1, LoopGoesOn
    <2>3. ASSUME NEW r \in DOMAIN rootDirectories,
                 loop' = LoopWith("adding", loop.exists, {},
                                  {loop.path} \cup Below(rootDirectories[r], loop.path))
          PROVE  LoopTyped'
        <3> DEFINE told == {loop.path} \cup Below(rootDirectories[r], loop.path)
        <3>1. told \in SUBSET Path
            BY <1>2, <2>1 DEF Below
        <3> HIDE DEF told
        <3>2. loop' = LoopWith("adding", loop.exists, {}, told)
            BY <2>3 DEF told
        <3> QED BY <2>1, <3>1, <3>2, LoopGoesOn
    <2> QED BY <1>5, <2>2, <2>3 DEF Overflow, Find
<1>6. ASSUME NEW p \in Path, Add(p) PROVE LoopTyped'
    <2>1. UNCHANGED loop \/ loop' = [loop EXCEPT !.todo = @ \ {p}]
        BY <1>6 DEF Add
    <2>2. loop.stage = "adding"
        BY <1>6 DEF Add
    <2>3. CASE loop' = [loop EXCEPT !.todo = @ \ {p}]
        <3>1. loop' = LoopWith("adding", loop.exists, loop.todo \ {p}, loop.told)
            BY <2>2, <2>3 DEF LoopWith, LoopTyped
        <3> QED BY <2>2, <3>1, LoopGoesOn DEF LoopTyped
    <2> QED BY <1>1, <2>1, <2>3
<1>7. CASE AddUpdate
    <2>1. scan.root \in DOMAIN rootDirectories
        BY <1>7 DEF AddUpdate, Scanned, ScanRooted, NoScan
    <2> DEFINE more == Announced(Created) \cup Deleted
    <2>2. more \subseteq Path
        BY <2>1, UpdateTellsPaths
    <2>3. loop' = [loop EXCEPT !.told = @ \cup more]
        BY <1>7 DEF AddUpdate
    <2> HIDE DEF more
    <2>4. /\ loop' = [stage |-> loop'.stage, path |-> loop'.path, kind |-> loop'.kind,
                      exists |-> loop'.exists, todo |-> loop'.todo, told |-> loop'.told]
          /\ loop'.stage = loop.stage /\ loop'.path = loop.path /\ loop'.kind = loop.kind
          /\ loop'.todo = loop.todo /\ loop'.told = loop.told \cup more
        BY <2>3 DEF LoopTyped
    <2> QED BY <2>2, <2>4 DEF LoopTyped
<1>8. CASE Loop
    <2>1. CASE AddInit \/ CloseOne("loop")
        BY <1>1, <2>1 DEF AddInit, CloseOne
    <2>2. CASE Report
        BY <2>2, WaitingIsTyped DEF Report
    <2> QED BY <1>3, <1>4, <1>5, <1>6, <1>7, <1>8, <2>1, <2>2, LoopTakes DEF Loop
<1>9. CASE Scan
    BY <1>1, <1>9 DEF Scan, ScanWatch, ScanList
<1>10. CASE Calling
    BY <1>1, <1>10 DEF Calling, GetOrAdd, RegisterInit, RegisterFind, RegisterUpdate,
                       RegisterGraft, Return, UnregisterRoot, CloseOne
<1>11. CASE Close
    BY <1>11, WaitingIsTyped DEF Close
<1>12. CASE UNCHANGED vars
    BY <1>1, <1>12 DEF vars
<1>13. ASSUME NEW p \in Path, NEW value \in {"dir"} \cup Content,
             Create(p, value) \/ Modify(p, value) \/ Delete(p)
      PROVE  LoopTyped'
    BY <1>1, <1>13 DEF Create, Modify, Delete, Change
<1>14. ASSUME NEW p \in Path, Unregister(p) \/ \E d \in Depth : Register(p, d)
      PROVE  LoopTyped'
    BY <1>1, <1>14 DEF Unregister, Register
<1> QED BY <1>8, <1>9, <1>10, <1>11, <1>12, <1>13, <1>14 DEF Next
-----------------------------------------------------------------------------
(* The scans *)

LEMMA NoScanIsTyped == scan' = NoScan => ScanTyped' /\ ScanRooted'
<1>1. scan' = NoScan => ScanTyped'
    BY DEF ScanTyped, KeysOfDirs, NoScan, NoMap
<1>2. scan' = NoScan => ScanRooted'
    BY DEF ScanRooted, NoScan
<1> QED BY <1>1, <1>2

\* A scan that is under way minds neither keys nor calls that begin or end.
LEMMA ScanStays ==
    ASSUME ScanTyped, ScanRooted, KeysGrow, UNCHANGED <<scan, rootDirectories>>,
           UNCHANGED call \/ call.stage # "added"
    PROVE  ScanTyped' /\ ScanRooted'
<1>1. KeysOfDirs(keys', scan.found, scan.root)
    BY MapsStay DEF ScanTyped
<1>2. ScanTyped'
    BY <1>1 DEF ScanTyped
<1>3. ScanRooted'
    BY DEF ScanRooted, NoScan
<1> QED BY <1>2, <1>3

\* update begins at a directory below a root.
LEMMA UpdateBegins ==
    ASSUME RootsTyped, NEW r \in DOMAIN rootDirectories, NEW p \in Dir, StartsWith(p, r),
           KeysGrow, UNCHANGED rootDirectories, NEW thread, scan' = UpdateScan(thread, r, p)
    PROVE  ScanTyped' /\ ScanRooted'
<1> DEFINE tree == rootDirectories[r]
<1>1. /\ r \in Permanent /\ r \in Dir /\ r \in Path /\ r \in DOMAIN tree
      /\ KeysOfDirs(keys, tree, r) /\ KeysOfDirs(keys', tree, r)
    BY NioAssumption, MapsStay DEF RootsTyped
<1>2. StartsWith(r, r)
    BY <1>1, StartsWithIsOrder
<1>3. CASE p = r
    <2>1. /\ scan'.stage = "update" /\ scan'.root = r /\ scan'.base = r /\ scan'.toWatch = {}
          /\ scan'.toList = {r} /\ scan'.found = With(NoMap, r, tree[r])
        BY <1>3 DEF UpdateScan
    <2>2. /\ DOMAIN scan'.found = {r} /\ scan'.found[r] = tree[r]
        BY <2>1 DEF With, NoMap
    <2>3. KeysOfDirs(keys', scan'.found, r)
        BY <1>1, <2>2 DEF KeysOfDirs
    <2>4. ScanTyped'
        BY <1>1, <1>2, <2>1, <2>2, <2>3 DEF ScanTyped
    <2>5. ScanRooted'
        BY <1>1, <1>2, <2>1 DEF ScanRooted
    <2> QED BY <2>4, <2>5
<1>4. CASE p # r
    <2> DEFINE first == FirstToAdd(tree, p)
    <2>1. /\ scan'.stage = "update" /\ scan'.root = r /\ scan'.base = first
          /\ scan'.toWatch = {first} /\ scan'.toList = {} /\ scan'.found = NoMap
        BY <1>4 DEF UpdateScan
    <2>2. first \in Dir /\ StartsWith(first, r) /\ ~StartsWith(r, first)
        <3>1. \A d \in DOMAIN tree : d \in Dir /\ StartsWith(d, r)
            BY <1>1 DEF KeysOfDirs
        <3> HIDE DEF tree
        <3> QED BY <1>1, <1>4, <3>1, FirstIsToAdd
    <2> HIDE DEF first
    <2>3. first # r
        BY <1>2, <2>2
    <2>4. ScanTyped'
        BY <2>1, <2>2, <2>3 DEF ScanTyped, KeysOfDirs, NoMap
    <2>5. ScanRooted'
        BY <2>1, <2>2 DEF ScanRooted
    <2> QED BY <2>4, <2>5
<1> QED BY <1>3, <1>4

\* The parent of a path becomes a root.
LEMMA InitBegins ==
    ASSUME NEW p \in Path, Len(p) > 1, Parent(p) \in Permanent, NEW thread,
           IF thread = "call" THEN call'.stage = "added" /\ p = call'.path
           ELSE MaxUnregister > 0 /\ p \in Dir,
           scan' = InitScan(thread, p)
    PROVE  ScanTyped' /\ ScanRooted'
<1>1. /\ scan'.stage = "init" /\ scan'.root = Parent(p) /\ scan'.base = p /\ scan'.by = thread
      /\ scan'.toWatch = {Parent(p)} /\ scan'.toList = {} /\ scan'.found = NoMap
    BY DEF InitScan
<1>2. Parent(p) \in Dir /\ StartsWith(Parent(p), Parent(p))
    BY StartsWithIsOrder, NioAssumption
<1>3. ScanTyped'
    BY <1>1, <1>2 DEF ScanTyped, KeysOfDirs, NoMap
<1>4. ScanRooted'
    BY <1>1 DEF ScanRooted
<1> QED BY <1>3, <1>4

\* The scan gets the key of a directory, and lists one.
LEMMA ScanGoesOn ==
    ASSUME KeysInv, RootsTyped, ScanTyped, ScanRooted, EnvironmentTyped,
           NEW d \in Dir, ScanWatch(d) \/ ScanList(d)
    PROVE  ScanTyped' /\ ScanRooted'
<1>1. /\ KeysOfDirs(keys, scan.found, scan.root) /\ scan # NoScan
      /\ d \in Dir /\ StartsWith(d, scan.root)
      /\ UNCHANGED <<rootDirectories, call>>
    BY DEF ScanWatch, ScanList, ScanTyped, NoScan
<1>2. ASSUME NEW toWatch, NEW toList, NEW found, scan' = ScanWith(toWatch, toList, found)
      PROVE  /\ ScanRooted' /\ scan'.toWatch = toWatch /\ scan'.toList = toList
             /\ scan'.found = found /\ scan'.root = scan.root /\ scan'.base = scan.base
             /\ scan'.stage = scan.stage
    <2>1. /\ scan'.toWatch = toWatch /\ scan'.toList = toList
          /\ scan'.found = found /\ scan'.root = scan.root /\ scan'.base = scan.base
          /\ scan'.stage = scan.stage /\ scan'.by = scan.by
        BY <1>2 DEF ScanWith
    <2>2. ScanRooted'
        BY <1>1, <2>1 DEF ScanRooted
    <2> QED BY <2>1, <2>2
<1>3. CASE ScanWatch(d)
    <2> DEFINE k == KeyFor(d)
    <2>1. /\ KeysGrow /\ (k # Invalid => k \in DOMAIN keys' /\ keys'[k].path = d)
        BY <1>3, RegisterKeeps
    <2>2. scan' = ScanWith(scan.toWatch \ {d}, scan.toList \cup {d}, With(scan.found, d, k))
        BY <1>3 DEF ScanWatch
    <2> HIDE DEF k
    <2>3. /\ KeysOfDirs(keys', With(scan.found, d, k), scan.root)
          /\ DOMAIN With(scan.found, d, k) = DOMAIN scan.found \cup {d}
        BY <1>1, <2>1, MapsStay, MapsExtended
    <2>4. /\ scan'.toWatch = scan.toWatch \ {d} /\ scan'.toList = scan.toList \cup {d}
          /\ scan'.found = With(scan.found, d, k) /\ scan'.root = scan.root
          /\ scan'.base = scan.base /\ scan'.stage = scan.stage /\ ScanRooted'
        BY <1>2, <2>2
    <2> DEFINE found == With(scan.found, d, k)
    <2> HIDE DEF found
    <2>5. KeysOfDirs(keys', scan'.found, scan'.root)
        BY <2>3, <2>4 DEF found
    <2>6. \A e \in scan'.toWatch \cup scan'.toList : e \in Dir /\ StartsWith(e, scan'.root)
        BY <1>1, <2>4 DEF ScanTyped
    <2>7. DOMAIN scan'.found = DOMAIN scan.found \cup {d}
        BY <2>3, <2>4 DEF found
    <2>8. ScanTyped'
        BY <1>1, <2>4, <2>5, <2>6, <2>7 DEF ScanTyped
    <2> QED BY <2>4, <2>8
<1>4. CASE ScanList(d) /\ fs[d] = "dir"
    <2> DEFINE more == Listed(d)
    <2>1. /\ scan' = ScanWith(scan.toWatch \cup more, scan.toList \ {d}, scan.found)
          /\ UNCHANGED keys
        BY <1>4 DEF ScanList, service
    <2>2. ASSUME NEW q \in more PROVE q \in Dir /\ StartsWith(q, scan.root)
        <3>1. q \in Dir /\ q \in Path /\ Len(q) > 1 /\ Parent(q) = d /\ StartsWith(q, d)
            BY PathsAreLong, NioAssumption DEF Listed
        <3>2. scan.root \in Path
            BY <1>1, NioAssumption DEF ScanRooted, RootsTyped
        <3> QED BY <1>1, <3>1, <3>2, StartsWithIsOrder, NioAssumption
    <2> HIDE DEF more
    <2>3. /\ scan'.toWatch = scan.toWatch \cup more /\ scan'.toList = scan.toList \ {d}
          /\ scan'.found = scan.found /\ scan'.root = scan.root /\ scan'.base = scan.base
          /\ scan'.stage = scan.stage
        BY <1>2, <2>1
    <2>4. ScanTyped'
        BY <1>1, <2>1, <2>2, <2>3 DEF ScanTyped
    <2> QED BY <1>2, <2>1, <2>4
<1>5. CASE ScanList(d) /\ fs[d] # "dir"
    <2> DEFINE found == Restrict(scan.found, DOMAIN scan.found \ {d})
    <2>1. scan' = ScanWith(scan.toWatch, scan.toList \ {d}, found) /\ UNCHANGED keys
        BY <1>5 DEF ScanList, service
    <2>2. KeysOfDirs(keys, found, scan.root) /\ DOMAIN found = DOMAIN scan.found \ {d}
        BY <1>1, MapsRestricted
    <2>3. scan.root \in Permanent /\ scan.root # d
        BY <1>1, <1>5 DEF ScanRooted, RootsTyped, EnvironmentTyped
    <2> HIDE DEF found
    <2>4. ScanTyped'
        BY <1>1, <1>2, <2>1, <2>2, <2>3 DEF ScanTyped
    <2> QED BY <1>2, <2>1, <2>4
<1> QED BY <1>3, <1>4, <1>5

\* The loop thread finds no root only after one was dropped, and then what it makes
\* one is permanent.
LEMMA LoopAddsRoots ==
    ASSUME AllCovered, LoopTyped, RootsTyped, scan = NoScan, loop.stage = "adding",
           NEW p \in loop.todo, Find(p) = {}
    PROVE  MaxUnregister > 0 /\ p \in Dir /\ Len(p) > 1 /\ Parent(p) \in Permanent
<1>1. /\ p \in Dir /\ p \in Path /\ Len(p) > 1 /\ StartsWith(p, loop.path) /\ loop.path \in Path
    BY NioAssumption DEF LoopTyped
<1>2. MaxUnregister > 0
    <2> SUFFICES ASSUME MaxUnregister = 0 PROVE FALSE
        BY NioAssumption
    <2>1. PICK r \in DOMAIN rootDirectories : StartsWith(loop.path, r)
        BY DEF AllCovered, Covered, NoScan
    <2>2. r \in Path
        BY NioAssumption DEF RootsTyped
    <2>3. r \in Find(p)
        BY <1>1, <2>1, <2>2, StartsWithIsOrder DEF Find
    <2> QED BY <2>3
<1>3. Parent(p) \in Permanent
    BY <1>1, <1>2, PathsAreLong, RootAssumption
<1> QED BY <1>1, <1>2, <1>3

LEMMA ScanInductive ==
    TreesInv /\ KeysInv /\ [Next]_vars => ScanTyped' /\ ScanRooted'
<1> SUFFICES ASSUME TreesInv, KeysInv, [Next]_vars PROVE ScanTyped' /\ ScanRooted'
    OBVIOUS
<1>1. /\ RootsTyped /\ ScanTyped /\ ScanRooted /\ CallTyped /\ LoopTyped /\ AllCovered
      /\ EnvironmentTyped
    BY DEF TreesInv
<1>2. CASE scan' = NoScan
    BY <1>2, NoScanIsTyped
<1>3. ASSUME NEW p \in Path, NEW value \in {"dir"} \cup Content,
             Create(p, value) \/ Modify(p, value) \/ Delete(p)
      PROVE  ScanTyped' /\ ScanRooted'
    <2>1. UNCHANGED <<scan, rootDirectories, call>> /\ KeysGrow
        <3>1. UNCHANGED <<scan, rootDirectories, call>>
            BY <1>3 DEF Create, Modify, Delete, Change
        <3>2. KeysGrow
            BY <1>1, <1>3, ChangesAreOutside, ChangeKeeps
        <3> QED BY <3>1, <3>2
    <2> QED BY <1>1, <2>1, ScanStays
<1>4. CASE Scan
    BY <1>1, <1>4, ScanGoesOn DEF Scan
<1>5. ASSUME NEW p \in Path, Add(p) PROVE ScanTyped' /\ ScanRooted'
    <2>1. /\ loop.stage = "adding" /\ scan = NoScan /\ p \in loop.todo /\ p \in Dir
          /\ UNCHANGED rootDirectories /\ KeysGrow
        BY <1>1, <1>5 DEF Add, LoopTyped, service, KeysGrow
    <2>2. ASSUME NEW r \in Find(p), scan' = UpdateScan("loop", r, p)
          PROVE  ScanTyped' /\ ScanRooted'
        BY <1>1, <2>1, <2>2, UpdateBegins DEF Find
    <2>3. ASSUME Find(p) = {}, scan' = InitScan("loop", p)
          PROVE  ScanTyped' /\ ScanRooted'
        BY <1>1, <2>1, <2>3, LoopAddsRoots, InitBegins, NioAssumption
    <2> QED BY <1>2, <1>5, <2>1, <2>2, <2>3 DEF Add
<1>14. ASSUME NEW thread, CloseOne(thread) PROVE ScanTyped' /\ ScanRooted'
    <2>1. UNCHANGED <<scan, rootDirectories, call>> /\ KeysGrow
        BY <1>14, CloseKeysKeeps DEF CloseOne
    <2> QED BY <1>1, <2>1, ScanStays
<1>6. CASE Loop
    <2>1. ASSUME NEW k \in DOMAIN keys, Take(k) PROVE ScanTyped' /\ ScanRooted'
        <3>1. UNCHANGED <<scan, rootDirectories, call>> /\ KeysGrow
            BY <2>1, TakeKeeps DEF Take
        <3> QED BY <1>1, <3>1, ScanStays
    <2>2. CASE Look \/ Report
        <3>1. UNCHANGED <<scan, rootDirectories, call>> /\ KeysGrow
            BY <2>2 DEF Look, Report, service, KeysGrow
        <3> QED BY <1>1, <3>1, ScanStays
    <2>3. CASE Act \/ Overflow \/ AddInit \/ AddUpdate
        BY <1>2, <2>3 DEF Act, Overflow, AddInit, AddUpdate, AddRoot, Graft
    <2> QED BY <1>5, <1>6, <1>14, <2>1, <2>2, <2>3 DEF Loop
<1>7. CASE GetOrAdd
    <2>1. CASE scan' = scan
        BY <1>2, <1>7, <2>1 DEF GetOrAdd
    <2>2. CASE scan' = InitScan("call", call.path) /\ UNCHANGED call
        <3>1. call.stage = "added"
            BY <1>7 DEF GetOrAdd
        <3>2. call.path \in Path /\ Len(call.path) > 1 /\ Parent(call.path) \in Permanent
            BY <1>1, <3>1 DEF CallTyped
        <3> DEFINE p == call.path
        <3>3. call'.stage = "added" /\ p = call'.path
            BY <2>2, <3>1
        <3> HIDE DEF p
        <3> QED BY <2>2, <3>2, <3>3, InitBegins DEF p
    <2> QED BY <1>7, <2>1, <2>2 DEF GetOrAdd
<1>8. CASE RegisterUpdate
    <2>1. CASE scan' = scan
        BY <1>2, <1>8, <2>1 DEF RegisterUpdate
    <2>2. CASE scan' = UpdateScan("call", call.root, call.last)
        <3>1. UNCHANGED rootDirectories /\ KeysGrow
            BY <1>8 DEF RegisterUpdate, service, KeysGrow
        <3>2. /\ call.root \in DOMAIN rootDirectories /\ call.last \in Dir
              /\ StartsWith(call.last, call.root)
            BY <1>1, <1>8 DEF RegisterUpdate, CallTyped
        <3> QED BY <1>1, <2>2, <3>1, <3>2, UpdateBegins
    <2> QED BY <1>8, <2>1, <2>2 DEF RegisterUpdate
<1>9. CASE RegisterInit \/ RegisterFind \/ RegisterGraft \/ UnregisterRoot
    BY <1>2, <1>9 DEF RegisterInit, RegisterFind, RegisterGraft, UnregisterRoot, AddRoot, Graft
<1>10. CASE Return
    <2>1. UNCHANGED <<scan, rootDirectories>> /\ KeysGrow /\ call.stage # "added"
        BY <1>10 DEF Return, service, KeysGrow
    <2> QED BY <1>1, <2>1, ScanStays
<1>11. ASSUME NEW p \in Path, Unregister(p) \/ \E d \in Depth : Register(p, d)
      PROVE  ScanTyped' /\ ScanRooted'
    <2>1. UNCHANGED <<scan, rootDirectories>> /\ KeysGrow /\ call.stage # "added"
        BY <1>11 DEF Unregister, Register, service, KeysGrow, NoCall
    <2> QED BY <1>1, <2>1, ScanStays
<1>12. CASE Close
    BY <1>2, <1>12 DEF Close
<1>13. CASE UNCHANGED vars
    <2>1. UNCHANGED <<scan, rootDirectories, call>> /\ KeysGrow
        BY <1>13 DEF vars, KeysGrow
    <2> QED BY <1>1, <2>1, ScanStays
<1> QED BY <1>3, <1>4, <1>6, <1>7, <1>8, <1>9, <1>10, <1>11, <1>12, <1>13, <1>14 DEF Next, Calling
-----------------------------------------------------------------------------
(* The roots *)

LEMMA RootsStay ==
    ASSUME RootsTyped, KeysGrow, UNCHANGED rootDirectories PROVE RootsTyped'
BY MapsStay DEF RootsTyped

\* The rest of findOrAddRoot.
LEMMA RootIsAdded ==
    ASSUME RootsTyped, ScanTyped, ScanRooted, NEW thread, Scanned(thread, "init"), AddRoot,
           UNCHANGED keys
    PROVE  /\ RootsTyped' /\ scan.root \in DOMAIN rootDirectories'
           /\ \A r \in DOMAIN rootDirectories :
                StrictlyBelow(r, scan.base) \/ r \in DOMAIN rootDirectories'
<1>1. /\ scan.stage = "init" /\ scan # NoScan /\ scan.toWatch = {}
      /\ scan.root \in DOMAIN scan.found /\ scan.root \in Permanent
      /\ KeysOfDirs(keys, scan.found, scan.root)
    BY DEF Scanned, ScanTyped, ScanRooted, NoScan
<1> DEFINE kept == {r \in DOMAIN rootDirectories : ~StrictlyBelow(r, scan.base)}
<1>2. rootDirectories' = With(Restrict(rootDirectories, kept), scan.root, scan.found)
    BY DEF AddRoot
<1>3. kept \subseteq DOMAIN rootDirectories
    OBVIOUS
<1> HIDE DEF kept
<1>4. /\ DOMAIN rootDirectories' = kept \cup {scan.root}
      /\ rootDirectories'[scan.root] = scan.found
      /\ \A r \in kept \ {scan.root} : rootDirectories'[r] = rootDirectories[r]
    BY <1>2, <1>3 DEF With, Restrict
<1>5. RootsTyped'
    BY <1>1, <1>3, <1>4 DEF RootsTyped
<1> QED BY <1>4, <1>5 DEF kept

\* The rest of update.
LEMMA TreeIsUpdated ==
    ASSUME KeysInv, RootsTyped, ScanTyped, ScanRooted, NEW thread, Scanned(thread, "update"), Graft(thread),
           KeysGrow
    PROVE  RootsTyped' /\ DOMAIN rootDirectories' = DOMAIN rootDirectories
<1> DEFINE root == scan.root
           tree == rootDirectories[root]
           cut == Cut(tree, scan.base)
           new == WithAll(cut, scan.found)
<1>1. /\ scan # NoScan /\ scan.toWatch = {} /\ KeysOfDirs(keys, scan.found, root)
      /\ root \in DOMAIN rootDirectories /\ scan.base \in Dir /\ StartsWith(scan.base, root)
      /\ scan.base = root => root \in DOMAIN scan.found
    BY DEF Scanned, ScanTyped, ScanRooted, NoScan
<1>2. root \in Permanent /\ root \in DOMAIN tree /\ KeysOfDirs(keys, tree, root)
    BY <1>1 DEF RootsTyped
<1>3. KeysOfDirs(keys, cut, root) /\ DOMAIN cut = DOMAIN tree \ Below(tree, scan.base)
    BY <1>2, MapsRestricted DEF Cut
<1>4. KeysOfDirs(keys, new, root) /\ DOMAIN new = DOMAIN cut \cup DOMAIN scan.found
    <2>1. /\ KeysOfDirs(keys, WithAll(cut, scan.found), root)
          /\ DOMAIN WithAll(cut, scan.found) = DOMAIN cut \cup DOMAIN scan.found
        <3>1. KeysOfDirs(keys, scan.found, root) /\ KeysOfDirs(keys, cut, root)
            BY <1>1, <1>3
        <3> HIDE DEF cut, root
        <3> QED BY <3>1 DEF KeysOfDirs, WithAll
    <2> QED BY <2>1
<1>5. root \in DOMAIN new
    <2>1. CASE StartsWith(root, scan.base)
        <3>1. root = scan.base
            BY <1>1, <1>2, <2>1, StartsWithIsOrder, NioAssumption
        <3> QED BY <1>1, <1>4, <3>1
    <2>2. CASE ~StartsWith(root, scan.base)
        BY <1>2, <1>3, <1>4, <2>2 DEF Below
    <2> QED BY <2>1, <2>2
<1>6. rootDirectories' = [rootDirectories EXCEPT ![root] = new] /\ KeysGrow
    BY DEF Graft
<1>7. KeysOfDirs(keys', new, root)
    <2> HIDE DEF new
    <2> QED BY <1>4, <1>6, MapsStay
<1>8. \A r \in DOMAIN rootDirectories : KeysOfDirs(keys', rootDirectories[r], r)
    BY <1>6, MapsStay DEF RootsTyped
<1> HIDE DEF new, root
<1> QED BY <1>2, <1>5, <1>6, <1>7, <1>8 DEF RootsTyped

\* A path that is not permanent leaves the tree of a root.
LEMMA TreeIsCut ==
    ASSUME RootsTyped, NEW p \in Path \ Permanent, NEW root \in Find(p), KeysGrow,
           rootDirectories' = [rootDirectories EXCEPT ![root] = Cut(@, p)]
    PROVE  RootsTyped' /\ DOMAIN rootDirectories' = DOMAIN rootDirectories
<1> DEFINE cut == Cut(rootDirectories[root], p)
<1>1. root \in DOMAIN rootDirectories /\ StartsWith(p, root)
    BY DEF Find
<1>2. root \in Permanent /\ root \in DOMAIN cut /\ KeysOfDirs(keys, cut, root)
    BY <1>1, RootStays DEF RootsTyped
<1>3. rootDirectories' = [rootDirectories EXCEPT ![root] = cut]
    BY <1>1
<1> HIDE DEF cut
<1>4. KeysOfDirs(keys', cut, root)
    BY <1>2, MapsStay
<1>5. \A r \in DOMAIN rootDirectories : KeysOfDirs(keys', rootDirectories[r], r)
    BY MapsStay DEF RootsTyped
<1> QED BY <1>1, <1>2, <1>3, <1>4, <1>5 DEF RootsTyped

\* What Act and Overflow take out of a tree.
LEMMA LoopCuts ==
    ASSUME KeysInv, RootsTyped, LoopTyped, EnvironmentTyped, Act \/ Overflow
    PROVE  RootsTyped' /\ DOMAIN rootDirectories' = DOMAIN rootDirectories
<1>1. loop.path \in Path
    BY DEF Act, Overflow, LoopTyped
<1>2. CASE UNCHANGED service /\ UNCHANGED rootDirectories
    BY <1>2, RootsStay DEF service, KeysGrow
<1>3. CASE Act
    <2>1. ASSUME NEW r \in Find(loop.path), UNCHANGED service,
                 rootDirectories' = [rootDirectories EXCEPT ![r] = Cut(@, loop.path)]
          PROVE  RootsTyped' /\ DOMAIN rootDirectories' = DOMAIN rootDirectories
        <3>1. loop.path \notin Permanent /\ KeysGrow
            BY <1>3, <2>1 DEF Act, LoopTyped, service, KeysGrow
        <3> QED BY <1>1, <2>1, <3>1, TreeIsCut
    <2>2. UNCHANGED service
        BY <1>3 DEF Act
    <2> QED BY <1>2, <1>3, <2>1, <2>2 DEF Act
<1>4. CASE Overflow
    <2>1. ASSUME NEW r \in Find(loop.path), fs[loop.path] # "dir", UNCHANGED service,
                 rootDirectories' = [rootDirectories EXCEPT ![r] = Cut(@, loop.path)]
          PROVE  RootsTyped' /\ DOMAIN rootDirectories' = DOMAIN rootDirectories
        <3>1. loop.path \notin Permanent /\ KeysGrow
            BY <2>1 DEF EnvironmentTyped, service, KeysGrow
        <3> QED BY <1>1, <2>1, <3>1, TreeIsCut
    <2>2. UNCHANGED service
        BY <1>4 DEF Overflow
    <2> QED BY <1>2, <1>4, <2>1, <2>2 DEF Overflow
<1> QED BY <1>3, <1>4

\* unregister drops a root.
LEMMA RootIsDropped ==
    ASSUME KeysInv, RootsTyped, UnregisterRoot
    PROVE  RootsTyped'
<1>1. KeysGrow
    BY CloseKeysKeeps DEF UnregisterRoot, service, KeysGrow
<1>2. /\ DOMAIN rootDirectories' \subseteq DOMAIN rootDirectories
      /\ \A r \in DOMAIN rootDirectories' : rootDirectories'[r] = rootDirectories[r]
    <2>1. ASSUME NEW r, rootDirectories' = Restrict(rootDirectories, DOMAIN rootDirectories \ {r})
          PROVE  /\ DOMAIN rootDirectories' \subseteq DOMAIN rootDirectories
                 /\ \A s \in DOMAIN rootDirectories' : rootDirectories'[s] = rootDirectories[s]
        BY <2>1 DEF Restrict
    <2> QED BY <2>1 DEF UnregisterRoot
<1>3. \A r \in DOMAIN rootDirectories : KeysOfDirs(keys', rootDirectories[r], r)
    BY <1>1, MapsStay DEF RootsTyped
<1> QED BY <1>2, <1>3 DEF RootsTyped

LEMMA RootsInductive == TreesInv /\ KeysInv /\ [Next]_vars => RootsTyped'
<1> SUFFICES ASSUME TreesInv, KeysInv, [Next]_vars PROVE RootsTyped'
    OBVIOUS
<1>1. /\ RootsTyped /\ ScanTyped /\ ScanRooted /\ LoopTyped /\ EnvironmentTyped
    BY DEF TreesInv
<1>2. ASSUME UNCHANGED rootDirectories, ~Close PROVE RootsTyped'
    BY <1>1, <1>2, RootsStay, KeysInductive
<1>3. CASE Close
    BY <1>3 DEF Close, RootsTyped
<1>4. CASE Act \/ Overflow
    BY <1>1, <1>4, LoopCuts
<1>5. CASE AddInit \/ RegisterInit
    <2>1. UNCHANGED keys
        BY <1>5 DEF AddInit, RegisterInit, service
    <2> QED BY <1>1, <1>5, <2>1, RootIsAdded DEF AddInit, RegisterInit
<1>6. CASE AddUpdate \/ RegisterGraft
    BY <1>1, <1>6, TreeIsUpdated DEF AddUpdate, RegisterGraft, service, KeysGrow
<1>7. CASE UnregisterRoot
    BY <1>1, <1>7, RootIsDropped
<1>8. CASE UNCHANGED rootDirectories
    BY <1>2, <1>3, <1>8
<1>9. ASSUME NEW p \in Path, NEW value \in {"dir"} \cup Content,
             Create(p, value) \/ Modify(p, value) \/ Delete(p)
      PROVE  RootsTyped'
    BY <1>8, <1>9 DEF Create, Modify, Delete, Change
<1>10. CASE Scan
    BY <1>8, <1>10 DEF Scan, ScanWatch, ScanList
<1>11. CASE Loop
    <2>1. ASSUME \/ Look \/ Report \/ CloseOne("loop")
                 \/ (\E k \in DOMAIN keys : Take(k)) \/ (\E p \in Path : Add(p))
          PROVE  UNCHANGED rootDirectories
        BY <2>1 DEF Look, Report, CloseOne, Take, Add
    <2> QED BY <1>4, <1>5, <1>6, <1>8, <1>11, <2>1 DEF Loop
<1>12. CASE Calling
    <2>1. ASSUME GetOrAdd \/ RegisterFind \/ RegisterUpdate \/ Return \/ CloseOne("call")
          PROVE  UNCHANGED rootDirectories
        BY <2>1 DEF GetOrAdd, RegisterFind, RegisterUpdate, Return, CloseOne
    <2> QED BY <1>5, <1>6, <1>7, <1>8, <1>12, <2>1 DEF Calling
<1>13. ASSUME NEW p \in Path, Unregister(p) \/ \E d \in Depth : Register(p, d)
      PROVE  RootsTyped'
    BY <1>8, <1>13 DEF Unregister, Register
<1>14. CASE UNCHANGED vars
    BY <1>8, <1>14 DEF vars
<1> QED BY <1>3, <1>9, <1>10, <1>11, <1>12, <1>13, <1>14 DEF Next
-----------------------------------------------------------------------------
(* The calls *)

LEMMA CallStays ==
    ASSUME CallTyped, UNCHANGED call,
           call.stage \in {"rooted", "found"} => call.root \in DOMAIN rootDirectories'
    PROVE  CallTyped'
BY DEF CallTyped

\* A call that needs no root any more.
LEMMA CallEnds ==
    ASSUME NEW stage \in {"updating", "updated", "none", "closed"}, call'.stage = stage
    PROVE  CallTyped'
BY DEF CallTyped

\* A root that register has found is not dropped when the loop thread adds another.
LEMMA FoundRootStays ==
    ASSUME RootsTyped, ScanTyped, ScanRooted, CallTyped, AddInit
    PROVE  call.stage \in {"rooted", "found"} => call.root \in DOMAIN rootDirectories'
<1> SUFFICES ASSUME call.stage \in {"rooted", "found"} PROVE call.root \in DOMAIN rootDirectories'
    OBVIOUS
<1>1. call.root \in DOMAIN rootDirectories /\ call.root \in Permanent /\ call.root \in Path
    BY NioAssumption DEF CallTyped, RootsTyped
<1>2. /\ Scanned("loop", "init") /\ AddRoot /\ UNCHANGED keys
      /\ scan.base \in Path /\ Len(scan.base) > 1 /\ MaxUnregister > 0
    BY DEF AddInit, Scanned, ScanRooted, service
<1>3. ~StrictlyBelow(call.root, scan.base)
    <2> SUFFICES ASSUME StrictlyBelow(call.root, scan.base) PROVE FALSE
        OBVIOUS
    <2>1. Len(scan.base) \in 1..Len(call.root) /\ scan.base = SubSeq(call.root, 1, Len(scan.base))
        BY <1>1, <1>2, PrefixIsPath DEF StrictlyBelow
    <2>2. scan.base \in Permanent
        BY <1>1, <2>1, PrefixIsThere
    <2>3. Len(scan.base) = 1
        BY <1>1, <1>2, <2>2, RootAssumption
    <2> QED BY <1>2, <2>3
<1> QED BY <1>1, <1>2, <1>3, RootIsAdded

LEMMA CallGoesOn ==
    ASSUME RootsTyped, ScanTyped, ScanRooted, CallTyped, GetOrAdd \/ RegisterInit \/ RegisterFind
    PROVE  CallTyped'
<1>1. CASE GetOrAdd
    <2>1. CASE UNCHANGED call
        BY <1>1, <2>1, CallStays DEF GetOrAdd
    <2>2. ASSUME NEW r \in Find(call.path), call' = CallWith("rooted", r, <<>>, {})
          PROVE  CallTyped'
        <3>1. call.path \in Path /\ r \in DOMAIN rootDirectories' /\ StartsWith(call.path, r)
            BY <1>1 DEF GetOrAdd, CallTyped, Find
        <3>2. call'.stage = "rooted" /\ call'.path = call.path /\ call'.root = r
            BY <2>2 DEF CallWith
        <3> QED BY <3>1, <3>2 DEF CallTyped
    <2> QED BY <1>1, <2>1, <2>2 DEF GetOrAdd
<1>2. CASE RegisterInit
    <2>1. scan.root \in DOMAIN rootDirectories'
        BY <1>2, RootIsAdded DEF RegisterInit, service
    <2>2. /\ call.stage = "added" /\ call.path \in Path /\ Len(call.path) > 1
          /\ scan.root = Parent(call.path)
        BY <1>2 DEF RegisterInit, Scanned, ScanRooted, CallTyped
    <2>3. StartsWith(call.path, scan.root)
        BY <2>2, PathsAreLong
    <2>4. call'.stage = "rooted" /\ call'.path = call.path /\ call'.root = scan.root
        BY <1>2 DEF RegisterInit, CallWith
    <2> QED BY <2>1, <2>2, <2>3, <2>4 DEF CallTyped
<1>3. CASE RegisterFind
    <2> DEFINE tree == rootDirectories[call.root]
               last == LastPath(tree, call.path)
    <2>1. /\ call.root \in DOMAIN rootDirectories /\ call.path \in Path
          /\ StartsWith(call.path, call.root) /\ UNCHANGED rootDirectories
        BY <1>3 DEF RegisterFind, CallTyped
    <2>2. /\ call.root \in DOMAIN tree
          /\ \A d \in DOMAIN tree : d \in Dir /\ d \in Path /\ StartsWith(d, call.root)
        BY <2>1, NioAssumption DEF RootsTyped, KeysOfDirs
    <2>3. last \in DOMAIN tree
        <3> HIDE DEF tree
        <3> QED BY <2>1, <2>2, LastIsThere
    <2>4. call'.stage = "found" /\ call'.root = call.root /\ call'.last = last
        BY <1>3 DEF RegisterFind, CallWith
    <2> HIDE DEF last, tree
    <2> QED BY <2>1, <2>2, <2>3, <2>4 DEF CallTyped
<1> QED BY <1>1, <1>2, <1>3

LEMMA CallInductive == TreesInv /\ KeysInv /\ [Next]_vars => CallTyped'
<1> SUFFICES ASSUME TreesInv, KeysInv, [Next]_vars PROVE CallTyped'
    OBVIOUS
<1>1. /\ RootsTyped /\ ScanTyped /\ ScanRooted /\ CallTyped /\ LoopTyped /\ EnvironmentTyped
    BY DEF TreesInv
<1>2. ASSUME UNCHANGED call, DOMAIN rootDirectories' = DOMAIN rootDirectories PROVE CallTyped'
    BY <1>1, <1>2, CallStays DEF CallTyped
<1>3. ASSUME NEW p \in Path, NEW value \in {"dir"} \cup Content,
             Create(p, value) \/ Modify(p, value) \/ Delete(p)
      PROVE  CallTyped'
    BY <1>2, <1>3 DEF Create, Modify, Delete, Change
<1>4. CASE Scan
    BY <1>2, <1>4 DEF Scan, ScanWatch, ScanList
<1>5. CASE Loop
    <2>1. CASE \/ Look \/ Report \/ CloseOne("loop")
               \/ (\E k \in DOMAIN keys : Take(k)) \/ (\E p \in Path : Add(p))
        BY <1>2, <2>1 DEF Look, Report, CloseOne, Take, Add
    <2>2. CASE Act \/ Overflow
        <3>1. UNCHANGED call
            BY <2>2 DEF Act, Overflow
        <3> QED BY <1>1, <1>2, <2>2, <3>1, LoopCuts
    <2>3. CASE AddInit
        <3>1. UNCHANGED call
            BY <2>3 DEF AddInit
        <3> QED BY <1>1, <2>3, <3>1, CallStays, FoundRootStays
    <2>4. CASE AddUpdate
        <3>1. UNCHANGED call
            BY <2>4 DEF AddUpdate
        <3> QED BY <1>1, <1>2, <2>4, <3>1, TreeIsUpdated DEF AddUpdate, service, KeysGrow
    <2> QED BY <1>5, <2>1, <2>2, <2>3, <2>4 DEF Loop
<1>6. CASE Calling
    <2>1. CASE GetOrAdd \/ RegisterInit \/ RegisterFind
        BY <1>1, <2>1, CallGoesOn
    <2>2. CASE RegisterUpdate \/ RegisterGraft
        <3>1. call'.stage \in {"updating", "updated"}
            BY <2>2 DEF RegisterUpdate, RegisterGraft, CallWith
        <3> QED BY <3>1, CallEnds
    <2>3. CASE Return \/ UnregisterRoot
        <3>1. call'.stage = "none"
            BY <2>3 DEF Return, UnregisterRoot, NoCall
        <3> QED BY <3>1, CallEnds
    <2>4. CASE CloseOne("call")
        BY <1>2, <2>4 DEF CloseOne
    <2> QED BY <1>6, <2>1, <2>2, <2>3, <2>4 DEF Calling
<1>7. ASSUME NEW p \in Path, NEW d \in Depth, Register(p, d) PROVE CallTyped'
    <2>1. /\ call'.stage = "added" /\ call'.path = p /\ Len(p) > 1 /\ Parent(p) \in Permanent
        BY <1>7 DEF Register
    <2> QED BY <2>1 DEF CallTyped
<1>8. ASSUME NEW p \in Path, Unregister(p) PROVE CallTyped'
    <2>1. call'.stage = "unregistering" /\ MaxUnregister > 0
        BY <1>1, <1>8, NioAssumption DEF Unregister, EnvironmentTyped
    <2> QED BY <2>1 DEF CallTyped
<1>9. CASE Close
    <2>1. call'.stage = "closed"
        BY <1>9 DEF Close, NoCall
    <2> QED BY <2>1, CallEnds
<1>10. CASE UNCHANGED vars
    BY <1>2, <1>10 DEF vars
<1> QED BY <1>3, <1>4, <1>5, <1>6, <1>7, <1>8, <1>9, <1>10 DEF Next
-----------------------------------------------------------------------------
(* What the roots cover *)

LEMMA CoverBelow ==
    ASSUME RootsTyped, ScanRooted, NEW p \in Path, NEW q \in Path, StartsWith(q, p), Covered(p)
    PROVE  Covered(q)
<1>1. CASE \E r \in DOMAIN rootDirectories : StartsWith(p, r)
    <2>1. PICK r \in DOMAIN rootDirectories : StartsWith(p, r)
        BY <1>1
    <2>2. r \in Path
        BY NioAssumption DEF RootsTyped
    <2> QED BY <2>1, <2>2, StartsWithIsOrder DEF Covered
<1>2. CASE scan.stage = "init" /\ StartsWith(p, scan.root)
    <2>1. scan.root \in Path
        BY <1>2, NioAssumption DEF ScanRooted
    <2> QED BY <1>2, <2>1, StartsWithIsOrder DEF Covered
<1> QED BY <1>1, <1>2 DEF Covered

\* Roots and a scan that stay cover what they did.
LEMMA CoverKept ==
    ASSUME NEW p, Covered(p), DOMAIN rootDirectories \subseteq DOMAIN rootDirectories',
           scan.stage = "init" => scan'.stage = "init" /\ scan'.root = scan.root
    PROVE  Covered(p)'
BY DEF Covered

\* The roots that give way to a new one are below it.
LEMMA CoverAdded ==
    ASSUME RootsTyped, ScanTyped, ScanRooted, RegisterInit, NEW p \in Path, Covered(p)
    PROVE  Covered(p)'
<1>1. /\ scan.root \in DOMAIN rootDirectories'
      /\ \A r \in DOMAIN rootDirectories :
           StrictlyBelow(r, scan.base) \/ r \in DOMAIN rootDirectories'
    BY RootIsAdded DEF RegisterInit, service
<1>2. scan.base \in Path /\ scan.root \in Path /\ StartsWith(scan.base, scan.root)
    BY PathsAreLong, NioAssumption DEF RegisterInit, Scanned, ScanRooted
<1>3. ASSUME NEW r \in DOMAIN rootDirectories, StartsWith(p, r), StrictlyBelow(r, scan.base)
      PROVE  StartsWith(p, scan.root)
    <2>1. r \in Path
        BY NioAssumption DEF RootsTyped
    <2>2. StartsWith(p, scan.base)
        BY <1>2, <1>3, <2>1, StartsWithIsOrder DEF StrictlyBelow
    <2> QED BY <1>2, <2>2, StartsWithIsOrder
<1> QED BY <1>1, <1>3 DEF Covered

LEMMA CoverLasts ==
    ASSUME TreesInv, KeysInv, Next, ~Close, MaxUnregister = 0, NEW p \in Path, Covered(p)
    PROVE  Covered(p)'
<1>1. /\ RootsTyped /\ ScanTyped /\ ScanRooted /\ CallTyped /\ LoopTyped /\ EnvironmentTyped
    BY DEF TreesInv
<1>2. ASSUME UNCHANGED scan, DOMAIN rootDirectories' = DOMAIN rootDirectories PROVE Covered(p)'
    BY <1>2, CoverKept
<1>3. ASSUME scan.stage # "init", DOMAIN rootDirectories' = DOMAIN rootDirectories
      PROVE  Covered(p)'
    BY <1>3, CoverKept
<1>4. CASE Scan
    <2>1. UNCHANGED rootDirectories /\ scan'.stage = scan.stage /\ scan'.root = scan.root
        BY <1>4 DEF Scan, ScanWatch, ScanList, ScanWith
    <2> QED BY <2>1, CoverKept
<1>5. CASE Loop
    <2>1. CASE Look \/ Report \/ CloseOne("loop") \/ \E k \in DOMAIN keys : Take(k)
        BY <1>2, <2>1 DEF Look, Report, CloseOne, Take
    <2>2. CASE \E q \in Path : Add(q)
        BY <1>3, <2>2 DEF Add, NoScan
    <2>3. CASE Act \/ Overflow
        <3>1. scan.stage # "init"
            BY <2>3 DEF Act, Overflow, NoScan
        <3> QED BY <1>1, <1>3, <2>3, <3>1, LoopCuts
    <2>4. CASE AddInit
        BY <1>1, <2>4 DEF AddInit, Scanned, ScanRooted
    <2>5. CASE AddUpdate
        <3>1. scan.stage # "init"
            BY <2>5 DEF AddUpdate, Scanned
        <3> QED BY <1>1, <1>3, <2>5, <3>1, TreeIsUpdated DEF AddUpdate, service, KeysGrow
    <2> QED BY <1>5, <2>1, <2>2, <2>3, <2>4, <2>5 DEF Loop
<1>6. CASE Calling
    <2>1. CASE GetOrAdd \/ RegisterFind \/ RegisterUpdate
        BY <1>3, <2>1 DEF GetOrAdd, RegisterFind, RegisterUpdate, NoScan
    <2>2. CASE RegisterInit
        BY <1>1, <2>2, CoverAdded
    <2>3. CASE RegisterGraft
        <3>1. scan.stage # "init"
            BY <2>3 DEF RegisterGraft, Scanned
        <3> QED BY <1>1, <1>3, <2>3, <3>1, TreeIsUpdated DEF RegisterGraft, service, KeysGrow
    <2>4. CASE Return \/ CloseOne("call")
        BY <1>2, <2>4 DEF Return, CloseOne
    <2>5. CASE UnregisterRoot
        BY <1>1, <2>5 DEF UnregisterRoot, CallTyped
    <2> QED BY <1>6, <2>1, <2>2, <2>3, <2>4, <2>5 DEF Calling
<1>7. ASSUME NEW q \in Path, NEW value \in {"dir"} \cup Content,
             Create(q, value) \/ Modify(q, value) \/ Delete(q)
      PROVE  Covered(p)'
    BY <1>2, <1>7 DEF Create, Modify, Delete, Change
<1>8. ASSUME NEW q \in Path, Unregister(q) \/ \E d \in Depth : Register(q, d)
      PROVE  Covered(p)'
    BY <1>2, <1>8 DEF Unregister, Register
<1> QED BY <1>4, <1>5, <1>6, <1>7, <1>8 DEF Next

\* A key is made for a directory that a scan looks at, and no other.
LEMMA NewKeys ==
    ASSUME KeysInv, ScanTyped, ScanRooted, Next, ~Close
    PROVE  /\ DOMAIN keys \subseteq DOMAIN keys'
           /\ \A k \in DOMAIN keys : keys'[k].path = keys[k].path
           /\ \A k \in DOMAIN keys' \ DOMAIN keys :
                \E d \in Dir : keys'[k].path = d /\ Covered(d)'
<1>1. KeysGrow
    BY KeysInductive
<1>2. ASSUME DOMAIN keys' = DOMAIN keys
      PROVE  \A k \in DOMAIN keys' \ DOMAIN keys :
                \E d \in Dir : keys'[k].path = d /\ Covered(d)'
    BY <1>2
<1>3. ASSUME NEW d \in Dir, ScanWatch(d)
      PROVE  \A k \in DOMAIN keys' \ DOMAIN keys :
                \E e \in Dir : keys'[k].path = e /\ Covered(e)'
    <2>1. \A k \in DOMAIN keys' \ DOMAIN keys : keys'[k].path = d
        BY <1>3, RegisterKeeps
    <2>2. /\ StartsWith(d, scan.root) /\ scan # NoScan /\ UNCHANGED rootDirectories
          /\ scan'.stage = scan.stage /\ scan'.root = scan.root
        BY <1>3 DEF ScanWatch, ScanTyped, ScanWith, NoScan
    <2>3. Covered(d)'
        BY <2>2 DEF ScanRooted, Covered
    <2> QED BY <2>1, <2>3
<1>4. ASSUME NEW numbers, CloseKeys(numbers) PROVE DOMAIN keys' = DOMAIN keys
    BY <1>4 DEF CloseKeys
<1>5. \/ \E d \in Dir : ScanWatch(d)
      \/ DOMAIN keys' = DOMAIN keys
    <2>1. CASE Scan
        BY <2>1 DEF Scan, ScanList, service
    <2>2. CASE Loop
        BY <1>4, <2>2 DEF Loop, Take, Look, Act, Overflow, AddInit, AddUpdate, Report, Add,
                          CloseOne, service
    <2>3. CASE Calling
        BY <1>4, <2>3 DEF Calling, GetOrAdd, RegisterInit, RegisterFind, RegisterUpdate,
                          RegisterGraft, Return, UnregisterRoot, CloseOne, service
    <2>4. ASSUME NEW q \in Path, NEW value \in {"dir"} \cup Content,
                 Create(q, value) \/ Modify(q, value) \/ Delete(q)
          PROVE  DOMAIN keys' = DOMAIN keys
        BY <2>4 DEF Create, Modify, Delete, Change
    <2>5. ASSUME NEW q \in Path, Unregister(q) \/ \E d \in Depth : Register(q, d)
          PROVE  DOMAIN keys' = DOMAIN keys
        BY <2>5 DEF Unregister, Register, service
    <2> QED BY <2>1, <2>2, <2>3, <2>4, <2>5 DEF Next
<1> QED BY <1>1, <1>2, <1>3, <1>5 DEF KeysGrow

\* The event that is being handled is new, or happened in the directory of a key.
LEMMA NewEvents ==
    ASSUME KeysInv, EventsMatch, LoopTyped, Next, loop'.stage # "waiting"
    PROVE  \/ loop.stage # "waiting" /\ loop'.path = loop.path
           \/ \E k \in DOMAIN keys : StartsWith(loop'.path, keys[k].path)
<1>1. ASSUME NEW k \in DOMAIN keys, Take(k) PROVE StartsWith(loop'.path, keys[k].path)
    <2>1. keys[k].events \in Seq(EventOf(keys[k].path)) /\ keys[k].events # <<>>
          /\ keys[k].path \in Path /\ loop'.path = Head(keys[k].events).path
        BY <1>1, KeysArePlaces, NioAssumption DEF EventsMatch, Take, KeysInv, Key
    <2>2. \A E : \A s \in Seq(E) : s # <<>> => Head(s) \in E
        OBVIOUS
    <2>3. Head(keys[k].events) \in EventOf(keys[k].path)
        BY <2>1, <2>2
    <2> DEFINE event == Head(keys[k].events)
    <2> HIDE DEF event
    <2>4. ASSUME event \in EventOf(keys[k].path) PROVE StartsWith(event.path, keys[k].path)
        BY <2>1, <2>4, PathsAreLong, StartsWithIsOrder DEF EventOf, Event
    <2> QED BY <2>1, <2>3, <2>4 DEF event
<1>2. ASSUME UNCHANGED loop PROVE loop.stage # "waiting" /\ loop'.path = loop.path
    BY <1>2
<1>3. ASSUME NEW stage, NEW exists, NEW todo, NEW told, loop' = LoopWith(stage, exists, todo, told),
             loop.stage # "waiting"
      PROVE  loop.stage # "waiting" /\ loop'.path = loop.path
    BY <1>3 DEF LoopWith
<1>4. CASE Loop
    <2>1. CASE Look
        BY <1>3, <2>1 DEF Look, Waiting
    <2>2. CASE Act
        <3>1. loop.stage = "acting" /\ \E gone : loop' = Acted(gone)
            BY <2>2 DEF Act
        <3> QED BY <3>1 DEF Acted, LoopWith
    <2>3. CASE Overflow
        <3>1. loop.stage = "taken" /\ \E todo, told : loop' = LoopWith("adding", loop.exists, todo, told)
            BY <2>3 DEF Overflow
        <3> QED BY <3>1 DEF LoopWith
    <2>4. CASE AddInit \/ CloseOne("loop")
        BY <1>2, <2>4 DEF AddInit, CloseOne
    <2>5. CASE AddUpdate
        <3>1. loop' = [loop EXCEPT !.told = @ \cup Announced(Created) \cup Deleted]
            BY <2>5 DEF AddUpdate
        <3> QED BY <3>1 DEF LoopTyped
    <2>6. CASE Report
        BY <2>6 DEF Report, Waiting
    <2>7. ASSUME NEW p \in Path, Add(p) PROVE loop.stage # "waiting" /\ loop'.path = loop.path
        <3>1. UNCHANGED loop \/ loop' = [loop EXCEPT !.todo = @ \ {p}]
            BY <2>7 DEF Add
        <3> QED BY <1>2, <2>7, <3>1 DEF Add, LoopTyped
    <2> QED BY <1>1, <1>4, <2>1, <2>2, <2>3, <2>4, <2>5, <2>6, <2>7 DEF Loop
<1>5. CASE Scan
    BY <1>2, <1>5 DEF Scan, ScanWatch, ScanList
<1>6. CASE Calling
    BY <1>2, <1>6 DEF Calling, GetOrAdd, RegisterInit, RegisterFind, RegisterUpdate, RegisterGraft,
                      Return, UnregisterRoot, CloseOne
<1>7. CASE Close
    BY <1>7 DEF Close, Waiting
<1>8. ASSUME NEW q \in Path, NEW value \in {"dir"} \cup Content,
             Create(q, value) \/ Modify(q, value) \/ Delete(q)
      PROVE  UNCHANGED loop
    BY <1>8 DEF Create, Modify, Delete, Change
<1>9. ASSUME NEW q \in Path, Unregister(q) \/ \E d \in Depth : Register(q, d)
      PROVE  UNCHANGED loop
    BY <1>9 DEF Unregister, Register
<1> QED BY <1>2, <1>4, <1>5, <1>6, <1>7, <1>8, <1>9 DEF Next

LEMMA CoverInductive == TreesInv /\ KeysInv /\ [Next]_vars => AllCovered'
<1> SUFFICES ASSUME TreesInv, KeysInv, [Next]_vars PROVE AllCovered'
    OBVIOUS
<1>1. /\ EventsMatch /\ RootsTyped /\ ScanTyped /\ ScanRooted /\ LoopTyped /\ AllCovered
    BY DEF TreesInv
<1>2. CASE UNCHANGED vars
    BY <1>1, <1>2 DEF vars, AllCovered, Covered
<1>3. CASE Close
    <2>1. DOMAIN keys' = {} /\ loop'.stage = "waiting"
        BY <1>3 DEF Close, Waiting
    <2> QED BY <2>1 DEF AllCovered
<1>4. ASSUME Next, ~Close, MaxUnregister = 0
      PROVE  AllCovered'
    <2>1. ASSUME NEW p \in Path, Covered(p) PROVE Covered(p)'
        BY <1>4, <2>1, CoverLasts
    <2>2. \A k \in DOMAIN keys : keys[k].path \in Path /\ Covered(keys[k].path)
        BY <1>1, <1>4, KeysArePlaces, NioAssumption DEF AllCovered, KeysInv, Key
    <2>3. ASSUME NEW k \in DOMAIN keys' PROVE \E p \in Path : keys'[k].path = p /\ Covered(p)'
        <3>1. CASE k \in DOMAIN keys
            <4>1. PICK p \in Path : keys[k].path = p /\ Covered(p)
                BY <2>2, <3>1
            <4> QED BY <1>1, <1>4, <2>1, <3>1, <4>1, NewKeys
        <3>2. CASE k \notin DOMAIN keys
            BY <1>1, <1>4, <3>2, NewKeys, NioAssumption
        <3> QED BY <3>1, <3>2
    <2>4. ASSUME loop'.stage # "waiting" PROVE \E p \in Path : loop'.path = p /\ Covered(p)'
        <3>1. loop'.path \in Path
            BY <2>4, LoopInductive DEF TreesInv, LoopTyped
        <3>2. Covered(loop'.path)
            <4>1. CASE loop.stage # "waiting" /\ loop'.path = loop.path
                BY <1>1, <1>4, <4>1 DEF AllCovered
            <4>2. ASSUME NEW k \in DOMAIN keys, StartsWith(loop'.path, keys[k].path)
                  PROVE  Covered(loop'.path)
                <5>1. PICK p \in Path : keys[k].path = p /\ Covered(p)
                    BY <2>2
                <5> QED BY <1>1, <3>1, <4>2, <5>1, CoverBelow
            <4> QED BY <1>1, <1>4, <2>4, <4>1, <4>2, NewEvents
        <3>3. PICK p \in Path : loop'.path = p
            BY <3>1
        <3> QED BY <2>1, <3>2, <3>3
    <2>5. \A k \in DOMAIN keys' : Covered(keys[k].path)'
        BY <2>3 DEF Covered
    <2>6. loop'.stage # "waiting" => Covered(loop.path)'
        BY <2>4 DEF Covered
    <2> QED BY <2>5, <2>6 DEF AllCovered
<1>5. AllCovered' \/ MaxUnregister = 0
    BY DEF AllCovered
<1> QED BY <1>2, <1>3, <1>4, <1>5
-----------------------------------------------------------------------------
(* What is to be closed *)

\* Who touches the sets of keys that are to be closed, and how.
LEMMA ClosingSteps ==
    ASSUME [Next]_vars, ~Close
    PROVE  \/ UNCHANGED <<closing, reused>>
           \/ \E thread \in {"loop", "call"} :
                 CloseOne(thread) \/ (Scanned(thread, "update") /\ Graft(thread) /\ UNCHANGED <<service, reused>>)
           \/ Act
           \/ \E d \in Dir : ScanWatch(d)
<1>1. CASE Scan
    BY <1>1 DEF Scan, ScanList
<1>2. CASE Loop
    <2>1. CASE AddUpdate
        BY <2>1 DEF AddUpdate
    <2> QED BY <1>2, <2>1 DEF Loop, Take, Look, Overflow, AddInit, Report, Add
<1>3. CASE Calling
    <2>1. CASE RegisterGraft
        BY <2>1 DEF RegisterGraft
    <2> QED BY <1>3, <2>1 DEF Calling, GetOrAdd, RegisterInit, RegisterFind, RegisterUpdate, Return, UnregisterRoot
<1>4. ASSUME NEW p \in Path, NEW value \in {"dir"} \cup Content,
             Create(p, value) \/ Modify(p, value) \/ Delete(p)
      PROVE  UNCHANGED <<closing, reused>>
    BY <1>4 DEF Create, Modify, Delete, Change
<1>5. ASSUME NEW p \in Path, Unregister(p) \/ \E d \in Depth : Register(p, d)
      PROVE  UNCHANGED <<closing, reused>>
    BY <1>5 DEF Unregister, Register
<1>6. CASE UNCHANGED vars
    BY <1>6 DEF vars
<1> QED BY <1>1, <1>2, <1>3, <1>4, <1>5, <1>6 DEF Next

LEMMA ClosingInductive == TreesInv /\ KeysInv /\ [Next]_vars => ClosingTyped'
<1> SUFFICES ASSUME TreesInv, KeysInv, [Next]_vars PROVE ClosingTyped'
    OBVIOUS
<1>1. RootsTyped /\ ScanRooted /\ ClosingTyped
    BY DEF TreesInv
<1>2. CASE Close
    BY <1>1, <1>2 DEF Close, ClosingTyped, NothingToClose
<1>3. CASE ~Close
    <2>1. DOMAIN keys \subseteq DOMAIN keys'
        BY <1>3, KeysInductive DEF KeysGrow
    <2>2. ASSUME NEW r \in DOMAIN rootDirectories, NEW dirs \in SUBSET DOMAIN rootDirectories[r]
          PROVE  KeysOf(rootDirectories[r], dirs) \subseteq DOMAIN keys \cup {Invalid}
        BY <1>1 DEF RootsTyped, KeysOfDirs, KeysOf
    <2>3. CASE UNCHANGED <<closing, reused>>
        BY <1>1, <2>1, <2>3 DEF ClosingTyped
    <2>4. ASSUME NEW thread \in {"loop", "call"}, CloseOne(thread) PROVE ClosingTyped'
        BY <1>1, <2>1, <2>4 DEF CloseOne, ClosingTyped
    <2>5. ASSUME NEW thread \in {"loop", "call"}, Scanned(thread, "update"), Graft(thread), UNCHANGED reused
          PROVE  ClosingTyped'
        <3>1. scan.root \in DOMAIN rootDirectories
            BY <1>1, <2>5 DEF Scanned, ScanRooted, NoScan
        <3>2. KeysOf(rootDirectories[scan.root], Deleted) \subseteq DOMAIN keys \cup {Invalid}
            BY <2>2, <3>1 DEF Deleted, Below
        <3> QED BY <1>1, <2>1, <2>5, <3>2 DEF Graft, ClosingTyped
    <2>6. CASE Act
        <3>1. UNCHANGED reused
            BY <2>6 DEF Act
        <3>2. ASSUME NEW r \in Find(loop.path),
                     closing' = [closing EXCEPT !["loop"] = KeysOf(rootDirectories[r], Below(rootDirectories[r], loop.path))]
              PROVE  ClosingTyped'
            <4>1. KeysOf(rootDirectories[r], Below(rootDirectories[r], loop.path)) \subseteq DOMAIN keys \cup {Invalid}
                BY <2>2 DEF Find, Below
            <4> QED BY <1>1, <2>1, <3>1, <3>2, <4>1 DEF ClosingTyped
        <3> QED BY <2>3, <2>6, <3>1, <3>2 DEF Act
    <2>7. ASSUME NEW d \in Dir, ScanWatch(d) PROVE ClosingTyped'
        BY <1>1, <2>1, <2>7 DEF ScanWatch, ClosingTyped
    <2> QED BY <1>3, <2>3, <2>4, <2>5, <2>6, <2>7, ClosingSteps
<1> QED BY <1>2, <1>3
-----------------------------------------------------------------------------
LEMMA TreesInductive == TreesInv /\ KeysInv /\ [Next]_vars => TreesInv'
<1> SUFFICES ASSUME TreesInv, KeysInv, [Next]_vars PROVE TreesInv'
    OBVIOUS
<1>1. EventsMatch' /\ LoopTyped' /\ EnvironmentTyped'
    BY EventsInductive, LoopInductive, EnvironmentInductive DEF TreesInv
<1>2. RootsTyped' /\ ScanTyped' /\ ScanRooted' /\ CallTyped' /\ AllCovered'
    BY RootsInductive, ScanInductive, CallInductive, CoverInductive
<1>3. ClosingTyped'
    BY ClosingInductive
<1> QED BY <1>1, <1>2, <1>3 DEF TreesInv

LEMMA TreesBegin == Init => TreesInv
<1> SUFFICES ASSUME Init PROVE TreesInv
    OBVIOUS
<1>1. EventsMatch /\ RootsTyped
    BY DEF Init, EventsMatch, RootsTyped
<1>2. ScanTyped /\ ScanRooted
    BY DEF Init, ScanTyped, ScanRooted, KeysOfDirs, NoScan, NoMap
<1>3. CallTyped /\ LoopTyped
    BY DEF Init, CallTyped, LoopTyped, NoCall, Waiting
<1>4. AllCovered
    BY DEF Init, AllCovered, Waiting
<1>5. EnvironmentTyped
    <2>1. /\ fs \in [Path -> {"none", "dir"} \cup Content] /\ \A d \in Permanent : fs[d] = "dir"
          /\ known = [p \in Path |-> "none"] /\ monitored = {}
          /\ budget = [changes |-> MaxChanges, register |-> MaxRegister, unregister |-> MaxUnregister]
        BY NioAssumption DEF Init
    <2>2. MaxUnregister \in 0..MaxUnregister
        BY NioAssumption
    <2> QED BY <2>1, <2>2 DEF EnvironmentTyped
<1>6. ClosingTyped
    BY DEF Init, ClosingTyped, NothingToClose
<1> QED BY <1>1, <1>2, <1>3, <1>4, <1>5, <1>6 DEF TreesInv

LEMMA TypeFollows == TreesInv /\ KeysInv => TypeOK
<1> SUFFICES ASSUME TreesInv, KeysInv PROVE TypeOK
    OBVIOUS
<1>1. RootsTyped /\ ScanTyped /\ LoopTyped /\ ClosingTyped /\ EnvironmentTyped
    BY DEF TreesInv
<1>2. ASSUME NEW r \in DOMAIN rootDirectories, NEW d \in DOMAIN rootDirectories[r]
      PROVE  /\ StartsWith(d, r) /\ d \in Dir
             /\ rootDirectories[r][d] \in {Invalid} \cup DOMAIN keys
    BY <1>1 DEF RootsTyped, KeysOfDirs
<1>3. DOMAIN scan.found \subseteq Dir /\ scan.toWatch \cup scan.toList \subseteq Dir
    BY <1>1 DEF ScanTyped, KeysOfDirs
<1>4. /\ loop.told \subseteq Path /\ monitored \subseteq Path
      /\ known \in [Path -> {"none", "dir"} \cup Content]
    BY <1>1 DEF LoopTyped, EnvironmentTyped
<1> QED BY <1>1, <1>2, <1>3, <1>4 DEF TypeOK, KeysInv, ClosingTyped

\* A tree holds directories at and below its root, and each with its own key or with
\* none: whatever the loop thread, register and unregister leave of it, in whichever
\* order their scans end (CachedDirectoryImpl with the converter of NioPathWatcher).
THEOREM NioTypeCorrect == Spec => []TypeOK
<1>1. Init => TreesInv /\ KeysInv
    <2>1. Init => KeysInv
        BY DEF Init, KeysInv, KeysMatch, NoMap
    <2> QED BY <2>1, TreesBegin
<1>2. TreesInv /\ KeysInv /\ [Next]_vars => (TreesInv /\ KeysInv)'
    BY TreesInductive, KeysInductive
<1> QED BY <1>1, <1>2, TypeFollows, PTL DEF Spec
-----------------------------------------------------------------------------
(* Trees hold open keys, as long as no root lies above another *)

RootsApart == \A r, s \in DOMAIN rootDirectories : StartsWith(r, s) => r = s

\* The keys that a thread has still to close, and those that a tree may hold: the open
\* ones that nobody is about to close, and those of the directories that have got such
\* a key all the same.
ToClose == closing["loop"] \cup closing["call"]
Sound == {k \in DOMAIN keys : keys[k].path \in reused \/ (keys[k].open /\ k \notin ToClose)}

Opened(numbers, map) == \A d \in DOMAIN map : map[d] # Invalid => map[d] \in numbers

OpenInv == Opened(Sound, scan.found) /\ \A r \in DOMAIN rootDirectories : Opened(Sound, rootDirectories[r])

\* A step after which some keys may be closed, or about to be, and no others.
Spares(numbers) == Sound \ numbers \subseteq Sound'

LEMMA SoundStays ==
    ASSUME KeysGrow, StayOpen, reused \subseteq reused', UNCHANGED closing
    PROVE  Spares({})
BY DEF KeysGrow, StayOpen, Spares, Sound, ToClose

\* A key is closed that was to be closed.
LEMMA SoundlyClosed ==
    ASSUME KeysInv, ClosingTyped, NEW thread \in {"loop", "call"}, CloseOne(thread)
    PROVE  Spares({})
<1>1. PICK n \in closing[thread] :
         CloseKeys({n}) /\ closing' = [closing EXCEPT ![thread] = @ \ {n}] /\ UNCHANGED reused
    BY DEF CloseOne
<1>2. n \in ToClose /\ ToClose' \subseteq ToClose
    BY <1>1 DEF ToClose, ClosingTyped
<1>3. ASSUME NEW k \in Sound PROVE k \in Sound'
    <2>1. /\ k \in DOMAIN keys' /\ keys'[k].path = keys[k].path
          /\ keys'[k].open <=> keys[k].open /\ k # n
        BY <1>1, <1>3, CloseKeysKeeps DEF Sound, KeysGrow
    <2> QED BY <1>1, <1>2, <1>3, <2>1 DEF Sound
<1> QED BY <1>3 DEF Spares

\* Keys are closed, or are put among those to be closed.
LEMMA SparesOthers ==
    ASSUME KeysInv, ClosingTyped, UNCHANGED reused, NEW numbers,
           \/ CloseKeys(numbers) /\ UNCHANGED closing
           \/ /\ UNCHANGED keys
              /\ \E thread \in {"loop", "call"} : closing' = [closing EXCEPT ![thread] = numbers]
    PROVE  Spares(numbers)
<1>1. CASE CloseKeys(numbers) /\ UNCHANGED closing
    <2>1. ASSUME NEW k \in Sound \ numbers PROVE k \in Sound'
        <3>1. /\ k \in DOMAIN keys' /\ keys'[k].path = keys[k].path
              /\ keys'[k].open <=> keys[k].open
            BY <1>1, <2>1, CloseKeysKeeps DEF Sound, KeysGrow
        <3> QED BY <1>1, <2>1, <3>1 DEF Sound, ToClose
    <2> QED BY <2>1 DEF Spares
<1>2. ASSUME UNCHANGED keys, NEW thread \in {"loop", "call"},
             closing' = [closing EXCEPT ![thread] = numbers]
      PROVE  Spares(numbers)
    <2>1. ToClose' \subseteq ToClose \cup numbers
        BY <1>2 DEF ToClose, ClosingTyped
    <2> QED BY <1>2, <2>1 DEF Spares, Sound
<1> QED BY <1>1, <1>2

\* Keys that stay as sound as they are.
LEMMA OpenStays ==
    ASSUME Spares({}), NEW map, Opened(Sound, map)
    PROVE  Opened(Sound', map)
BY DEF Spares, Opened

\* The keys of other directories are closed.
LEMMA OthersClose ==
    ASSUME NEW tree, NEW root, KeysOfDirs(keys, tree, root),
           NEW dirs \in SUBSET DOMAIN tree, Spares(KeysOf(tree, dirs)),
           NEW map, NEW base, KeysOfDirs(keys, map, base), Opened(Sound, map),
           DOMAIN map \cap dirs = {}
    PROVE  Opened(Sound', map)
<1> SUFFICES ASSUME NEW d \in DOMAIN map, map[d] # Invalid PROVE map[d] \in Sound'
    BY DEF Opened
<1>1. map[d] \in DOMAIN keys /\ keys[map[d]].path = d /\ map[d] \in Sound
    BY DEF KeysOfDirs, Opened
<1>2. map[d] \notin KeysOf(tree, dirs)
    <2> SUFFICES ASSUME NEW e \in dirs, map[d] = tree[e] PROVE FALSE
        BY DEF KeysOf
    <2>1. e \in DOMAIN tree /\ tree[e] # Invalid
        OBVIOUS
    <2>2. keys[tree[e]].path = e
        BY <2>1 DEF KeysOfDirs
    <2> QED BY <1>1, <2>2
<1> QED BY <1>1, <1>2 DEF Spares

\* The trees of two roots have nothing in common.
LEMMA TreesApart ==
    ASSUME RootsTyped, RootsApart, NEW r \in DOMAIN rootDirectories,
           NEW s \in DOMAIN rootDirectories, r # s
    PROVE  DOMAIN rootDirectories[r] \cap DOMAIN rootDirectories[s] = {}
<1> SUFFICES ASSUME NEW d \in DOMAIN rootDirectories[r], d \in DOMAIN rootDirectories[s] PROVE FALSE
    OBVIOUS
<1>1. d \in Path /\ r \in Path /\ s \in Path /\ StartsWith(d, r) /\ StartsWith(d, s)
    BY NioAssumption DEF RootsTyped, KeysOfDirs
<1>2. StartsWith(r, s) \/ StartsWith(s, r)
    BY <1>1, StartsWithIsOrder
<1> QED BY <1>2 DEF RootsApart

\* The keys of some directories of one tree are closed: the other trees keep theirs.
LEMMA OtherTreesOpen ==
    ASSUME RootsTyped, RootsApart, OpenInv, NEW root \in DOMAIN rootDirectories,
           NEW dirs \in SUBSET DOMAIN rootDirectories[root],
           Spares(KeysOf(rootDirectories[root], dirs)),
           NEW r \in DOMAIN rootDirectories \ {root}
    PROVE  Opened(Sound', rootDirectories[r])
<1>1. DOMAIN rootDirectories[r] \cap dirs = {}
    BY TreesApart
<1>2. /\ KeysOfDirs(keys, rootDirectories[root], root) /\ KeysOfDirs(keys, rootDirectories[r], r)
      /\ Opened(Sound, rootDirectories[r])
    BY DEF RootsTyped, OpenInv
<1> QED BY <1>1, <1>2, OthersClose

\* What a cut leaves stays open when the keys of what it takes are closed.
LEMMA CutOpen ==
    ASSUME RootsTyped, OpenInv, NEW root \in DOMAIN rootDirectories, NEW p,
           NEW dirs \in SUBSET Below(rootDirectories[root], p),
           Spares(KeysOf(rootDirectories[root], dirs))
    PROVE  Opened(Sound', Cut(rootDirectories[root], p))
<1> DEFINE tree == rootDirectories[root]
           cut == Cut(tree, p)
<1>1. KeysOfDirs(keys, tree, root) /\ Opened(Sound, tree) /\ dirs \in SUBSET DOMAIN tree
    BY DEF RootsTyped, OpenInv, Below
<1>2. KeysOfDirs(keys, cut, root) /\ DOMAIN cut = DOMAIN tree \ Below(tree, p)
    <2> HIDE DEF tree
    <2> QED BY <1>1, MapsRestricted DEF Cut
<1>3. Opened(Sound, cut)
    BY <1>1 DEF Opened, Cut, Restrict
<1> HIDE DEF cut
<1>4. DOMAIN cut \cap dirs = {}
    BY <1>2
<1>5. Opened(Sound', cut)
    BY <1>1, <1>2, <1>3, <1>4, OthersClose
<1> QED BY <1>5 DEF cut

LEMMA OpenKept ==
    ASSUME OpenInv, Spares({}), UNCHANGED rootDirectories,
           UNCHANGED scan \/ scan'.found = NoMap
    PROVE  OpenInv'
<1>1. \A r \in DOMAIN rootDirectories : Opened(Sound', rootDirectories[r])
    BY OpenStays DEF OpenInv
<1>2. Opened(Sound', scan.found)
    BY OpenStays DEF OpenInv
<1>3. scan'.found = NoMap => Opened(Sound', scan'.found)
    BY DEF Opened, NoMap
<1> QED BY <1>1, <1>2, <1>3 DEF OpenInv

\* The scan of a directory goes on.
LEMMA ScanOpen ==
    ASSUME TreesInv, KeysInv, OpenInv, NEW d \in Dir, ScanWatch(d) \/ ScanList(d)
    PROVE  OpenInv'
<1>1. CASE ScanWatch(d)
    <2> DEFINE k == KeyFor(d)
    <2>1. /\ StayOpen /\ KeysGrow /\ reused \subseteq reused' /\ UNCHANGED closing
          /\ k # Invalid => k \in DOMAIN keys' /\ keys'[k].path = d /\ keys'[k].open
          /\ k # Invalid /\ k \in ToClose => d \in reused'
          /\ UNCHANGED rootDirectories /\ scan'.found = With(scan.found, d, k)
        BY <1>1, RegisterKeeps DEF ScanWatch, ScanWith, ToClose
    <2>2. Spares({})
        BY <2>1, SoundStays
    <2>3. \A r \in DOMAIN rootDirectories : Opened(Sound', rootDirectories[r])
        BY <2>2, OpenStays DEF OpenInv
    <2>4. Opened(Sound', scan.found)
        BY <2>2, OpenStays DEF OpenInv
    <2> HIDE DEF k
    <2>5. k # Invalid => k \in Sound'
        BY <2>1 DEF Sound, ToClose
    <2>6. Opened(Sound', With(scan.found, d, k))
        BY <2>4, <2>5 DEF Opened, With
    <2> QED BY <2>1, <2>3, <2>6 DEF OpenInv
<1>2. CASE ScanList(d)
    <2>1. /\ UNCHANGED Sound /\ UNCHANGED rootDirectories
          /\ scan'.found \in {scan.found, Restrict(scan.found, DOMAIN scan.found \ {d})}
        BY <1>2 DEF ScanList, ScanWith, service, Sound, ToClose
    <2>2. Opened(Sound, Restrict(scan.found, DOMAIN scan.found \ {d}))
        BY DEF OpenInv, Opened, Restrict
    <2> QED BY <2>1, <2>2 DEF OpenInv
<1> QED BY <1>1, <1>2

\* A scan of a directory begins.
LEMMA ScanOpens ==
    ASSUME TreesInv, OpenInv, NEW r \in DOMAIN rootDirectories, NEW path, NEW thread,
           scan' = UpdateScan(thread, r, path), UNCHANGED <<Sound, rootDirectories>>
    PROVE  OpenInv'
<1> DEFINE tree == rootDirectories[r]
<1>1. r \in DOMAIN tree /\ Opened(Sound, tree)
    BY DEF TreesInv, RootsTyped, OpenInv
<1>2. scan'.found \in {NoMap, With(NoMap, r, tree[r])}
    BY DEF UpdateScan
<1> HIDE DEF tree
<1>3. Opened(Sound, NoMap) /\ Opened(Sound, With(NoMap, r, tree[r]))
    BY <1>1 DEF Opened, NoMap, With
<1> QED BY <1>2, <1>3 DEF OpenInv

\* A root is added.
LEMMA RootOpen ==
    ASSUME OpenInv, AddRoot, UNCHANGED Sound
    PROVE  OpenInv'
<1> DEFINE kept == {r \in DOMAIN rootDirectories : ~StrictlyBelow(r, scan.base)}
<1>1. /\ rootDirectories' = With(Restrict(rootDirectories, kept), scan.root, scan.found)
      /\ scan'.found = NoMap
    BY DEF AddRoot, NoScan
<1>2. kept \subseteq DOMAIN rootDirectories
    OBVIOUS
<1> HIDE DEF kept
<1>3. \A r \in DOMAIN rootDirectories' : \/ rootDirectories'[r] = scan.found
                                         \/ /\ r \in DOMAIN rootDirectories
                                            /\ rootDirectories'[r] = rootDirectories[r]
    BY <1>1, <1>2 DEF With, Restrict
<1>4. Opened(Sound, NoMap)
    BY DEF Opened, NoMap
<1> QED BY <1>1, <1>3, <1>4 DEF OpenInv

\* The tree of one root changes.
LEMMA TreeOpen ==
    ASSUME NEW root \in DOMAIN rootDirectories, NEW tree,
           rootDirectories' = [rootDirectories EXCEPT ![root] = tree],
           Opened(Sound', tree), Opened(Sound', scan'.found),
           \A r \in DOMAIN rootDirectories \ {root} : Opened(Sound', rootDirectories[r])
    PROVE  OpenInv'
BY DEF OpenInv

\* The rest of update closes the keys of what it has not found again.
LEMMA GraftOpen ==
    ASSUME TreesInv, KeysInv, RootsApart, OpenInv, NEW thread \in {"loop", "call"},
           Scanned(thread, "update"), Graft(thread), UNCHANGED <<keys, reused>>
    PROVE  OpenInv'
<1> DEFINE root == scan.root
           tree == rootDirectories[root]
           cut == Cut(tree, scan.base)
<1>1. /\ root \in DOMAIN rootDirectories /\ RootsTyped
      /\ KeysOfDirs(keys, scan.found, root) /\ Opened(Sound, scan.found)
      /\ KeysOfDirs(keys, tree, root)
    BY DEF TreesInv, ScanTyped, ScanRooted, RootsTyped, OpenInv, Scanned
<1>2. /\ Spares(KeysOf(tree, Deleted)) /\ scan'.found = NoMap
      /\ rootDirectories' = [rootDirectories EXCEPT ![root] = WithAll(cut, scan.found)]
    BY SparesOthers DEF Graft, NoScan, TreesInv
<1>3. /\ Deleted \subseteq Below(tree, scan.base) /\ Deleted \subseteq DOMAIN tree
      /\ DOMAIN scan.found \cap Deleted = {}
    BY DEF Deleted, Below
<1>4. Opened(Sound', cut)
    BY <1>1, <1>2, <1>3, CutOpen
<1>5. Opened(Sound', scan.found)
    <2> HIDE DEF tree, root
    <2> QED BY <1>1, <1>2, <1>3, OthersClose
<1>6. \A r \in DOMAIN rootDirectories \ {root} : Opened(Sound', rootDirectories[r])
    BY <1>1, <1>2, <1>3, OtherTreesOpen
<1>7. Opened(Sound', WithAll(cut, scan.found)) /\ Opened(Sound', NoMap)
    <2> HIDE DEF cut
    <2> QED BY <1>4, <1>5 DEF Opened, WithAll, NoMap
<1> HIDE DEF cut, root
<1> QED BY <1>1, <1>2, <1>6, <1>7, TreeOpen

\* remove and handleOverflow.
LEMMA CutsOpen ==
    ASSUME TreesInv, KeysInv, RootsApart, OpenInv, Act \/ Overflow
    PROVE  OpenInv'
<1>1. /\ scan'.found = NoMap /\ Opened(Sound', NoMap) /\ UNCHANGED <<scan, keys, reused>>
      /\ RootsTyped /\ ClosingTyped
    BY DEF Act, Overflow, NoScan, NoMap, Opened, TreesInv, service
<1>2. CASE UNCHANGED <<closing, rootDirectories>>
    BY <1>1, <1>2, OpenKept DEF Spares, Sound, ToClose
<1>3. ASSUME NEW root \in Find(loop.path), NEW dirs \in SUBSET Below(rootDirectories[root], loop.path),
             Spares(KeysOf(rootDirectories[root], dirs)),
             rootDirectories' = [rootDirectories EXCEPT ![root] = Cut(@, loop.path)]
      PROVE  OpenInv'
    <2> DEFINE cut == Cut(rootDirectories[root], loop.path)
    <2>1. root \in DOMAIN rootDirectories /\ dirs \in SUBSET DOMAIN rootDirectories[root]
        BY DEF Find, Below
    <2>2. Opened(Sound', cut)
        BY <1>1, <1>3, <2>1, CutOpen
    <2>3. \A r \in DOMAIN rootDirectories \ {root} : Opened(Sound', rootDirectories[r])
        BY <1>1, <1>3, <2>1, OtherTreesOpen
    <2>4. rootDirectories' = [rootDirectories EXCEPT ![root] = cut]
        BY <1>3
    <2> HIDE DEF cut
    <2> QED BY <1>1, <2>1, <2>2, <2>3, <2>4, TreeOpen
<1>4. CASE Act
    <2>1. ASSUME NEW r \in Find(loop.path),
                 closing' = [closing EXCEPT !["loop"] = KeysOf(rootDirectories[r], Below(rootDirectories[r], loop.path))],
                 rootDirectories' = [rootDirectories EXCEPT ![r] = Cut(@, loop.path)]
          PROVE  OpenInv'
        <3> DEFINE dirs == Below(rootDirectories[r], loop.path)
        <3>1. dirs \in SUBSET Below(rootDirectories[r], loop.path)
            OBVIOUS
        <3> HIDE DEF dirs
        <3>2. Spares(KeysOf(rootDirectories[r], dirs))
            BY <1>1, <2>1, SparesOthers DEF dirs
        <3> QED BY <1>3, <2>1, <3>1, <3>2
    <2> QED BY <1>2, <1>4, <2>1 DEF Act
<1>5. CASE Overflow
    <2>1. UNCHANGED closing /\ UNCHANGED Sound
        BY <1>1, <1>5 DEF Overflow, Sound, ToClose
    <2>2. ASSUME NEW r \in Find(loop.path),
                 rootDirectories' = [rootDirectories EXCEPT ![r] = Cut(@, loop.path)]
          PROVE  OpenInv'
        <3> DEFINE cut == Cut(rootDirectories[r], loop.path)
        <3>1. r \in DOMAIN rootDirectories
            BY DEF Find
        <3>2. Opened(Sound', cut)
            BY <2>1, <3>1 DEF OpenInv, Opened, Cut, Restrict
        <3>3. \A s \in DOMAIN rootDirectories \ {r} : Opened(Sound', rootDirectories[s])
            BY <2>1 DEF OpenInv
        <3>4. rootDirectories' = [rootDirectories EXCEPT ![r] = cut]
            BY <2>2
        <3> HIDE DEF cut
        <3> QED BY <1>1, <3>1, <3>2, <3>3, <3>4, TreeOpen
    <2> QED BY <1>2, <1>5, <2>1, <2>2 DEF Overflow
<1> QED BY <1>4, <1>5

\* unregister closes keys of the tree that it drops.
LEMMA DropOpen ==
    ASSUME TreesInv, KeysInv, RootsApart, OpenInv, UnregisterRoot
    PROVE  OpenInv'
<1>1. /\ RootsTyped /\ ClosingTyped /\ UNCHANGED <<scan, closing, reused>> /\ scan'.found = NoMap
    BY DEF TreesInv, UnregisterRoot, NoScan
<1>2. CASE UNCHANGED service /\ UNCHANGED rootDirectories
    BY <1>1, <1>2, OpenKept DEF service, Spares, Sound, ToClose
<1>3. ASSUME NEW root \in Find(call.path), NEW paths,
             CloseKeys(KeysOf(rootDirectories[root], UNION {Below(rootDirectories[root], d) : d \in paths})),
             rootDirectories' = Restrict(rootDirectories, DOMAIN rootDirectories \ {root})
      PROVE  OpenInv'
    <2> DEFINE dirs == UNION {Below(rootDirectories[root], d) : d \in paths}
    <2>1. root \in DOMAIN rootDirectories /\ dirs \in SUBSET DOMAIN rootDirectories[root]
        BY DEF Find, Below
    <2> HIDE DEF dirs
    <2>2. Spares(KeysOf(rootDirectories[root], dirs))
        <3>1. CloseKeys(KeysOf(rootDirectories[root], dirs))
            BY <1>3 DEF dirs
        <3> QED BY <1>1, <3>1, SparesOthers
    <2>3. \A r \in DOMAIN rootDirectories \ {root} : Opened(Sound', rootDirectories[r])
        BY <1>1, <2>1, <2>2, OtherTreesOpen
    <2>4. \A r \in DOMAIN rootDirectories' :
            r \in DOMAIN rootDirectories \ {root} /\ rootDirectories'[r] = rootDirectories[r]
        BY <1>3 DEF Restrict
    <2>5. Opened(Sound', NoMap)
        BY DEF Opened, NoMap
    <2> QED BY <1>1, <2>3, <2>4, <2>5 DEF OpenInv
<1> QED BY <1>2, <1>3 DEF UnregisterRoot

LEMMA OpenInductive == TreesInv /\ KeysInv /\ RootsApart /\ OpenInv /\ [Next]_vars => OpenInv'
<1> SUFFICES ASSUME TreesInv, KeysInv, RootsApart, OpenInv, [Next]_vars PROVE OpenInv'
    OBVIOUS
<1>1. ASSUME UNCHANGED <<keys, closing, reused>> PROVE UNCHANGED Sound /\ Spares({})
    BY <1>1 DEF Sound, ToClose, Spares
<1>10. ASSUME UNCHANGED <<keys, closing, reused>>, UNCHANGED <<rootDirectories, scan>> PROVE OpenInv'
    BY <1>1, <1>10, OpenKept
<1>11. ASSUME NEW thread \in {"loop", "call"}, CloseOne(thread) PROVE OpenInv'
    <2>1. Spares({})
        BY <1>11, SoundlyClosed DEF TreesInv
    <2> QED BY <1>11, <2>1, OpenKept DEF CloseOne
<1>2. ASSUME NEW p \in Path, NEW value \in {"dir"} \cup Content,
             Create(p, value) \/ Modify(p, value) \/ Delete(p)
      PROVE  OpenInv'
    <2>1. UNCHANGED <<scan, rootDirectories, closing, reused>>
        BY <1>2 DEF Create, Modify, Delete, Change
    <2>2. StayOpen /\ KeysGrow
        BY <1>2, ChangesAreOutside, ChangeKeeps DEF TreesInv
    <2> QED BY <2>1, <2>2, SoundStays, OpenKept
<1>3. CASE Scan
    BY <1>3, ScanOpen DEF Scan
<1>4. ASSUME NEW p \in Path, Add(p) PROVE OpenInv'
    <2>1. UNCHANGED <<keys, closing, reused>> /\ UNCHANGED rootDirectories
        BY <1>4 DEF Add, service
    <2>2. CASE UNCHANGED scan
        BY <1>10, <2>1, <2>2
    <2>3. ASSUME NEW r \in Find(p), scan' = UpdateScan("loop", r, p) PROVE OpenInv'
        BY <1>1, <2>1, <2>3, ScanOpens DEF Find
    <2>4. CASE scan' = InitScan("loop", p)
        BY <1>1, <2>1, <2>4, OpenKept DEF InitScan
    <2> QED BY <1>4, <2>2, <2>3, <2>4 DEF Add
<1>5. CASE Loop
    <2>1. ASSUME NEW k \in DOMAIN keys, Take(k) PROVE OpenInv'
        <3>1. UNCHANGED <<scan, rootDirectories, closing, reused>> /\ StayOpen /\ KeysGrow
            BY <2>1, TakeKeeps DEF Take
        <3> QED BY <3>1, SoundStays, OpenKept
    <2>2. CASE Look \/ Report
        BY <1>10, <2>2 DEF Look, Report, service
    <2>3. CASE AddInit
        BY <1>1, <2>3, RootOpen DEF AddInit, service
    <2>4. CASE AddUpdate
        BY <2>4, GraftOpen DEF AddUpdate, service
    <2> QED BY <1>4, <1>5, <1>11, <2>1, <2>2, <2>3, <2>4, CutsOpen DEF Loop
<1>6. CASE Calling
    <2>1. CASE GetOrAdd
        <3>1. UNCHANGED <<keys, closing, reused>> /\ UNCHANGED rootDirectories
            BY <2>1 DEF GetOrAdd, service
        <3>2. CASE UNCHANGED scan
            BY <1>10, <3>1, <3>2
        <3>3. CASE scan' = InitScan("call", call.path)
            BY <1>1, <3>1, <3>3, OpenKept DEF InitScan
        <3> QED BY <2>1, <3>2, <3>3 DEF GetOrAdd
    <2>2. CASE RegisterInit
        BY <1>1, <2>2, RootOpen DEF RegisterInit, service
    <2>3. CASE RegisterUpdate
        <3>1. UNCHANGED <<keys, closing, reused>> /\ UNCHANGED rootDirectories
            BY <2>3 DEF RegisterUpdate, service
        <3>2. CASE UNCHANGED scan
            BY <1>10, <3>1, <3>2
        <3>3. CASE scan' = UpdateScan("call", call.root, call.last)
            <4>1. call.root \in DOMAIN rootDirectories
                BY <2>3 DEF RegisterUpdate, TreesInv, CallTyped
            <4> QED BY <1>1, <3>1, <3>3, <4>1, ScanOpens
        <3> QED BY <2>3, <3>2, <3>3 DEF RegisterUpdate
    <2>4. CASE RegisterGraft
        BY <2>4, GraftOpen DEF RegisterGraft, service
    <2>5. CASE RegisterFind \/ Return
        BY <1>10, <2>5 DEF RegisterFind, Return, service
    <2> QED BY <1>6, <1>11, <2>1, <2>2, <2>3, <2>4, <2>5, DropOpen DEF Calling
<1>7. ASSUME NEW p \in Path, Unregister(p) \/ \E d \in Depth : Register(p, d)
      PROVE  OpenInv'
    BY <1>10, <1>7 DEF Unregister, Register, service
<1>8. CASE Close
    BY <1>8 DEF Close, OpenInv, Opened, NoScan, NoMap
<1>9. CASE UNCHANGED vars
    BY <1>10, <1>9 DEF vars
<1> QED BY <1>2, <1>3, <1>5, <1>6, <1>7, <1>8, <1>9 DEF Next

LEMMA OpenFollows == TreesInv /\ OpenInv => TreesHoldOpenKeys
<1> SUFFICES ASSUME TreesInv, OpenInv, NEW r \in DOMAIN rootDirectories,
                    NEW d \in DOMAIN rootDirectories[r] \ reused, rootDirectories[r][d] # Invalid
             PROVE  keys[rootDirectories[r][d]].open
    BY DEF TreesHoldOpenKeys
<1>1. rootDirectories[r][d] \in Sound /\ keys[rootDirectories[r][d]].path = d
    BY DEF OpenInv, Opened, TreesInv, RootsTyped, KeysOfDirs
<1> QED BY <1>1 DEF Sound

\* A tree holds no closed key, as long as no root lies above another, but for
\* directories that got a key that the other thread was about to close, with the lock
\* of the tree released: overflows, failed listings, unregister, directories that go
\* and come back while they are scanned, and keys that are closed only after the tree
\* has changed, make no difference (update and its observer, remove and
\* CachedWatchDirectory.close).
THEOREM HeldKeysOpen == Spec /\ []RootsApart => []TreesHoldOpenKeys
<1>1. Init => TreesInv /\ KeysInv /\ OpenInv
    <2>1. Init => KeysInv
        BY DEF Init, KeysInv, KeysMatch, NoMap
    <2>2. Init => OpenInv
        BY DEF Init, OpenInv, Opened, NoScan, NoMap
    <2> QED BY <2>1, <2>2, TreesBegin
<1>2. TreesInv /\ KeysInv /\ OpenInv /\ RootsApart /\ [Next]_vars
        => (TreesInv /\ KeysInv /\ OpenInv)'
    BY TreesInductive, KeysInductive, OpenInductive
<1> QED BY <1>1, <1>2, OpenFollows, PTL DEF Spec

\* In particular, when the roots can only be topmost directories.
THEOREM TopKeysOpen ==
    (\A d \in Permanent : Len(d) = 1) => (Spec => []TreesHoldOpenKeys)
<1> SUFFICES ASSUME \A d \in Permanent : Len(d) = 1 PROVE Spec => []TreesHoldOpenKeys
    OBVIOUS
<1>1. ASSUME RootsTyped PROVE RootsApart
    <2> SUFFICES ASSUME NEW r \in DOMAIN rootDirectories, NEW s \in DOMAIN rootDirectories,
                        StartsWith(r, s)
                 PROVE  r = s
        BY DEF RootsApart
    <2>1. r \in Path /\ s \in Path /\ Len(r) = 1 /\ Len(s) = 1
        BY <1>1, NioAssumption DEF RootsTyped
    <2>2. StartsWith(s, r)
        BY <2>1 DEF StartsWith
    <2> QED BY <2>1, <2>2, StartsWithIsOrder
<1>2. Init => TreesInv /\ KeysInv
    <2>1. Init => KeysInv
        BY DEF Init, KeysInv, KeysMatch, NoMap
    <2> QED BY <2>1, TreesBegin
<1>3. TreesInv /\ KeysInv /\ [Next]_vars => (TreesInv /\ KeysInv)'
    BY TreesInductive, KeysInductive
<1>4. TreesInv => RootsApart
    BY <1>1 DEF TreesInv
<1> QED BY <1>2, <1>3, <1>4, HeldKeysOpen, PTL DEF Spec
-----------------------------------------------------------------------------
(* When threads close keys *)

\* A thread closes the keys of what it took out of a tree before it goes on: the loop
\* thread while it handles an event, register after its update; and neither scans
\* meanwhile.
ClosingOrder ==
    /\ scan # NoScan /\ scan.by = "loop" => loop.stage = "adding" /\ closing["loop"] = {}
    /\ scan # NoScan /\ scan.by = "call" => closing["call"] = {}
    /\ closing["loop"] # {} => loop.stage = "adding"
    /\ closing["call"] # {} => call.stage = "updated"

LEMMA ClosingOrderInductive ==
    ASSUME ClosingTyped, LoopTyped, ClosingOrder, [Next]_vars
    PROVE  ClosingOrder'
<1>1. CASE UNCHANGED <<closing, scan, loop, call>>
    BY <1>1 DEF ClosingOrder
<1>2. CASE Scan
    <2>1. scan # NoScan /\ scan'.by = scan.by /\ UNCHANGED <<closing, loop, call>>
        BY <1>2 DEF Scan, ScanWatch, ScanList, ScanWith, NoScan
    <2> QED BY <2>1 DEF ClosingOrder
<1>3. ASSUME NEW thread \in {"loop", "call"}, CloseOne(thread) PROVE ClosingOrder'
    <2>1. /\ closing'["loop"] \subseteq closing["loop"] /\ closing'["call"] \subseteq closing["call"]
          /\ UNCHANGED <<scan, loop, call>>
        BY <1>3 DEF CloseOne, ClosingTyped
    <2> QED BY <2>1 DEF ClosingOrder
<1>4. ASSUME NEW thread \in {"loop", "call"}, Graft(thread)
      PROVE  scan' = NoScan /\ \A other \in {"loop", "call"} \ {thread} : closing'[other] = closing[other]
    BY <1>4 DEF Graft, ClosingTyped
<1>5. CASE Loop
    <2>1. ASSUME NEW k \in DOMAIN keys, Take(k) PROVE ClosingOrder'
        BY <2>1 DEF Take, ClosingOrder
    <2>2. CASE Look
        BY <2>2 DEF Look, ClosingOrder
    <2>3. CASE Act
        <3>1. loop'.stage = "adding" /\ UNCHANGED <<scan, call>> /\ scan = NoScan
            BY <2>3 DEF Act, Acted, LoopWith
        <3>2. closing'["call"] = closing["call"]
            BY <2>3 DEF Act, ClosingTyped
        <3> QED BY <3>1, <3>2 DEF ClosingOrder
    <2>4. CASE Overflow
        BY <2>4 DEF Overflow, LoopWith, ClosingOrder
    <2>5. CASE AddInit
        BY <2>5 DEF AddInit, AddRoot, ClosingOrder
    <2>6. CASE AddUpdate
        <3>1. loop'.stage = loop.stage /\ UNCHANGED call /\ loop.stage = "adding"
            BY <2>6 DEF AddUpdate, LoopTyped, Scanned, NoScan, ClosingOrder
        <3> QED BY <1>4, <2>6, <3>1 DEF AddUpdate, ClosingOrder
    <2>7. CASE Report
        BY <2>7 DEF Report, ClosingOrder
    <2>8. ASSUME NEW p \in Path, Add(p) PROVE ClosingOrder'
        <3>1. /\ loop'.stage = "adding" /\ closing["loop"] = {} /\ UNCHANGED <<call, closing>>
              /\ scan' # NoScan => scan'.by = "loop"
            BY <2>8 DEF Add, LoopTyped, UpdateScan, InitScan
        <3> QED BY <3>1 DEF ClosingOrder
    <2> QED BY <1>3, <1>5, <2>1, <2>2, <2>3, <2>4, <2>5, <2>6, <2>7, <2>8 DEF Loop
<1>6. CASE Calling
    <2>1. CASE GetOrAdd
        <3>1. /\ call.stage = "added" /\ UNCHANGED <<loop, closing>>
              /\ scan' # NoScan => scan'.by = "call"
            BY <2>1 DEF GetOrAdd, InitScan
        <3> QED BY <3>1 DEF ClosingOrder
    <2>2. CASE RegisterInit
        <3>1. scan # NoScan /\ scan.by = "call" /\ scan' = NoScan /\ UNCHANGED <<loop, closing>>
            BY <2>2 DEF RegisterInit, AddRoot, Scanned, NoScan
        <3> QED BY <3>1 DEF ClosingOrder
    <2>3. CASE RegisterFind
        BY <2>3 DEF RegisterFind, ClosingOrder
    <2>4. CASE RegisterUpdate
        <3>1. /\ call.stage = "found" /\ UNCHANGED <<loop, closing>>
              /\ scan' # NoScan => scan'.by = "call"
            BY <2>4 DEF RegisterUpdate, UpdateScan
        <3> QED BY <3>1 DEF ClosingOrder
    <2>5. CASE RegisterGraft
        <3>1. call'.stage = "updated" /\ UNCHANGED loop
            BY <2>5 DEF RegisterGraft, CallWith
        <3> QED BY <1>4, <2>5, <3>1 DEF RegisterGraft, ClosingOrder
    <2>6. CASE Return
        BY <2>6 DEF Return, ClosingOrder
    <2>7. CASE UnregisterRoot
        BY <2>7 DEF UnregisterRoot, ClosingOrder
    <2> QED BY <1>3, <1>6, <2>1, <2>2, <2>3, <2>4, <2>5, <2>6, <2>7 DEF Calling
<1>7. ASSUME NEW p \in Path, NEW value \in {"dir"} \cup Content,
             Create(p, value) \/ Modify(p, value) \/ Delete(p)
      PROVE  ClosingOrder'
    BY <1>1, <1>7 DEF Create, Modify, Delete, Change
<1>8. ASSUME NEW p \in Path, Unregister(p) \/ \E d \in Depth : Register(p, d)
      PROVE  ClosingOrder'
    <2>1. call.stage = "none" /\ UNCHANGED <<loop, scan, closing>>
        BY <1>8 DEF Unregister, Register, NoCall
    <2> QED BY <2>1 DEF ClosingOrder
<1>9. CASE Close
    BY <1>9 DEF Close, ClosingOrder, NothingToClose
<1>10. CASE UNCHANGED vars
    BY <1>1, <1>10 DEF vars
<1> QED BY <1>2, <1>5, <1>6, <1>7, <1>8, <1>9, <1>10 DEF Next

\* When nothing is handled and no call is under way, nothing is to be closed.
LEMMA NothingIsClosing ==
    ASSUME ClosingOrder, loop.stage # "adding", call.stage # "updated" PROVE ToClose = {}
BY DEF ClosingOrder, ToClose
-----------------------------------------------------------------------------
(* No key leaks, as long as no queue overflows, no directory goes while it  *)
(* is added, and no root is dropped                                         *)

\* A queue has room for every change; nothing is unregistered; no directory goes while it
\* is added; and no root can lie below another.
Undisturbed ==
    /\ \A d \in Dir : MaxEvents[d] >= MaxChanges
    /\ MaxUnregister = 0
    /\ ~DeletesWhatIsScanned
    /\ \A d \in Permanent : Len(d) = 1

\* No queue keeps more events than there were changes, and none has overflowed.
Changed == MaxChanges - budget.changes

Spared(events, number) ==
    Len(events) <= number /\ \A i \in DOMAIN events : events[i].kind # "overflow"

NoneOverflows ==
    /\ budget.changes \in 0..MaxChanges
    /\ \A k \in DOMAIN keys : Spared(keys[k].events, Changed)
    /\ loop.stage # "waiting" => loop.kind # "overflow"

\* A key that a tree holds, or the scan that is under way; or that is about to be closed.
InTree(k) == \E r \in DOMAIN rootDirectories : \E d \in DOMAIN rootDirectories[r] : rootDirectories[r][d] = k
InScan(k) == \E d \in DOMAIN scan.found : scan.found[d] = k

KeysHeld == \A k \in DOMAIN keys : keys[k].open => InTree(k) \/ InScan(k) \/ k \in ToClose

\* What the scan has found is still there, or its key is a tree's or about to be closed.
FoundStays ==
    \A d \in DOMAIN scan.found :
        LET k == scan.found[d]
        IN k \in DOMAIN keys /\ keys[k].open => fs[d] = "dir" \/ InTree(k) \/ k \in ToClose

\* It is what the service has for the directory, or what the tree of the root has.
FoundMatches ==
    \A d \in DOMAIN scan.found \cap DOMAIN watchedDirectoriesByPath :
        \/ scan.found[d] = watchedDirectoriesByPath[d]
        \/ /\ scan.stage = "update" /\ d \in DOMAIN rootDirectories[scan.root]
           /\ scan.found[d] = rootDirectories[scan.root][d]

\* A root is only added where there is none.
RootIsNew == scan.stage = "init" => scan.root \notin DOMAIN rootDirectories

ScanHolds == KeysHeld /\ FoundStays /\ FoundMatches /\ RootIsNew /\ ClosingOrder

-----------------------------------------------------------------------------
(* Queues have room for every event *)

\* One more event, and one fewer change to come.
LEMMA SignalSpares ==
    ASSUME Undisturbed, NEW key \in Key, NEW event \in Event, event.kind # "overflow",
           NEW number \in 0..MaxChanges - 1, Spared(key.events, number)
    PROVE  Spared(Signal(key, event).events, number + 1)
<1>1. key.events \in Seq(Event) /\ key.path \in Dir /\ Len(key.events) \in Nat
    BY DEF Key
<1>2. MaxEvents[key.path] \in Nat /\ MaxEvents[key.path] >= MaxChanges /\ MaxChanges \in Nat
    BY <1>1, NioAssumption DEF Undisturbed
<1>3. ~(Len(key.events) >= MaxEvents[key.path])
    BY <1>1, <1>2 DEF Spared
<1>4. key.events = <<>> \/ Last(key.events).kind # "overflow"
    BY <1>1 DEF Spared, Last
<1>5. Signal(key, event) \in {key, [key EXCEPT !.events = Append(@, event)]}
    BY <1>3 DEF Signal
<1>6. Signal(key, event).events \in {key.events, Append(key.events, event)}
    BY <1>5 DEF Key
<1>7. /\ Len(Append(key.events, event)) = Len(key.events) + 1
      /\ \A i \in DOMAIN Append(key.events, event) :
            \/ i \in DOMAIN key.events /\ Append(key.events, event)[i] = key.events[i]
            \/ Append(key.events, event)[i] = event
    BY <1>1
<1>8. \A i \in DOMAIN Append(key.events, event) : Append(key.events, event)[i].kind # "overflow"
    BY <1>7 DEF Spared
<1>9. CASE Signal(key, event).events = key.events
    BY <1>1, <1>2, <1>9 DEF Spared
<1>10. CASE Signal(key, event).events = Append(key.events, event)
    BY <1>1, <1>2, <1>7, <1>8, <1>10 DEF Spared
<1> QED BY <1>6, <1>9, <1>10

LEMMA ChangesSpare ==
    ASSUME Undisturbed, KeysInv, NoneOverflows, EnvironmentTyped, NEW p \in Path,
           NEW kind \in Kind \ {"overflow"}, NEW value, Change(p, kind, value)
    PROVE  NoneOverflows'
<1> DEFINE event == [kind |-> kind, path |-> p]
           after(k) == IF keys[k].path = Parent(p) THEN Signal(keys[k], event)
                       ELSE IF keys[k].path = p /\ value = "none"
                            THEN [keys[k] EXCEPT !.valid = FALSE]
                       ELSE keys[k]
<1>1. keys' = [k \in DOMAIN keys |-> after(k)] /\ UNCHANGED loop
    BY DEF Change
<1>2. /\ budget.changes \in 1..MaxChanges /\ budget'.changes = budget.changes - 1
      /\ Changed \in 0..MaxChanges - 1 /\ Changed' = Changed + 1
    BY NioAssumption DEF Change, NoneOverflows, EnvironmentTyped, Changed
<1>3. ASSUME NEW k \in DOMAIN keys PROVE Spared(after(k).events, Changed + 1)
    <2>1. keys[k] \in Key /\ event \in Event /\ Spared(keys[k].events, Changed)
        BY KeysArePlaces DEF KeysInv, Event, NoneOverflows
    <2>2. Spared(Signal(keys[k], event).events, Changed + 1)
        BY <1>2, <2>1, SignalSpares
    <2>3. Spared(keys[k].events, Changed + 1)
        <3>1. Len(keys[k].events) \in Nat
            BY <2>1 DEF Key
        <3> HIDE DEF event
        <3> QED BY <1>2, <2>1, <3>1, NioAssumption DEF Spared
    <2>4. after(k).events \in {Signal(keys[k], event).events, keys[k].events}
        BY <2>1 DEF Key
    <2> QED BY <2>2, <2>3, <2>4
<1> HIDE DEF after
<1>4. \A k \in DOMAIN keys' : Spared(keys'[k].events, Changed')
    BY <1>1, <1>2, <1>3
<1>5. budget'.changes \in 0..MaxChanges
    BY <1>2, NioAssumption
<1> QED BY <1>1, <1>4, <1>5 DEF NoneOverflows

LEMMA OverflowsInductive ==
    ASSUME Undisturbed, TreesInv, KeysInv, NoneOverflows, [Next]_vars
    PROVE  NoneOverflows'
<1>1. ASSUME UNCHANGED <<keys, loop, budget>> PROVE NoneOverflows'
    BY <1>1 DEF NoneOverflows, Changed
<1>2. ASSUME NEW p \in Path, NEW value \in {"dir"} \cup Content,
             Create(p, value) \/ Modify(p, value) \/ Delete(p)
      PROVE  NoneOverflows'
    <2>1. EnvironmentTyped
        BY DEF TreesInv
    <2> QED BY <1>2, <2>1, ChangesAreOutside, ChangesSpare
<1>3. ASSUME \/ loop'.stage = "waiting" \/ UNCHANGED loop
             \/ loop'.kind = loop.kind /\ loop.stage # "waiting",
             budget'.changes = budget.changes,
             \A k \in DOMAIN keys' : \/ k \in DOMAIN keys /\ keys'[k].events = keys[k].events
                                     \/ keys'[k].events = <<>>
      PROVE  NoneOverflows'
    <2>1. Spared(<<>>, Changed)
        BY NioAssumption DEF Spared, NoneOverflows, Changed
    <2> QED BY <1>3, <2>1 DEF NoneOverflows, Changed
<1>4. ASSUME NEW numbers, CloseKeys(numbers)
      PROVE  \A k \in DOMAIN keys' : k \in DOMAIN keys /\ keys'[k].events = keys[k].events
    BY <1>4, CloseKeysKeeps
<1>5. UNCHANGED service => \A k \in DOMAIN keys' : k \in DOMAIN keys /\ keys'[k].events = keys[k].events
    BY DEF service
<1>6. UNCHANGED environment => budget'.changes = budget.changes
    BY DEF environment
<1>7. CASE Scan
    <2>1. ASSUME NEW d \in Dir, ScanWatch(d) PROVE NoneOverflows'
        <3>1. \A k \in DOMAIN keys' : \/ k \in DOMAIN keys /\ keys'[k].events = keys[k].events
                                      \/ keys'[k].events = <<>>
            BY <2>1, RegisterKeeps
        <3>2. UNCHANGED loop /\ UNCHANGED environment
            BY <2>1 DEF ScanWatch
        <3> QED BY <1>3, <1>6, <3>1, <3>2
    <2>2. ASSUME NEW d \in Dir, ScanList(d) PROVE NoneOverflows'
        BY <1>1, <2>2 DEF ScanList, environment, service
    <2> QED BY <1>7, <2>1, <2>2 DEF Scan
<1>8. ASSUME NEW n \in DOMAIN keys, Take(n) PROVE NoneOverflows'
    <2> DEFINE events == keys[n].events
    <2>1. keys[n] \in Key /\ events \in Seq(Event) /\ events # <<>> /\ Spared(events, Changed)
        BY <1>8, KeysArePlaces DEF KeysInv, Take, Key, NoneOverflows
    <2>2. /\ keys' = [keys EXCEPT ![n].events = Tail(@)] /\ UNCHANGED budget
          /\ loop'.kind = Head(events).kind
        BY <1>8 DEF Take, environment
    <2>3. /\ DOMAIN keys' = DOMAIN keys /\ \A k \in DOMAIN keys \ {n} : keys'[k] = keys[k]
          /\ keys'[n].events = Tail(events)
        BY <2>1, <2>2 DEF Key
    <2> HIDE DEF events
    <2>4. Spared(Tail(events), Changed) /\ Head(events).kind # "overflow"
        <3>1. /\ Len(events) \in Nat \ {0} /\ Len(Tail(events)) = Len(events) - 1
              /\ Head(events) = events[1] /\ 1 \in DOMAIN events
              /\ \A i \in DOMAIN Tail(events) : i + 1 \in DOMAIN events /\ Tail(events)[i] = events[i + 1]
            BY <2>1
        <3>2. Changed \in Int
            BY NioAssumption DEF NoneOverflows, Changed
        <3> QED BY <2>1, <3>1, <3>2 DEF Spared
    <2> QED BY <2>2, <2>3, <2>4 DEF NoneOverflows, Changed
<1>14. ASSUME NEW thread, CloseOne(thread) PROVE NoneOverflows'
    <2>1. UNCHANGED environment /\ UNCHANGED loop
        BY <1>14 DEF CloseOne
    <2> QED BY <1>3, <1>4, <1>6, <1>14, <2>1 DEF CloseOne
<1>9. CASE Loop
    <2>1. CASE Look
        BY <1>3, <1>5, <1>6, <2>1 DEF Look, LoopWith, Waiting
    <2>2. CASE Act
        <3>1. loop'.kind = loop.kind /\ loop.stage # "waiting" /\ UNCHANGED environment
            BY <2>2 DEF Act, Acted, LoopWith
        <3> QED BY <1>3, <1>5, <1>6, <2>2, <3>1 DEF Act
    <2>3. CASE Overflow
        BY <2>3 DEF Overflow, NoneOverflows
    <2>4. CASE AddInit
        BY <1>3, <1>5, <1>6, <2>4 DEF AddInit
    <2>5. CASE AddUpdate
        <3>1. UNCHANGED environment
            BY <2>5 DEF AddUpdate
        <3>2. loop'.stage = loop.stage /\ loop'.kind = loop.kind
            BY <2>5 DEF AddUpdate, TreesInv, LoopTyped
        <3>3. \A k \in DOMAIN keys' : k \in DOMAIN keys /\ keys'[k].events = keys[k].events
            BY <1>5, <2>5 DEF AddUpdate
        <3>4. CASE loop.stage = "waiting"
            BY <1>3, <1>6, <3>1, <3>2, <3>3, <3>4
        <3> QED BY <1>3, <1>6, <3>1, <3>2, <3>3, <3>4
    <2>6. CASE Report
        BY <1>3, <1>5, <2>6 DEF Report, Waiting
    <2>7. ASSUME NEW p \in Path, Add(p) PROVE NoneOverflows'
        <3>1. UNCHANGED loop \/ loop' = [loop EXCEPT !.todo = @ \ {p}]
            BY <2>7 DEF Add
        <3>2. loop'.kind = loop.kind /\ loop'.stage = loop.stage
            BY <3>1 DEF TreesInv, LoopTyped
        <3>3. loop.stage # "waiting" /\ UNCHANGED service /\ UNCHANGED environment
            BY <2>7 DEF Add
        <3> QED BY <1>3, <1>5, <1>6, <3>2, <3>3
    <2> QED BY <1>8, <1>9, <1>14, <2>1, <2>2, <2>3, <2>4, <2>5, <2>6, <2>7 DEF Loop
<1>10. CASE Calling
    <2>1. CASE RegisterGraft
        <3>1. UNCHANGED environment /\ UNCHANGED loop
            BY <2>1 DEF RegisterGraft
        <3> QED BY <1>3, <1>5, <1>6, <2>1, <3>1 DEF RegisterGraft
    <2>2. CASE UnregisterRoot
        <3>1. UNCHANGED environment /\ UNCHANGED loop
            BY <2>2 DEF UnregisterRoot
        <3> QED BY <1>3, <1>4, <1>5, <1>6, <2>2, <3>1 DEF UnregisterRoot
    <2>3. CASE Return
        BY <1>1, <2>3 DEF Return, service
    <2>4. CASE GetOrAdd \/ RegisterInit \/ RegisterFind \/ RegisterUpdate
        BY <1>1, <2>4 DEF GetOrAdd, RegisterInit, RegisterFind, RegisterUpdate, service, environment
    <2> QED BY <1>10, <1>14, <2>1, <2>2, <2>3, <2>4 DEF Calling
<1>11. CASE Close
    <2>1. UNCHANGED environment /\ loop'.stage = "waiting" /\ DOMAIN keys' = {}
        BY <1>11 DEF Close, Waiting
    <2> QED BY <1>6, <2>1 DEF NoneOverflows
<1>12. ASSUME NEW p \in Path, Unregister(p) \/ \E d \in Depth : Register(p, d)
      PROVE  NoneOverflows'
    <2>1. UNCHANGED <<keys, loop>> /\ budget'.changes = budget.changes
        BY <1>12 DEF Unregister, Register, service, TreesInv, EnvironmentTyped
    <2> QED BY <1>3, <2>1
<1>13. CASE UNCHANGED vars
    BY <1>1, <1>13 DEF vars
<1> QED BY <1>2, <1>7, <1>9, <1>10, <1>11, <1>12, <1>13 DEF Next
-----------------------------------------------------------------------------
(* Every open key is held *)

\* A number in a map to keys is that of the directory it is for.
LEMMA NumbersMatch ==
    ASSUME KeysInv, NEW map, NEW root, KeysOfDirs(keys, map, root), NEW d \in DOMAIN map,
           map[d] \in DOMAIN keys
    PROVE  /\ map[d] # Invalid /\ keys[map[d]].path = d
           /\ keys[map[d]].open =>
                d \in DOMAIN watchedDirectoriesByPath /\ watchedDirectoriesByPath[d] = map[d]
<1>1. map[d] # Invalid
    BY KeysArePlaces DEF KeysInv, Invalid
<1>2. keys[map[d]].path = d
    BY <1>1 DEF KeysOfDirs
<1> QED BY <1>1, <1>2 DEF KeysInv, KeysMatch

\* Nothing changes but the events of keys, what the scan has not found, and keys that are
\* closed: the order of the threads is left to another lemma.
LEMMA HoldsKept ==
    ASSUME ScanHolds, ClosingOrder',
           \A k \in DOMAIN keys' : keys'[k].open =>
               k \in DOMAIN keys /\ keys[k].open /\ (k \in ToClose => k \in ToClose'),
           UNCHANGED <<rootDirectories, scan>>,
           DOMAIN watchedDirectoriesByPath' \subseteq DOMAIN watchedDirectoriesByPath,
           \A d \in DOMAIN watchedDirectoriesByPath' :
               watchedDirectoriesByPath'[d] = watchedDirectoriesByPath[d],
           \A d \in DOMAIN scan.found : fs[d] = "dir" => fs'[d] = "dir"
    PROVE  ScanHolds'
<1>1. \A k : InTree(k)' <=> InTree(k)
    BY DEF InTree
<1>2. \A k : InScan(k)' <=> InScan(k)
    BY DEF InScan
<1>3. KeysHeld'
    BY <1>1, <1>2 DEF ScanHolds, KeysHeld
<1>4. FoundStays'
    BY <1>1 DEF ScanHolds, FoundStays
<1>5. FoundMatches' /\ RootIsNew'
    BY DEF ScanHolds, FoundMatches, RootIsNew
<1> QED BY <1>3, <1>4, <1>5 DEF ScanHolds

\* When no scan is under way, trees hold all open keys that are not to be closed.
LEMMA TreesHold ==
    ASSUME scan' = NoScan, ClosingOrder',
           \A k \in DOMAIN keys' : keys'[k].open => InTree(k)' \/ k \in ToClose'
    PROVE  ScanHolds'
BY DEF ScanHolds, KeysHeld, FoundStays, FoundMatches, RootIsNew, NoScan, NoMap

\* A scan that is begun has found nothing, or the root of a tree.
LEMMA ScanBegins ==
    ASSUME ScanHolds, TreesInv, scan = NoScan, UNCHANGED <<service, rootDirectories, closing>>,
           ClosingOrder',
           \/ scan'.found = NoMap
           \/ /\ scan'.stage = "update" /\ scan'.root \in DOMAIN rootDirectories
              /\ scan'.found =
                    With(NoMap, scan'.root, rootDirectories[scan'.root][scan'.root]),
           RootIsNew'
    PROVE  ScanHolds'
<1>1. \A k : InTree(k)' <=> InTree(k)
    BY DEF InTree
<1>2. \A k : ~InScan(k)
    BY DEF InScan, NoScan, NoMap
<1>3. KeysHeld'
    BY <1>1, <1>2 DEF ScanHolds, KeysHeld, service, ToClose
<1>4. CASE scan'.found = NoMap
    BY <1>3, <1>4 DEF ScanHolds, FoundStays, FoundMatches, NoMap
<1>5. CASE /\ scan'.stage = "update" /\ scan'.root \in DOMAIN rootDirectories
           /\ scan'.found = With(NoMap, scan'.root, rootDirectories[scan'.root][scan'.root])
    <2> DEFINE root == scan'.root
    <2>1. root \in DOMAIN rootDirectories[root]
        BY <1>5 DEF TreesInv, RootsTyped
    <2>2. DOMAIN scan'.found = {root} /\ scan'.found[root] = rootDirectories[root][root]
        BY <1>5 DEF With, NoMap
    <2>3. InTree(rootDirectories[root][root])
        BY <1>5, <2>1 DEF InTree
    <2>4. FoundStays'
        BY <1>1, <2>2, <2>3 DEF FoundStays
    <2>5. FoundMatches'
        BY <1>5, <2>1, <2>2 DEF FoundMatches
    <2> QED BY <1>3, <2>4, <2>5 DEF ScanHolds
<1> QED BY <1>4, <1>5

\* The scan gets the key of a directory.
LEMMA WatchHolds ==
    ASSUME TreesInv, KeysInv, ScanHolds, ClosingOrder', NEW d \in Dir, ScanWatch(d)
    PROVE  ScanHolds'
<1> DEFINE n == KeyFor(d)
<1>1. /\ KeysMatch /\ KeysMatch' /\ \A k \in DOMAIN keys : keys'[k] = keys[k]
      /\ n # Invalid => n \in DOMAIN keys' /\ keys'[n].path = d /\ keys'[n].open
    BY RegisterKeeps DEF KeysInv
<1>2. /\ scan'.found = With(scan.found, d, n) /\ scan'.stage = scan.stage /\ scan'.root = scan.root
      /\ UNCHANGED <<fs, rootDirectories, ToClose>>
      /\ watchedDirectoriesByPath' =
            IF n = Invalid THEN watchedDirectoriesByPath ELSE With(watchedDirectoriesByPath, d, n)
    BY DEF ScanWatch, ScanWith, environment, ToClose
<1>3. /\ d \in DOMAIN watchedDirectoriesByPath => n = watchedDirectoriesByPath[d] /\ n # Invalid
      /\ d \notin DOMAIN watchedDirectoriesByPath /\ n # Invalid => fs[d] = "dir"
      /\ \A k \in DOMAIN keys' \ DOMAIN keys : k = n
    <2>1. Len(keys) \in Nat /\ DOMAIN keys = 1..Len(keys)
        BY KeysArePlaces DEF KeysInv
    <2>2. d \in DOMAIN watchedDirectoriesByPath =>
            n = watchedDirectoriesByPath[d] /\ n \in 1..Len(keys)
        BY <2>1 DEF KeyFor, KeysInv, KeysMatch
    <2>3. n \in 0..Len(keys) + 1
        BY <2>1, <2>2 DEF KeyFor, Invalid
    <2>4. ASSUME NEW k \in DOMAIN keys' \ DOMAIN keys PROVE k = n
        <3>1. n > Len(keys) /\ \E new : keys' = Append(keys, new)
            BY <2>4 DEF ScanWatch
        <3>2. DOMAIN keys' = 1..Len(keys) + 1
            BY <2>1, <3>1 DEF KeysInv
        <3> QED BY <2>1, <2>3, <2>4, <3>1, <3>2
    <2> QED BY <2>1, <2>2, <2>4 DEF KeyFor, Invalid
<1>4. KeysOfDirs(keys, scan.found, scan.root)
    BY DEF TreesInv, ScanTyped
<1> HIDE DEF n
<1>5. /\ DOMAIN scan'.found = DOMAIN scan.found \cup {d} /\ scan'.found[d] = n
      /\ \A e \in DOMAIN scan.found \ {d} : scan'.found[e] = scan.found[e]
    BY <1>2 DEF With
<1>6. \A k : InTree(k)' <=> InTree(k)
    BY <1>2 DEF InTree
<1>7. \A k \in DOMAIN keys : keys[k].open /\ keys[k].path = d => k = n
    BY <1>1, <1>3 DEF KeysMatch
<1>8. KeysHeld'
    <2> SUFFICES ASSUME NEW k \in DOMAIN keys', keys'[k].open, k # n
                 PROVE  InTree(k) \/ InScan(k)' \/ k \in ToClose
        BY <1>2, <1>5, <1>6 DEF KeysHeld, InScan
    <2>1. k \in DOMAIN keys /\ keys[k].open
        BY <1>1, <1>3
    <2>2. ASSUME NEW e \in DOMAIN scan.found, scan.found[e] = k PROVE InScan(k)'
        <3>1. keys[k].path = e
            BY <1>4, <2>1, <2>2, NumbersMatch
        <3>2. e # d
            BY <1>7, <2>1, <3>1
        <3> QED BY <1>5, <2>2, <3>2 DEF InScan
    <2> QED BY <2>1, <2>2 DEF ScanHolds, KeysHeld, InScan
<1>9. n # Invalid => fs[d] = "dir" \/ InTree(n) \/ n \in ToClose
    <2> SUFFICES ASSUME n # Invalid, d \in DOMAIN watchedDirectoriesByPath
                 PROVE  fs[d] = "dir" \/ InTree(n) \/ n \in ToClose
        BY <1>3
    <2>1. n \in DOMAIN keys /\ keys[n].open /\ keys[n].path = d
        BY <1>1, <1>3 DEF KeysMatch
    <2>2. ASSUME NEW e \in DOMAIN scan.found, scan.found[e] = n
          PROVE  fs[d] = "dir" \/ InTree(n) \/ n \in ToClose
        <3>1. e = d
            BY <1>4, <2>1, <2>2, NumbersMatch
        <3> QED BY <2>1, <2>2, <3>1 DEF ScanHolds, FoundStays
    <2> QED BY <2>1, <2>2 DEF ScanHolds, KeysHeld, InScan
<1>10. FoundStays'
    <2> SUFFICES ASSUME NEW e \in DOMAIN scan'.found, scan'.found[e] \in DOMAIN keys',
                        keys'[scan'.found[e]].open
                 PROVE  fs[e] = "dir" \/ InTree(scan'.found[e]) \/ scan'.found[e] \in ToClose
        BY <1>2, <1>6 DEF FoundStays
    <2>1. CASE e = d
        <3>1. n # Invalid
            BY <1>5, <2>1, KeysArePlaces, RegisterKeeps DEF KeysInv, Invalid
        <3> QED BY <1>5, <1>9, <2>1, <3>1
    <2>2. CASE e # d
        <3>1. e \in DOMAIN scan.found /\ scan'.found[e] = scan.found[e]
            BY <1>5, <2>2
        <3>2. CASE scan.found[e] \in DOMAIN keys
            BY <1>1, <3>1, <3>2 DEF ScanHolds, FoundStays
        <3>3. CASE scan.found[e] \notin DOMAIN keys
            <4>1. scan.found[e] = n /\ n # Invalid
                BY <1>3, <3>1, <3>3, KeysArePlaces, RegisterKeeps DEF KeysInv, Invalid
            <4> QED BY <1>4, <3>1, <3>3, <4>1 DEF KeysOfDirs
        <3> QED BY <3>2, <3>3
    <2> QED BY <2>1, <2>2
<1>11. FoundMatches'
    <2>1. ASSUME NEW e \in DOMAIN scan'.found \cap DOMAIN watchedDirectoriesByPath', e # d
          PROVE  /\ e \in DOMAIN scan.found \cap DOMAIN watchedDirectoriesByPath
                 /\ scan'.found[e] = scan.found[e]
                 /\ watchedDirectoriesByPath'[e] = watchedDirectoriesByPath[e]
        BY <1>2, <1>5, <2>1 DEF With
    <2>2. d \in DOMAIN watchedDirectoriesByPath' => watchedDirectoriesByPath'[d] = n
        BY <1>2, <1>3 DEF With
    <2> QED BY <1>2, <1>5, <2>1, <2>2 DEF ScanHolds, FoundMatches
<1>12. RootIsNew'
    BY <1>2 DEF ScanHolds, RootIsNew
<1> QED BY <1>8, <1>10, <1>11, <1>12 DEF ScanHolds

\* The scan lists a directory, or finds it gone.
LEMMA ListHolds ==
    ASSUME ScanHolds, ClosingOrder', TreesInv, KeysInv, NEW d \in Dir, ScanList(d)
    PROVE  ScanHolds'
<1>1. /\ UNCHANGED <<service, rootDirectories, fs, ToClose>>
      /\ scan'.stage = scan.stage /\ scan'.root = scan.root
      /\ \/ scan'.found = scan.found
         \/ fs[d] # "dir" /\ scan'.found = Restrict(scan.found, DOMAIN scan.found \ {d})
    BY DEF ScanList, ScanWith, environment, ToClose
<1>2. /\ DOMAIN scan'.found \subseteq DOMAIN scan.found
      /\ \A e \in DOMAIN scan'.found : scan'.found[e] = scan.found[e]
      /\ \A e \in DOMAIN scan.found \ DOMAIN scan'.found : e = d /\ fs[d] # "dir"
    BY <1>1 DEF Restrict
<1>3. \A k : InTree(k)' <=> InTree(k)
    BY <1>1 DEF InTree
<1>4. KeysHeld'
    <2> SUFFICES ASSUME NEW k \in DOMAIN keys, keys[k].open
                 PROVE  InTree(k) \/ InScan(k)' \/ k \in ToClose
        BY <1>1, <1>3 DEF KeysHeld, service
    <2>1. ASSUME NEW e \in DOMAIN scan.found \ DOMAIN scan'.found, scan.found[e] = k
          PROVE  InTree(k) \/ k \in ToClose
        BY <1>2, <2>1 DEF ScanHolds, FoundStays
    <2> QED BY <1>2, <2>1 DEF ScanHolds, KeysHeld, InScan
<1>5. FoundStays' /\ FoundMatches' /\ RootIsNew'
    BY <1>1, <1>2, <1>3 DEF ScanHolds, FoundStays, FoundMatches, RootIsNew, service
<1> QED BY <1>4, <1>5 DEF ScanHolds

\* When all roots are topmost directories, none lies below a path that is registered.
LEMMA RootsAreTop ==
    ASSUME Undisturbed, RootsTyped, ScanRooted, scan.stage = "init",
           NEW r \in DOMAIN rootDirectories
    PROVE  ~StrictlyBelow(r, scan.base)
<1>1. /\ r \in Path /\ Len(r) = 1 /\ scan.base \in Path /\ Len(scan.base) > 1
    BY NioAssumption DEF Undisturbed, RootsTyped, ScanRooted
<1>2. Len(scan.base) \in Nat
    BY <1>1, PathsAreLong
<1> QED BY <1>1, <1>2 DEF StrictlyBelow, StartsWith

\* What the scan of a new root has found becomes its tree.
LEMMA RootHolds ==
    ASSUME Undisturbed, TreesInv, ScanHolds, NEW thread, Scanned(thread, "init"), AddRoot,
           UNCHANGED <<service, closing>>, ClosingOrder'
    PROVE  ScanHolds'
<1> DEFINE kept == {r \in DOMAIN rootDirectories : ~StrictlyBelow(r, scan.base)}
<1>1. kept = DOMAIN rootDirectories
    BY RootsAreTop DEF TreesInv, Scanned
<1>2. rootDirectories' = With(Restrict(rootDirectories, kept), scan.root, scan.found) /\ scan' = NoScan
    BY DEF AddRoot
<1>3. scan.root \notin DOMAIN rootDirectories
    BY DEF ScanHolds, RootIsNew, Scanned
<1> HIDE DEF kept
<1>4. /\ scan.root \in DOMAIN rootDirectories' /\ rootDirectories'[scan.root] = scan.found
      /\ \A r \in DOMAIN rootDirectories :
            r \in DOMAIN rootDirectories' /\ rootDirectories'[r] = rootDirectories[r]
    BY <1>1, <1>2, <1>3 DEF With, Restrict
<1>5. \A k : InTree(k) \/ InScan(k) => InTree(k)'
    BY <1>4 DEF InTree, InScan
<1>6. \A k \in DOMAIN keys' : keys'[k].open => InTree(k)' \/ k \in ToClose'
    BY <1>5 DEF ScanHolds, KeysHeld, service, ToClose
<1> QED BY <1>2, <1>6, TreesHold

\* The keys that an update does not find again are closed.
LEMMA GraftHolds ==
    ASSUME TreesInv, KeysInv, ScanHolds, NEW thread \in {"loop", "call"},
           Scanned(thread, "update"), Graft(thread), UNCHANGED service, ClosingOrder'
    PROVE  ScanHolds'
<1> DEFINE root == scan.root
           tree == rootDirectories[root]
           cut == Cut(tree, scan.base)
           new == WithAll(cut, scan.found)
<1>1. /\ root \in DOMAIN rootDirectories /\ KeysOfDirs(keys, tree, root)
      /\ KeysOfDirs(keys, scan.found, root)
    BY DEF TreesInv, ScanRooted, ScanTyped, RootsTyped, Scanned, NoScan
<1>2. /\ scan' = NoScan /\ rootDirectories' = [rootDirectories EXCEPT ![root] = new]
      /\ closing' = [closing EXCEPT ![thread] = KeysOf(tree, Deleted)]
    BY DEF Graft
<1>3. ToClose' = ToClose \cup KeysOf(tree, Deleted) /\ UNCHANGED keys
    <2>1. closing[thread] = {}
        BY DEF ScanHolds, ClosingOrder, Scanned, NoScan
    <2>2. /\ closing'[thread] = KeysOf(tree, Deleted)
          /\ \A other \in {"loop", "call"} \ {thread} : closing'[other] = closing[other]
        BY <1>2 DEF TreesInv, ClosingTyped
    <2> HIDE DEF tree
    <2> QED BY <2>1, <2>2 DEF ToClose, service
<1>4. /\ DOMAIN cut = DOMAIN tree \ Below(tree, scan.base)
      /\ \A d \in DOMAIN cut : cut[d] = tree[d]
    BY DEF Cut, Restrict
<1>5. /\ DOMAIN new = DOMAIN cut \cup DOMAIN scan.found
      /\ \A d \in DOMAIN scan.found : new[d] = scan.found[d]
      /\ \A d \in DOMAIN cut \ DOMAIN scan.found : new[d] = cut[d]
    <2> HIDE DEF cut
    <2> QED BY DEF WithAll
<1> HIDE DEF new, cut
<1>6. ASSUME NEW k, NEW d \in DOMAIN new, new[d] = k PROVE InTree(k)'
    <2>1. root \in DOMAIN rootDirectories' /\ rootDirectories'[root] = new
        BY <1>1, <1>2
    <2> QED BY <1>6, <2>1 DEF InTree
<1>7. ASSUME NEW k \in DOMAIN keys, keys[k].open, k \notin ToClose' PROVE InTree(k)'
    <2>1. keys[k].open /\ k \notin KeysOf(tree, Deleted) /\ k \notin ToClose
        BY <1>3, <1>7
    <2>2. CASE InScan(k)
        BY <1>5, <1>6, <2>2 DEF InScan
    <2>3. ASSUME NEW r \in DOMAIN rootDirectories, r # root, NEW d \in DOMAIN rootDirectories[r],
                 rootDirectories[r][d] = k
          PROVE  InTree(k)'
        <3>1. r \in DOMAIN rootDirectories' /\ rootDirectories'[r] = rootDirectories[r]
            BY <1>2, <2>3
        <3> QED BY <2>3, <3>1 DEF InTree
    <2>4. ASSUME NEW d \in DOMAIN tree, tree[d] = k PROVE InTree(k)'
        <3>1. CASE d \in DOMAIN scan.found
            <4>1. d \in DOMAIN watchedDirectoriesByPath /\ watchedDirectoriesByPath[d] = k
                <5> HIDE DEF tree
                <5> QED BY <1>1, <2>1, <2>4, NumbersMatch
            <4>2. scan.found[d] = k
                BY <2>4, <3>1, <4>1 DEF ScanHolds, FoundMatches
            <4> QED BY <1>5, <1>6, <3>1, <4>2
        <3>2. CASE d \notin DOMAIN scan.found
            <4>1. d \notin Deleted
                BY <2>1, <2>4 DEF KeysOf
            <4>2. d \in DOMAIN cut
                BY <1>4, <2>4, <3>2, <4>1 DEF Deleted
            <4> QED BY <1>4, <1>5, <1>6, <2>4, <3>2, <4>2
        <3> QED BY <3>1, <3>2
    <2> QED BY <2>1, <2>2, <2>3, <2>4 DEF ScanHolds, KeysHeld, InTree
<1> QED BY <1>2, <1>3, <1>7, TreesHold

\* What the loop thread takes out of a tree is closed.
LEMMA CutHolds ==
    ASSUME TreesInv, KeysInv, ScanHolds, Act, ClosingOrder'
    PROVE  ScanHolds'
<1>1. scan = NoScan /\ scan' = NoScan /\ UNCHANGED keys
    BY DEF Act, service
<1>2. \A k : ~InScan(k)
    BY <1>1 DEF InScan, NoScan, NoMap
<1>3. CASE UNCHANGED closing /\ UNCHANGED rootDirectories
    <2>1. \A k : InTree(k)' <=> InTree(k)
        BY <1>3 DEF InTree
    <2>2. \A k \in DOMAIN keys' : keys'[k].open => InTree(k)' \/ k \in ToClose'
        BY <1>1, <1>2, <1>3, <2>1 DEF ScanHolds, KeysHeld, ToClose
    <2> QED BY <1>1, <2>2, TreesHold
<1>4. ASSUME NEW root \in Find(loop.path),
             closing' = [closing EXCEPT !["loop"] =
                           KeysOf(rootDirectories[root], Below(rootDirectories[root], loop.path))],
             rootDirectories' = [rootDirectories EXCEPT ![root] = Cut(@, loop.path)]
      PROVE  ScanHolds'
    <2> DEFINE tree == rootDirectories[root]
               cut == Cut(tree, loop.path)
               gone == Below(tree, loop.path)
    <2>1. root \in DOMAIN rootDirectories
        BY DEF Find
    <2>2. /\ DOMAIN rootDirectories' = DOMAIN rootDirectories /\ rootDirectories'[root] = cut
          /\ \A r \in DOMAIN rootDirectories \ {root} : rootDirectories'[r] = rootDirectories[r]
        BY <1>4, <2>1
    <2>3. DOMAIN cut = DOMAIN tree \ gone /\ \A d \in DOMAIN cut : cut[d] = tree[d]
        BY DEF Cut, Restrict
    <2>4. ToClose' = ToClose \cup KeysOf(tree, gone)
        <3>1. closing["loop"] = {}
            BY DEF ScanHolds, ClosingOrder, Act
        <3>2. closing'["loop"] = KeysOf(tree, gone) /\ closing'["call"] = closing["call"]
            BY <1>4 DEF TreesInv, ClosingTyped
        <3> QED BY <3>1, <3>2 DEF ToClose
    <2> HIDE DEF cut, gone
    <2>5. ASSUME NEW k \in DOMAIN keys, keys[k].open, k \notin ToClose' PROVE InTree(k)'
        <3>1. PICK r \in DOMAIN rootDirectories :
                    \E d \in DOMAIN rootDirectories[r] : rootDirectories[r][d] = k
            BY <1>2, <2>4, <2>5 DEF ScanHolds, KeysHeld, InTree
        <3> PICK d \in DOMAIN rootDirectories[r] : rootDirectories[r][d] = k
            BY <3>1
        <3>2. k \notin KeysOf(tree, gone)
            BY <2>4, <2>5
        <3>3. r = root => d \in DOMAIN cut /\ cut[d] = k
            BY <2>3, <3>2 DEF KeysOf
        <3> QED BY <2>2, <3>3 DEF InTree
    <2> QED BY <1>1, <2>5, TreesHold
<1> QED BY <1>3, <1>4 DEF Act

\* A change of the file system takes nothing that the scan has found.
LEMMA ChangesHold ==
    ASSUME Undisturbed, TreesInv, KeysInv, ScanHolds, NEW p \in Path,
           ClosingOrder', NEW value \in {"dir"} \cup Content, Create(p, value) \/ Modify(p, value) \/ Delete(p)
    PROVE  ScanHolds'
<1>1. PICK kind \in Kind \ {"overflow"}, after \in {"none", "dir"} \cup Content :
        p \notin Permanent /\ Change(p, kind, after)
    BY ChangesAreOutside DEF TreesInv
<1>2. /\ UNCHANGED <<watchedDirectoriesByPath, rootDirectories, scan, closing>>
      /\ DOMAIN keys' = DOMAIN keys /\ fs' = [fs EXCEPT ![p] = after]
    BY <1>1 DEF Change
<1>3. StayOpen
    BY <1>1, ChangeKeeps
<1>4. p \notin DOMAIN scan.found \/ fs[p] # "dir"
    BY NioAssumption DEF Undisturbed, Create, Modify, Delete
<1>5. \A d \in DOMAIN scan.found : fs[d] = "dir" => fs'[d] = "dir"
    BY <1>2, <1>4 DEF TreesInv, EnvironmentTyped
<1> QED BY <1>2, <1>3, <1>5, HoldsKept DEF StayOpen, ToClose

LEMMA HoldsInductive ==
    ASSUME Undisturbed, TreesInv, KeysInv, NoneOverflows, ScanHolds, [Next]_vars
    PROVE  ScanHolds'
<1>0. ClosingOrder'
    BY ClosingOrderInductive DEF TreesInv, ScanHolds
<1>1. ASSUME UNCHANGED <<fs, keys, watchedDirectoriesByPath, rootDirectories, scan, closing>>
      PROVE  ScanHolds'
    BY <1>0, <1>1, HoldsKept DEF ToClose
<1>11. ASSUME NEW thread \in {"loop", "call"}, CloseOne(thread) PROVE ScanHolds'
    <2>1. PICK n \in closing[thread] :
             CloseKeys({n}) /\ closing' = [closing EXCEPT ![thread] = @ \ {n}]
        BY <1>11 DEF CloseOne
    <2>2. /\ DOMAIN keys' = DOMAIN keys
          /\ \A k \in DOMAIN keys : keys'[k].open <=> keys[k].open /\ k # n
        BY <2>1, CloseKeysKeeps
    <2>3. \A k \in ToClose \ {n} : k \in ToClose'
        BY <2>1 DEF ToClose, TreesInv, ClosingTyped
    <2>4. /\ DOMAIN watchedDirectoriesByPath' \subseteq DOMAIN watchedDirectoriesByPath
          /\ \A d \in DOMAIN watchedDirectoriesByPath' :
                watchedDirectoriesByPath'[d] = watchedDirectoriesByPath[d]
        BY <2>1 DEF CloseKeys, Forget
    <2>5. UNCHANGED <<rootDirectories, scan, fs>>
        BY <1>11 DEF CloseOne, environment
    <2> QED BY <1>0, <2>2, <2>3, <2>4, <2>5, HoldsKept
<1>2. ASSUME NEW path \in Path, Len(path) > 1, Find(path) = {}, NEW thread, scan = NoScan,
             scan' = InitScan(thread, path), UNCHANGED <<service, rootDirectories, closing>>
      PROVE  ScanHolds'
    <2>1. scan'.found = NoMap /\ scan'.root = Parent(path)
        BY <1>2 DEF InitScan
    <2>2. StartsWith(path, Parent(path))
        BY <1>2, PathsAreLong
    <2>3. RootIsNew'
        BY <1>2, <2>1, <2>2 DEF RootIsNew, Find
    <2> QED BY <1>0, <1>2, <2>1, <2>3, ScanBegins
<1>3. ASSUME NEW r \in DOMAIN rootDirectories, NEW path, NEW thread, scan = NoScan,
             scan' = UpdateScan(thread, r, path), UNCHANGED <<service, rootDirectories, closing>>
      PROVE  ScanHolds'
    <2>1. /\ scan'.stage = "update" /\ scan'.root = r
          /\ scan'.found \in {NoMap, With(NoMap, r, rootDirectories[r][r])}
        BY <1>3 DEF UpdateScan
    <2>2. RootIsNew'
        BY <2>1 DEF RootIsNew
    <2> QED BY <1>0, <1>3, <2>1, <2>2, ScanBegins
<1>4. CASE Scan
    BY <1>0, <1>4, WatchHolds, ListHolds DEF Scan
<1>5. ASSUME NEW p \in Path, Add(p) PROVE ScanHolds'
    <2>1. /\ p \in loop.todo /\ loop.stage = "adding" /\ scan = NoScan
          /\ UNCHANGED <<service, rootDirectories, fs, closing>>
        BY <1>5 DEF Add, environment
    <2>2. p \in Dir /\ Len(p) > 1
        BY <2>1 DEF TreesInv, LoopTyped
    <2>3. CASE UNCHANGED scan
        BY <1>1, <2>1, <2>3 DEF service
    <2>4. ASSUME NEW r \in Find(p), scan' = UpdateScan("loop", r, p) PROVE ScanHolds'
        BY <1>3, <2>1, <2>4 DEF Find
    <2>5. CASE Find(p) = {} /\ scan' = InitScan("loop", p)
        BY <1>2, <2>1, <2>2, <2>5
    <2> QED BY <1>5, <2>3, <2>4, <2>5 DEF Add
<1>6. CASE Loop
    <2>1. ASSUME NEW k \in DOMAIN keys, Take(k) PROVE ScanHolds'
        <3>1. /\ UNCHANGED <<fs, watchedDirectoriesByPath, rootDirectories, scan, closing>>
              /\ DOMAIN keys' = DOMAIN keys
            BY <2>1 DEF Take, environment
        <3>2. StayOpen
            BY <2>1, TakeKeeps
        <3> QED BY <1>0, <3>1, <3>2, HoldsKept DEF StayOpen, ToClose
    <2>2. CASE Look \/ Report
        BY <1>1, <2>2 DEF Look, Report, service, environment
    <2>3. CASE Overflow
        BY <2>3 DEF Overflow, NoneOverflows
    <2>4. CASE AddInit
        BY <1>0, <2>4, RootHolds DEF AddInit
    <2>5. CASE AddUpdate
        BY <1>0, <2>5, GraftHolds DEF AddUpdate
    <2> QED BY <1>0, <1>5, <1>6, <1>11, <2>1, <2>2, <2>3, <2>4, <2>5, CutHolds DEF Loop
<1>7. CASE Calling
    <2>1. CASE GetOrAdd
        <3>1. /\ call.stage = "added" /\ scan = NoScan /\ UNCHANGED <<service, rootDirectories, fs, closing>>
            BY <2>1 DEF GetOrAdd, environment
        <3>2. call.path \in Path /\ Len(call.path) > 1
            BY <3>1 DEF TreesInv, CallTyped
        <3>3. CASE UNCHANGED scan
            BY <1>1, <3>1, <3>3 DEF service
        <3>4. CASE Find(call.path) = {} /\ scan' = InitScan("call", call.path)
            <4> DEFINE p == call.path
            <4> HIDE DEF p
            <4>1. p \in Path /\ Len(p) > 1 /\ Find(p) = {} /\ scan' = InitScan("call", p)
                BY <3>2, <3>4 DEF p
            <4> QED BY <1>2, <3>1, <4>1
        <3> QED BY <2>1, <3>3, <3>4 DEF GetOrAdd
    <2>2. CASE RegisterInit
        BY <1>0, <2>2, RootHolds DEF RegisterInit
    <2>3. CASE RegisterUpdate
        <3>1. /\ call.stage = "found" /\ scan = NoScan /\ UNCHANGED <<service, rootDirectories, fs, closing>>
              /\ call.root \in DOMAIN rootDirectories
            BY <2>3 DEF RegisterUpdate, environment, TreesInv, CallTyped
        <3>2. CASE UNCHANGED scan
            BY <1>1, <3>1, <3>2 DEF service
        <3>3. CASE scan' = UpdateScan("call", call.root, call.last)
            BY <1>3, <3>1, <3>3
        <3> QED BY <2>3, <3>2, <3>3 DEF RegisterUpdate
    <2>4. CASE RegisterGraft
        BY <1>0, <2>4, GraftHolds DEF RegisterGraft
    <2>5. CASE RegisterFind \/ Return
        BY <1>1, <2>5 DEF RegisterFind, Return, service, environment
    <2>6. ~UnregisterRoot
        BY NioAssumption DEF UnregisterRoot, Undisturbed, TreesInv, CallTyped
    <2> QED BY <1>7, <1>11, <2>1, <2>2, <2>3, <2>4, <2>5, <2>6 DEF Calling
<1>8. ASSUME NEW p \in Path, Unregister(p) \/ \E d \in Depth : Register(p, d)
      PROVE  ScanHolds'
    BY <1>1, <1>8 DEF Unregister, Register, service
<1>9. CASE Close
    <2>1. scan' = NoScan /\ \A k \in DOMAIN keys' : keys'[k].open => InTree(k)' \/ k \in ToClose'
        BY <1>9 DEF Close
    <2> QED BY <1>0, <2>1, TreesHold
<1>10. CASE UNCHANGED vars
    BY <1>1, <1>10 DEF vars
<1> QED BY <1>0, <1>4, <1>6, <1>7, <1>8, <1>9, <1>10, ChangesHold DEF Next

LEMMA LeaksFollow ==
    ScanHolds => NoKeyLeaks
<1> SUFFICES ASSUME ScanHolds, Quiescent PROVE NoKeyLeaks
    BY DEF NoKeyLeaks
<1>1. ToClose = {}
    BY NothingIsClosing DEF ScanHolds, Quiescent, Waiting, NoCall
<1> QED BY <1>1 DEF ScanHolds, KeysHeld, InTree, InScan, NoKeyLeaks, Quiescent, NoScan, NoMap, KeysOf

\* Every open key belongs to a directory of a tree once all is handled, and before that
\* to a tree, to the scan, or to what one of the threads is about to close, however
\* many directories there are and however the file system changes while they are added
\* (remove, and onDelete of updateCacheObserver).  The departures that are excluded are
\* those that leave keys behind.
THEOREM KeysDoNotLeak == ASSUME Undisturbed PROVE Spec => []NoKeyLeaks
<1>1. Init => TreesInv /\ KeysInv /\ NoneOverflows /\ ScanHolds
    <2>1. Init => KeysInv
        BY DEF Init, KeysInv, KeysMatch, NoMap
    <2>2. Init => ScanHolds
        BY DEF Init, ScanHolds, KeysHeld, FoundStays, FoundMatches, RootIsNew, ClosingOrder,
               NothingToClose, NoScan, NoMap
    <2>3. Init => NoneOverflows
        BY NioAssumption DEF Init, NoneOverflows, Waiting
    <2> QED BY <2>1, <2>2, <2>3, TreesBegin
<1>2. TreesInv /\ KeysInv /\ NoneOverflows /\ ScanHolds /\ [Next]_vars
        => (TreesInv /\ KeysInv /\ NoneOverflows /\ ScanHolds)'
    BY TreesInductive, KeysInductive, OverflowsInductive, HoldsInductive
<1> QED BY <1>1, <1>2, LeaksFollow, PTL DEF Spec
-----------------------------------------------------------------------------
(* Nothing is missed                                                         *)

\* The loop thread handles no event while register scans.
NotBoth == scan.by = "call" => ~LoopLocked

\* Nor while it closes keys.
NotWhileClosing == closing["call"] # {} => ~LoopLocked

\* Or only what lies directly below a permanent directory comes and goes.
OneLevel == \A d \in Dir : Len(d) > 1 => Parent(d) \in Permanent

\* The key of a directory that is still there, and the directories that trees hold.
Alive(k) == k \in DOMAIN keys /\ keys[k].valid
InTrees(d) == \E r \in DOMAIN rootDirectories : d \in DOMAIN rootDirectories[r]
Live(d) ==
    \E r \in DOMAIN rootDirectories :
        d \in DOMAIN rootDirectories[r] /\ Alive(rootDirectories[r][d])

\* Events that wait in the queues: of a path, and of the deletion of it or above it.
Queued(e) == \E k \in DOMAIN keys : \E i \in DOMAIN keys[k].events : keys[k].events[i] = e
PathQueued(p) == \E e \in Event : Queued(e) /\ e.path = p
DoomQueued(d) == \E e \in Event : Queued(e) /\ e.kind = "delete" /\ StartsWith(d, e.path)

\* The directory, or one above it, got a key that was about to be closed: nothing is
\* promised of what is below.
Lost(d) == \E e \in reused : StartsWith(d, e)

\* The loop thread will remove the directory, if anybody hears of it; it will look at the
\* path, or report it.
Doomed(d) ==
    \/ DoomQueued(d)
    \/ loop.stage \in {"taken", "acting"} /\ loop.kind = "delete" /\ StartsWith(d, loop.path)
    \/ Lost(d)
Pending(p) ==
    \/ PathQueued(p)
    \/ loop.path = p /\ loop.stage = "taken"
    \/ loop.path = p /\ loop.stage = "acting" /\ (loop.exists \/ loop.kind = "delete")

\* What is above a path that exists is a directory.
Files ==
    /\ \A p \in Path : fs[p] # "none" /\ Len(p) > 1 => fs[Parent(p)] = "dir"
    /\ \A p \in Path : fs[p] # "none" => (fs[p] = "dir" <=> p \in Dir)

\* Nothing was registered, or one path was.
Resting == call.stage \in {"none", "closed"}

Fresh ==
    /\ registered = Registry!NoDirectories /\ DOMAIN rootDirectories = {} /\ DOMAIN keys = {}
    /\ scan = NoScan /\ loop = Waiting /\ monitored = {} /\ Resting

Only(p, maxDepth) ==
    /\ Len(p) > 1 /\ registered = [q \in {p} |-> maxDepth]
    /\ ~Resting => call.path = p /\ call.depth = maxDepth /\ monitored = {}
    /\ call.stage \in {"rooted", "found", "updating", "updated"} =>
         \E r \in DOMAIN rootDirectories : StartsWith(p, r)
    /\ ~closed => \A q \in monitored :
         /\ StartsWith(q, p) /\ Accepts(q)
         /\ \E r \in DOMAIN rootDirectories : StartsWith(q, r)

OneCall ==
    /\ budget.register \in 0..1
    /\ \/ Fresh
       \/ budget.register = 0 /\ \E p \in Path, maxDepth \in Depth : Only(p, maxDepth)

\* A scan is the loop thread's, or that of register.
LoopScans == scan.by = "loop" /\ scan.stage = "update" /\ loop.stage = "adding" /\ loop.todo = {}
CallScans ==
    /\ scan.by = "call"
    /\ \/ scan.stage = "init" /\ call.stage = "added" /\ ~LoopLocked
       \/ scan.stage = "update" /\ call.stage = "updating"

Turns == loop.todo \subseteq {loop.path} /\ (scan = NoScan \/ LoopScans \/ CallScans)

\* The scan goes downwards: it finds a directory after the one above was listed.
ScanOrder ==
    /\ scan.toWatch \cap DOMAIN scan.found = {}
    /\ scan.stage = "update" =>
         \A d \in scan.toWatch \cup DOMAIN scan.found : StartsWith(d, scan.base)
    /\ \A d \in scan.toWatch \cup DOMAIN scan.found :
         \/ Len(d) = 1
         \/ scan.stage = "update" /\ d = scan.base
         \/ Parent(d) \in DOMAIN scan.found \ scan.toList
    /\ scan.stage = "update" /\ Len(scan.base) > 1 =>
         Parent(scan.base) \in DOMAIN rootDirectories[scan.root]

TreesClosed ==
    \A r \in DOMAIN rootDirectories : \A d \in DOMAIN rootDirectories[r] :
        Len(d) > 1 => Parent(d) \in DOMAIN rootDirectories[r]

\* Only what is registered, or on the way there, is in a tree.
AllWanted ==
    /\ \A d : InTrees(d) => AcceptsPrefix(d)
    /\ \A d \in DOMAIN scan.found \cup scan.toWatch : AcceptsPrefix(d)
    /\ call.stage = "found" => AcceptsPrefix(call.last)

Growth == Files /\ OneCall /\ Turns /\ ScanOrder /\ TreesClosed /\ AllWanted

\* A directory that is in a tree is there, or the loop thread will come to its deletion.
StaleDoomed ==
    /\ \A r \in DOMAIN rootDirectories : \A d \in DOMAIN rootDirectories[r] :
         Alive(rootDirectories[r][d]) \/ Doomed(d)
    /\ \A d \in DOMAIN scan.found : Alive(scan.found[d]) \/ Doomed(d)
    /\ \A d \in scan.toWatch : fs[d] = "dir" \/ Doomed(d)

\* What the loop thread is about to add is there, or its deletion waits.
TodoStays ==
    (loop.stage = "acting" /\ loop.exists) \/ loop.todo # {} =>
        \A d \in Dir : StartsWith(loop.path, d) /\ Len(d) > 1 /\ InTrees(Parent(d)) =>
            fs[d] = "dir" \/ DoomQueued(d) \/ Lost(d)

\* What came after the loop thread had looked for it is announced.
LookedAway ==
    /\ loop.stage = "acting" /\ ~loop.exists /\ loop.path \in Dir
    /\ fs[loop.path] # "none" /\ Live(Parent(loop.path))
    => PathQueued(loop.path) \/ Lost(loop.path)

\* A directory is in its tree, or will come to be.
Coming ==
    \A d \in Dir : Len(d) > 1 /\ fs[d] = "dir" /\ AcceptsPrefix(d) /\ Live(Parent(d)) =>
        \/ Live(d)
        \/ Doomed(d)
        \/ Pending(d)
        \/ d \in loop.todo
        \/ scan.stage = "update" /\ StartsWith(d, scan.base)

\* The same, for the tree that a scan builds.
Scanning(d) == Parent(d) \in DOMAIN scan.found \ scan.toList \/ (scan.stage = "update" /\ d = scan.base)

ScanComing ==
    \A d \in Dir : Len(d) > 1 /\ fs[d] = "dir" /\ AcceptsPrefix(d) /\ Scanning(d) =>
        d \in DOMAIN scan.found \/ d \in scan.toWatch \/ Doomed(d) \/ Pending(d)

\* What exists in a directory with a key is known, or will be.
Told ==
    ~closed => \A p \in monitored : Len(p) > 1 /\ fs[p] # "none" /\ Live(Parent(p)) =>
        \/ known[p] = fs[p]
        \/ Pending(p)
        \/ Doomed(Parent(p))
        \/ loop.stage = "adding" /\ p \in loop.told

Arrival == StaleDoomed /\ TodoStays /\ LookedAway /\ Coming /\ ScanComing /\ Told

\* The topmost directories keep their keys.
TopsStay ==
    /\ \A k \in ToClose \ {Invalid} : keys[k].path \notin Permanent
    /\ reused \cap Permanent = {}

\* What was proved before.
Basis == TreesInv /\ KeysInv /\ OpenInv /\ NoneOverflows /\ ScanHolds /\ TopsStay
-----------------------------------------------------------------------------
(* Paths *)

\* The strict prefixes of a path are the prefixes of its parent.
LEMMA PrefixOfParent ==
    ASSUME NEW p \in Path, Len(p) > 1, NEW q \in Path, StartsWith(p, q), q # p
    PROVE  StartsWith(Parent(p), q)
<1>1. /\ p \in Seq(STRING) /\ Len(p) \in Nat /\ Parent(p) \in Path /\ StartsWith(p, Parent(p))
      /\ Len(Parent(p)) = Len(p) - 1
    BY PathAssumption, PathsAreLong, NioAssumption
<1>2. Len(q) \in Nat /\ Len(q) <= Len(p)
    BY PathsAreLong, StartsWithIsOrder
<1>3. Len(q) # Len(p)
    BY PrefixIsPath, PrefixIsThere, <1>1, <1>2
<1>4. Len(q) <= Len(Parent(p))
    BY <1>1, <1>2, <1>3
<1> QED BY <1>1, <1>2, <1>4 DEF StartsWith

\* A path above another is above its parent, and a parent is not below its child.
LEMMA ParentsAreAbove ==
    ASSUME NEW p \in Path, Len(p) > 1
    PROVE  /\ Parent(p) \in Dir /\ Parent(p) \in Path /\ StartsWith(p, Parent(p)) /\ Parent(p) # p
           /\ ~StartsWith(Parent(p), p)
           /\ \A q \in Path : StartsWith(Parent(p), q) => StartsWith(p, q) /\ q # p
<1>1. /\ Parent(p) \in Dir /\ Parent(p) \in Path /\ StartsWith(p, Parent(p))
      /\ Len(Parent(p)) = Len(p) - 1 /\ Len(p) \in Nat
    BY PathsAreLong, NioAssumption
<1>2. Parent(p) # p
    BY <1>1
<1>3. ~StartsWith(Parent(p), p)
    BY <1>1, <1>2, StartsWithIsOrder
<1> QED BY <1>1, <1>2, <1>3, StartsWithIsOrder

LEMMA LongIsNotTop ==
    ASSUME NEW p \in Path, Len(p) > 1
    PROVE  Len(p) # 1
<1> DEFINE n == Len(p)
<1>1. n \in Nat /\ n > 1
    BY PathsAreLong
<1> HIDE DEF n
<1>2. n # 1
    BY <1>1
<1> QED BY <1>2 DEF n

\* All that is above a path that exists is a directory.
LEMMA AboveIsThere ==
    ASSUME Files, NEW p \in Path, fs[p] # "none", NEW q \in Path, StartsWith(p, q), q # p
    PROVE  fs[q] = "dir"
<1>1. /\ Len(p) \in Nat /\ Len(q) \in 1..Len(p) /\ q = SubSeq(p, 1, Len(q))
    BY PrefixIsPath, PathsAreLong
<1> DEFINE S == {m \in 0..Len(p) - 1 : fs[SubSeq(p, 1, Len(p) - m)] = "none"}
<1>2. \A n \in 1..Len(p) : fs[SubSeq(p, 1, n)] # "none"
    <2> SUFFICES ASSUME S # {} PROVE FALSE
        <3> SUFFICES ASSUME NEW n \in 1..Len(p), fs[SubSeq(p, 1, n)] = "none" PROVE S # {}
            OBVIOUS
        <3>1. Len(p) - n \in 0..Len(p) - 1 /\ Len(p) - (Len(p) - n) = n
            BY <1>1
        <3> QED BY <3>1
    <2>1. S \in SUBSET Nat
        BY <1>1
    <2>2. PICK m \in S : \A n \in S : m <= n
        <3> HIDE DEF S
        <3> QED BY <2>1, LeastNumber
    <2>3. m \in 0..Len(p) - 1 /\ m \in Nat /\ fs[SubSeq(p, 1, Len(p) - m)] = "none"
        BY <2>1
    <2>4. m # 0
        <3> SUFFICES ASSUME m = 0 PROVE FALSE
            OBVIOUS
        <3>1. Len(p) - m = Len(p) /\ Len(p) \in 1..Len(p)
            BY <1>1
        <3> QED BY <2>3, <3>1, PrefixIsThere
    <2> DEFINE n == Len(p) - m + 1
    <2>5. n \in 2..Len(p) /\ n \in 1..Len(p) /\ n - 1 = Len(p) - m
        BY <1>1, <2>3, <2>4
    <2>6. m - 1 \notin S /\ m - 1 \in 0..Len(p) - 1 /\ Len(p) - (m - 1) = n
        <3> HIDE DEF S
        <3> QED BY <1>1, <2>2, <2>3, <2>4
    <2>7. fs[SubSeq(p, 1, n)] # "none"
        BY <2>6
    <2> HIDE DEF S
    <2>8. /\ Parent(SubSeq(p, 1, n)) = SubSeq(p, 1, n - 1) /\ Len(SubSeq(p, 1, n)) = n
          /\ SubSeq(p, 1, n) \in Path
        <3>1. SubSeq(p, 1, n) \in Path
            <4>1. CASE n = Len(p)
                BY <2>5, <4>1, PrefixIsThere
            <4>2. CASE n # Len(p)
                <5>1. n \in 1..Len(p) - 1
                    BY <1>1, <2>5, <4>2
                <5> QED BY <5>1, PathAssumption, NioAssumption
            <4> QED BY <4>1, <4>2
        <3> QED BY <2>5, <3>1, PrefixIsThere
    <2>9. fs[SubSeq(p, 1, n - 1)] = "dir"
        <3>1. n > 1
            BY <1>1, <2>5
        <3> QED BY <2>7, <2>8, <3>1 DEF Files
    <2> QED BY <2>3, <2>5, <2>9
<1>3. Len(q) # Len(p)
    BY <1>1, PrefixIsThere
<1>4. q \in Dir
    <2> DEFINE n == Len(q)
    <2>1. n \in 1..Len(p) - 1 /\ q = SubSeq(p, 1, n)
        BY <1>1, <1>3
    <2> HIDE DEF n
    <2> QED BY <2>1, PathAssumption, NioAssumption
<1> QED BY <1>1, <1>2, <1>4 DEF Files

\* What the registry's acceptPrefix and accept mean for paths of the watcher.
LEMMA WantedMeans ==
    ASSUME NEW reg, NEW p
    PROVE  /\ Registry!Accepts(reg, p) <=> \E d \in DOMAIN reg : Registry!Covers(reg, d, p)
           /\ Registry!AcceptsPrefix(reg, p) <=>
                \E d \in DOMAIN reg : StartsWith(d, p) \/ Registry!Covers(reg, d, p)
           /\ \A d : Registry!Covers(reg, d, p) <=>
                /\ StartsWith(p, d)
                /\ p = d \/ Len(p) - Len(d) <= Registry!CompMaxDepth(reg[d])
<1>1. \A q, r : Registry!StartsWith(q, r) <=> StartsWith(q, r)
    BY DEF Registry!StartsWith, StartsWith
<1>2. \A d : Registry!Distance(d, p) = Len(p) - Len(d)
    BY DEF Registry!Distance
<1> QED BY <1>1, <1>2 DEF Registry!Accepts, Registry!AcceptsPrefix, Registry!Covers

\* What is above a wanted path is wanted.
LEMMA AboveIsWanted ==
    ASSUME DOMAIN registered \subseteq Path, NEW p \in Path, AcceptsPrefix(p),
           \A d \in DOMAIN registered : Registry!CompMaxDepth(registered[d]) \in Int,
           NEW q \in Path, StartsWith(p, q)
    PROVE  AcceptsPrefix(q)
<1>1. PICK d \in DOMAIN registered : StartsWith(d, p) \/ Registry!Covers(registered, d, p)
    BY WantedMeans DEF AcceptsPrefix
<1>2. CASE StartsWith(d, q)
    BY <1>2, WantedMeans DEF AcceptsPrefix
<1>3. CASE ~StartsWith(d, q)
    <2>1. d \in Path /\ ~StartsWith(d, p)
        BY <1>3, StartsWithIsOrder
    <2>2. StartsWith(p, d) /\ p # d /\ Len(p) - Len(d) <= Registry!CompMaxDepth(registered[d])
        BY <1>1, <2>1, StartsWithIsOrder, WantedMeans
    <2>3. StartsWith(q, d)
        BY <1>3, <2>1, <2>2, StartsWithIsOrder
    <2>4. /\ Len(q) \in Nat /\ Len(p) \in Nat /\ Len(d) \in Nat /\ Len(q) <= Len(p)
        BY <2>1, PathsAreLong, StartsWithIsOrder
    <2>5. Len(q) - Len(d) <= Registry!CompMaxDepth(registered[d])
        BY <2>2, <2>4
    <2> QED BY <2>3, <2>5, WantedMeans DEF AcceptsPrefix
<1> QED BY <1>2, <1>3
-----------------------------------------------------------------------------
(* The steps that are left when nothing overflows and nothing is unregistered *)

Closes == \E thread \in {"loop", "call"} : CloseOne(thread)

Moves ==
    \/ \E p \in Path, value \in {"dir"} \cup Content :
         Create(p, value) \/ Modify(p, value) \/ Delete(p)
    \/ \E p \in Path, maxDepth \in Depth : Register(p, maxDepth)
    \/ \E d \in Dir : ScanWatch(d) \/ ScanList(d)
    \/ \E k \in DOMAIN keys : Take(k)
    \/ Look \/ Act \/ AddUpdate \/ Report
    \/ \E p \in Path : Add(p)
    \/ GetOrAdd \/ RegisterInit \/ RegisterFind \/ RegisterUpdate \/ RegisterGraft \/ Return
    \/ Closes

\* Closing a key touches the keys, and nothing else.
LEMMA ClosesOnly ==
    ASSUME Closes
    PROVE  UNCHANGED <<fs, monitored, known, budget, rootDirectories, registered, scan, loop, call,
                       closed, reused>>
BY DEF Closes, CloseOne, environment

LEMMA OnlyMoves ==
    ASSUME Undisturbed, Basis, [Next]_vars
    PROVE  Moves \/ Close \/ UNCHANGED vars
<1>1. ~Overflow
    BY DEF Overflow, Basis, NoneOverflows
<1>2. ~AddInit
    <2>1. ~(scan.stage = "init" /\ scan.by = "loop")
        BY NioAssumption DEF Undisturbed, Basis, TreesInv, ScanRooted
    <2> QED BY <2>1 DEF AddInit, Scanned
<1>3. ~UnregisterRoot
    BY NioAssumption DEF UnregisterRoot, Undisturbed, Basis, TreesInv, CallTyped
<1>4. \A p : ~Unregister(p)
    <2>1. budget.unregister \in 0..MaxUnregister
        BY DEF Basis, TreesInv, EnvironmentTyped
    <2> QED BY <2>1 DEF Unregister, Undisturbed
<1>5. ASSUME Scan PROVE Moves
    BY <1>5 DEF Scan, Moves
<1>6. ASSUME Loop PROVE Moves
    BY <1>1, <1>2, <1>6 DEF Loop, Moves, Closes
<1>7. ASSUME Calling PROVE Moves
    BY <1>3, <1>7 DEF Calling, Moves, Closes
<1>8. ASSUME NEW p \in Path, NEW value \in {"dir"} \cup Content, Create(p, value) \/ Modify(p, value)
      PROVE  Moves
    BY <1>8 DEF Moves
<1>9. ASSUME NEW p \in Path, Delete(p) PROVE Moves
    <2>1. "dir" \in {"dir"} \cup Content
        OBVIOUS
    <2> QED BY <1>9, <2>1 DEF Moves
<1>10. ASSUME NEW p \in Path, NEW d \in Depth, Register(p, d) PROVE Moves
    BY <1>10 DEF Moves
<1> QED BY <1>4, <1>5, <1>6, <1>7, <1>8, <1>9, <1>10 DEF Next

\* The loop thread adds the path of the event that it handles, or leaves it.
LEMMA AddBegins ==
    ASSUME Undisturbed, Basis, Turns, NEW p \in Path, Add(p)
    PROVE  /\ p = loop.path /\ p \in Dir /\ loop.stage = "adding" /\ loop.todo = {p} /\ scan = NoScan
           /\ loop'.todo = {} /\ loop'.stage = "adding" /\ loop'.path = loop.path
           /\ loop'.kind = loop.kind /\ loop'.exists = loop.exists /\ loop'.told = loop.told
           /\ UNCHANGED <<environment, service, rootDirectories, registered, call, closed>>
           /\ \/ ~AcceptsPrefix(p) /\ UNCHANGED scan
              \/ /\ AcceptsPrefix(p)
                 /\ \E r \in DOMAIN rootDirectories :
                       StartsWith(p, r) /\ p # r /\ scan' = UpdateScan("loop", r, p)
<1>1. /\ p \in loop.todo /\ loop.stage = "adding" /\ scan = NoScan
      /\ UNCHANGED <<environment, service, rootDirectories, registered, call, closed>>
    BY DEF Add
<1>2. loop.todo = {p} /\ p = loop.path
    BY <1>1 DEF Turns
<1>3. AllCovered /\ LoopTyped /\ RootsTyped
    BY DEF Basis, TreesInv
<1>4. Find(p) # {}
    BY <1>1, <1>3, LoopAddsRoots, NioAssumption DEF Undisturbed
<1>5. p \in Dir /\ Len(p) > 1
    BY <1>1, <1>3 DEF LoopTyped
<1>6. loop' = [loop EXCEPT !.todo = @ \ {p}]
    BY <1>4 DEF Add
<1>7. /\ loop'.todo = {} /\ loop'.stage = "adding" /\ loop'.path = loop.path
      /\ loop'.kind = loop.kind /\ loop'.exists = loop.exists /\ loop'.told = loop.told
    BY <1>1, <1>2, <1>3, <1>6 DEF LoopTyped
<1>8. ASSUME NEW r \in Find(p) PROVE r \in DOMAIN rootDirectories /\ StartsWith(p, r) /\ p # r
    <2>1. r \in DOMAIN rootDirectories /\ StartsWith(p, r)
        BY <1>8 DEF Find
    <2>2. Len(r) = 1
        BY <1>3, <2>1 DEF RootsTyped, Undisturbed
    <2>3. Len(p) \in Nat
        BY PathsAreLong
    <2>4. ~(Len(p) = 1)
        BY <1>5, <2>3
    <2> QED BY <2>1, <2>2, <2>4
<1>9. \/ ~AcceptsPrefix(p) /\ UNCHANGED scan
      \/ AcceptsPrefix(p) /\ \E r \in Find(p) : scan' = UpdateScan("loop", r, p)
    BY <1>4 DEF Add
<1> QED BY <1>1, <1>2, <1>5, <1>7, <1>8, <1>9

\* update begins with the root, or with the first directory that its tree does not hold.
LEMMA UpdateLooks ==
    ASSUME RootsTyped, NEW r \in DOMAIN rootDirectories, NEW p \in Dir, StartsWith(p, r),
           NEW thread, scan' = UpdateScan(thread, r, p)
    PROVE  /\ scan'.stage = "update" /\ scan'.by = thread /\ scan'.root = r
           /\ \/ /\ p = r /\ scan'.base = r /\ scan'.toWatch = {} /\ scan'.toList = {r}
                 /\ DOMAIN scan'.found = {r} /\ scan'.found[r] = rootDirectories[r][r]
              \/ /\ p # r /\ scan'.base \in Dir /\ Len(scan'.base) > 1
                 /\ StartsWith(p, scan'.base) /\ StartsWith(scan'.base, r)
                 /\ Parent(scan'.base) \in DOMAIN rootDirectories[r]
                 /\ scan'.toWatch = {scan'.base} /\ scan'.toList = {} /\ DOMAIN scan'.found = {}
<1> DEFINE tree == rootDirectories[r]
<1>1. /\ r \in Dir /\ r \in DOMAIN tree /\ KeysOfDirs(keys, tree, r)
    BY NioAssumption DEF RootsTyped
<1>2. CASE p = r
    BY <1>2 DEF UpdateScan, With, NoMap
<1>3. CASE p # r
    <2> DEFINE first == FirstToAdd(tree, p)
    <2>1. /\ scan'.stage = "update" /\ scan'.by = thread /\ scan'.root = r /\ scan'.base = first
          /\ scan'.toWatch = {first} /\ scan'.toList = {} /\ scan'.found = NoMap
        BY <1>3 DEF UpdateScan
    <2>2. /\ first \in Dir /\ StartsWith(first, r) /\ StartsWith(p, first) /\ Len(first) > 1
          /\ Parent(first) \in DOMAIN tree
        <3>1. \A d \in DOMAIN tree : d \in Dir /\ StartsWith(d, r)
            BY <1>1 DEF KeysOfDirs
        <3> HIDE DEF tree
        <3> QED BY <1>1, <1>3, <3>1, FirstIsToAdd
    <2> HIDE DEF first
    <2> QED BY <1>3, <2>1, <2>2 DEF NoMap
<1> QED BY <1>2, <1>3
-----------------------------------------------------------------------------
(* What is there, and the one call of register *)

LEMMA FilesInductive ==
    ASSUME Undisturbed, Basis, Files, Moves \/ Close \/ UNCHANGED vars
    PROVE  Files'
<1>1. CASE UNCHANGED fs
    BY <1>1 DEF Files
<1>2. fs \in [Path -> {"none", "dir"} \cup Content] /\ "none" \notin Content /\ "dir" \notin Content
    BY NioAssumption DEF Basis, TreesInv, EnvironmentTyped
<1>3. ASSUME NEW p \in Path, NEW value \in {"dir"} \cup Content, Create(p, value) PROVE Files'
    <2>1. /\ fs[p] = "none" /\ p \notin Permanent /\ fs[Parent(p)] = "dir"
          /\ fs' = [fs EXCEPT ![p] = value] /\ IF p \in Dir THEN value = "dir" ELSE value \in Content
        BY <1>3 DEF Create, Change
    <2>2. Len(p) > 1
        BY <2>1, PathsAreLong
    <2>3. ASSUME NEW q \in Path, fs'[q] # "none", Len(q) > 1 PROVE fs'[Parent(q)] = "dir"
        <3>1. Parent(q) \in Path
            BY <2>3, ParentsAreAbove
        <3>2. Parent(p) \in Path /\ Parent(p) # p
            BY <2>2, ParentsAreAbove
        <3>3. CASE q = p
            BY <1>2, <2>1, <3>2, <3>3
        <3>4. CASE q # p
            BY <1>2, <2>1, <2>3, <3>1, <3>4 DEF Files
        <3> QED BY <3>3, <3>4
    <2>4. ASSUME NEW q \in Path, fs'[q] # "none" PROVE fs'[q] = "dir" <=> q \in Dir
        BY <1>2, <2>1, <2>4 DEF Files
    <2> QED BY <2>3, <2>4 DEF Files
<1>4. ASSUME NEW p \in Path, NEW value, Modify(p, value) PROVE Files'
    <2>1. fs[p] \in Content /\ value \in Content /\ fs' = [fs EXCEPT ![p] = value]
        BY <1>4 DEF Modify, Change
    <2>2. fs[p] # "none" /\ fs[p] # "dir" /\ value # "none" /\ value # "dir" /\ p \notin Dir
        BY <1>2, <2>1 DEF Files
    <2>3. \A q \in Path : (fs'[q] # "none" <=> fs[q] # "none") /\ (fs'[q] = "dir" <=> fs[q] = "dir")
        BY <1>2, <2>1, <2>2
    <2>4. \A q \in Path : Len(q) > 1 => Parent(q) \in Path
        BY ParentsAreAbove
    <2> QED BY <2>3, <2>4 DEF Files
<1>5. ASSUME NEW p \in Path, Delete(p) PROVE Files'
    <2>1. /\ fs' = [fs EXCEPT ![p] = "none"]
          /\ \A q \in Path : StrictlyBelow(q, p) => fs[q] = "none"
        BY <1>5 DEF Delete, Change
    <2>2. \A q \in Path : fs'[q] = IF q = p THEN "none" ELSE fs[q]
        BY <1>2, <2>1
    <2>3. ASSUME NEW q \in Path, fs'[q] # "none", Len(q) > 1 PROVE fs'[Parent(q)] = "dir"
        <3>1. Parent(q) \in Path /\ StartsWith(q, Parent(q)) /\ Parent(q) # q
            BY <2>3, ParentsAreAbove
        <3>2. Parent(q) # p
            BY <2>1, <2>2, <2>3, <3>1 DEF StrictlyBelow
        <3> QED BY <2>2, <2>3, <3>1, <3>2 DEF Files
    <2> QED BY <2>2, <2>3 DEF Files
<1>6. ASSUME NEW d \in Dir, ScanWatch(d) \/ ScanList(d) PROVE UNCHANGED fs
    BY <1>6 DEF ScanWatch, ScanList, environment
<1>7. ASSUME NEW p \in Path, Add(p) \/ \E n \in Depth : Register(p, n) PROVE UNCHANGED fs
    BY <1>7 DEF Add, Register, environment
<1>8. ASSUME (\E k \in DOMAIN keys : Take(k)) \/ Look \/ Act \/ AddUpdate \/ Report PROVE UNCHANGED fs
    BY <1>8 DEF Take, Look, Act, AddUpdate, Report, environment
<1>9. ASSUME GetOrAdd \/ RegisterInit \/ RegisterFind \/ RegisterUpdate \/ RegisterGraft \/ Return
      PROVE  UNCHANGED fs
    BY <1>9 DEF GetOrAdd, RegisterInit, RegisterFind, RegisterUpdate, RegisterGraft, Return, environment
<1>10. ASSUME Close \/ Closes \/ UNCHANGED vars PROVE UNCHANGED fs
    BY <1>10, ClosesOnly DEF Close, vars, environment
<1> QED BY <1>1, <1>3, <1>4, <1>5, <1>6, <1>7, <1>8, <1>9, <1>10 DEF Moves

\* The one registration: depths do not overflow, and what is registered is wanted.
LEMMA OnlyIsTyped ==
    ASSUME NEW p \in Path, NEW maxDepth \in Depth, Only(p, maxDepth)
    PROVE  /\ DOMAIN registered = {p} /\ registered[p] = maxDepth
           /\ \A d \in DOMAIN registered : Registry!CompMaxDepth(registered[d]) \in Int
<1>1. registered = [q \in {p} |-> maxDepth]
    BY DEF Only
<1>2. maxDepth \in Int /\ MaxInt \in Nat
    BY DepthAssumption
<1>3. Registry!CompMaxDepth(maxDepth) \in Int
    BY <1>2 DEF Registry!CompMaxDepth, Registry!Int32, Registry!MinInt
<1> QED BY <1>1, <1>3

\* The first call of register.
LEMMA RegisterBegins ==
    ASSUME Basis, Fresh, budget.register \in 0..1, NEW p \in Path, NEW maxDepth \in Depth,
           Register(p, maxDepth)
    PROVE  budget'.register = 0 /\ Only(p, maxDepth)'
<1>1. /\ Len(p) > 1 /\ budget' = [budget EXCEPT !.register = @ - 1] /\ budget.register > 0
      /\ registered' = IF Registry!MaxDepthFor(registered, p) < maxDepth
                       THEN Registry!Put(registered, p, maxDepth) ELSE registered
      /\ call'.stage = "added" /\ call'.path = p /\ call'.depth = maxDepth
      /\ UNCHANGED <<monitored, rootDirectories, closed>>
    BY DEF Register
<1>2. budget'.register = 0
    BY <1>1 DEF Basis, TreesInv, EnvironmentTyped
<1>3. registered = Registry!NoDirectories /\ monitored = {}
    BY DEF Fresh
<1>4. Registry!MaxDepthFor(registered, p) = Registry!MinInt
    <2>1. Registry!DepthsBelow(registered, p) = {}
        BY <1>3 DEF Registry!DepthsBelow, Registry!NoDirectories
    <2> QED BY <2>1 DEF Registry!MaxDepthFor
<1>5. Registry!MinInt < maxDepth
    <2>1. maxDepth \in -1..MaxInt /\ MaxInt \in Nat \ {0}
        BY DepthAssumption
    <2> QED BY <2>1 DEF Registry!MinInt
<1>6. registered' = [q \in {p} |-> maxDepth]
    BY <1>1, <1>3, <1>4, <1>5 DEF Registry!Put, Registry!NoDirectories
<1> QED BY <1>1, <1>2, <1>3, <1>6 DEF Only, Resting

\* A step that leaves the registration, and what it has found.
LEMMA OnlyStays ==
    ASSUME NEW p, NEW maxDepth, Only(p, maxDepth),
           UNCHANGED <<registered, monitored, closed>>,
           DOMAIN rootDirectories \subseteq DOMAIN rootDirectories',
           ~Resting' => /\ ~Resting /\ call'.path = call.path /\ call'.depth = call.depth
                        /\ \/ call'.stage \in {"added", call.stage}
                           \/ call.stage \in {"rooted", "found", "updating"}
                           \/ \E r \in DOMAIN rootDirectories' : StartsWith(call.path, r)
    PROVE  Only(p, maxDepth)'
<1>1. \A q : Accepts(q)' <=> Accepts(q)
    BY DEF Accepts
<1>2. \A q : (\E r \in DOMAIN rootDirectories : StartsWith(q, r))
                => \E r \in DOMAIN rootDirectories' : StartsWith(q, r)
    OBVIOUS
<1>3. ~Resting' => call'.path = p /\ call'.depth = maxDepth /\ monitored' = {}
    BY DEF Only
<1>4. ~closed' => \A q \in monitored' :
         StartsWith(q, p) /\ Accepts(q)' /\ \E r \in DOMAIN rootDirectories' : StartsWith(q, r)
    BY <1>1, <1>2 DEF Only
<1>5. ASSUME call'.stage \in {"rooted", "found", "updating", "updated"}
      PROVE  \E r \in DOMAIN rootDirectories' : StartsWith(p, r)
    <2>1. ~Resting' /\ ~Resting /\ call'.stage # "added" /\ call.path = p
        BY <1>5 DEF Resting, Only
    <2>2. CASE call.stage \in {"rooted", "found", "updating", "updated"}
        BY <1>2, <2>2 DEF Only
    <2>3. CASE call.stage \notin {"rooted", "found", "updating", "updated"}
        <3>1. \E r \in DOMAIN rootDirectories' : StartsWith(call.path, r)
            BY <1>5, <2>1, <2>3
        <3> QED BY <2>1, <3>1
    <2> QED BY <2>2, <2>3
<1> QED BY <1>3, <1>4, <1>5 DEF Only

\* Roots stay, and nothing but register and Return concerns the registration.
LEMMA RegistrationStays ==
    ASSUME Undisturbed, Basis, Turns, Moves \/ UNCHANGED vars,
           \A p \in Path, maxDepth \in Depth : ~Register(p, maxDepth), ~Return
    PROVE  /\ UNCHANGED <<registered, monitored, closed>> /\ budget'.register = budget.register
           /\ DOMAIN rootDirectories \subseteq DOMAIN rootDirectories'
           /\ ~Resting' => /\ ~Resting /\ call'.path = call.path /\ call'.depth = call.depth
                           /\ \/ call'.stage \in {"added", call.stage}
                              \/ call.stage \in {"rooted", "found", "updating"}
                              \/ \E r \in DOMAIN rootDirectories' : StartsWith(call.path, r)
<1> DEFINE Goal == /\ UNCHANGED <<registered, monitored, closed>> /\ budget'.register = budget.register
                   /\ DOMAIN rootDirectories \subseteq DOMAIN rootDirectories'
                   /\ ~Resting' => /\ ~Resting /\ call'.path = call.path /\ call'.depth = call.depth
                                   /\ \/ call'.stage \in {"added", call.stage}
                                      \/ call.stage \in {"rooted", "found", "updating"}
                                      \/ \E r \in DOMAIN rootDirectories' : StartsWith(call.path, r)
<1>1. ASSUME UNCHANGED <<registered, monitored, closed, call>>, budget'.register = budget.register,
             DOMAIN rootDirectories \subseteq DOMAIN rootDirectories'
      PROVE  Goal
    BY <1>1 DEF Resting
<1>2. UNCHANGED environment => budget'.register = budget.register /\ UNCHANGED monitored
    BY DEF environment
<1>3. ASSUME NEW p \in Path, NEW value \in {"dir"} \cup Content,
             Create(p, value) \/ Modify(p, value) \/ Delete(p)
      PROVE  Goal
    <2>1. /\ UNCHANGED <<registered, monitored, closed, call, rootDirectories>>
          /\ budget' = [budget EXCEPT !.changes = @ - 1]
        BY <1>3 DEF Create, Modify, Delete, Change
    <2>2. budget'.register = budget.register
        BY <2>1 DEF Basis, TreesInv, EnvironmentTyped
    <2> QED BY <1>1, <2>1, <2>2
<1>4. ASSUME NEW d \in Dir, ScanWatch(d) \/ ScanList(d) PROVE Goal
    <2>1. UNCHANGED <<registered, closed, call, rootDirectories>> /\ UNCHANGED environment
        BY <1>4 DEF ScanWatch, ScanList
    <2> QED BY <1>1, <1>2, <2>1
<1>5. ASSUME (\E p \in Path : Add(p)) \/ (\E k \in DOMAIN keys : Take(k)) \/ Look PROVE Goal
    <2>1. UNCHANGED <<registered, closed, call, rootDirectories>> /\ UNCHANGED environment
        BY <1>5 DEF Add, Take, Look
    <2> QED BY <1>1, <1>2, <2>1
<1>6. ASSUME Report \/ Closes \/ UNCHANGED vars PROVE Goal
    <2>1. UNCHANGED <<registered, closed, call, rootDirectories, budget, monitored>>
        BY <1>6, ClosesOnly DEF Report, vars
    <2> QED BY <1>1, <2>1
<1>7. CASE Act
    <2>1. UNCHANGED <<registered, closed, call>> /\ UNCHANGED environment
        BY <1>7 DEF Act
    <2>2. DOMAIN rootDirectories' = DOMAIN rootDirectories
        BY <1>7 DEF Act
    <2> QED BY <1>1, <1>2, <2>1, <2>2
<1>8. CASE AddUpdate
    <2>1. UNCHANGED <<registered, closed, call>> /\ UNCHANGED environment
        BY <1>8 DEF AddUpdate
    <2>2. DOMAIN rootDirectories' = DOMAIN rootDirectories
        BY <1>8 DEF AddUpdate, Graft
    <2> QED BY <1>1, <1>2, <2>1, <2>2
<1>9. CASE GetOrAdd
    <2>1. UNCHANGED <<registered, closed, rootDirectories>> /\ UNCHANGED environment /\ ~Resting
        BY <1>9 DEF GetOrAdd, Resting
    <2>2. CASE UNCHANGED call
        BY <1>1, <1>2, <2>1, <2>2
    <2>3. ASSUME NEW r \in Find(call.path), call' = CallWith("rooted", r, <<>>, {}) PROVE Goal
        <3>1. r \in DOMAIN rootDirectories' /\ StartsWith(call.path, r)
            BY <2>1, <2>3 DEF Find
        <3>2. call'.path = call.path /\ call'.depth = call.depth
            BY <2>3 DEF CallWith
        <3> QED BY <1>2, <2>1, <3>1, <3>2
    <2> QED BY <1>9, <2>2, <2>3 DEF GetOrAdd
<1>10. CASE RegisterInit
    <2>1. /\ UNCHANGED <<registered, closed>> /\ UNCHANGED environment
          /\ call' = CallWith("rooted", scan.root, <<>>, {})
          /\ scan.stage = "init" /\ scan.by = "call" /\ scan # NoScan
        BY <1>10 DEF RegisterInit, Scanned, NoScan
    <2>2. /\ scan.base = call.path /\ call.stage = "added" /\ scan.root = Parent(scan.base)
          /\ scan.base \in Path /\ Len(scan.base) > 1
        BY <2>1 DEF Basis, TreesInv, ScanRooted
    <2>3. \A r \in DOMAIN rootDirectories : ~StrictlyBelow(r, scan.base)
        BY <2>1, RootsAreTop DEF Basis, TreesInv
    <2>4. DOMAIN rootDirectories \subseteq DOMAIN rootDirectories' /\ scan.root \in DOMAIN rootDirectories'
        BY <1>10, <2>3 DEF RegisterInit, AddRoot, With, Restrict
    <2>5. StartsWith(call.path, scan.root) /\ call'.path = call.path /\ call'.depth = call.depth
        BY <2>1, <2>2, ParentsAreAbove DEF CallWith
    <2> QED BY <1>2, <2>1, <2>2, <2>4, <2>5 DEF Resting
<1>11. CASE RegisterFind \/ RegisterUpdate
    <2>1. /\ UNCHANGED <<registered, closed, rootDirectories>> /\ UNCHANGED environment
          /\ call.stage \in {"rooted", "found"}
          /\ call'.path = call.path /\ call'.depth = call.depth
        BY <1>11 DEF RegisterFind, RegisterUpdate, CallWith
    <2> QED BY <1>2, <2>1 DEF Resting
<1>12. CASE RegisterGraft
    <2>1. /\ UNCHANGED <<registered, closed>> /\ UNCHANGED environment
          /\ scan.by = "call" /\ scan.stage = "update" /\ scan # NoScan
          /\ call'.path = call.path /\ call'.depth = call.depth
        BY <1>12 DEF RegisterGraft, Scanned, NoScan, CallWith
    <2>2. call.stage = "updating"
        BY <2>1 DEF Turns, LoopScans, CallScans
    <2>3. DOMAIN rootDirectories' = DOMAIN rootDirectories
        BY <1>12 DEF RegisterGraft, Graft
    <2> QED BY <1>2, <2>1, <2>2, <2>3 DEF Resting
<1> QED BY <1>3, <1>4, <1>5, <1>6, <1>7, <1>8, <1>9, <1>10, <1>11, <1>12 DEF Moves

\* Before the first call of register only the file system changes.
LEMMA FreshMoves ==
    ASSUME Undisturbed, Basis, Fresh, Moves \/ UNCHANGED vars,
           \A p \in Path, maxDepth \in Depth : ~Register(p, maxDepth)
    PROVE  Fresh' /\ budget'.register = budget.register
<1>1. /\ registered = Registry!NoDirectories /\ DOMAIN rootDirectories = {} /\ DOMAIN keys = {}
      /\ scan = NoScan /\ loop = Waiting /\ monitored = {} /\ call.stage \in {"none", "closed"}
    BY DEF Fresh, Resting
<1>2. ASSUME NEW p \in Path, NEW value \in {"dir"} \cup Content,
             Create(p, value) \/ Modify(p, value) \/ Delete(p)
      PROVE  Fresh' /\ budget'.register = budget.register
    <2>1. /\ UNCHANGED <<registered, monitored, call, rootDirectories, scan, loop>>
          /\ budget' = [budget EXCEPT !.changes = @ - 1] /\ DOMAIN keys' = DOMAIN keys
        BY <1>2 DEF Create, Modify, Delete, Change
    <2>2. budget'.register = budget.register
        BY <2>1 DEF Basis, TreesInv, EnvironmentTyped
    <2> QED BY <1>1, <2>1, <2>2 DEF Fresh, Resting
<1>3. CASE UNCHANGED vars
    BY <1>3 DEF vars, Fresh, Resting
<1>4. \A d : ~ScanWatch(d) /\ ~ScanList(d)
    BY <1>1 DEF ScanWatch, ScanList, NoScan
<1>5. /\ \A k \in DOMAIN keys : ~Take(k)
      /\ ~Look /\ ~Act /\ ~Report /\ \A p : ~Add(p)
    BY <1>1 DEF Take, Look, Act, Report, Add, Waiting
<1>6. ~AddUpdate /\ ~RegisterInit /\ ~RegisterGraft
    BY <1>1 DEF AddUpdate, RegisterInit, RegisterGraft, Scanned, NoScan
<1>7. ~GetOrAdd /\ ~RegisterFind /\ ~RegisterUpdate /\ ~Return
    BY <1>1 DEF GetOrAdd, RegisterFind, RegisterUpdate, Return
<1>8. ~Closes
    <2>1. ToClose = {}
        BY <1>1, NothingIsClosing DEF Basis, ScanHolds, Waiting
    <2> QED BY <2>1 DEF Closes, CloseOne, ToClose
<1> QED BY <1>2, <1>3, <1>4, <1>5, <1>6, <1>7, <1>8 DEF Moves

LEMMA OneCallInductive ==
    ASSUME Undisturbed, Basis, OneCall, Turns, Moves \/ Close \/ UNCHANGED vars
    PROVE  OneCall'
<1>1. CASE Close
    <2>1. /\ UNCHANGED registered /\ closed' = TRUE /\ UNCHANGED environment
          /\ DOMAIN keys' = {} /\ DOMAIN rootDirectories' = {} /\ scan' = NoScan /\ loop' = Waiting
          /\ call'.stage = "closed"
        BY <1>1 DEF Close, NoCall
    <2>2. Fresh => Fresh'
        BY <2>1 DEF Fresh, Resting, environment
    <2>3. ASSUME NEW p, NEW maxDepth, Only(p, maxDepth) PROVE Only(p, maxDepth)'
        BY <2>1, <2>3 DEF Only, Resting
    <2> QED BY <2>1, <2>2, <2>3 DEF OneCall, environment
<1>2. ASSUME NEW p \in Path, NEW maxDepth \in Depth, Register(p, maxDepth) PROVE OneCall'
    <2>1. budget.register = 1 /\ Fresh
        BY <1>2 DEF Register, OneCall
    <2> QED BY <1>2, <2>1, RegisterBegins DEF OneCall
<1>3. CASE Return
    <2>1. call.stage = "updated" /\ ~Resting /\ UNCHANGED <<registered, rootDirectories, closed, budget>>
        BY <1>3 DEF Return, Resting
    <2>2. PICK p \in Path, maxDepth \in Depth : budget.register = 0 /\ Only(p, maxDepth)
        BY <2>1 DEF OneCall, Fresh
    <2>3. PICK r \in DOMAIN rootDirectories : StartsWith(p, r)
        BY <2>1, <2>2 DEF Only
    <2>4. /\ call.path = p /\ call.depth = maxDepth /\ registered = [q \in {p} |-> maxDepth] /\ Len(p) > 1
          /\ monitored = {}
        BY <2>1, <2>2 DEF Only
    <2>5. /\ monitored' = {q \in Path : Registry!Covers(registered, p, q)}
          /\ call'.stage = "none"
        BY <1>3, <2>4 DEF Return, NoCall
    <2>6. r \in Path
        BY <2>3, NioAssumption DEF Basis, TreesInv, RootsTyped
    <2>7. ASSUME NEW q \in monitored'
          PROVE  StartsWith(q, p) /\ Accepts(q)' /\ StartsWith(q, r)
        <3>1. q \in Path /\ Registry!Covers(registered, p, q)
            BY <2>5
        <3>2. StartsWith(q, p) /\ Registry!Accepts(registered, q)
            BY <2>4, <3>1, WantedMeans
        <3> QED BY <2>1, <2>3, <2>6, <3>1, <3>2, StartsWithIsOrder DEF Accepts
    <2>8. Only(p, maxDepth)'
        BY <2>1, <2>3, <2>4, <2>5, <2>7 DEF Only, Resting
    <2> QED BY <2>1, <2>2, <2>8 DEF OneCall
<1>4. CASE (\A p \in Path, maxDepth \in Depth : ~Register(p, maxDepth)) /\ ~Return /\ ~Close
    <2>1. CASE Fresh
        BY <1>4, <2>1, FreshMoves DEF OneCall
    <2>2. ASSUME NEW p \in Path, NEW maxDepth \in Depth, budget.register = 0, Only(p, maxDepth)
          PROVE  OneCall'
        <3>1. Only(p, maxDepth)' /\ budget'.register = budget.register
            BY <1>4, <2>2, RegistrationStays, OnlyStays
        <3> QED BY <2>2, <3>1 DEF OneCall
    <2> QED BY <2>1, <2>2 DEF OneCall
<1> QED BY <1>1, <1>2, <1>3, <1>4

\* No two scans at a time: the locks, and the order of the steps, see to that.
LEMMA TurnsInductive ==
    ASSUME Undisturbed, Basis, Turns, Moves \/ Close \/ UNCHANGED vars
    PROVE  Turns'
<1>1. LoopTyped
    BY DEF Basis, TreesInv
<1>2. ASSUME UNCHANGED <<loop, scan, call>> PROVE Turns'
    BY <1>2 DEF Turns, LoopScans, CallScans, LoopLocked
<1>3. ASSUME scan' = NoScan, loop'.todo \subseteq {loop'.path} PROVE Turns'
    BY <1>3 DEF Turns
<1>4. ASSUME NEW p \in Path, NEW value \in {"dir"} \cup Content,
             Create(p, value) \/ Modify(p, value) \/ Delete(p)
      PROVE  Turns'
    BY <1>2, <1>4 DEF Create, Modify, Delete, Change
<1>5. ASSUME NEW p \in Path, NEW n \in Depth, Register(p, n) PROVE Turns'
    <2>1. call.stage = "none" /\ UNCHANGED <<loop, scan>>
        BY <1>5 DEF Register, NoCall
    <2>2. scan = NoScan \/ LoopScans
        BY <2>1 DEF Turns, CallScans
    <2> QED BY <2>1, <2>2 DEF Turns, LoopScans
<1>6. ASSUME NEW d \in Dir, ScanWatch(d) \/ ScanList(d) PROVE Turns'
    <2>1. scan # NoScan /\ UNCHANGED <<loop, call>> /\ scan'.by = scan.by /\ scan'.stage = scan.stage
        BY <1>6 DEF ScanWatch, ScanList, ScanWith, NoScan
    <2> QED BY <2>1 DEF Turns, LoopScans, CallScans, LoopLocked
<1>7. ASSUME NEW k \in DOMAIN keys, Take(k) PROVE Turns'
    <2>1. loop.stage = "waiting" /\ loop'.stage = "taken" /\ loop'.todo = {} /\ UNCHANGED <<scan, call>>
        BY <1>7 DEF Take
    <2> QED BY <2>1 DEF Turns, LoopScans, CallScans, LoopLocked
<1>8. CASE Look
    <2>1. /\ loop.stage = "taken" /\ ~CallLocked /\ loop'.todo = {} /\ UNCHANGED <<scan, call>>
        BY <1>8 DEF Look, LoopWith, Waiting
    <2> QED BY <2>1 DEF Turns, LoopScans, CallScans, CallLocked
<1>9. CASE Act
    <2>1. /\ scan = NoScan /\ scan' = NoScan /\ loop'.path = loop.path /\ loop'.todo \subseteq {loop.path}
        BY <1>9 DEF Act, Acted, LoopWith
    <2> QED BY <1>3, <2>1
<1>10. CASE AddUpdate
    <2>1. scan' = NoScan /\ loop' = [loop EXCEPT !.told = @ \cup Announced(Created) \cup Deleted]
        BY <1>10 DEF AddUpdate, Graft
    <2>2. loop'.todo = loop.todo /\ loop'.path = loop.path
        BY <1>1, <2>1 DEF LoopTyped
    <2> QED BY <1>3, <2>1, <2>2 DEF Turns
<1>11. CASE Report
    <2>1. loop' = Waiting /\ (scan = NoScan \/ scan.by = "call") /\ UNCHANGED <<scan, call>>
        BY <1>11 DEF Report
    <2> QED BY <2>1 DEF Turns, LoopScans, CallScans, LoopLocked, Waiting
<1>12. ASSUME NEW p \in Path, Add(p) PROVE Turns'
    <2>1. /\ scan = NoScan /\ loop'.todo = {} /\ loop'.stage = "adding"
          /\ UNCHANGED scan \/ (scan'.by = "loop" /\ scan'.stage = "update")
        <3>1. \A r : UpdateScan("loop", r, p).by = "loop" /\ UpdateScan("loop", r, p).stage = "update"
            BY DEF UpdateScan
        <3> QED BY <1>12, <3>1, AddBegins
    <2> QED BY <2>1 DEF Turns, LoopScans
<1>13. CASE GetOrAdd
    <2>1. /\ call.stage = "added" /\ ~LoopLocked /\ scan = NoScan /\ UNCHANGED loop
          /\ \/ UNCHANGED scan
             \/ UNCHANGED call /\ scan'.by = "call" /\ scan'.stage = "init"
        BY <1>13 DEF GetOrAdd, InitScan
    <2> QED BY <2>1 DEF Turns, CallScans, LoopLocked
<1>14. CASE RegisterInit \/ RegisterGraft
    <2>1. scan' = NoScan /\ UNCHANGED loop
        BY <1>14 DEF RegisterInit, RegisterGraft, AddRoot, Graft
    <2> QED BY <1>3, <2>1 DEF Turns
<1>15. CASE RegisterFind
    <2>1. scan = NoScan /\ scan' = NoScan /\ UNCHANGED loop
        BY <1>15 DEF RegisterFind
    <2> QED BY <1>3, <2>1 DEF Turns
<1>16. CASE RegisterUpdate
    <2>1. /\ scan = NoScan /\ UNCHANGED loop
          /\ \/ UNCHANGED scan
             \/ call'.stage = "updating" /\ scan'.by = "call" /\ scan'.stage = "update"
        BY <1>16 DEF RegisterUpdate, UpdateScan, CallWith
    <2> QED BY <2>1 DEF Turns, CallScans
<1>17. CASE Return
    <2>1. call.stage = "updated" /\ UNCHANGED <<scan, loop>>
        BY <1>17 DEF Return
    <2>2. scan = NoScan \/ LoopScans
        BY <2>1 DEF Turns, CallScans
    <2> QED BY <2>1, <2>2 DEF Turns, LoopScans
<1>18. CASE Close
    <2>1. scan' = NoScan /\ loop'.todo = {}
        BY <1>18 DEF Close, Waiting
    <2> QED BY <1>3, <2>1
<1>19. CASE Closes \/ UNCHANGED vars
    BY <1>2, <1>19, ClosesOnly DEF vars
<1> QED BY <1>4, <1>5, <1>6, <1>7, <1>8, <1>9, <1>10, <1>11, <1>12, <1>13, <1>14, <1>15, <1>16, <1>17,
           <1>18, <1>19 DEF Moves
-----------------------------------------------------------------------------
(* The trees and the scan                                                    *)

\* Steps of the file system, of the loop thread and of register that concern neither.
LEMMA TreesStay ==
    ASSUME \/ \E p \in Path, value \in {"dir"} \cup Content :
                Create(p, value) \/ Modify(p, value) \/ Delete(p)
           \/ \E p \in Path, maxDepth \in Depth : Register(p, maxDepth)
           \/ \E k \in DOMAIN keys : Take(k)
           \/ Look \/ Report \/ RegisterFind \/ Return \/ Closes \/ UNCHANGED vars
    PROVE  UNCHANGED <<rootDirectories, scan>>
BY ClosesOnly DEF Create, Modify, Delete, Change, Register, Take, Look, Report, RegisterFind, Return, vars

\* The tree of a new root: there was none, and roots lie apart.
LEMMA RootArrives ==
    ASSUME Undisturbed, Basis, NEW thread, Scanned(thread, "init"), AddRoot
    PROVE  /\ scan' = NoScan /\ scan.root \notin DOMAIN rootDirectories
           /\ DOMAIN rootDirectories' = DOMAIN rootDirectories \cup {scan.root}
           /\ rootDirectories'[scan.root] = scan.found
           /\ \A r \in DOMAIN rootDirectories : rootDirectories'[r] = rootDirectories[r]
<1> DEFINE kept == {r \in DOMAIN rootDirectories : ~StrictlyBelow(r, scan.base)}
<1>1. kept = DOMAIN rootDirectories
    BY RootsAreTop DEF Basis, TreesInv, Scanned
<1>2. rootDirectories' = With(Restrict(rootDirectories, kept), scan.root, scan.found) /\ scan' = NoScan
    BY DEF AddRoot
<1>3. scan.root \notin DOMAIN rootDirectories
    BY DEF Basis, ScanHolds, RootIsNew, Scanned
<1> HIDE DEF kept
<1> QED BY <1>1, <1>2, <1>3 DEF With, Restrict

\* update replaces what is at and below its base by what the scan has found.
LEMMA GraftReplaces ==
    ASSUME Basis, ScanOrder, NEW thread, Scanned(thread, "update"), Graft(thread)
    PROVE  /\ scan' = NoScan /\ scan.root \in DOMAIN rootDirectories
           /\ DOMAIN rootDirectories' = DOMAIN rootDirectories
           /\ \A r \in DOMAIN rootDirectories \ {scan.root} : rootDirectories'[r] = rootDirectories[r]
           /\ \A d : d \in DOMAIN rootDirectories'[scan.root] <=>
                \/ d \in DOMAIN scan.found
                \/ d \in DOMAIN rootDirectories[scan.root] /\ ~StartsWith(d, scan.base)
           /\ \A d \in DOMAIN scan.found : rootDirectories'[scan.root][d] = scan.found[d]
           /\ \A d \in DOMAIN rootDirectories[scan.root] :
                ~StartsWith(d, scan.base) =>
                    rootDirectories'[scan.root][d] = rootDirectories[scan.root][d]
<1> DEFINE root == scan.root
           tree == rootDirectories[root]
           cut == Cut(tree, scan.base)
           new == WithAll(cut, scan.found)
<1>1. root \in DOMAIN rootDirectories /\ \A d \in DOMAIN scan.found : StartsWith(d, scan.base)
    BY DEF Basis, TreesInv, ScanRooted, ScanOrder, Scanned
<1>2. scan' = NoScan /\ rootDirectories' = [rootDirectories EXCEPT ![root] = new]
    BY DEF Graft
<1>3. /\ DOMAIN cut = {d \in DOMAIN tree : ~StartsWith(d, scan.base)}
      /\ \A d \in DOMAIN cut : cut[d] = tree[d]
    BY DEF Cut, Restrict, Below
<1>4. /\ DOMAIN new = DOMAIN cut \cup DOMAIN scan.found
      /\ \A d \in DOMAIN scan.found : new[d] = scan.found[d]
      /\ \A d \in DOMAIN cut \ DOMAIN scan.found : new[d] = cut[d]
    <2> HIDE DEF cut
    <2> QED BY DEF WithAll
<1> HIDE DEF new, cut
<1> QED BY <1>1, <1>2, <1>3, <1>4

\* The loop thread takes what is at and below a path out of all trees, or nothing.
LEMMA ActCuts ==
    ASSUME Undisturbed, Basis, Act
    PROVE  /\ scan = NoScan /\ scan' = NoScan
           /\ DOMAIN rootDirectories' = DOMAIN rootDirectories
           /\ \A r \in DOMAIN rootDirectories :
                /\ DOMAIN rootDirectories'[r] =
                     {d \in DOMAIN rootDirectories[r] :
                        Removes(loop.kind, loop.exists) => ~StartsWith(d, loop.path)}
                /\ \A d \in DOMAIN rootDirectories'[r] : rootDirectories'[r][d] = rootDirectories[r][d]
           /\ loop' = LoopWith("adding", loop.exists,
                               IF loop.exists /\ loop.path \in Dir THEN {loop.path} ELSE {},
                               loop'.told)
           /\ loop.exists \/ loop.kind = "delete" => loop.path \in loop'.told
           /\ \A d \in loop'.told : d # loop.path => StartsWith(d, loop.path)
           /\ UNCHANGED <<fs, monitored, known, budget, registered, call, closed>>
<1>1. /\ scan = NoScan /\ scan' = NoScan /\ loop.stage = "acting"
      /\ UNCHANGED <<fs, monitored, known, budget, registered, call, closed>>
    BY DEF Act, environment
<1>2. AllCovered /\ LoopTyped /\ RootsTyped
    BY DEF Basis, TreesInv
<1>3. loop.path \in Path /\ loop.kind # "overflow"
    BY <1>1, <1>2 DEF LoopTyped
<1>4. Find(loop.path) # {}
    BY <1>1, <1>2 DEF AllCovered, Covered, Undisturbed, NoScan, Find
<1>6. \A gone : /\ Acted(gone).told = gone \cup (IF loop.exists \/ loop.kind = "delete" THEN {loop.path} ELSE {})
                /\ Acted(gone) = LoopWith("adding", loop.exists,
                               IF loop.exists /\ loop.path \in Dir THEN {loop.path} ELSE {},
                               Acted(gone).told)
    BY DEF Acted, LoopWith
<1>7. CASE ~Removes(loop.kind, loop.exists)
    <2>1. UNCHANGED rootDirectories /\ loop' = Acted({})
        BY <1>7 DEF Act
    <2>2. /\ loop'.told = IF loop.exists \/ loop.kind = "delete" THEN {loop.path} ELSE {}
          /\ loop' = LoopWith("adding", loop.exists,
                               IF loop.exists /\ loop.path \in Dir THEN {loop.path} ELSE {},
                               loop'.told)
        BY <2>1 DEF Acted, LoopWith
    <2> QED BY <1>1, <1>7, <2>1, <2>2
<1>8. CASE Removes(loop.kind, loop.exists)
    <2>1. PICK root \in Find(loop.path) :
            LET gone == Below(rootDirectories[root], loop.path)
            IN  /\ rootDirectories' = [rootDirectories EXCEPT ![root] = Cut(@, loop.path)]
                /\ loop' = Acted(gone)
        BY <1>4, <1>8 DEF Act
    <2>2. root \in DOMAIN rootDirectories /\ StartsWith(loop.path, root)
        BY DEF Find
    <2> DEFINE tree == rootDirectories[root]
               cut == Cut(tree, loop.path)
               gone == Below(tree, loop.path)
    <2>3. /\ DOMAIN cut = {d \in DOMAIN tree : ~StartsWith(d, loop.path)}
          /\ \A d \in DOMAIN cut : cut[d] = tree[d]
        BY DEF Cut, Restrict, Below
    <2>4. /\ DOMAIN rootDirectories' = DOMAIN rootDirectories /\ rootDirectories'[root] = cut
          /\ \A r \in DOMAIN rootDirectories \ {root} : rootDirectories'[r] = rootDirectories[r]
        BY <2>1, <2>2
    <2>5. \A d \in gone : StartsWith(d, loop.path)
        BY DEF Below
    <2>6. /\ loop'.told = gone \cup (IF loop.exists \/ loop.kind = "delete" THEN {loop.path} ELSE {})
          /\ loop' = LoopWith("adding", loop.exists,
                               IF loop.exists /\ loop.path \in Dir THEN {loop.path} ELSE {},
                               loop'.told)
        BY <1>6, <2>1
    <2>7. ASSUME NEW s \in DOMAIN rootDirectories, s # root, NEW d \in DOMAIN rootDirectories[s],
                 StartsWith(d, loop.path)
          PROVE  FALSE
        <3>1. /\ s \in Path /\ root \in Path /\ d \in Path /\ StartsWith(d, s)
              /\ Len(s) = 1 /\ Len(root) = 1
            BY <1>2, <2>2, NioAssumption DEF RootsTyped, KeysOfDirs, Undisturbed
        <3>2. StartsWith(d, root)
            BY <1>3, <2>2, <2>7, <3>1, StartsWithIsOrder
        <3>3. s = SubSeq(d, 1, 1) /\ root = SubSeq(d, 1, 1)
            BY <3>1, <3>2, PrefixIsPath
        <3> QED BY <2>7, <3>3
    <2> HIDE DEF cut, gone
    <2> QED BY <1>1, <1>8, <2>2, <2>3, <2>4, <2>5, <2>6, <2>7
<1> QED BY <1>7, <1>8

\* The scans that the loop thread and register begin.
LEMMA ScansBegin ==
    ASSUME Undisturbed, Basis, Turns, NEW p \in Path,
           Add(p) \/ (GetOrAdd /\ p = call.path) \/ (RegisterUpdate /\ p = call.last), ~UNCHANGED scan
    PROVE  /\ scan = NoScan /\ UNCHANGED <<environment, service, rootDirectories, registered, closed>>
           /\ \/ /\ GetOrAdd /\ scan' = InitScan("call", p) /\ call.stage = "added" /\ p = call.path
                 /\ Len(p) > 1 /\ Len(Parent(p)) = 1
                 /\ UNCHANGED <<loop, call>> /\ ~LoopLocked
              \/ /\ p \in Dir
                 /\ \E r \in DOMAIN rootDirectories : \E thread \in {"loop", "call"} :
                      StartsWith(p, r) /\ scan' = UpdateScan(thread, r, p)
                 /\ \/ Add(p) /\ AcceptsPrefix(p) /\ UNCHANGED call
                    \/ /\ RegisterUpdate /\ call.stage = "found" /\ p = call.last /\ fs[p] = "dir"
                       /\ UNCHANGED loop
<1>1. CASE Add(p)
    BY <1>1, AddBegins
<1>2. CASE GetOrAdd /\ p = call.path
    <2>1. /\ scan = NoScan /\ UNCHANGED <<environment, service, rootDirectories, registered, closed, loop, call>>
          /\ scan' = InitScan("call", p) /\ call.stage = "added" /\ ~LoopLocked
        BY <1>2 DEF GetOrAdd
    <2>2. Len(p) > 1 /\ Parent(p) \in Permanent
        BY <1>2, <2>1 DEF Basis, TreesInv, CallTyped
    <2> QED BY <1>2, <2>1, <2>2 DEF Undisturbed
<1>3. CASE RegisterUpdate /\ p = call.last
    <2>1. /\ scan = NoScan /\ UNCHANGED <<environment, service, rootDirectories, registered, closed, loop>>
          /\ scan' = UpdateScan("call", call.root, p) /\ call.stage = "found" /\ fs[p] = "dir"
        BY <1>3 DEF RegisterUpdate
    <2>2. call.root \in DOMAIN rootDirectories /\ p \in Dir /\ StartsWith(p, call.root)
        BY <1>3, <2>1 DEF Basis, TreesInv, CallTyped
    <2> QED BY <1>3, <2>1, <2>2
<1> QED BY <1>1, <1>2, <1>3

\* One of the two kinds of steps that a scan takes: the key of a directory.
LEMMA WatchGoesOn ==
    ASSUME NEW d \in Dir, ScanWatch(d)
    PROVE  /\ d \in scan.toWatch /\ scan # NoScan
           /\ scan'.stage = scan.stage /\ scan'.by = scan.by /\ scan'.root = scan.root
           /\ scan'.base = scan.base
           /\ scan'.toWatch = scan.toWatch \ {d} /\ scan'.toList = scan.toList \cup {d}
           /\ DOMAIN scan'.found = DOMAIN scan.found \cup {d} /\ scan'.found[d] = KeyFor(d)
           /\ \A e \in DOMAIN scan.found \ {d} : scan'.found[e] = scan.found[e]
           /\ UNCHANGED <<fs, monitored, known, budget, rootDirectories, registered, loop, call, closed>>
<1>1. d \in scan.toWatch /\ scan # NoScan
    BY DEF ScanWatch, NoScan
<1>2. scan' = ScanWith(scan.toWatch \ {d}, scan.toList \cup {d}, With(scan.found, d, KeyFor(d)))
    BY DEF ScanWatch
<1>3. UNCHANGED <<fs, monitored, known, budget, rootDirectories, registered, loop, call, closed>>
    BY DEF ScanWatch, environment
<1> QED BY <1>1, <1>2, <1>3 DEF ScanWith, With

\* The other one: the listing.
LEMMA ListGoesOn ==
    ASSUME NEW d \in Dir, ScanList(d)
    PROVE  /\ d \in scan.toList /\ scan # NoScan
           /\ scan'.stage = scan.stage /\ scan'.by = scan.by /\ scan'.root = scan.root
           /\ scan'.base = scan.base /\ scan'.toList = scan.toList \ {d}
           /\ \/ fs[d] = "dir" /\ scan'.toWatch = scan.toWatch \cup Listed(d) /\ scan'.found = scan.found
              \/ /\ fs[d] # "dir" /\ scan'.toWatch = scan.toWatch
                 /\ DOMAIN scan'.found = DOMAIN scan.found \ {d}
                 /\ \A e \in DOMAIN scan'.found : scan'.found[e] = scan.found[e]
           /\ UNCHANGED <<fs, monitored, known, budget, keys, watchedDirectoriesByPath, rootDirectories,
                          registered, loop, call, closed>>
<1>1. d \in scan.toList /\ scan # NoScan
    BY DEF ScanList, NoScan
<1>2. scan' = IF fs[d] = "dir"
              THEN ScanWith(scan.toWatch \cup Listed(d), scan.toList \ {d}, scan.found)
              ELSE ScanWith(scan.toWatch, scan.toList \ {d}, Restrict(scan.found, DOMAIN scan.found \ {d}))
    BY DEF ScanList
<1>3. UNCHANGED <<fs, monitored, known, budget, keys, watchedDirectoriesByPath, rootDirectories,
                          registered, loop, call, closed>>
    BY DEF ScanList, environment, service
<1> QED BY <1>1, <1>2, <1>3 DEF ScanWith, Restrict

\* When there is no scan, there is nothing to say of it.
LEMMA NoScanInOrder == scan' = NoScan => ScanOrder'
BY DEF ScanOrder, NoScan, NoMap

LEMMA ScanOrderInductive ==
    ASSUME Undisturbed, Basis, Turns, ScanOrder, Moves \/ Close \/ UNCHANGED vars
    PROVE  ScanOrder'
<1>1. ASSUME UNCHANGED <<rootDirectories, scan>> PROVE ScanOrder'
    BY <1>1 DEF ScanOrder
<1>2. ScanTyped /\ RootsTyped
    BY DEF Basis, TreesInv
<1>3. ASSUME NEW d \in Dir, ScanWatch(d) PROVE ScanOrder'
    <2>1. d \notin DOMAIN scan.found
        BY <1>3, WatchGoesOn DEF ScanOrder
    <2>2. /\ DOMAIN scan.found \ scan.toList \subseteq DOMAIN scan'.found \ scan'.toList
          /\ scan'.toWatch \cup DOMAIN scan'.found = scan.toWatch \cup DOMAIN scan.found
          /\ scan'.toWatch \cap DOMAIN scan'.found = {}
        BY <1>3, <2>1, WatchGoesOn DEF ScanOrder
    <2>3. /\ scan'.stage = scan.stage /\ scan'.root = scan.root /\ scan'.base = scan.base
          /\ UNCHANGED rootDirectories
        BY <1>3, WatchGoesOn
    <2> QED BY <2>2, <2>3 DEF ScanOrder
<1>4. ASSUME NEW d \in Dir, ScanList(d) PROVE ScanOrder'
    <2>1. /\ d \in scan.toList /\ d \in DOMAIN scan.found
          /\ scan'.stage = scan.stage /\ scan'.root = scan.root /\ scan'.base = scan.base
          /\ UNCHANGED rootDirectories /\ scan'.toList = scan.toList \ {d}
        BY <1>2, <1>4, ListGoesOn DEF ScanTyped
    <2>2. CASE fs[d] = "dir"
        <3>1. scan'.toWatch = scan.toWatch \cup Listed(d) /\ scan'.found = scan.found
            BY <1>4, <2>2, ListGoesOn
        <3>2. ASSUME NEW q \in Listed(d)
              PROVE  /\ q \notin DOMAIN scan.found /\ Parent(q) \in DOMAIN scan'.found \ scan'.toList
                     /\ scan.stage = "update" => StartsWith(q, scan.base)
            <4>1. q \in Dir /\ q \in Path /\ Len(q) > 1 /\ Parent(q) = d /\ d \in Path
                BY NioAssumption DEF Listed
            <4>2. scan.stage = "update" => StartsWith(d, scan.base) /\ scan.base \in Path
                BY <2>1, NioAssumption DEF ScanOrder, Basis, TreesInv, ScanRooted
            <4>3. scan.stage = "update" => StartsWith(q, scan.base) /\ q # scan.base
                BY <4>1, <4>2, ParentsAreAbove
            <4>4. ~(Len(q) = 1)
                <5>1. Len(q) \in Nat
                    BY <4>1, PathsAreLong
                <5> QED BY <4>1, <5>1
            <4>5. q \notin DOMAIN scan.found
                BY <2>1, <4>1, <4>3, <4>4 DEF ScanOrder
            <4> QED BY <2>1, <3>1, <4>1, <4>3, <4>5
        <3> QED BY <2>1, <3>1, <3>2 DEF ScanOrder
    <2>3. CASE fs[d] # "dir"
        <3>1. scan'.toWatch = scan.toWatch /\ DOMAIN scan'.found = DOMAIN scan.found \ {d}
            BY <1>4, <2>3, ListGoesOn
        <3>2. DOMAIN scan.found \ scan.toList \subseteq DOMAIN scan'.found \ scan'.toList
            BY <2>1, <3>1
        <3> QED BY <2>1, <3>1, <3>2 DEF ScanOrder
    <2> QED BY <2>2, <2>3
<1>5. ASSUME NEW p \in Path,
             Add(p) \/ (GetOrAdd /\ p = call.path) \/ (RegisterUpdate /\ p = call.last)
      PROVE  ScanOrder'
    <2>1. CASE UNCHANGED scan
        <3>1. UNCHANGED rootDirectories
            BY <1>5 DEF Add, GetOrAdd, RegisterUpdate
        <3> QED BY <1>1, <2>1, <3>1
    <2>2. CASE ~UNCHANGED scan
        <3>1. CASE scan' = InitScan("call", p) /\ Len(Parent(p)) = 1
            BY <3>1 DEF InitScan, ScanOrder, NoMap
        <3>2. ASSUME NEW r \in DOMAIN rootDirectories, NEW thread, p \in Dir, StartsWith(p, r),
                     scan' = UpdateScan(thread, r, p), UNCHANGED rootDirectories
              PROVE  ScanOrder'
            <4>1. scan'.root = r /\ r \in Path /\ Len(r) = 1 /\ StartsWith(r, r)
                BY <1>2, <3>2, UpdateLooks, StartsWithIsOrder, NioAssumption DEF RootsTyped, Undisturbed
            <4>2. CASE /\ scan'.base = r /\ scan'.toWatch = {} /\ DOMAIN scan'.found = {r}
                BY <4>1, <4>2 DEF ScanOrder
            <4>3. CASE /\ scan'.base \in Dir /\ Parent(scan'.base) \in DOMAIN rootDirectories[r]
                       /\ scan'.toWatch = {scan'.base} /\ DOMAIN scan'.found = {} /\ scan'.stage = "update"
                <5>1. StartsWith(scan'.base, scan'.base)
                    BY <4>3, StartsWithIsOrder, NioAssumption
                <5> QED BY <3>2, <4>1, <4>3, <5>1 DEF ScanOrder
            <4> QED BY <1>2, <3>2, <4>2, <4>3, UpdateLooks
        <3> QED BY <1>5, <2>2, <3>1, <3>2, ScansBegin
    <2> QED BY <2>1, <2>2
<1>6. CASE Act \/ AddUpdate \/ RegisterInit \/ RegisterGraft \/ Close
    <2>1. scan' = NoScan
        BY <1>6 DEF Act, AddUpdate, RegisterInit, RegisterGraft, Graft, AddRoot, Close
    <2> QED BY <2>1, NoScanInOrder
<1>7. CASE GetOrAdd
    <2>1. call.path \in Path
        BY <1>7 DEF GetOrAdd, Basis, TreesInv, CallTyped
    <2> QED BY <1>5, <1>7, <2>1
<1>8. CASE RegisterUpdate
    <2>1. call.last \in Path
        BY <1>8, NioAssumption DEF RegisterUpdate, Basis, TreesInv, CallTyped
    <2> QED BY <1>5, <1>8, <2>1
<1> QED BY <1>1, <1>3, <1>4, <1>5, <1>6, <1>7, <1>8, TreesStay DEF Moves

\* Steps that leave the trees alone.
LEMMA OnlyTreesStay ==
    ASSUME Moves \/ UNCHANGED vars, ~Act, ~AddUpdate, ~RegisterInit, ~RegisterGraft
    PROVE  UNCHANGED rootDirectories
BY TreesStay DEF Moves, ScanWatch, ScanList, Add, GetOrAdd, RegisterUpdate

\* What a scan has found holds the directory above each, when it is done.
LEMMA FoundIsClosed ==
    ASSUME ScanOrder, NEW thread, NEW stage, Scanned(thread, stage), NEW d \in DOMAIN scan.found
    PROVE  Len(d) = 1 \/ (stage = "update" /\ d = scan.base) \/ Parent(d) \in DOMAIN scan.found
BY DEF ScanOrder, Scanned

LEMMA TreesClosedInductive ==
    ASSUME Undisturbed, Basis, Turns, ScanOrder, TreesClosed, Moves \/ Close \/ UNCHANGED vars
    PROVE  TreesClosed'
<1>1. ScanTyped /\ RootsTyped
    BY DEF Basis, TreesInv
<1>2. CASE Act
    <2> SUFFICES ASSUME NEW r \in DOMAIN rootDirectories', NEW d \in DOMAIN rootDirectories'[r], Len(d) > 1
                 PROVE  Parent(d) \in DOMAIN rootDirectories'[r]
        BY DEF TreesClosed
    <2>1. /\ r \in DOMAIN rootDirectories /\ d \in DOMAIN rootDirectories[r]
          /\ Removes(loop.kind, loop.exists) => ~StartsWith(d, loop.path)
        BY <1>2, ActCuts
    <2>2. d \in Path /\ loop.path \in Path
        BY <1>1, <1>2, <2>1, NioAssumption DEF RootsTyped, KeysOfDirs, Act, Basis, TreesInv, LoopTyped
    <2>3. Parent(d) \in DOMAIN rootDirectories[r]
        BY <2>1 DEF TreesClosed
    <2>4. StartsWith(Parent(d), loop.path) => StartsWith(d, loop.path)
        BY <2>2, ParentsAreAbove
    <2> QED BY <1>2, <2>1, <2>3, <2>4, ActCuts
<1>3. ASSUME NEW thread, Scanned(thread, "init"), AddRoot PROVE TreesClosed'
    <2>1. \A d \in DOMAIN scan.found : Len(d) > 1 => Parent(d) \in DOMAIN scan.found
        <3> SUFFICES ASSUME NEW d \in DOMAIN scan.found, Len(d) > 1 PROVE Parent(d) \in DOMAIN scan.found
            OBVIOUS
        <3>1. d \in Path
            BY <1>1, NioAssumption DEF ScanTyped, KeysOfDirs
        <3> QED BY <1>3, <3>1, LongIsNotTop, FoundIsClosed
    <2> QED BY <1>3, <2>1, RootArrives DEF TreesClosed
<1>4. ASSUME NEW thread, Scanned(thread, "update"), Graft(thread) PROVE TreesClosed'
    <2> SUFFICES ASSUME NEW d \in DOMAIN rootDirectories'[scan.root], Len(d) > 1
                 PROVE  Parent(d) \in DOMAIN rootDirectories'[scan.root]
        BY <1>4, GraftReplaces DEF TreesClosed
    <2>1. \/ d \in DOMAIN scan.found
          \/ d \in DOMAIN rootDirectories[scan.root] /\ ~StartsWith(d, scan.base)
        BY <1>4, GraftReplaces
    <2>2. scan.root \in DOMAIN rootDirectories /\ scan.base \in Path /\ scan.stage = "update"
        BY <1>4, NioAssumption DEF Scanned, Basis, TreesInv, ScanRooted
    <2>3. d \in Path
        BY <1>1, <2>1, <2>2, NioAssumption DEF ScanTyped, RootsTyped, KeysOfDirs
    <2>4. /\ Len(d) # 1
          /\ StartsWith(Parent(d), scan.base) => StartsWith(d, scan.base) /\ d # scan.base
        BY <2>2, <2>3, LongIsNotTop, ParentsAreAbove
    <2>5. CASE d \in DOMAIN scan.found
        <3>1. CASE d = scan.base
            <4>1. Parent(d) \in DOMAIN rootDirectories[scan.root]
                BY <2>2, <3>1 DEF ScanOrder
            <4> QED BY <1>4, <2>4, <3>1, <4>1, GraftReplaces
        <3>2. CASE d # scan.base
            <4>1. Parent(d) \in DOMAIN scan.found
                BY <1>4, <2>4, <2>5, <3>2, FoundIsClosed
            <4> QED BY <1>4, <4>1, GraftReplaces
        <3> QED BY <3>1, <3>2
    <2>6. CASE d \in DOMAIN rootDirectories[scan.root] /\ ~StartsWith(d, scan.base)
        <3>1. Parent(d) \in DOMAIN rootDirectories[scan.root]
            BY <2>2, <2>6 DEF TreesClosed
        <3> QED BY <1>4, <2>4, <2>6, <3>1, GraftReplaces
    <2> QED BY <2>1, <2>5, <2>6
<1>5. CASE Close
    BY <1>5 DEF Close, TreesClosed
<1>6. CASE RegisterInit
    BY <1>3, <1>6 DEF RegisterInit
<1>7. CASE AddUpdate \/ RegisterGraft
    BY <1>4, <1>7 DEF AddUpdate, RegisterGraft
<1>8. ASSUME UNCHANGED rootDirectories PROVE TreesClosed'
    BY <1>8 DEF TreesClosed
<1> QED BY <1>2, <1>5, <1>6, <1>7, <1>8, OnlyTreesStay

LEMMA AllWantedInductive ==
    ASSUME Undisturbed, Basis, OneCall, Turns, ScanOrder, AllWanted, Moves \/ Close \/ UNCHANGED vars
    PROVE  AllWanted'
<1>1. ScanTyped /\ RootsTyped
    BY DEF Basis, TreesInv
<1>2. ASSUME NEW p \in Path, NEW n \in Depth, Register(p, n) PROVE AllWanted'
    <2>1. Fresh
        BY <1>2 DEF Register, OneCall
    <2>2. UNCHANGED <<rootDirectories, scan>> /\ call'.stage = "added"
        BY <1>2 DEF Register
    <2> QED BY <2>1, <2>2 DEF Fresh, AllWanted, InTrees, NoScan, NoMap
<1>3. CASE Close
    BY <1>3 DEF Close, AllWanted, InTrees, NoScan, NoMap, NoCall
<1>4. ASSUME UNCHANGED registered, \A d : InTrees(d)' => InTrees(d) \/ d \in DOMAIN scan.found,
             \A d \in DOMAIN scan'.found \cup scan'.toWatch : AcceptsPrefix(d),
             call'.stage = "found" => AcceptsPrefix(call'.last)
      PROVE  AllWanted'
    BY <1>4 DEF AllWanted, AcceptsPrefix
<1>5. ASSUME UNCHANGED rootDirectories, NEW d, InTrees(d)' PROVE InTrees(d)
    BY <1>5 DEF InTrees
<1>6. ASSUME UNCHANGED <<rootDirectories, scan, registered>>,
             call'.stage = "found" => AcceptsPrefix(call'.last)
      PROVE  AllWanted'
    BY <1>4, <1>5, <1>6 DEF AllWanted
<1>7. ASSUME NEW p \in Path, NEW value \in {"dir"} \cup Content,
             Create(p, value) \/ Modify(p, value) \/ Delete(p)
      PROVE  AllWanted'
    BY <1>6, <1>7 DEF Create, Modify, Delete, Change, AllWanted
<1>8. CASE Look \/ Report \/ Return \/ UNCHANGED vars
    BY <1>6, <1>8 DEF Look, Report, Return, vars, AllWanted, NoCall
<1>9. ASSUME NEW k \in DOMAIN keys, Take(k) PROVE AllWanted'
    BY <1>6, <1>9 DEF Take, AllWanted
<1>10. CASE RegisterFind
    <2>1. /\ call.stage = "rooted" /\ UNCHANGED <<rootDirectories, scan, registered>>
          /\ call'.last = LastPath(rootDirectories[call.root], call.path)
        BY <1>10 DEF RegisterFind, CallWith
    <2>2. call.root \in DOMAIN rootDirectories /\ call.path \in Path /\ StartsWith(call.path, call.root)
        BY <2>1 DEF Basis, TreesInv, CallTyped
    <2>3. /\ call.root \in DOMAIN rootDirectories[call.root]
          /\ DOMAIN rootDirectories[call.root] \subseteq Path
        BY <1>1, <2>2, NioAssumption DEF RootsTyped, KeysOfDirs
    <2>4. call'.last \in DOMAIN rootDirectories[call.root]
        BY <2>1, <2>2, <2>3, LastIsThere
    <2> QED BY <1>6, <2>1, <2>2, <2>4 DEF AllWanted, InTrees
<1>11. ASSUME NEW d \in Dir, ScanWatch(d) PROVE AllWanted'
    <2>1. /\ DOMAIN scan'.found \cup scan'.toWatch \subseteq DOMAIN scan.found \cup scan.toWatch
          /\ UNCHANGED <<rootDirectories, registered, call>>
        BY <1>11, WatchGoesOn
    <2> QED BY <1>4, <1>5, <2>1 DEF AllWanted
<1>12. ASSUME NEW d \in Dir, ScanList(d) PROVE AllWanted'
    <2>1. /\ DOMAIN scan'.found \cup scan'.toWatch \subseteq DOMAIN scan.found \cup scan.toWatch \cup Listed(d)
          /\ UNCHANGED <<rootDirectories, registered, call>>
        BY <1>12, ListGoesOn
    <2>2. \A q \in Listed(d) : AcceptsPrefix(q)
        BY DEF Listed
    <2> QED BY <1>4, <1>5, <2>1, <2>2 DEF AllWanted
<1>13. CASE Act
    <2>1. /\ UNCHANGED <<registered, call>> /\ scan' = NoScan
          /\ \A d : InTrees(d)' => InTrees(d)
        BY <1>13, ActCuts DEF InTrees
    <2> QED BY <1>4, <2>1 DEF AllWanted, NoScan, NoMap
<1>14. CASE RegisterInit
    <2>1. /\ UNCHANGED registered /\ scan' = NoScan /\ call'.stage = "rooted"
          /\ \A d : InTrees(d)' => InTrees(d) \/ d \in DOMAIN scan.found
        BY <1>14, RootArrives DEF RegisterInit, CallWith, InTrees
    <2> QED BY <1>4, <2>1 DEF AllWanted, NoScan, NoMap
<1>15. CASE AddUpdate \/ RegisterGraft
    <2>1. /\ UNCHANGED registered /\ scan' = NoScan /\ (call'.stage = "found" => UNCHANGED call)
          /\ \E thread : Scanned(thread, "update") /\ Graft(thread)
        BY <1>15 DEF AddUpdate, RegisterGraft, Graft, CallWith
    <2>2. ASSUME NEW r \in DOMAIN rootDirectories', NEW d \in DOMAIN rootDirectories'[r]
          PROVE  r \in DOMAIN rootDirectories /\ (d \in DOMAIN rootDirectories[r] \/ d \in DOMAIN scan.found)
        BY <2>1, GraftReplaces
    <2>3. \A d : InTrees(d)' => InTrees(d) \/ d \in DOMAIN scan.found
        BY <2>2 DEF InTrees
    <2>4. call'.stage = "found" => AcceptsPrefix(call'.last)
        BY <2>1 DEF AllWanted
    <2>5. DOMAIN scan'.found \cup scan'.toWatch = {}
        BY <2>1 DEF NoScan, NoMap
    <2> QED BY <1>4, <2>1, <2>3, <2>4, <2>5
<1>16. ASSUME NEW p \in Path,
              Add(p) \/ (GetOrAdd /\ p = call.path) \/ (RegisterUpdate /\ p = call.last)
      PROVE  AllWanted'
    <2>1. UNCHANGED <<rootDirectories, registered>> /\ (call'.stage = "found" => UNCHANGED call)
        BY <1>16 DEF Add, GetOrAdd, RegisterUpdate, CallWith
    <2>2. CASE UNCHANGED scan
        BY <1>6, <2>1, <2>2 DEF AllWanted
    <2>3. CASE ~UNCHANGED scan
        <3>1. scan = NoScan
            BY <1>16, <2>3, ScansBegin
        <3>2. ~Fresh
            BY <1>16 DEF Fresh, Resting, Add, Waiting, GetOrAdd, RegisterUpdate
        <3>3. PICK path \in Path, maxDepth \in Depth : Only(path, maxDepth)
            BY <3>2 DEF OneCall
        <3>4. /\ DOMAIN registered = {path}
              /\ \A d \in DOMAIN registered : Registry!CompMaxDepth(registered[d]) \in Int
            BY <3>3, OnlyIsTyped
        <3>5. CASE scan' = InitScan("call", p) /\ call.stage = "added" /\ p = call.path /\ Len(p) > 1
            <4>1. path = p
                BY <3>3, <3>5 DEF Only, Resting
            <4>2. Parent(p) \in Path /\ StartsWith(p, Parent(p))
                BY <3>5, ParentsAreAbove
            <4>3. AcceptsPrefix(Parent(p))
                BY <3>4, <4>1, <4>2, WantedMeans DEF AcceptsPrefix
            <4>4. DOMAIN scan'.found \cup scan'.toWatch = {Parent(p)}
                BY <3>5 DEF InitScan, NoMap
            <4> QED BY <1>4, <1>5, <2>1, <4>3, <4>4 DEF AllWanted
        <3>6. ASSUME NEW r \in DOMAIN rootDirectories, NEW thread, p \in Dir, StartsWith(p, r),
                     scan' = UpdateScan(thread, r, p), AcceptsPrefix(p)
              PROVE  AllWanted'
            <4>1. \A d \in DOMAIN scan'.found \cup scan'.toWatch : d \in Path /\ StartsWith(p, d)
                BY <1>1, <3>6, UpdateLooks, NioAssumption DEF RootsTyped
            <4>2. \A d \in DOMAIN scan'.found \cup scan'.toWatch : AcceptsPrefix(d)
                BY <3>4, <3>6, <4>1, AboveIsWanted
            <4> QED BY <1>4, <1>5, <2>1, <4>2 DEF AllWanted
        <3>7. AcceptsPrefix(p) \/ GetOrAdd
            BY <1>16, <2>3, ScansBegin DEF AllWanted
        <3>8. GetOrAdd /\ ~UNCHANGED scan => scan' = InitScan("call", call.path) /\ call.stage = "added"
            BY DEF GetOrAdd
        <3> QED BY <1>16, <2>3, <3>5, <3>6, <3>7, ScansBegin DEF AllWanted
    <2> QED BY <2>2, <2>3
<1>17. CASE GetOrAdd
    <2>1. call.path \in Path
        BY <1>17 DEF GetOrAdd, Basis, TreesInv, CallTyped
    <2> QED BY <1>16, <1>17, <2>1
<1>18. CASE RegisterUpdate
    <2>1. call.last \in Path
        BY <1>18, NioAssumption DEF RegisterUpdate, Basis, TreesInv, CallTyped
    <2> QED BY <1>16, <1>18, <2>1
<1>19. CASE Closes
    <2>1. UNCHANGED <<rootDirectories, scan, registered, call>>
        BY <1>19, ClosesOnly
    <2> QED BY <1>6, <2>1 DEF AllWanted
<1> QED BY <1>2, <1>3, <1>7, <1>8, <1>9, <1>10, <1>11, <1>12, <1>13, <1>14, <1>15, <1>16, <1>17, <1>18,
           <1>19 DEF Moves

\* Together.
LEMMA GrowthInductive ==
    ASSUME Undisturbed, Basis, Growth, Moves \/ Close \/ UNCHANGED vars
    PROVE  Growth'
BY FilesInductive, OneCallInductive, TurnsInductive, ScanOrderInductive, TreesClosedInductive,
   AllWantedInductive DEF Growth
-----------------------------------------------------------------------------
(* What waits in the queues                                                  *)

\* No event comes or goes, no key dies; new keys have no events.
SameQueues ==
    /\ \A k \in DOMAIN keys : /\ k \in DOMAIN keys' /\ keys'[k].valid = keys[k].valid
                              /\ keys'[k].events = keys[k].events
    /\ \A k \in DOMAIN keys' \ DOMAIN keys : keys'[k].valid /\ keys'[k].events = <<>>

\* The steps that neither report nor take an event.
LEMMA QueuesStay ==
    ASSUME Basis, Moves \/ UNCHANGED vars,
           \A p \in Path, value \in {"dir"} \cup Content : ~(Create(p, value) \/ Modify(p, value) \/ Delete(p)),
           \A k \in DOMAIN keys : ~Take(k)
    PROVE  SameQueues
<1>1. ASSUME UNCHANGED keys PROVE SameQueues
    BY <1>1 DEF SameQueues
<1>2. KeysInv
    BY DEF Basis
<1>3. ASSUME NEW numbers, CloseKeys(numbers) PROVE SameQueues
    <2>1. \A k \in DOMAIN keys : keys[k] \in Key
        BY <1>2, KeysArePlaces DEF KeysInv
    <2> QED BY <1>3, <2>1 DEF CloseKeys, SameQueues, Key
<1>4. ASSUME NEW d \in Dir, ScanWatch(d) PROVE SameQueues
    <2>1. \A k \in DOMAIN keys : k \in DOMAIN keys' /\ keys'[k] = keys[k]
        BY <1>2, <1>4, RegisterKeeps DEF KeysGrow
    <2>2. ASSUME NEW k \in DOMAIN keys' \ DOMAIN keys PROVE keys'[k].valid /\ keys'[k].events = <<>>
        <3> DEFINE new == [path |-> d, valid |-> TRUE, open |-> TRUE, events |-> <<>>]
        <3>1. keys' = Append(keys, new)
            BY <1>4, <2>2 DEF ScanWatch
        <3>2. keys'[k] = new
            <4> HIDE DEF new
            <4> QED BY <1>2, <2>2, <3>1 DEF KeysInv
        <3> QED BY <3>2
    <2> QED BY <2>1, <2>2 DEF SameQueues
<1>5. ASSUME NEW d \in Dir, ScanList(d) PROVE UNCHANGED keys
    BY <1>5 DEF ScanList, service
<1>6. ASSUME NEW p \in Path, Add(p) \/ \E n \in Depth : Register(p, n) PROVE UNCHANGED keys
    BY <1>6 DEF Add, Register, service
<1>7. ASSUME Look \/ Report \/ GetOrAdd \/ RegisterInit \/ RegisterFind \/ RegisterUpdate \/ Return
             \/ UNCHANGED vars
      PROVE  UNCHANGED keys
    BY <1>7 DEF Look, Report, GetOrAdd, RegisterInit, RegisterFind, RegisterUpdate, Return, vars, service
<1>8. CASE Act
    BY <1>1, <1>8 DEF Act, service
<1>9. CASE AddUpdate \/ RegisterGraft
    BY <1>1, <1>9 DEF AddUpdate, RegisterGraft, service
<1>10. CASE Closes
    BY <1>3, <1>10 DEF Closes, CloseOne
<1> QED BY <1>1, <1>4, <1>5, <1>6, <1>7, <1>8, <1>9, <1>10 DEF Moves

LEMMA SameQueuesSame ==
    ASSUME SameQueues
    PROVE  /\ \A e : Queued(e)' <=> Queued(e)
           /\ \A k \in DOMAIN keys : Alive(k)' <=> Alive(k)
           /\ \A k \in DOMAIN keys' \ DOMAIN keys : Alive(k)'
<1>1. \A k \in DOMAIN keys' : k \notin DOMAIN keys => DOMAIN keys'[k].events = {}
    BY DEF SameQueues
<1>2. \A e : Queued(e)' <=> Queued(e)
    BY <1>1 DEF SameQueues, Queued
<1> QED BY <1>2 DEF SameQueues, Alive

\* An event that is queued is still there, or the loop thread has taken it.
LEMMA TakenIsHeld ==
    ASSUME Basis, NEW n \in DOMAIN keys, Take(n)
    PROVE  /\ loop.stage = "waiting" /\ loop'.stage = "taken"
           /\ \A e : Queued(e) => Queued(e)' \/ (loop'.path = e.path /\ loop'.kind = e.kind)
           /\ \A k \in DOMAIN keys : Alive(k)' <=> Alive(k)
           /\ DOMAIN keys' = DOMAIN keys
<1>1. /\ keys' = [keys EXCEPT ![n].events = Tail(@)] /\ keys[n].events # <<>>
      /\ loop.stage = "waiting" /\ loop'.stage = "taken"
      /\ loop'.path = Head(keys[n].events).path /\ loop'.kind = Head(keys[n].events).kind
    BY DEF Take
<1>2. \A k \in DOMAIN keys : keys[k] \in Key
    BY KeysArePlaces DEF Basis, KeysInv
<1>3. /\ DOMAIN keys' = DOMAIN keys /\ \A k \in DOMAIN keys \ {n} : keys'[k] = keys[k]
      /\ keys'[n].events = Tail(keys[n].events) /\ keys'[n].valid = keys[n].valid
    BY <1>1, <1>2 DEF Key
<1>4. ASSUME NEW i \in DOMAIN keys[n].events, i # 1
      PROVE  i - 1 \in DOMAIN Tail(keys[n].events) /\ Tail(keys[n].events)[i - 1] = keys[n].events[i]
    <2>1. keys[n].events \in Seq(Event)
        BY <1>2 DEF Key
    <2> QED BY <1>1, <1>4, <2>1
<1>5. ASSUME NEW k \in DOMAIN keys, NEW i \in DOMAIN keys[k].events, NEW e, e = keys[k].events[i]
      PROVE  Queued(e)' \/ (loop'.path = e.path /\ loop'.kind = e.kind)
    <2>1. CASE k # n
        BY <1>3, <1>5, <2>1 DEF Queued
    <2>2. CASE k = n /\ i # 1
        <3>1. /\ n \in DOMAIN keys' /\ i - 1 \in DOMAIN keys'[n].events
              /\ keys'[n].events[i - 1] = e
            BY <1>3, <1>4, <1>5, <2>2
        <3> QED BY <3>1 DEF Queued
    <2>3. CASE k = n /\ i = 1
        BY <1>1, <1>5, <2>3
    <2> QED BY <2>1, <2>2, <2>3
<1>6. ASSUME NEW e, Queued(e) PROVE Queued(e)' \/ (loop'.path = e.path /\ loop'.kind = e.kind)
    <2>1. PICK k \in DOMAIN keys : \E i \in DOMAIN keys[k].events : keys[k].events[i] = e
        BY <1>6 DEF Queued
    <2> PICK i \in DOMAIN keys[k].events : keys[k].events[i] = e
        BY <2>1
    <2> QED BY <1>5
<1>7. \A k \in DOMAIN keys : Alive(k)' <=> Alive(k)
    BY <1>3 DEF Alive
<1> QED BY <1>1, <1>3, <1>6, <1>7

\* A queue that has room keeps what it has, and its open key reports the change.
LEMMA SignalQueues ==
    ASSUME Undisturbed, NEW key \in Key, NEW event \in Event, NEW number \in 0..MaxChanges - 1,
           Spared(key.events, number)
    PROVE  LET after == Signal(key, event)
           IN  /\ after.valid = key.valid
               /\ \A i \in DOMAIN key.events : i \in DOMAIN after.events /\ after.events[i] = key.events[i]
               /\ key.valid /\ key.open => \E i \in DOMAIN after.events : after.events[i] = event
<1>1. key.events \in Seq(Event) /\ key.path \in Dir /\ Len(key.events) \in Nat
    BY DEF Key
<1>2. MaxEvents[key.path] \in Nat /\ MaxEvents[key.path] >= MaxChanges /\ MaxChanges \in Nat
    BY <1>1, NioAssumption DEF Undisturbed
<1>3. ~(Len(key.events) >= MaxEvents[key.path])
    BY <1>1, <1>2 DEF Spared
<1>4. key.events = <<>> \/ Last(key.events).kind # "overflow"
    BY <1>1 DEF Spared, Last
<1> DEFINE more == Append(key.events, event)
<1>5. CASE Signal(key, event) = key
    <2>1. ~key.valid \/ ~key.open \/ (key.events # <<>> /\ Last(key.events) = event)
        <3> SUFFICES ASSUME key.valid, key.open, ~(key.events # <<>> /\ Last(key.events) = event)
                     PROVE  FALSE
            OBVIOUS
        <3>1. Signal(key, event) = [key EXCEPT !.events = more]
            BY <1>3, <1>4 DEF Signal
        <3>2. key.events = more
            BY <1>5, <3>1 DEF Key
        <3> QED BY <1>1, <3>2
    <2>2. key.events # <<>> => Len(key.events) \in DOMAIN key.events /\ Last(key.events) = key.events[Len(key.events)]
        BY <1>1 DEF Last
    <2> QED BY <1>5, <2>1, <2>2
<1>6. CASE Signal(key, event) # key
    <2>1. Signal(key, event) = [key EXCEPT !.events = more]
        BY <1>3, <1>6 DEF Signal
    <2>2. Signal(key, event).events = more /\ Signal(key, event).valid = key.valid
        BY <2>1 DEF Key
    <2>3. /\ \A i \in DOMAIN key.events : i \in DOMAIN more /\ more[i] = key.events[i]
          /\ Len(key.events) + 1 \in DOMAIN more /\ more[Len(key.events) + 1] = event
        BY <1>1
    <2> HIDE DEF more
    <2> QED BY <2>2, <2>3
<1> QED BY <1>5, <1>6

\* A change of the file system: keys keep their events, and those of the directory
\* above report it; the keys of a directory that goes die.
LEMMA ChangeQueues ==
    ASSUME Undisturbed, Basis, NEW p \in Path, NEW kind \in Kind \ {"overflow"}, NEW value,
           Change(p, kind, value)
    PROVE  /\ DOMAIN keys' = DOMAIN keys
           /\ \A e : Queued(e) => Queued(e)'
           /\ \A k \in DOMAIN keys :
                /\ Alive(k)' => Alive(k)
                /\ Alive(k) => Alive(k)' \/ (keys[k].path = p /\ value = "none")
                /\ Alive(k) /\ keys[k].open /\ keys[k].path = Parent(p) =>
                     Queued([kind |-> kind, path |-> p])'
<1> DEFINE event == [kind |-> kind, path |-> p]
           after(k) == IF keys[k].path = Parent(p) THEN Signal(keys[k], event)
                       ELSE IF keys[k].path = p /\ value = "none"
                            THEN [keys[k] EXCEPT !.valid = FALSE]
                       ELSE keys[k]
<1>1. keys' = [k \in DOMAIN keys |-> after(k)]
    BY DEF Change
<1>2. Changed \in 0..MaxChanges - 1
    BY NioAssumption DEF Change, Basis, NoneOverflows, Changed
<1>3. ASSUME NEW k \in DOMAIN keys
      PROVE  /\ \A i \in DOMAIN keys[k].events : /\ i \in DOMAIN after(k).events
                                                 /\ after(k).events[i] = keys[k].events[i]
             /\ after(k).valid => keys[k].valid
             /\ keys[k].valid => after(k).valid \/ (keys[k].path = p /\ value = "none")
             /\ keys[k].valid /\ keys[k].open /\ keys[k].path = Parent(p) =>
                  \E i \in DOMAIN after(k).events : after(k).events[i] = event
    <2>1. keys[k] \in Key /\ event \in Event /\ Spared(keys[k].events, Changed)
        BY KeysArePlaces DEF Basis, KeysInv, Event, NoneOverflows
    <2>2. CASE keys[k].path = Parent(p)
        <3> HIDE DEF event
        <3>1. after(k) = Signal(keys[k], event)
            BY <2>2
        <3> QED BY <1>2, <2>1, <3>1, SignalQueues
    <2>3. CASE keys[k].path # Parent(p)
        BY <2>1, <2>3 DEF Key
    <2> QED BY <2>2, <2>3
<1> HIDE DEF after
<1>4. DOMAIN keys' = DOMAIN keys /\ \A k \in DOMAIN keys : keys'[k] = after(k)
    BY <1>1
<1>5. \A e : Queued(e) => Queued(e)'
    BY <1>3, <1>4 DEF Queued
<1>6. ASSUME NEW k \in DOMAIN keys, Alive(k), keys[k].open, keys[k].path = Parent(p) PROVE Queued(event)'
    <2>1. \E i \in DOMAIN keys'[k].events : keys'[k].events[i] = event
        BY <1>3, <1>4, <1>6 DEF Alive
    <2> QED BY <1>4, <2>1 DEF Queued
<1>7. \A k \in DOMAIN keys :
                /\ Alive(k)' => Alive(k)
                /\ Alive(k) => Alive(k)' \/ (keys[k].path = p /\ value = "none")
    BY <1>3, <1>4 DEF Alive
<1> QED BY <1>4, <1>5, <1>6, <1>7

\* What is above a wanted path is wanted: there is one registration, or none.
LEMMA WantedAbove ==
    ASSUME OneCall, NEW p \in Path, AcceptsPrefix(p), NEW q \in Path, StartsWith(p, q)
    PROVE  AcceptsPrefix(q)
<1>1. CASE Fresh
    <2>1. DOMAIN registered = {}
        BY <1>1 DEF Fresh, Registry!NoDirectories
    <2> QED BY <2>1, WantedMeans DEF AcceptsPrefix
<1>2. ASSUME NEW path \in Path, NEW maxDepth \in Depth, Only(path, maxDepth) PROVE AcceptsPrefix(q)
    BY <1>2, OnlyIsTyped, AboveIsWanted
<1> QED BY <1>1, <1>2 DEF OneCall

\* Events are about what is not permanent.
LEMMA QueuedMeans ==
    ASSUME Basis, NEW e, Queued(e)
    PROVE  e \in Event /\ e.path \in Path /\ e.path \notin Permanent /\ e.kind # "overflow"
<1>1. PICK k \in DOMAIN keys : \E i \in DOMAIN keys[k].events : keys[k].events[i] = e
    BY DEF Queued
<1> PICK i \in DOMAIN keys[k].events : keys[k].events[i] = e
    BY <1>1
<1>2. keys[k].events \in Seq(EventOf(keys[k].path)) /\ Spared(keys[k].events, Changed)
    BY DEF Basis, TreesInv, EventsMatch, NoneOverflows
<1>3. e \in EventOf(keys[k].path)
    BY <1>2
<1> QED BY <1>2, <1>3 DEF EventOf, Event, Spared

\* No step but Take takes an event out of the queues.
LEMMA QueuedLasts ==
    ASSUME Undisturbed, Basis, Moves \/ UNCHANGED vars, NEW e, Queued(e)
    PROVE  \/ Queued(e)'
           \/ /\ \E n \in DOMAIN keys : Take(n)
              /\ loop'.stage = "taken" /\ loop'.path = e.path /\ loop'.kind = e.kind
<1>1. ASSUME NEW p \in Path, NEW value \in {"dir"} \cup Content,
             Create(p, value) \/ Modify(p, value) \/ Delete(p)
      PROVE  Queued(e)'
    BY <1>1, ChangesAreOutside, ChangeQueues DEF Basis, TreesInv
<1>2. CASE \E n \in DOMAIN keys : Take(n)
    BY <1>2, TakenIsHeld
<1> QED BY <1>1, <1>2, QueuesStay, SameQueuesSame

\* The loop thread stays at an event until it acts on it.
LEMMA LoopStays ==
    ASSUME Turns, Moves \/ UNCHANGED vars, ~Look, ~Act, loop.stage \in {"taken", "acting"}
    PROVE  UNCHANGED loop
<1>1. \A k : ~Take(k)
    BY DEF Take
<1>2. ~Report /\ \A p : ~Add(p)
    BY DEF Report, Add
<1>3. ~AddUpdate
    BY DEF AddUpdate, Scanned, Turns, LoopScans, CallScans, NoScan
<1>4. ASSUME NEW p \in Path, NEW value \in {"dir"} \cup Content,
             Create(p, value) \/ Modify(p, value) \/ Delete(p)
      PROVE  UNCHANGED loop
    BY <1>4 DEF Create, Modify, Delete, Change
<1>5. ASSUME NEW p \in Path, NEW maxDepth \in Depth, Register(p, maxDepth) PROVE UNCHANGED loop
    BY <1>5 DEF Register
<1>6. ASSUME NEW d \in Dir, ScanWatch(d) \/ ScanList(d) PROVE UNCHANGED loop
    BY <1>6 DEF ScanWatch, ScanList
<1>7. ASSUME GetOrAdd \/ RegisterInit \/ RegisterFind \/ RegisterUpdate \/ RegisterGraft \/ Return
             \/ Closes \/ UNCHANGED vars
      PROVE  UNCHANGED loop
    BY <1>7, ClosesOnly DEF GetOrAdd, RegisterInit, RegisterFind, RegisterUpdate, RegisterGraft, Return, vars
<1> QED BY <1>1, <1>2, <1>3, <1>4, <1>5, <1>6, <1>7 DEF Moves

\* A look at the path of an event that is wanted.
LEMMA LookGoesOn ==
    ASSUME Basis, Look, AcceptsPrefix(loop.path)
    PROVE  /\ loop.stage = "taken" /\ loop'.stage = "acting" /\ loop'.path = loop.path /\ loop'.kind = loop.kind
           /\ loop'.exists = (fs[loop.path] # "none")
BY DEF Look, LoopWith

\* No directory gets its key back, and what is lost is below.
LEMMA LostLasts ==
    ASSUME Moves \/ UNCHANGED vars
    PROVE  reused \subseteq reused' /\ \A d : Lost(d) => Lost(d)'
<1>1. reused \subseteq reused'
    BY ClosesOnly DEF Moves, Create, Modify, Delete, Change, Register, ScanWatch, ScanList, Take, Look, Act,
       AddUpdate, Report, Add, GetOrAdd, RegisterInit, RegisterFind, RegisterUpdate, RegisterGraft, Return, vars
<1> QED BY <1>1 DEF Lost

LEMMA ReusedIsLost ==
    ASSUME Basis, NEW d \in reused
    PROVE  d \in Path /\ d \notin Permanent /\ Lost(d)
<1>1. d \in Path /\ d \notin Permanent
    BY NioAssumption DEF Basis, TreesInv, ClosingTyped, TopsStay
<1> QED BY <1>1, StartsWithIsOrder DEF Lost

LEMMA LostIsBelow ==
    ASSUME Basis, NEW d \in Path, NEW q \in Path, StartsWith(d, q), Lost(q)
    PROVE  Lost(d)
<1>1. PICK e \in reused : StartsWith(q, e)
    BY DEF Lost
<1>2. StartsWith(d, e)
    BY <1>1, ReusedIsLost, StartsWithIsOrder
<1> QED BY <1>2 DEF Lost

LEMMA LostIsDeaf ==
    ASSUME Basis, NEW p \in Path, NEW d \in Path, StartsWith(p, d), d # p, Lost(d)
    PROVE  Deaf(p)
<1>1. PICK e \in reused : StartsWith(d, e)
    BY DEF Lost
<1>2. StartsWith(p, e) /\ p # e
    BY <1>1, ReusedIsLost, StartsWithIsOrder
<1> QED BY <1>2 DEF Deaf, StrictlyBelow

\* What is doomed stays so until the loop thread removes it.
LEMMA DoomLasts ==
    ASSUME Undisturbed, Basis, OneCall, Turns, Moves \/ UNCHANGED vars,
           NEW d \in Path, AcceptsPrefix(d), Doomed(d)
    PROVE  Doomed(d)' \/ (Act /\ loop.kind = "delete" /\ StartsWith(d, loop.path))
<1>1. CASE DoomQueued(d)
    <2>1. PICK e \in Event : Queued(e) /\ e.kind = "delete" /\ StartsWith(d, e.path)
        BY <1>1 DEF DoomQueued
    <2>2. \/ Queued(e)'
          \/ loop'.stage = "taken" /\ loop'.path = e.path /\ loop'.kind = e.kind
        BY <2>1, QueuedLasts
    <2>3. CASE Queued(e)'
        BY <2>1, <2>3 DEF Doomed, DoomQueued
    <2>4. CASE loop'.stage = "taken" /\ loop'.path = e.path /\ loop'.kind = e.kind
        BY <2>1, <2>4 DEF Doomed
    <2> QED BY <2>2, <2>3, <2>4
<1>2. CASE loop.stage \in {"taken", "acting"} /\ loop.kind = "delete" /\ StartsWith(d, loop.path)
    <2>1. CASE Look
        <3>1. loop.path \in Path
            BY <1>2 DEF Basis, TreesInv, LoopTyped
        <3>2. AcceptsPrefix(loop.path)
            BY <1>2, <3>1, WantedAbove
        <3>3. loop'.stage = "acting" /\ loop'.path = loop.path /\ loop'.kind = loop.kind
            BY <2>1, <3>2, LookGoesOn
        <3> QED BY <1>2, <3>3 DEF Doomed
    <2>2. CASE ~Look /\ ~Act
        <3>1. UNCHANGED loop
            BY <1>2, <2>2, LoopStays
        <3> QED BY <1>2, <3>1 DEF Doomed
    <2> QED BY <1>2, <2>1, <2>2
<1>3. CASE Lost(d)
    BY <1>3, LostLasts DEF Doomed
<1> QED BY <1>1, <1>2, <1>3 DEF Doomed

\* The same for what the loop thread will look at, and for what is queued.
LEMMA PathQueuedLasts ==
    ASSUME Undisturbed, Basis, Moves \/ UNCHANGED vars, NEW p, PathQueued(p)
    PROVE  PathQueued(p)' \/ (loop'.stage = "taken" /\ loop'.path = p)
<1>1. PICK e \in Event : Queued(e) /\ e.path = p
    BY DEF PathQueued
<1>2. Queued(e)' \/ (loop'.stage = "taken" /\ loop'.path = p)
    BY <1>1, QueuedLasts
<1> QED BY <1>1, <1>2 DEF PathQueued

LEMMA PendingLasts ==
    ASSUME Undisturbed, Basis, Turns, Moves \/ UNCHANGED vars,
           NEW p \in Path, AcceptsPrefix(p), fs[p] # "none", Pending(p)
    PROVE  Pending(p)' \/ (Act /\ p = loop.path /\ (loop.exists \/ loop.kind = "delete"))
<1>1. CASE PathQueued(p)
    BY <1>1, PathQueuedLasts DEF Pending
<1>2. CASE loop.path = p /\ loop.stage = "taken"
    <2>1. CASE Look
        <3>1. loop'.stage = "acting" /\ loop'.path = p /\ loop'.exists = TRUE
            BY <1>2, <2>1, LookGoesOn
        <3> QED BY <3>1 DEF Pending
    <2>2. CASE Act
        BY <1>2, <2>2 DEF Act
    <2>3. CASE ~Look /\ ~Act
        <3>1. UNCHANGED loop
            BY <1>2, <2>3, LoopStays
        <3> QED BY <1>2, <3>1 DEF Pending
    <2> QED BY <2>1, <2>2, <2>3
<1>3. CASE loop.path = p /\ loop.stage = "acting" /\ (loop.exists \/ loop.kind = "delete")
    <2>1. ~Look
        BY <1>3 DEF Look
    <2>2. CASE ~Act
        <3>1. UNCHANGED loop
            BY <1>3, <2>1, <2>2, LoopStays
        <3> QED BY <1>3, <3>1 DEF Pending
    <2> QED BY <1>3, <2>2
<1> QED BY <1>1, <1>2, <1>3 DEF Pending

\* What dooms a directory dooms what is below it, but not what is permanent.
LEMMA DoomIsBelow ==
    ASSUME Basis, NEW d \in Path, NEW q \in Path, StartsWith(d, q)
    PROVE  Doomed(q) => Doomed(d)
<1>1. DoomQueued(q) => DoomQueued(d)
    <2> SUFFICES ASSUME NEW e \in Event, Queued(e), e.kind = "delete", StartsWith(q, e.path)
                 PROVE  DoomQueued(d)
        BY DEF DoomQueued
    <2>1. e.path \in Path
        BY DEF Event
    <2>2. StartsWith(d, e.path)
        BY <2>1, StartsWithIsOrder
    <2> QED BY <2>2 DEF DoomQueued
<1>2. loop.stage # "waiting" => loop.path \in Path
    BY DEF Basis, TreesInv, LoopTyped
<1>3. loop.stage \in {"taken", "acting"} /\ StartsWith(q, loop.path) => StartsWith(d, loop.path)
    BY <1>2, StartsWithIsOrder
<1> QED BY <1>1, <1>3, LostIsBelow DEF Doomed

LEMMA RootsAreNotDoomed ==
    ASSUME Undisturbed, Basis, NEW d \in Path, Len(d) = 1
    PROVE  ~Doomed(d)
<1>1. ASSUME NEW q \in Path, StartsWith(d, q) PROVE q \in Permanent
    <2>1. Len(q) \in 1..Len(d)
        BY <1>1, PrefixIsPath
    <2>2. Len(q) = 1
        <3> DEFINE n == Len(q)
        <3>1. n \in 1..1
            BY <2>1
        <3> HIDE DEF n
        <3>2. n = 1
            BY <3>1
        <3> QED BY <3>2 DEF n
    <2> QED BY <2>2, PathAssumption
<1>2. ~DoomQueued(d)
    BY <1>1, QueuedMeans DEF DoomQueued
<1>3. loop.stage # "waiting" => loop.path \in Path /\ loop.kind # "overflow" /\ loop.path \notin Permanent
    BY DEF Basis, TreesInv, LoopTyped, NoneOverflows
<1>4. ~(loop.stage \in {"taken", "acting"} /\ StartsWith(d, loop.path))
    BY <1>1, <1>3
<1>5. ~Lost(d)
    BY <1>1, ReusedIsLost DEF Lost
<1> QED BY <1>2, <1>4, <1>5 DEF Doomed
-----------------------------------------------------------------------------
(* Keys that live                                                            *)

Changes ==
    \E p \in Path, value \in {"dir"} \cup Content : Create(p, value) \/ Modify(p, value) \/ Delete(p)

\* Only the deletion of a directory kills its key, and no key comes back to life.
LEMMA KeysLive ==
    ASSUME Undisturbed, Basis, Moves \/ UNCHANGED vars
    PROVE  /\ \A k \in DOMAIN keys : Alive(k)' => Alive(k)
           /\ \A k \in DOMAIN keys : Alive(k) => Alive(k)' \/ Delete(keys[k].path)
           /\ DOMAIN keys \subseteq DOMAIN keys'
           /\ \A k \in DOMAIN keys' \ DOMAIN keys : Alive(k)'
<1>1. ASSUME NEW p \in Path, NEW kind \in Kind \ {"overflow"}, NEW value, Change(p, kind, value),
             value = "none" => Delete(p)
      PROVE  /\ \A k \in DOMAIN keys : Alive(k)' => Alive(k)
             /\ \A k \in DOMAIN keys : Alive(k) => Alive(k)' \/ Delete(keys[k].path)
             /\ DOMAIN keys = DOMAIN keys'
    BY <1>1, ChangeQueues
<1>2. ASSUME NEW p \in Path, NEW value \in {"dir"} \cup Content,
             Create(p, value) \/ Modify(p, value) \/ Delete(p)
      PROVE  \E kind \in Kind \ {"overflow"} : \E after :
                Change(p, kind, after) /\ (after = "none" => Delete(p))
    <2>1. CASE Create(p, value)
        <3>1. Change(p, "create", value) /\ value # "none" /\ "create" \in Kind \ {"overflow"}
            BY <2>1, NioAssumption DEF Create, Kind
        <3> QED BY <3>1
    <2>2. CASE Modify(p, value)
        <3>1. Change(p, "modify", value) /\ value # "none" /\ "modify" \in Kind \ {"overflow"}
            BY <2>2, NioAssumption DEF Modify, Kind
        <3> QED BY <3>1
    <2>3. CASE Delete(p)
        <3>1. Change(p, "delete", "none") /\ "delete" \in Kind \ {"overflow"}
            BY <2>3 DEF Delete, Kind
        <3> QED BY <2>3, <3>1
    <2> QED BY <1>2, <2>1, <2>2, <2>3
<1>3. CASE \E n \in DOMAIN keys : Take(n)
    BY <1>3, TakenIsHeld
<1>4. CASE ~Changes /\ \A n \in DOMAIN keys : ~Take(n)
    <2>1. SameQueues
        BY <1>4, QueuesStay DEF Changes
    <2> QED BY <2>1, SameQueuesSame DEF SameQueues
<1>5. CASE Changes
    BY <1>1, <1>2, <1>5 DEF Changes
<1> QED BY <1>3, <1>4, <1>5

\* A directory that lives, or is doomed, stays so while the file system rests.
LEMMA LiveOrDoomed ==
    ASSUME Undisturbed, Basis, OneCall, Turns, Moves \/ UNCHANGED vars, ~Changes,
           NEW k, NEW d \in Path, AcceptsPrefix(d), Alive(k) \/ Doomed(d)
    PROVE  Alive(k)' \/ Doomed(d)' \/ (Act /\ loop.kind = "delete" /\ StartsWith(d, loop.path))
<1>1. CASE Alive(k)
    <2>1. k \in DOMAIN keys /\ keys[k].path \in Path
        <3>1. k \in DOMAIN keys
            BY <1>1 DEF Alive
        <3>2. keys[k] \in Key
            BY <3>1, KeysArePlaces DEF Basis, KeysInv
        <3> QED BY <3>1, <3>2, NioAssumption DEF Key
    <2>2. ~Delete(keys[k].path)
        <3>1. "dir" \in {"dir"} \cup Content
            OBVIOUS
        <3> QED BY <2>1, <3>1 DEF Changes
    <2> QED BY <1>1, <2>1, <2>2, KeysLive
<1>2. CASE Doomed(d)
    BY <1>2, DoomLasts
<1> QED BY <1>1, <1>2

\* What happens in a directory whose key lives is reported.
LEMMA LiveHears ==
    ASSUME Undisturbed, Basis, NEW p \in Path, NEW kind \in Kind \ {"overflow"}, NEW value,
           Change(p, kind, value), NEW map, NEW root, KeysOfDirs(keys, map, root), Opened(Sound, map),
           Parent(p) \in DOMAIN map \ reused, Alive(map[Parent(p)])
    PROVE  Queued([kind |-> kind, path |-> p])'
<1> DEFINE k == map[Parent(p)]
<1>1. k \in DOMAIN keys
    BY DEF Alive
<1>2. k # Invalid
    BY <1>1, KeysArePlaces DEF Basis, KeysInv, Invalid
<1>3. keys[k].path = Parent(p) /\ keys[k].open
    BY <1>2 DEF KeysOfDirs, Opened, Sound
<1> HIDE DEF k
<1>4. Alive(k)
    BY DEF k
<1> QED BY <1>1, <1>3, <1>4, ChangeQueues

\* The directory above is in a tree, or was found: it reports the change, or is doomed.
LEMMA ParentHears ==
    ASSUME Undisturbed, Basis, StaleDoomed, NEW p \in Path, NEW kind \in Kind \ {"overflow"}, NEW value,
           Change(p, kind, value),
           InTrees(Parent(p)) \/ Parent(p) \in DOMAIN scan.found
    PROVE  Queued([kind |-> kind, path |-> p])' \/ Doomed(Parent(p))
<1>1. ASSUME NEW map, NEW root, KeysOfDirs(keys, map, root), Opened(Sound, map), Parent(p) \in DOMAIN map,
             Alive(map[Parent(p)]) \/ Doomed(Parent(p))
      PROVE  Queued([kind |-> kind, path |-> p])' \/ Doomed(Parent(p))
    BY <1>1, LiveHears, ReusedIsLost DEF Doomed
<1>2. ASSUME NEW r \in DOMAIN rootDirectories, Parent(p) \in DOMAIN rootDirectories[r]
      PROVE  Queued([kind |-> kind, path |-> p])' \/ Doomed(Parent(p))
    <2>1. KeysOfDirs(keys, rootDirectories[r], r) /\ Opened(Sound, rootDirectories[r])
        BY DEF Basis, TreesInv, RootsTyped, OpenInv
    <2>2. Alive(rootDirectories[r][Parent(p)]) \/ Doomed(Parent(p))
        BY <1>2 DEF StaleDoomed
    <2> QED BY <1>1, <1>2, <2>1, <2>2
<1>3. CASE Parent(p) \in DOMAIN scan.found
    <2>1. KeysOfDirs(keys, scan.found, scan.root) /\ Opened(Sound, scan.found)
        BY DEF Basis, TreesInv, ScanTyped, OpenInv
    <2>2. Alive(scan.found[Parent(p)]) \/ Doomed(Parent(p))
        BY <1>3 DEF StaleDoomed
    <2> QED BY <1>1, <1>3, <2>1, <2>2
<1> QED BY <1>2, <1>3 DEF InTrees

\* A directory with a key that lives hears of the changes in it.
LEMMA LiveDirectoryHears ==
    ASSUME Undisturbed, Basis, NEW p \in Path, NEW kind \in Kind \ {"overflow"}, NEW value,
           Change(p, kind, value), Live(Parent(p))
    PROVE  Queued([kind |-> kind, path |-> p])' \/ Lost(Parent(p))
<1>1. PICK r \in DOMAIN rootDirectories :
        Parent(p) \in DOMAIN rootDirectories[r] /\ Alive(rootDirectories[r][Parent(p)])
    BY DEF Live
<1>2. KeysOfDirs(keys, rootDirectories[r], r) /\ Opened(Sound, rootDirectories[r])
    BY DEF Basis, TreesInv, RootsTyped, OpenInv
<1> QED BY <1>1, <1>2, LiveHears, ReusedIsLost

\* Whatever is in a tree is a path, and so is what a scan has found.
LEMMA MapsHoldPaths ==
    ASSUME Basis
    PROVE  /\ \A r \in DOMAIN rootDirectories : \A d \in DOMAIN rootDirectories[r] : d \in Dir /\ d \in Path
           /\ \A d \in DOMAIN scan.found \cup scan.toWatch \cup scan.toList : d \in Dir /\ d \in Path
           /\ \A d : InTrees(d) => d \in Dir /\ d \in Path
BY NioAssumption DEF Basis, TreesInv, RootsTyped, ScanTyped, KeysOfDirs, InTrees

\* The deletion of a directory in a tree, or in a scan, dooms it.
LEMMA DeletionDooms ==
    ASSUME Undisturbed, Basis, Growth, StaleDoomed, NEW d \in Path, Delete(d),
           InTrees(d) \/ d \in DOMAIN scan.found \cup scan.toWatch
    PROVE  Doomed(d)'
<1>1. d \notin Permanent /\ Change(d, "delete", "none") /\ "delete" \in Kind \ {"overflow"}
    BY DEF Delete, Kind
<1>2. Len(d) > 1 /\ Len(d) # 1
    BY <1>1, PathsAreLong, LongIsNotTop
<1>3. InTrees(Parent(d)) \/ Parent(d) \in DOMAIN scan.found
    <2>1. ASSUME NEW r \in DOMAIN rootDirectories, d \in DOMAIN rootDirectories[r] PROVE InTrees(Parent(d))
        <3>1. Parent(d) \in DOMAIN rootDirectories[r]
            BY <1>2, <2>1 DEF Growth, TreesClosed
        <3> QED BY <3>1 DEF InTrees
    <2>2. CASE d \in DOMAIN scan.found \cup scan.toWatch
        <3>1. CASE Parent(d) \in DOMAIN scan.found \ scan.toList
            BY <3>1
        <3>2. CASE scan.stage = "update" /\ d = scan.base
            <4>1. Parent(d) \in DOMAIN rootDirectories[scan.root] /\ scan.root \in DOMAIN rootDirectories
                BY <1>2, <3>2 DEF Growth, ScanOrder, Basis, TreesInv, ScanRooted
            <4> QED BY <4>1 DEF InTrees
        <3> QED BY <1>2, <2>2, <3>1, <3>2 DEF Growth, ScanOrder
    <2> QED BY <2>1, <2>2 DEF InTrees
<1>4. Queued([kind |-> "delete", path |-> d])' \/ Doomed(Parent(d))
    BY <1>1, <1>3, ParentHears
<1>5. CASE Queued([kind |-> "delete", path |-> d])'
    <2> DEFINE e == [kind |-> "delete", path |-> d]
    <2>1. e \in Event /\ e.kind = "delete" /\ StartsWith(d, e.path)
        BY StartsWithIsOrder DEF Event, Kind
    <2>2. Queued(e)'
        BY <1>5
    <2> HIDE DEF e
    <2> QED BY <2>1, <2>2 DEF Doomed, DoomQueued
<1>6. CASE Doomed(Parent(d))
    <2>1. Doomed(d)
        BY <1>2, <1>6, ParentsAreAbove, DoomIsBelow
    <2>2. AcceptsPrefix(d)
        BY DEF Growth, AllWanted
    <2>3. ~Act
        <3>1. UNCHANGED loop /\ fs' # fs
            BY <1>1 DEF Delete, Change, Basis, TreesInv, EnvironmentTyped
        <3> QED BY <3>1 DEF Act, environment
    <2>4. "dir" \in {"dir"} \cup Content
        OBVIOUS
    <2>5. Moves
        BY <2>4 DEF Moves
    <2> QED BY <2>1, <2>2, <2>3, <2>5, DoomLasts DEF Growth
<1> QED BY <1>4, <1>5, <1>6
-----------------------------------------------------------------------------
(* What is stale is doomed                                                   *)

\* A directory with its key, in a tree or found by the scan.
LEMMA HeldLasts ==
    ASSUME Undisturbed, Basis, Growth, StaleDoomed, Moves \/ UNCHANGED vars, NEW k, NEW d,
           \/ d \in DOMAIN scan.found /\ k = scan.found[d]
           \/ \E r \in DOMAIN rootDirectories : d \in DOMAIN rootDirectories[r] /\ k = rootDirectories[r][d]
    PROVE  Alive(k)' \/ Doomed(d)' \/ (Act /\ loop.kind = "delete" /\ StartsWith(d, loop.path))
<1>1. d \in Path /\ AcceptsPrefix(d) /\ (InTrees(d) \/ d \in DOMAIN scan.found)
    BY MapsHoldPaths DEF Growth, AllWanted, InTrees
<1>2. Alive(k) \/ Doomed(d)
    BY DEF StaleDoomed
<1>3. k # Invalid => keys[k].path = d
    BY DEF Basis, TreesInv, RootsTyped, ScanTyped, KeysOfDirs
<1>4. CASE Alive(k)
    <2>1. k \in DOMAIN keys /\ k # Invalid
        <3>1. k \in DOMAIN keys
            BY <1>4 DEF Alive
        <3> QED BY <3>1, KeysArePlaces DEF Basis, KeysInv, Invalid
    <2>2. Alive(k)' \/ Delete(d)
        BY <1>3, <1>4, <2>1, KeysLive
    <2> QED BY <1>1, <2>2, DeletionDooms
<1>5. CASE Doomed(d)
    BY <1>1, <1>5, DoomLasts DEF Growth
<1> QED BY <1>2, <1>4, <1>5

\* The key that a scan gets for a directory.
LEMMA WatchedLives ==
    ASSUME Undisturbed, Basis, Growth, StaleDoomed, NEW d \in Dir, ScanWatch(d), NEW n, n = KeyFor(d)
    PROVE  Alive(n)' \/ Doomed(d)'
<1>1. d \in scan.toWatch /\ d \in Path /\ AcceptsPrefix(d)
    BY WatchGoesOn, NioAssumption DEF Growth, AllWanted
<1>2. Moves /\ ~Act /\ UNCHANGED fs /\ SameQueues
    <2>1. Moves
        BY DEF Moves
    <2>2. UNCHANGED fs /\ scan' # scan /\ scan # NoScan
        BY <1>1, WatchGoesOn
    <2>3. ~Changes /\ \A k \in DOMAIN keys : ~Take(k)
        BY <2>2, TreesStay DEF Changes
    <2>4. SameQueues
        BY <2>1, <2>3, QueuesStay DEF Changes
    <2> QED BY <2>1, <2>2, <2>4 DEF Act
<1>3. Doomed(d) => Doomed(d)'
    BY <1>1, <1>2, DoomLasts DEF Growth
<1>4. Len(keys) \in Nat /\ DOMAIN keys = 1..Len(keys) /\ KeysInv /\ KeysMatch
    BY KeysArePlaces DEF Basis, KeysInv
<1>5. CASE d \in DOMAIN watchedDirectoriesByPath
    <2>1. n \in DOMAIN keys /\ keys[n].path = d /\ keys[n].open
        BY <1>4, <1>5 DEF KeysMatch, KeyFor
    <2>2. n # Invalid
        BY <1>4, <2>1 DEF Invalid
    <2>3. InTree(n) \/ InScan(n) \/ n \in ToClose
        BY <2>1 DEF Basis, ScanHolds, KeysHeld
    <2>4. ~InScan(n)
        <3> SUFFICES ASSUME NEW e \in DOMAIN scan.found, scan.found[e] = n PROVE FALSE
            BY DEF InScan
        <3>1. e = d
            BY <2>1, <2>2 DEF Basis, TreesInv, ScanTyped, KeysOfDirs
        <3> QED BY <1>1, <3>1 DEF Growth, ScanOrder
    <2>5. n \in ToClose => Doomed(d)'
        <3>1. n \in ToClose => d \in reused'
            BY <2>2 DEF ScanWatch, ToClose
        <3>2. StartsWith(d, d)
            BY <1>1, StartsWithIsOrder
        <3> QED BY <3>1, <3>2 DEF Doomed, Lost
    <2>6. ASSUME InTree(n) PROVE Alive(n) \/ Doomed(d)
        <3>1. PICK r \in DOMAIN rootDirectories :
                \E e \in DOMAIN rootDirectories[r] : rootDirectories[r][e] = n
            BY <2>6 DEF InTree
        <3> PICK e \in DOMAIN rootDirectories[r] : rootDirectories[r][e] = n
            BY <3>1
        <3>2. e = d
            BY <2>1, <2>2 DEF Basis, TreesInv, RootsTyped, KeysOfDirs
        <3> QED BY <3>2 DEF StaleDoomed
    <2>7. Alive(n) \/ Doomed(d) \/ Doomed(d)'
        BY <2>3, <2>4, <2>5, <2>6
    <2>8. Alive(n) => Alive(n)'
        BY <1>2, <2>1, SameQueuesSame
    <2> QED BY <1>3, <2>7, <2>8
<1>6. CASE d \notin DOMAIN watchedDirectoriesByPath /\ fs[d] = "dir"
    <2>1. n = Len(keys) + 1 /\ n # Invalid /\ n \notin DOMAIN keys
        BY <1>4, <1>6 DEF KeyFor, Invalid
    <2>2. n \in DOMAIN keys'
        BY <1>4, <2>1, RegisterKeeps
    <2> QED BY <1>2, <2>1, <2>2, SameQueuesSame
<1>7. CASE fs[d] # "dir"
    BY <1>1, <1>3, <1>7 DEF StaleDoomed
<1> QED BY <1>5, <1>6, <1>7

\* Where the directories of the trees come from.
LEMMA TreesComeFrom ==
    ASSUME Undisturbed, Basis, Growth, Moves \/ UNCHANGED vars,
           NEW r \in DOMAIN rootDirectories', NEW d \in DOMAIN rootDirectories'[r]
    PROVE  \/ d \in DOMAIN scan.found /\ rootDirectories'[r][d] = scan.found[d]
           \/ /\ r \in DOMAIN rootDirectories /\ d \in DOMAIN rootDirectories[r]
              /\ rootDirectories'[r][d] = rootDirectories[r][d]
              /\ Act /\ Removes(loop.kind, loop.exists) => ~StartsWith(d, loop.path)
<1>1. CASE Act
    BY <1>1, ActCuts
<1>2. CASE RegisterInit
    <2>1. ~Act
        BY <1>2 DEF RegisterInit, Act, Scanned, NoScan
    <2> QED BY <1>2, <2>1, RootArrives DEF RegisterInit
<1>3. CASE AddUpdate \/ RegisterGraft
    <2>1. ~Act
        BY <1>3 DEF AddUpdate, RegisterGraft, Act, Scanned, NoScan
    <2>2. PICK thread : Scanned(thread, "update") /\ Graft(thread)
        BY <1>3 DEF AddUpdate, RegisterGraft
    <2> QED BY <2>1, <2>2, GraftReplaces DEF Growth
<1>4. CASE ~Act /\ ~RegisterInit /\ ~AddUpdate /\ ~RegisterGraft
    BY <1>4, OnlyTreesStay
<1> QED BY <1>1, <1>2, <1>3, <1>4

LEMMA TreesHeld ==
    ASSUME Undisturbed, Basis, Growth, StaleDoomed, Moves \/ UNCHANGED vars,
           NEW r \in DOMAIN rootDirectories', NEW d \in DOMAIN rootDirectories'[r]
    PROVE  Alive(rootDirectories[r][d])' \/ Doomed(d)'
<1>1. PICK k : k = rootDirectories'[r][d]
    OBVIOUS
<1>2. Alive(k)' \/ Doomed(d)'
    <2>1. CASE d \in DOMAIN scan.found /\ k = scan.found[d]
        <3>1. ~Act
            BY <2>1 DEF Act, NoScan, NoMap
        <3> QED BY <2>1, <3>1, HeldLasts
    <2>2. CASE /\ r \in DOMAIN rootDirectories /\ d \in DOMAIN rootDirectories[r]
               /\ k = rootDirectories[r][d]
               /\ Act /\ Removes(loop.kind, loop.exists) => ~StartsWith(d, loop.path)
        <3>1. ~(Act /\ loop.kind = "delete" /\ StartsWith(d, loop.path))
            BY <2>2 DEF Removes
        <3> QED BY <2>2, <3>1, HeldLasts
    <2> QED BY <1>1, <2>1, <2>2, TreesComeFrom
<1> QED BY <1>1, <1>2

\* The scan begins at a directory that is there, or that will be found gone.
LEMMA StaleAtBegin ==
    ASSUME Undisturbed, Basis, Growth, StaleDoomed, TodoStays, NEW p \in Path,
           Add(p) \/ (GetOrAdd /\ p = call.path) \/ (RegisterUpdate /\ p = call.last), ~UNCHANGED scan
    PROVE  /\ \A d \in DOMAIN scan'.found : Alive(scan.found[d])' \/ Doomed(d)'
           /\ \A d \in scan'.toWatch : fs'[d] = "dir" \/ Doomed(d)'
<1>1. /\ scan = NoScan /\ UNCHANGED <<rootDirectories, registered, fs>>
      /\ Moves /\ ~Act /\ ~Changes
    <2>1. scan = NoScan /\ UNCHANGED <<rootDirectories, registered, fs>>
        BY ScansBegin DEF Growth, environment
    <2>2. Moves
        BY DEF Moves
    <2>3. ~Act
        BY DEF Act
    <2>4. ~Changes
        BY TreesStay DEF Changes
    <2> QED BY <2>1, <2>2, <2>3, <2>4
<1>2. \A d \in Path : AcceptsPrefix(d) /\ Doomed(d) => Doomed(d)'
    BY <1>1, DoomLasts DEF Growth
<1>3. CASE scan' = InitScan("call", p) /\ p = call.path /\ GetOrAdd
    <2>1. DOMAIN scan'.found = {} /\ scan'.toWatch = {Parent(p)}
        BY <1>3 DEF InitScan, NoMap
    <2>2. Parent(p) \in Permanent
        BY <1>3 DEF GetOrAdd, Basis, TreesInv, CallTyped
    <2>3. fs'[Parent(p)] = "dir"
        BY <1>1, <2>2 DEF Basis, TreesInv, EnvironmentTyped
    <2> QED BY <2>1, <2>3
<1>4. ASSUME NEW r \in DOMAIN rootDirectories, NEW thread, p \in Dir, StartsWith(p, r),
             scan' = UpdateScan(thread, r, p),
             \A q \in Dir : Len(q) > 1 /\ StartsWith(p, q) /\ Parent(q) \in DOMAIN rootDirectories[r] =>
                fs[q] = "dir" \/ Doomed(q),
             \A q \in Dir : StartsWith(p, q) => AcceptsPrefix(q)
      PROVE  /\ \A d \in DOMAIN scan'.found : Alive(scan.found[d])' \/ Doomed(d)'
             /\ \A d \in scan'.toWatch : fs'[d] = "dir" \/ Doomed(d)'
    <2>1. RootsTyped
        BY DEF Basis, TreesInv
    <2>2. CASE /\ scan'.toWatch = {} /\ DOMAIN scan'.found = {r}
               /\ scan'.found[r] = rootDirectories[r][r]
        <3>1. PICK k : k = rootDirectories[r][r]
            OBVIOUS
        <3>2. r \in DOMAIN rootDirectories[r]
            BY <2>1 DEF RootsTyped
        <3>3. Alive(k)' \/ Doomed(r)'
            BY <1>1, <3>1, <3>2, HeldLasts
        <3> QED BY <2>2, <3>1, <3>3
    <2>3. CASE /\ scan'.base \in Dir /\ Len(scan'.base) > 1 /\ StartsWith(p, scan'.base)
               /\ Parent(scan'.base) \in DOMAIN rootDirectories[r]
               /\ scan'.toWatch = {scan'.base} /\ DOMAIN scan'.found = {}
        <3>1. PICK q \in Dir : q = scan'.base
            BY <2>3
        <3>2. fs'[q] = "dir" \/ Doomed(q)'
            BY <1>1, <1>2, <1>4, <2>3, <3>1, NioAssumption
        <3> QED BY <2>3, <3>1, <3>2
    <2> QED BY <1>4, <2>1, <2>2, <2>3, UpdateLooks
<1>5. ASSUME p \in Dir, NEW r \in DOMAIN rootDirectories, NEW thread, StartsWith(p, r),
             scan' = UpdateScan(thread, r, p),
             \/ Add(p) /\ AcceptsPrefix(p)
             \/ RegisterUpdate /\ call.stage = "found" /\ p = call.last /\ fs[p] = "dir"
      PROVE  /\ \A d \in DOMAIN scan'.found : Alive(scan.found[d])' \/ Doomed(d)'
             /\ \A d \in scan'.toWatch : fs'[d] = "dir" \/ Doomed(d)'
    <2>1. AcceptsPrefix(p)
        BY <1>5 DEF Growth, AllWanted
    <2>2. \A q \in Dir : StartsWith(p, q) => AcceptsPrefix(q)
        BY <2>1, WantedAbove, NioAssumption DEF Growth
    <2>3. ASSUME NEW q \in Dir, Len(q) > 1, StartsWith(p, q), Parent(q) \in DOMAIN rootDirectories[r]
          PROVE  fs[q] = "dir" \/ Doomed(q)
        <3>1. CASE Add(p)
            <4>1. p = loop.path /\ loop.todo # {}
                BY <3>1, AddBegins DEF Growth
            <4>2. InTrees(Parent(q))
                BY <2>3 DEF InTrees
            <4> QED BY <2>3, <4>1, <4>2 DEF TodoStays, Doomed
        <3>2. CASE fs[p] = "dir"
            <4>1. q = p \/ fs[q] = "dir"
                BY <2>3, <3>2, AboveIsThere, NioAssumption DEF Growth
            <4> QED BY <3>2, <4>1
        <3> QED BY <1>5, <3>1, <3>2
    <2> QED BY <1>4, <1>5, <2>2, <2>3
<1> QED BY <1>3, <1>5, ScansBegin DEF Growth

LEMMA StaleDoomedInductive ==
    ASSUME Undisturbed, Basis, Growth, StaleDoomed, TodoStays, Moves \/ Close \/ UNCHANGED vars
    PROVE  StaleDoomed'
<1>1. CASE Close
    BY <1>1 DEF Close, StaleDoomed, NoScan, NoMap
<1>2. ASSUME Moves \/ UNCHANGED vars,
             \A d \in DOMAIN scan'.found : Alive(scan.found[d])' \/ Doomed(d)',
             \A d \in scan'.toWatch : fs'[d] = "dir" \/ Doomed(d)'
      PROVE  StaleDoomed'
    BY <1>2, TreesHeld DEF StaleDoomed
<1>3. ASSUME Moves \/ UNCHANGED vars, NEW d \in DOMAIN scan'.found, d \in DOMAIN scan.found,
             scan'.found[d] = scan.found[d]
      PROVE  Alive(scan.found[d])' \/ Doomed(d)'
    <2>1. PICK k : k = scan.found[d]
        OBVIOUS
    <2>2. ~Act
        BY <1>3 DEF Act, NoScan, NoMap
    <2>3. Alive(k)' \/ Doomed(d)'
        BY <1>3, <2>1, <2>2, HeldLasts
    <2> QED BY <1>3, <2>1, <2>3
<1>4. ASSUME Moves \/ UNCHANGED vars, NEW d \in scan.toWatch PROVE fs'[d] = "dir" \/ Doomed(d)'
    <2>1. d \in Path /\ AcceptsPrefix(d) /\ (fs[d] = "dir" \/ Doomed(d))
        BY MapsHoldPaths DEF Growth, AllWanted, StaleDoomed
    <2>2. ~Act
        BY DEF Act, NoScan
    <2>3. Doomed(d) => Doomed(d)'
        BY <1>4, <2>1, <2>2, DoomLasts DEF Growth
    <2>4. ASSUME fs[d] = "dir", fs'[d] # "dir" PROVE Delete(d)
        <3>1. fs' # fs
            BY <2>4
        <3>2. Changes
            BY <1>4, <3>1, ClosesOnly DEF Moves, Changes, Register, ScanWatch, ScanList, Take, Look, Act, AddUpdate, Report,
               Add, GetOrAdd, RegisterInit, RegisterFind, RegisterUpdate, RegisterGraft, Return, vars, environment
        <3>3. PICK p \in Path, value \in {"dir"} \cup Content : Create(p, value) \/ Modify(p, value) \/ Delete(p)
            BY <3>2 DEF Changes
        <3>4. fs \in [Path -> {"none", "dir"} \cup Content]
            BY DEF Basis, TreesInv, EnvironmentTyped
        <3>5. CASE Create(p, value)
            <4>1. fs[p] = "none" /\ fs' = [fs EXCEPT ![p] = value]
                BY <3>5 DEF Create, Change
            <4> QED BY <2>1, <2>4, <3>4, <4>1
        <3>6. CASE Modify(p, value)
            <4>1. fs[p] \in Content /\ fs' = [fs EXCEPT ![p] = value]
                BY <3>6 DEF Modify, Change
            <4> QED BY <2>1, <2>4, <3>4, <4>1, NioAssumption
        <3>7. CASE Delete(p)
            <4>1. fs' = [fs EXCEPT ![p] = "none"]
                BY <3>7 DEF Delete, Change
            <4> QED BY <2>1, <2>4, <3>4, <3>7, <4>1
        <3> QED BY <3>3, <3>5, <3>6, <3>7
    <2> QED BY <2>1, <2>3, <2>4, DeletionDooms
<1>5. ASSUME Moves \/ UNCHANGED vars, UNCHANGED scan PROVE StaleDoomed'
    BY <1>2, <1>3, <1>4, <1>5
<1>6. ASSUME NEW d \in Dir, ScanWatch(d) PROVE StaleDoomed'
    <2>1. Moves
        BY <1>6 DEF Moves
    <2>2. PICK n : n = KeyFor(d)
        OBVIOUS
    <2>3. Alive(n)' \/ Doomed(d)'
        BY <1>6, <2>2, WatchedLives
    <2>4. /\ DOMAIN scan'.found = DOMAIN scan.found \cup {d} /\ scan'.found[d] = n
          /\ \A e \in DOMAIN scan.found \ {d} : scan'.found[e] = scan.found[e]
          /\ scan'.toWatch \subseteq scan.toWatch
        BY <1>6, <2>2, WatchGoesOn
    <2>5. \A e \in DOMAIN scan'.found : Alive(scan.found[e])' \/ Doomed(e)'
        BY <1>3, <2>1, <2>3, <2>4
    <2> QED BY <1>2, <1>4, <2>1, <2>4, <2>5
<1>7. ASSUME NEW d \in Dir, ScanList(d) PROVE StaleDoomed'
    <2>1. Moves /\ UNCHANGED fs
        BY <1>7, ListGoesOn DEF Moves
    <2>2. /\ scan'.toWatch \subseteq scan.toWatch \cup Listed(d)
          /\ \A e \in DOMAIN scan'.found : e \in DOMAIN scan.found /\ scan'.found[e] = scan.found[e]
        BY <1>7, ListGoesOn
    <2>3. \A q \in Listed(d) : fs'[q] = "dir"
        BY <2>1 DEF Listed
    <2> QED BY <1>2, <1>3, <1>4, <2>1, <2>2, <2>3
<1>8. ASSUME NEW p \in Path,
             Add(p) \/ (GetOrAdd /\ p = call.path) \/ (RegisterUpdate /\ p = call.last)
      PROVE  StaleDoomed'
    <2>1. Moves
        BY <1>8 DEF Moves
    <2> QED BY <1>2, <1>5, <1>8, <2>1, StaleAtBegin
<1>9. CASE Act \/ AddUpdate \/ RegisterInit \/ RegisterGraft
    <2>1. scan' = NoScan /\ Moves
        BY <1>9 DEF Act, AddUpdate, RegisterInit, RegisterGraft, Graft, AddRoot, Moves
    <2>2. DOMAIN scan'.found = {} /\ scan'.toWatch = {}
        BY <2>1 DEF NoScan, NoMap
    <2> QED BY <1>2, <2>1, <2>2
<1>10. CASE GetOrAdd
    <2>1. call.path \in Path
        BY <1>10 DEF GetOrAdd, Basis, TreesInv, CallTyped
    <2> QED BY <1>8, <1>10, <2>1
<1>11. CASE RegisterUpdate
    <2>1. call.last \in Path
        BY <1>11, NioAssumption DEF RegisterUpdate, Basis, TreesInv, CallTyped
    <2> QED BY <1>8, <1>11, <2>1
<1> QED BY <1>1, <1>5, <1>6, <1>7, <1>8, <1>9, <1>10, <1>11, TreesStay DEF Moves
-----------------------------------------------------------------------------
(* What comes and goes while the loop thread is at work                      *)

\* A path that is not what it was has changed.
LEMMA FilesMove ==
    ASSUME Basis, Moves \/ UNCHANGED vars, NEW p \in Path, fs'[p] # fs[p]
    PROVE  /\ \/ \E value \in {"dir"} \cup Content : Create(p, value)
              \/ \E value \in {"dir"} \cup Content : Modify(p, value)
              \/ Delete(p) /\ fs'[p] = "none"
           /\ UNCHANGED <<rootDirectories, registered, scan, loop, call, closed, monitored, known>>
<1>1. fs' # fs
    OBVIOUS
<1>2. Changes
    BY <1>1, ClosesOnly DEF Moves, Changes, Register, ScanWatch, ScanList, Take, Look, Act, AddUpdate, Report,
       Add, GetOrAdd, RegisterInit, RegisterFind, RegisterUpdate, RegisterGraft, Return, vars, environment
<1>3. PICK q \in Path, value \in {"dir"} \cup Content : Create(q, value) \/ Modify(q, value) \/ Delete(q)
    BY <1>2 DEF Changes
<1>4. fs \in [Path -> {"none", "dir"} \cup Content]
    BY DEF Basis, TreesInv, EnvironmentTyped
<1>5. \E kind, after : Change(q, kind, after)
    BY <1>3 DEF Create, Modify, Delete
<1>6. PICK after : fs' = [fs EXCEPT ![q] = after]
    BY <1>5 DEF Change
<1>7. q = p
    BY <1>4, <1>6
<1>8. Delete(p) => fs'[p] = "none"
    <2> SUFFICES ASSUME Delete(p) PROVE fs'[p] = "none"
        OBVIOUS
    <2>1. fs' = [fs EXCEPT ![p] = "none"]
        BY DEF Delete, Change
    <2> QED BY <1>4, <2>1
<1>9. UNCHANGED <<rootDirectories, registered, scan, loop, call, closed, monitored, known>>
    BY <1>5 DEF Change
<1> QED BY <1>3, <1>7, <1>8, <1>9

\* Two topmost directories, one above the other, are one.
LEMMA TopsMeet ==
    ASSUME NEW p \in Path, Len(p) = 1, NEW q \in Path, Len(q) = 1, StartsWith(p, q)
    PROVE  p = q
<1>1. Len(q) \in 1..Len(p) /\ q = SubSeq(p, 1, Len(q)) /\ Len(q) = Len(p)
    BY PrefixIsPath
<1> DEFINE n == Len(q)
<1>2. n \in 1..Len(p) /\ q = SubSeq(p, 1, n) /\ n = Len(p)
    BY <1>1
<1> HIDE DEF n
<1> QED BY <1>2, PrefixIsThere

\* No key has the number of an invalid one.
LEMMA KeysStay ==
    ASSUME Basis, Moves \/ UNCHANGED vars
    PROVE  0 \notin DOMAIN keys'
<1>1. [Next]_vars
    BY DEF Moves, Closes, Next, Scan, Loop, Calling
<1>2. keys' \in Seq(Key)
    BY <1>1, KeysInductive DEF Basis, KeysInv
<1> QED BY <1>2

\* A key of a tree that lives has lived.
LEMMA KeysLived ==
    ASSUME Undisturbed, Basis, Moves \/ UNCHANGED vars, NEW r \in DOMAIN rootDirectories,
           NEW d \in DOMAIN rootDirectories[r], NEW k, k = rootDirectories[r][d], Alive(k)'
    PROVE  Live(d)
<1>1. k \in DOMAIN keys'
    BY DEF Alive
<1>2. k \in DOMAIN keys
    <2>1. k # Invalid
        BY <1>1, KeysStay DEF Invalid
    <2> QED BY <2>1 DEF Basis, TreesInv, RootsTyped, KeysOfDirs
<1>3. Alive(k)
    BY <1>2, KeysLive
<1> QED BY <1>3 DEF Live

\* Only a scan of the loop thread, or of register, brings directories into trees.
LEMMA LiveComesFrom ==
    ASSUME Undisturbed, Basis, Growth, Moves \/ UNCHANGED vars, NEW d, Live(d)'
    PROVE  Live(d) \/ ((AddUpdate \/ RegisterInit \/ RegisterGraft) /\ d \in DOMAIN scan.found)
<1>1. PICK r \in DOMAIN rootDirectories' :
        d \in DOMAIN rootDirectories'[r] /\ Alive(rootDirectories[r][d])'
    BY DEF Live
<1>2. PICK k : k = rootDirectories'[r][d]
    OBVIOUS
<1>3. Alive(k)'
    BY <1>1, <1>2
<1>4. CASE r \in DOMAIN rootDirectories /\ d \in DOMAIN rootDirectories[r] /\ k = rootDirectories[r][d]
    BY <1>3, <1>4, KeysLived
<1>5. CASE d \in DOMAIN scan.found
    <2>1. CASE AddUpdate \/ RegisterInit \/ RegisterGraft
        BY <1>5, <2>1
    <2>2. CASE ~AddUpdate /\ ~RegisterInit /\ ~RegisterGraft
        <3>1. ~Act
            BY <1>5 DEF Act, NoScan, NoMap
        <3>2. UNCHANGED rootDirectories
            BY <2>2, <3>1, OnlyTreesStay
        <3> QED BY <1>1, <1>2, <1>4, <3>2
    <2> QED BY <2>1, <2>2
<1> QED BY <1>1, <1>2, <1>4, <1>5, TreesComeFrom

\* Otherwise the trees lose directories, and never a new one comes.
LEMMA TreesLose ==
    ASSUME Undisturbed, Basis, Moves \/ UNCHANGED vars, ~AddUpdate, ~RegisterInit, ~RegisterGraft,
           NEW d, InTrees(d)'
    PROVE  InTrees(d)
<1>1. CASE Act
    BY <1>1, ActCuts DEF InTrees
<1>2. CASE ~Act
    BY <1>2, OnlyTreesStay DEF InTrees
<1> QED BY <1>1, <1>2

\* The topmost directories live.
LEMMA TopsLive ==
    ASSUME Undisturbed, Basis, StaleDoomed, NEW d \in Path, Len(d) = 1, InTrees(d)
    PROVE  Live(d)
BY RootsAreNotDoomed DEF StaleDoomed, InTrees, Live

\* The loop thread comes to act by its look alone.
LEMMA ActingComesFrom ==
    ASSUME Basis, Turns, Moves \/ UNCHANGED vars, loop'.stage = "acting"
    PROVE  UNCHANGED loop \/ (Look /\ AcceptsPrefix(loop.path))
<1>1. CASE Look
    BY <1>1 DEF Look, Waiting
<1>2. CASE Act
    BY <1>2 DEF Act, Acted, LoopWith
<1>3. CASE \E k \in DOMAIN keys : Take(k)
    BY <1>3 DEF Take
<1>4. CASE Report
    BY <1>4 DEF Report, Waiting
<1>5. ASSUME NEW p \in Path, Add(p) PROVE UNCHANGED loop
    <2>1. loop.stage = "adding" /\ (UNCHANGED loop \/ loop' = [loop EXCEPT !.todo = @ \ {p}])
        BY <1>5 DEF Add
    <2>2. loop = [stage |-> loop.stage, path |-> loop.path, kind |-> loop.kind,
                  exists |-> loop.exists, todo |-> loop.todo, told |-> loop.told]
        BY DEF Basis, TreesInv, LoopTyped
    <2>3. CASE loop' = [loop EXCEPT !.todo = @ \ {p}]
        <3>1. loop'.stage = loop.stage
            BY <2>2, <2>3
        <3> QED BY <2>1, <3>1
    <2> QED BY <2>1, <2>3
<1>6. CASE AddUpdate
    <2>1. loop.stage = "adding" /\ \E told : loop' = [loop EXCEPT !.told = told]
        BY <1>6 DEF AddUpdate, Scanned, Turns, LoopScans, CallScans, NoScan
    <2> QED BY <2>1
<1>7. ASSUME NEW p \in Path, NEW value \in {"dir"} \cup Content,
             Create(p, value) \/ Modify(p, value) \/ Delete(p)
      PROVE  UNCHANGED loop
    BY <1>7 DEF Create, Modify, Delete, Change
<1>8. ASSUME NEW p \in Path, NEW maxDepth \in Depth, Register(p, maxDepth) PROVE UNCHANGED loop
    BY <1>8 DEF Register
<1>9. ASSUME NEW d \in Dir, ScanWatch(d) \/ ScanList(d) PROVE UNCHANGED loop
    BY <1>9 DEF ScanWatch, ScanList
<1>10. ASSUME GetOrAdd \/ RegisterInit \/ RegisterFind \/ RegisterUpdate \/ RegisterGraft \/ Return
             \/ Closes \/ UNCHANGED vars
      PROVE  UNCHANGED loop
    BY <1>10, ClosesOnly DEF GetOrAdd, RegisterInit, RegisterFind, RegisterUpdate, RegisterGraft, Return, vars
<1> QED BY <1>1, <1>2, <1>3, <1>4, <1>5, <1>6, <1>7, <1>8, <1>9, <1>10 DEF Moves

\* The steps of a scan that register makes, when the loop thread holds its lock.
LEMMA CallBringsTops ==
    ASSUME Undisturbed, Basis, Growth, StaleDoomed, OneLevel \/ NotBoth, LoopLocked,
           RegisterInit \/ RegisterGraft, NEW d \in DOMAIN scan.found, NEW p \in Dir, Len(p) > 1, d = Parent(p)
    PROVE  Live(d)
<1>1. scan.by = "call" /\ ~RegisterInit /\ RegisterGraft
    BY DEF RegisterInit, RegisterGraft, Scanned, Growth, Turns, LoopScans, CallScans, NoScan
<1>2. OneLevel
    BY <1>1 DEF NotBoth
<1>3. d \in Path /\ Len(d) = 1
    <2>1. d \in Permanent
        BY <1>2 DEF OneLevel
    <2> QED BY <2>1, NioAssumption DEF Undisturbed
<1>4. d = scan.root /\ scan.root \in DOMAIN rootDirectories /\ scan.root \in Path
    <2>1. StartsWith(d, scan.root) /\ scan.root \in DOMAIN rootDirectories /\ scan.root \in Path
        BY <1>1, NioAssumption DEF RegisterGraft, Scanned, Basis, TreesInv, ScanTyped, ScanRooted, RootsTyped,
           KeysOfDirs
    <2>2. Len(scan.root) = 1 /\ Len(d) = 1
        BY <1>3, <2>1, NioAssumption DEF Basis, TreesInv, RootsTyped, Undisturbed
    <2> QED BY <1>3, <2>1, <2>2, TopsMeet
<1>5. InTrees(d)
    BY <1>4 DEF Basis, TreesInv, RootsTyped, InTrees
<1> QED BY <1>3, <1>5, TopsLive
-----------------------------------------------------------------------------
(* What the loop thread is about to add                                      *)

\* A deletion that waits stays in the queue while the loop thread is busy.
LEMMA DoomQueuedLasts ==
    ASSUME Undisturbed, Basis, Moves \/ UNCHANGED vars, loop.stage # "waiting", NEW d, DoomQueued(d)
    PROVE  DoomQueued(d)'
<1>1. \A k : ~Take(k)
    BY DEF Take
<1>2. PICK e \in Event : Queued(e) /\ e.kind = "delete" /\ StartsWith(d, e.path)
    BY DEF DoomQueued
<1>3. Queued(e)'
    BY <1>1, <1>2, QueuedLasts
<1> QED BY <1>2, <1>3 DEF DoomQueued

\* Nothing else gives the loop thread a path to add.
LEMMA TodoComesFrom ==
    ASSUME Undisturbed, Basis, Turns, Moves \/ UNCHANGED vars,
           (loop'.stage = "acting" /\ loop'.exists) \/ loop'.todo # {}
    PROVE  \/ UNCHANGED loop
           \/ Look /\ AcceptsPrefix(loop.path)
           \/ Act /\ loop'.path = loop.path /\ loop.exists /\ loop.stage = "acting"
<1>1. CASE Look
    BY <1>1 DEF Look, Waiting
<1>2. CASE Act
    <2>1. loop' = LoopWith("adding", loop.exists,
                               IF loop.exists /\ loop.path \in Dir THEN {loop.path} ELSE {},
                               loop'.told)
        BY <1>2, ActCuts
    <2>2. loop.stage = "acting"
        BY <1>2 DEF Act
    <2>3. PICK exists, todo, told :
            loop' = LoopWith("adding", exists, todo, told) /\ (todo # {} => loop.exists)
        BY <2>1
    <2>4. loop'.stage = "adding" /\ loop'.path = loop.path /\ loop'.todo = todo
        BY <2>3 DEF LoopWith
    <2> QED BY <1>2, <2>2, <2>3, <2>4
<1>3. CASE \E k \in DOMAIN keys : Take(k)
    BY <1>3 DEF Take
<1>4. CASE Report
    BY <1>4 DEF Report, Waiting
<1>5. loop = [stage |-> loop.stage, path |-> loop.path, kind |-> loop.kind,
              exists |-> loop.exists, todo |-> loop.todo, told |-> loop.told]
    BY DEF Basis, TreesInv, LoopTyped
<1>6. ASSUME NEW p \in Path, Add(p) PROVE UNCHANGED loop
    <2>1. loop.stage = "adding" /\ p \in loop.todo
          /\ (UNCHANGED loop \/ loop' = [loop EXCEPT !.todo = @ \ {p}])
        BY <1>6 DEF Add
    <2>2. CASE loop' = [loop EXCEPT !.todo = @ \ {p}]
        <3>1. loop'.stage = loop.stage /\ loop'.todo = loop.todo \ {p}
            BY <1>5, <2>2
        <3>2. loop'.todo = {}
            BY <2>1, <3>1 DEF Turns
        <3> QED BY <2>1, <3>1, <3>2
    <2> QED BY <2>1, <2>2
<1>7. CASE AddUpdate
    <2>1. loop.stage = "adding" /\ loop.todo = {} /\ \E told : loop' = [loop EXCEPT !.told = told]
        BY <1>7 DEF AddUpdate, Scanned, Turns, LoopScans, CallScans, NoScan
    <2>2. PICK told : loop' = [loop EXCEPT !.told = told]
        BY <2>1
    <2>3. loop'.stage = "adding" /\ loop'.todo = {}
        BY <1>5, <2>1, <2>2
    <2> QED BY <2>3
<1>8. ASSUME NEW p \in Path, NEW value \in {"dir"} \cup Content,
             Create(p, value) \/ Modify(p, value) \/ Delete(p)
      PROVE  UNCHANGED loop
    BY <1>8 DEF Create, Modify, Delete, Change
<1>9. ASSUME NEW p \in Path, NEW maxDepth \in Depth, Register(p, maxDepth) PROVE UNCHANGED loop
    BY <1>9 DEF Register
<1>10. ASSUME NEW d \in Dir, ScanWatch(d) \/ ScanList(d) PROVE UNCHANGED loop
    BY <1>10 DEF ScanWatch, ScanList
<1>11. ASSUME GetOrAdd \/ RegisterInit \/ RegisterFind \/ RegisterUpdate \/ RegisterGraft \/ Return
             \/ Closes \/ UNCHANGED vars
      PROVE  UNCHANGED loop
    BY <1>11, ClosesOnly DEF GetOrAdd, RegisterInit, RegisterFind, RegisterUpdate, RegisterGraft, Return, vars
<1> QED BY <1>1, <1>2, <1>3, <1>4, <1>6, <1>7, <1>8, <1>9, <1>10, <1>11 DEF Moves

\* The directory above enters the trees before the loop thread looks, or is topmost.
LEMMA AboveWasThere ==
    ASSUME Undisturbed, Basis, Growth, StaleDoomed, OneLevel \/ NotBoth, Moves \/ UNCHANGED vars,
           loop.stage = "acting" \/ loop.todo # {},
           NEW d \in Dir, Len(d) > 1, InTrees(Parent(d))'
    PROVE  InTrees(Parent(d))
<1>1. PICK q : q = Parent(d)
    OBVIOUS
<1>2. ~AddUpdate
    <2>1. ASSUME AddUpdate PROVE loop.todo = {} /\ loop.stage = "adding"
        BY <2>1 DEF AddUpdate, Scanned, Growth, Turns, LoopScans, CallScans, NoScan
    <2> QED BY <2>1
<1>3. LoopLocked
    BY DEF LoopLocked, Basis, TreesInv, LoopTyped
<1>4. CASE RegisterInit \/ RegisterGraft
    <2>1. PICK r \in DOMAIN rootDirectories' : q \in DOMAIN rootDirectories'[r]
        BY <1>1 DEF InTrees
    <2>2. q \in DOMAIN scan.found \/ InTrees(q)
        BY <2>1, TreesComeFrom DEF InTrees
    <2>3. q \in DOMAIN scan.found => Live(q)
        BY <1>1, <1>3, <1>4, CallBringsTops
    <2> QED BY <1>1, <2>2, <2>3 DEF Live, InTrees
<1>5. CASE ~RegisterInit /\ ~RegisterGraft
    <2>1. InTrees(q)'
        BY <1>1
    <2>2. InTrees(q)
        BY <1>2, <1>5, <2>1, TreesLose
    <2> QED BY <1>1, <2>2
<1> QED BY <1>4, <1>5

LEMMA TodoStaysInductive ==
    ASSUME Undisturbed, Basis, Growth, StaleDoomed, TodoStays, OneLevel \/ NotBoth,
           Moves \/ Close \/ UNCHANGED vars
    PROVE  TodoStays'
<1>1. CASE Close
    BY <1>1 DEF Close, TodoStays, Waiting
<1>2. CASE Moves \/ UNCHANGED vars
    <2> SUFFICES ASSUME (loop'.stage = "acting" /\ loop'.exists) \/ loop'.todo # {},
                        NEW d \in Dir, StartsWith(loop'.path, d), Len(d) > 1, InTrees(Parent(d))',
                        ~Lost(d)'
                 PROVE  fs'[d] = "dir" \/ DoomQueued(d)'
        BY DEF TodoStays
    <2>1. d \in Path
        BY NioAssumption
    <2>6. ~Lost(d)
        BY <1>2, LostLasts
    <2>7. ~Lost(Parent(d))
        BY <2>1, <2>6, ParentsAreAbove, LostIsBelow
    <2>2. ASSUME fs[d] = "dir" \/ DoomQueued(d), loop.stage # "waiting", UNCHANGED loop, InTrees(Parent(d))
          PROVE  fs'[d] = "dir" \/ DoomQueued(d)'
        <3>1. DoomQueued(d) => DoomQueued(d)'
            BY <1>2, <2>2, DoomQueuedLasts
        <3>2. ASSUME fs[d] = "dir", fs'[d] # "dir" PROVE DoomQueued(d)'
            <4>1. Delete(d)
                <5>1. fs'[d] # fs[d]
                    BY <3>2
                <5>2. \A value : ~Create(d, value) /\ ~Modify(d, value)
                    BY <3>2, NioAssumption DEF Create, Modify
                <5> QED BY <1>2, <2>1, <5>1, <5>2, FilesMove
            <4>2. Change(d, "delete", "none") /\ "delete" \in Kind \ {"overflow"}
                BY <4>1 DEF Delete, Kind
            <4>3. Queued([kind |-> "delete", path |-> d])' \/ Doomed(Parent(d))
                BY <2>1, <2>2, <4>2, ParentHears
            <4>4. CASE Queued([kind |-> "delete", path |-> d])'
                <5> DEFINE e == [kind |-> "delete", path |-> d]
                <5>1. e \in Event /\ e.kind = "delete" /\ StartsWith(d, e.path)
                    BY <2>1, StartsWithIsOrder DEF Event, Kind
                <5>2. Queued(e)'
                    BY <4>4
                <5> HIDE DEF e
                <5> QED BY <5>1, <5>2 DEF DoomQueued
            <4>5. CASE Doomed(Parent(d))
                <5>1. Parent(d) \in Path /\ StartsWith(d, Parent(d)) /\ ~StartsWith(Parent(d), d)
                    BY <2>1, ParentsAreAbove
                <5>2. loop.path \in Path /\ StartsWith(loop.path, d)
                    BY <2>2 DEF Basis, TreesInv, LoopTyped
                <5>3. ~StartsWith(Parent(d), loop.path)
                    BY <2>1, <5>1, <5>2, StartsWithIsOrder
                <5>4. DoomQueued(Parent(d))
                    BY <2>7, <4>5, <5>3 DEF Doomed
                <5>5. PICK e \in Event : Queued(e) /\ e.kind = "delete" /\ StartsWith(Parent(d), e.path)
                    BY <5>4 DEF DoomQueued
                <5>6. e.path \in Path
                    BY DEF Event
                <5>7. StartsWith(d, e.path)
                    BY <2>1, <5>1, <5>5, <5>6, StartsWithIsOrder
                <5>8. DoomQueued(d)
                    BY <5>5, <5>7 DEF DoomQueued
                <5> QED BY <3>1, <5>8
            <4> QED BY <4>3, <4>4, <4>5
        <3> QED BY <2>2, <3>1, <3>2
    <2>3. CASE UNCHANGED loop
        <3>1. loop.stage \in {"acting", "adding"}
            BY <2>3 DEF Basis, TreesInv, LoopTyped
        <3>2. InTrees(Parent(d))
            BY <1>2, <2>3, AboveWasThere
        <3>3. fs[d] = "dir" \/ DoomQueued(d)
            BY <2>3, <2>6, <3>2 DEF TodoStays
        <3> QED BY <2>2, <2>3, <3>1, <3>2, <3>3
    <2>4. CASE Look /\ AcceptsPrefix(loop.path)
        <3>1. fs[loop.path] # "none" /\ loop'.path = loop.path /\ UNCHANGED fs
            <4>1. loop'.stage = "acting" /\ loop'.path = loop.path /\ loop'.exists = (fs[loop.path] # "none")
                BY <2>4, LookGoesOn
            <4>2. UNCHANGED fs
                BY <2>4 DEF Look, environment
            <4>3. loop'.todo = {}
                BY <2>4 DEF Look, LoopWith
            <4> QED BY <4>1, <4>2, <4>3
        <3>2. loop.path \in Path
            BY <2>4 DEF Look, Basis, TreesInv, LoopTyped
        <3>3. CASE loop.path = d
            BY <2>1, <3>1, <3>3 DEF Growth, Files
        <3>4. CASE loop.path # d
            <4>1. fs[d] = "dir"
                BY <2>1, <3>1, <3>2, <3>4, AboveIsThere DEF Growth
            <4> QED BY <3>1, <4>1
        <3> QED BY <3>3, <3>4
    <2>5. CASE Act /\ loop'.path = loop.path /\ loop.exists /\ loop.stage = "acting"
        <3>1. UNCHANGED fs
            BY <2>5, ActCuts
        <3>2. InTrees(Parent(d))
            BY <1>2, <2>5, AboveWasThere
        <3>3. fs[d] = "dir" \/ DoomQueued(d)
            BY <2>5, <2>6, <3>2 DEF TodoStays
        <3> QED BY <1>2, <2>5, <3>1, <3>3, DoomQueuedLasts
    <2> QED BY <1>2, <2>3, <2>4, <2>5, TodoComesFrom DEF Growth
<1> QED BY <1>1, <1>2

LEMMA LookedAwayInductive ==
    ASSUME Undisturbed, Basis, Growth, StaleDoomed, LookedAway, OneLevel \/ NotBoth,
           Moves \/ Close \/ UNCHANGED vars
    PROVE  LookedAway'
<1>1. CASE Close
    BY <1>1 DEF Close, LookedAway, Waiting
<1>2. CASE Moves \/ UNCHANGED vars
    <2> SUFFICES ASSUME loop'.stage = "acting", ~loop'.exists, loop'.path \in Dir,
                        fs'[loop'.path] # "none", Live(Parent(loop.path))', ~Lost(loop.path)'
                 PROVE  PathQueued(loop.path)'
        BY DEF LookedAway
    <2>1. PICK p : p = loop'.path
        OBVIOUS
    <2>2. CASE Look /\ AcceptsPrefix(loop.path)
        <3>1. fs[loop.path] = "none" /\ loop'.path = loop.path /\ UNCHANGED fs
            <4>1. loop'.stage = "acting" /\ loop'.path = loop.path /\ loop'.exists = (fs[loop.path] # "none")
                BY <2>2, LookGoesOn
            <4>2. UNCHANGED fs
                BY <2>2 DEF Look, environment
            <4>3. loop'.todo = {}
                BY <2>2 DEF Look, LoopWith
            <4> QED BY <4>1, <4>2, <4>3
        <3> QED BY <3>1
    <2>3. CASE UNCHANGED loop
        <3>1. /\ p = loop.path /\ p \in Dir /\ p \in Path /\ Len(p) > 1
              /\ loop.stage = "acting" /\ ~loop.exists /\ fs'[p] # "none"
            <4>1. p = loop.path /\ p \in Dir /\ loop.stage = "acting" /\ ~loop.exists /\ fs'[p] # "none"
                BY <2>1, <2>3
            <4>2. p \notin Permanent /\ p \in Path
                BY <4>1 DEF Basis, TreesInv, LoopTyped, NoneOverflows
            <4> QED BY <4>1, <4>2, PathsAreLong
        <3>2. PICK q : q = Parent(p)
            OBVIOUS
        <3>3. Live(q)'
            BY <2>1, <3>2
        <3>4. Live(q)
            <4>1. LoopLocked /\ ~AddUpdate
                <5>1. AddUpdate => loop.stage = "adding"
                    BY DEF AddUpdate, Scanned, Growth, Turns, LoopScans, CallScans, NoScan
                <5> QED BY <3>1, <5>1 DEF LoopLocked
            <4> QED BY <1>2, <3>1, <3>2, <3>3, <4>1, LiveComesFrom, CallBringsTops
        <3>7. ~Lost(p) /\ ~Lost(q)
            <4>1. ~Lost(p)'
                BY <2>1
            <4>2. ~Lost(p)
                BY <1>2, <4>1, LostLasts
            <4> QED BY <3>1, <3>2, <4>2, ParentsAreAbove, LostIsBelow
        <3>5. CASE fs[p] = "none"
            <4>1. PICK value : Create(p, value)
                <5>1. fs'[p] # fs[p]
                    BY <3>1, <3>5
                <5>2. (\A value : ~Modify(p, value)) /\ ~Delete(p)
                    BY <3>5, NioAssumption DEF Modify, Delete
                <5> QED BY <1>2, <3>1, <5>1, <5>2, FilesMove
            <4>2. Change(p, "create", value) /\ "create" \in Kind \ {"overflow"}
                BY <4>1 DEF Create, Kind
            <4>3. Queued([kind |-> "create", path |-> p])'
                BY <3>1, <3>2, <3>4, <3>7, <4>2, LiveDirectoryHears
            <4> DEFINE e == [kind |-> "create", path |-> p]
            <4>4. e \in Event /\ e.path = p
                BY <3>1 DEF Event, Kind
            <4>5. Queued(e)'
                BY <4>3
            <4> HIDE DEF e
            <4>6. PathQueued(p)'
                BY <4>4, <4>5 DEF PathQueued
            <4> QED BY <2>1, <4>6
        <3>6. CASE fs[p] # "none"
            <4>1. PathQueued(p)
                BY <3>1, <3>2, <3>4, <3>6, <3>7 DEF LookedAway
            <4>2. loop'.stage # "taken"
                OBVIOUS
            <4>3. PathQueued(p)'
                BY <1>2, <4>1, <4>2, PathQueuedLasts
            <4> QED BY <2>1, <4>3
        <3> QED BY <3>5, <3>6
    <2> QED BY <1>2, <2>2, <2>3, ActingComesFrom DEF Growth
<1> QED BY <1>1, <1>2
-----------------------------------------------------------------------------
(* What appears below a directory that the scan has listed                   *)

\* A registration comes first; what is wanted stays the same after it.
LEMMA WantedStays ==
    ASSUME Undisturbed, Basis, OneCall, Turns, Moves \/ UNCHANGED vars
    PROVE  \/ UNCHANGED registered /\ \A d : AcceptsPrefix(d)' <=> AcceptsPrefix(d)
           \/ Fresh /\ UNCHANGED <<fs, scan, rootDirectories, loop, keys>>
<1>1. ASSUME NEW p \in Path, NEW n \in Depth, Register(p, n)
      PROVE  Fresh /\ UNCHANGED <<fs, scan, rootDirectories, loop, keys>>
    BY <1>1 DEF Register, OneCall, service
<1>2. CASE Return
    <2>1. UNCHANGED registered
        BY <1>2 DEF Return
    <2> QED BY <2>1 DEF AcceptsPrefix
<1>3. ASSUME \A p \in Path, n \in Depth : ~Register(p, n), ~Return
      PROVE  UNCHANGED registered /\ \A d : AcceptsPrefix(d)' <=> AcceptsPrefix(d)
    <2>1. UNCHANGED registered
        BY <1>3, RegistrationStays
    <2> QED BY <2>1 DEF AcceptsPrefix
<1>4. Return => UNCHANGED registered
    BY DEF Return
<1> QED BY <1>1, <1>2, <1>3, <1>4

\* A directory that appears was created.
LEMMA DirectoryAppears ==
    ASSUME Undisturbed, Basis, Files, Moves \/ UNCHANGED vars,
           NEW d \in Dir, fs'[d] = "dir", fs[d] # "dir"
    PROVE  /\ \E value : Change(d, "create", value)
           /\ UNCHANGED <<rootDirectories, registered, scan, loop, call, closed, monitored, known>>
<1>1. d \in Path /\ fs'[d] # fs[d]
    BY NioAssumption
<1>2. fs[d] = "none"
    BY <1>1 DEF Files
<1>3. \A value : ~Modify(d, value)
    BY <1>2, NioAssumption DEF Modify
<1>4. PICK value : Create(d, value)
    BY <1>1, <1>2, <1>3, FilesMove DEF Delete
<1> QED BY <1>1, <1>4, FilesMove DEF Create

\* An event in the queue is to come.
LEMMA QueuedIsPending ==
    ASSUME NEW p \in Path, NEW kind \in Kind, Queued([kind |-> kind, path |-> p])'
    PROVE  Pending(p)'
<1> DEFINE e == [kind |-> kind, path |-> p]
<1>1. e \in Event /\ e.path = p
    BY DEF Event
<1>2. Queued(e)'
    OBVIOUS
<1> HIDE DEF e
<1> QED BY <1>1, <1>2 DEF Pending, PathQueued

\* A directory that a scan is to find, and that appears now.
LEMMA ScanHears ==
    ASSUME Undisturbed, Basis, Growth, StaleDoomed, Moves \/ UNCHANGED vars,
           NEW d \in Dir, Len(d) > 1, fs'[d] = "dir", fs[d] # "dir", AcceptsPrefix(d), Scanning(d)
    PROVE  Doomed(d)' \/ Pending(d)'
<1>1. d \in Path
    BY NioAssumption
<1>2. PICK value : Change(d, "create", value) /\ UNCHANGED scan
    BY DirectoryAppears DEF Growth
<1>3. InTrees(Parent(d)) \/ Parent(d) \in DOMAIN scan.found
    <2>1. CASE scan.stage = "update" /\ d = scan.base
        <3>1. Parent(d) \in DOMAIN rootDirectories[scan.root] /\ scan.root \in DOMAIN rootDirectories
            BY <2>1 DEF Growth, ScanOrder, Basis, TreesInv, ScanRooted
        <3> QED BY <3>1 DEF InTrees
    <2> QED BY <2>1 DEF Scanning
<1>4. "create" \in Kind \ {"overflow"}
    BY DEF Kind
<1>5. Queued([kind |-> "create", path |-> d])' \/ Doomed(Parent(d))
    BY <1>1, <1>2, <1>3, <1>4, ParentHears
<1>6. CASE Doomed(Parent(d))
    <2>1. Doomed(d)
        BY <1>1, <1>6, ParentsAreAbove, DoomIsBelow
    <2>2. ~Act
        <3>1. fs' # fs
            OBVIOUS
        <3> QED BY <3>1 DEF Act, environment
    <2> QED BY <1>1, <2>1, <2>2, DoomLasts DEF Growth
<1> QED BY <1>1, <1>4, <1>5, <1>6, QueuedIsPending

\* What is doomed, or to come, stays so while a scan is under way.
LEMMA ComingLasts ==
    ASSUME Undisturbed, Basis, Growth, Moves \/ UNCHANGED vars, ~Act,
           NEW d \in Path, fs[d] # "none", AcceptsPrefix(d), Doomed(d) \/ Pending(d)
    PROVE  Doomed(d)' \/ Pending(d)'
BY DoomLasts, PendingLasts DEF Growth

LEMMA ScanComingInductive ==
    ASSUME Undisturbed, Basis, Growth, StaleDoomed, ScanComing, Moves \/ Close \/ UNCHANGED vars
    PROVE  ScanComing'
<1>1. CASE scan' = NoScan
    BY <1>1 DEF ScanComing, Scanning, NoScan, NoMap
<1>2. CASE Close
    BY <1>1, <1>2 DEF Close
<1>3. CASE (Moves \/ UNCHANGED vars) /\ scan' # NoScan
    <2>1. ~Act
        BY <1>3, ActCuts
    <2>2. \A d : AcceptsPrefix(d)' <=> AcceptsPrefix(d)
        BY <1>3, WantedStays DEF Growth, Fresh
    <2> SUFFICES ASSUME NEW d \in Dir, Len(d) > 1, fs'[d] = "dir", AcceptsPrefix(d), Scanning(d)'
                 PROVE  d \in DOMAIN scan'.found \/ d \in scan'.toWatch \/ Doomed(d)' \/ Pending(d)'
        BY <2>2 DEF ScanComing
    <2>3. d \in Path
        BY NioAssumption
    <2>4. ASSUME Scanning(d), fs[d] = "dir"
          PROVE  d \in DOMAIN scan.found \/ d \in scan.toWatch \/ Doomed(d)' \/ Pending(d)'
        <3>1. d \in DOMAIN scan.found \/ d \in scan.toWatch \/ Doomed(d) \/ Pending(d)
            BY <2>4 DEF ScanComing
        <3> QED BY <1>3, <2>1, <2>3, <2>4, <3>1, ComingLasts
    <2>5. CASE UNCHANGED scan
        <3>1. Scanning(d)
            BY <2>5 DEF Scanning
        <3> QED BY <1>3, <2>4, <2>5, <3>1, ScanHears
    <2>6. ASSUME NEW e \in Dir, ScanWatch(e)
          PROVE  d \in DOMAIN scan'.found \/ d \in scan'.toWatch \/ Doomed(d)' \/ Pending(d)'
        <3>1. /\ scan'.stage = scan.stage /\ scan'.base = scan.base /\ UNCHANGED fs
              /\ scan'.toWatch = scan.toWatch \ {e} /\ scan'.toList = scan.toList \cup {e}
              /\ DOMAIN scan'.found = DOMAIN scan.found \cup {e}
            BY <2>6, WatchGoesOn
        <3>2. Scanning(d)
            BY <3>1 DEF Scanning
        <3> QED BY <2>4, <3>1, <3>2
    <2>7. ASSUME NEW e \in Dir, ScanList(e)
          PROVE  d \in DOMAIN scan'.found \/ d \in scan'.toWatch \/ Doomed(d)' \/ Pending(d)'
        <3>1. /\ scan'.stage = scan.stage /\ scan'.base = scan.base /\ UNCHANGED fs
              /\ scan'.toList = scan.toList \ {e}
              /\ \/ fs[e] = "dir" /\ scan'.toWatch = scan.toWatch \cup Listed(e) /\ scan'.found = scan.found
                 \/ /\ fs[e] # "dir" /\ scan'.toWatch = scan.toWatch
                    /\ DOMAIN scan'.found = DOMAIN scan.found \ {e}
            BY <2>7, ListGoesOn
        <3>2. CASE Scanning(d)
            BY <2>4, <3>1, <3>2
        <3>3. CASE ~Scanning(d)
            <4>1. Parent(d) = e /\ fs[e] = "dir"
                BY <3>1, <3>3 DEF Scanning
            <4>2. d \in Listed(e)
                BY <3>1, <4>1 DEF Listed
            <4> QED BY <3>1, <4>1, <4>2
        <3> QED BY <3>2, <3>3
    <2>8. ASSUME NEW p \in Path,
                 Add(p) \/ (GetOrAdd /\ p = call.path) \/ (RegisterUpdate /\ p = call.last), ~UNCHANGED scan
          PROVE  d \in scan'.toWatch
        <3>1. scan' # InitScan("call", p)
            BY DEF InitScan, Scanning, NoMap
        <3>2. PICK r \in DOMAIN rootDirectories, thread \in {"loop", "call"} :
                p \in Dir /\ StartsWith(p, r) /\ scan' = UpdateScan(thread, r, p)
            BY <2>8, <3>1, ScansBegin DEF Growth
        <3>3. \/ /\ scan'.base = r /\ scan'.toList = {r} /\ DOMAIN scan'.found = {r}
              \/ /\ scan'.toWatch = {scan'.base} /\ DOMAIN scan'.found = {}
            BY <3>2, UpdateLooks DEF Basis, TreesInv
        <3>4. d # r
            <4>1. Len(r) = 1
                BY DEF Basis, TreesInv, RootsTyped, Undisturbed
            <4>2. Len(d) # 1
                BY <2>3, LongIsNotTop
            <4> QED BY <4>1, <4>2
        <3> QED BY <3>3, <3>4 DEF Scanning
    <2>9. CASE GetOrAdd
        <3>1. call.path \in Path
            BY <2>9 DEF GetOrAdd, Basis, TreesInv, CallTyped
        <3> QED BY <2>5, <2>8, <2>9, <3>1
    <2>10. CASE RegisterUpdate
        <3>1. call.last \in Path
            BY <2>10, NioAssumption DEF RegisterUpdate, Basis, TreesInv, CallTyped
        <3> QED BY <2>5, <2>8, <2>10, <3>1
    <2>11. ~AddUpdate /\ ~RegisterInit /\ ~RegisterGraft
        BY <1>3 DEF AddUpdate, RegisterInit, RegisterGraft, Graft, AddRoot
    <2> QED BY <1>3, <2>1, <2>5, <2>6, <2>7, <2>8, <2>9, <2>10, <2>11, TreesStay DEF Moves
<1> QED BY <1>1, <1>2, <1>3
-----------------------------------------------------------------------------
(* Directories come into the trees                                           *)

\* Every tree has a topmost root, so no path is below two of them.
LEMMA RootsAgree ==
    ASSUME Undisturbed, Basis, NEW r \in DOMAIN rootDirectories, NEW s \in DOMAIN rootDirectories,
           NEW p \in Path, StartsWith(p, r), StartsWith(p, s)
    PROVE  r = s
<1>1. r \in Path /\ s \in Path /\ Len(r) = 1 /\ Len(s) = 1
    BY NioAssumption DEF Basis, TreesInv, RootsTyped, Undisturbed
<1>2. StartsWith(r, s) \/ StartsWith(s, r)
    BY <1>1, StartsWithIsOrder
<1> QED BY <1>1, <1>2, TopsMeet

\* What a scan has found is in a tree when the scan ends.
LEMMA FoundArrives ==
    ASSUME Undisturbed, Basis, Growth, StaleDoomed, AddUpdate \/ RegisterInit \/ RegisterGraft,
           NEW d \in DOMAIN scan.found
    PROVE  Live(d)' \/ Doomed(d)'
<1>1. Moves /\ ~Act
    BY DEF Moves, AddUpdate, RegisterInit, RegisterGraft, Scanned, NoScan, Act
<1>2. \E r \in DOMAIN rootDirectories' : d \in DOMAIN rootDirectories'[r]
    <2>1. CASE RegisterInit
        BY <2>1, RootArrives DEF RegisterInit
    <2>2. CASE AddUpdate \/ RegisterGraft
        <3>1. PICK thread : Scanned(thread, "update") /\ Graft(thread)
            BY <2>2 DEF AddUpdate, RegisterGraft
        <3>2. scan.root \in DOMAIN rootDirectories' /\ d \in DOMAIN rootDirectories'[scan.root]
            BY <3>1, GraftReplaces DEF Growth
        <3> QED BY <3>2
    <2> QED BY <2>1, <2>2
<1>3. PICK r \in DOMAIN rootDirectories' : d \in DOMAIN rootDirectories'[r]
    BY <1>2
<1>4. Alive(rootDirectories[r][d])' \/ Doomed(d)'
    BY <1>1, <1>3, TreesHeld
<1> QED BY <1>3, <1>4 DEF Live

\* A scan that ends has found what is in the directories that it found.
LEMMA ScanBrings ==
    ASSUME Undisturbed, Basis, Growth, StaleDoomed, ScanComing, AddUpdate \/ RegisterInit \/ RegisterGraft,
           NEW d \in Dir, Len(d) > 1, fs[d] = "dir", AcceptsPrefix(d),
           Parent(d) \in DOMAIN scan.found \/ (scan.stage = "update" /\ d = scan.base)
    PROVE  Live(d)' \/ Doomed(d)' \/ Pending(d)'
<1>1. scan.toList = {} /\ scan.toWatch = {} /\ Moves /\ ~Act
    BY DEF AddUpdate, RegisterInit, RegisterGraft, Scanned, Moves, NoScan, Act
<1>2. d \in DOMAIN scan.found \/ Doomed(d) \/ Pending(d)
    BY <1>1 DEF ScanComing, Scanning
<1>3. d \in Path
    BY NioAssumption
<1> QED BY <1>1, <1>2, <1>3, FoundArrives, ComingLasts

\* The directory that the loop thread acts on is added, or looked at again.
LEMMA ActBrings ==
    ASSUME Undisturbed, Basis, Growth, LookedAway, Act,
           NEW d \in Dir, fs[d] = "dir", d = loop.path, Live(Parent(d)), ~Lost(d)
    PROVE  d \in loop'.todo \/ Pending(d)'
<1>1. loop.stage = "acting"
    BY DEF Act
<1>2. loop' = LoopWith("adding", loop.exists,
                       IF loop.exists /\ loop.path \in Dir THEN {loop.path} ELSE {},
                       loop'.told)
    BY ActCuts
<1>3. CASE loop.exists
    <2>1. loop' = LoopWith("adding", loop.exists, {d}, loop'.told)
        BY <1>2, <1>3
    <2>2. PICK exists, told : loop' = LoopWith("adding", exists, {d}, told)
        BY <2>1
    <2> QED BY <2>2 DEF LoopWith
<1>4. CASE ~loop.exists
    <2>1. PathQueued(d)
        BY <1>1, <1>4 DEF LookedAway
    <2>2. PICK exists, todo, told : loop' = LoopWith("adding", exists, todo, told)
        BY <1>2
    <2>3. loop'.stage # "taken"
        BY <2>2 DEF LoopWith
    <2>4. Moves
        BY DEF Moves
    <2> QED BY <2>1, <2>3, <2>4, PathQueuedLasts DEF Pending
<1> QED BY <1>3, <1>4

\* What the loop thread removes is the directory that its event is about.
LEMMA ActRemoves ==
    ASSUME Undisturbed, Basis, Act, Removes(loop.kind, loop.exists),
           NEW d \in Dir, Len(d) > 1, StartsWith(d, loop.path), Live(Parent(d))'
    PROVE  d = loop.path
<1>1. d \in Path /\ loop.path \in Path
    BY NioAssumption DEF Act, Basis, TreesInv, LoopTyped
<1>2. PICK q : q = Parent(d)
    OBVIOUS
<1>3. PICK r \in DOMAIN rootDirectories' : q \in DOMAIN rootDirectories'[r]
    BY <1>2 DEF Live
<1>4. ~StartsWith(q, loop.path)
    BY <1>3, ActCuts
<1> QED BY <1>1, <1>2, <1>4, PrefixOfParent

\* A live directory stays, is deleted or removed, or gives way to what was found.
LEMMA LiveLasts ==
    ASSUME Undisturbed, Basis, Growth, Moves \/ UNCHANGED vars, NEW d, Live(d)
    PROVE  \/ Live(d)'
           \/ Delete(d)
           \/ Act /\ Removes(loop.kind, loop.exists) /\ StartsWith(d, loop.path)
           \/ (AddUpdate \/ RegisterGraft) /\ StartsWith(d, scan.base)
<1>1. PICK r \in DOMAIN rootDirectories : d \in DOMAIN rootDirectories[r] /\ Alive(rootDirectories[r][d])
    BY DEF Live
<1>2. PICK k : k = rootDirectories[r][d]
    OBVIOUS
<1>3. k \in DOMAIN keys /\ keys[k].path = d
    <2>1. k \in DOMAIN keys
        BY <1>1, <1>2 DEF Alive
    <2>2. k # Invalid
        BY <2>1, KeysArePlaces DEF Basis, KeysInv, Invalid
    <2> QED BY <1>1, <1>2, <2>1, <2>2 DEF Basis, TreesInv, RootsTyped, KeysOfDirs
<1>4. Alive(k)' \/ Delete(d)
    BY <1>1, <1>2, <1>3, KeysLive
<1>5. ASSUME r \in DOMAIN rootDirectories', d \in DOMAIN rootDirectories'[r], rootDirectories'[r][d] = k,
             Alive(k)'
      PROVE  Live(d)'
    <2>1. Alive(rootDirectories[r][d])'
        BY <1>5
    <2> QED BY <1>5, <2>1 DEF Live
<1>6. CASE Act
    BY <1>1, <1>2, <1>4, <1>5, <1>6, ActCuts
<1>7. CASE RegisterInit
    BY <1>1, <1>2, <1>4, <1>5, <1>7, RootArrives DEF RegisterInit
<1>8. CASE AddUpdate \/ RegisterGraft
    <2>1. PICK thread : Scanned(thread, "update") /\ Graft(thread)
        BY <1>8 DEF AddUpdate, RegisterGraft
    <2>2. ~StartsWith(d, scan.base) =>
            r \in DOMAIN rootDirectories' /\ d \in DOMAIN rootDirectories'[r] /\ rootDirectories'[r][d] = k
        BY <1>1, <1>2, <2>1, GraftReplaces DEF Growth
    <2> QED BY <1>4, <1>5, <1>8, <2>2
<1>9. CASE ~Act /\ ~RegisterInit /\ ~AddUpdate /\ ~RegisterGraft
    BY <1>1, <1>2, <1>4, <1>5, <1>9, OnlyTreesStay
<1> QED BY <1>6, <1>7, <1>8, <1>9

\* An update brings what is below the directory that it began with.
LEMMA GraftBrings ==
    ASSUME Undisturbed, Basis, Growth, StaleDoomed, ScanComing, AddUpdate \/ RegisterGraft,
           NEW d \in Dir, Len(d) > 1, fs[d] = "dir", AcceptsPrefix(d),
           StartsWith(d, scan.base), Live(Parent(d))'
    PROVE  Live(d)' \/ Doomed(d)' \/ Pending(d)'
<1>1. PICK thread : Scanned(thread, "update") /\ Graft(thread)
    BY DEF AddUpdate, RegisterGraft
<1>2. /\ scan.stage = "update" /\ scan.base \in Path /\ d \in Path
      /\ scan.root \in DOMAIN rootDirectories /\ scan.root \in Path /\ StartsWith(scan.base, scan.root)
    BY <1>1, NioAssumption DEF Scanned, Basis, TreesInv, ScanRooted, RootsTyped
<1>3. CASE d = scan.base
    BY <1>2, <1>3, ScanBrings
<1>4. CASE d # scan.base
    <2>1. PICK q : q = Parent(d)
        OBVIOUS
    <2>2. StartsWith(q, scan.base) /\ q \in Path
        BY <1>2, <1>4, <2>1, PrefixOfParent, ParentsAreAbove
    <2>3. PICK r \in DOMAIN rootDirectories' : q \in DOMAIN rootDirectories'[r]
        BY <2>1 DEF Live
    <2>4. q \in DOMAIN scan.found
        <3>1. CASE r = scan.root
            BY <1>1, <2>2, <2>3, <3>1, GraftReplaces DEF Growth
        <3>2. CASE r # scan.root
            <4>1. r \in DOMAIN rootDirectories /\ q \in DOMAIN rootDirectories[r]
                BY <1>1, <2>3, <3>2, GraftReplaces DEF Growth
            <4>2. StartsWith(q, r) /\ StartsWith(q, scan.root)
                BY <1>2, <2>2, <4>1, StartsWithIsOrder DEF Basis, TreesInv, RootsTyped, KeysOfDirs
            <4> QED BY <1>2, <2>2, <3>2, <4>1, <4>2, RootsAgree
        <3> QED BY <3>1, <3>2
    <2> QED BY <2>1, <2>4, ScanBrings
<1> QED BY <1>3, <1>4

\* The loop thread adds what it has to add.
LEMMA TodoGoesOn ==
    ASSUME Undisturbed, Basis, Growth, Moves \/ UNCHANGED vars, NEW d \in Dir, d \in loop.todo, AcceptsPrefix(d)
    PROVE  d \in loop'.todo \/ (scan'.stage = "update" /\ StartsWith(d, scan'.base))
<1>1. loop.stage = "adding" /\ loop.todo # {}
    BY DEF Basis, TreesInv, LoopTyped
<1>2. ASSUME NEW p \in Path, Add(p) PROVE scan'.stage = "update" /\ StartsWith(d, scan'.base)
    <2>1. d = p
        BY <1>2, AddBegins DEF Growth
    <2>2. PICK r \in DOMAIN rootDirectories : StartsWith(p, r) /\ p # r /\ scan' = UpdateScan("loop", r, p)
        BY <1>2, <2>1, AddBegins DEF Growth
    <2> QED BY <2>1, <2>2, UpdateLooks DEF Basis, TreesInv
<1>3. (\A k : ~Take(k)) /\ ~Look /\ ~Act /\ ~Report
    BY <1>1 DEF Take, Look, Act, Report
<1>4. ~AddUpdate
    BY <1>1 DEF AddUpdate, Scanned, Growth, Turns, LoopScans, CallScans, NoScan
<1>5. ASSUME NEW p \in Path, NEW value \in {"dir"} \cup Content,
             Create(p, value) \/ Modify(p, value) \/ Delete(p)
      PROVE  UNCHANGED loop
    BY <1>5 DEF Create, Modify, Delete, Change
<1>6. ASSUME NEW p \in Path, NEW maxDepth \in Depth, Register(p, maxDepth) PROVE UNCHANGED loop
    BY <1>6 DEF Register
<1>7. ASSUME NEW e \in Dir, ScanWatch(e) \/ ScanList(e) PROVE UNCHANGED loop
    BY <1>7 DEF ScanWatch, ScanList
<1>8. ASSUME GetOrAdd \/ RegisterInit \/ RegisterFind \/ RegisterUpdate \/ RegisterGraft \/ Return
             \/ Closes \/ UNCHANGED vars
      PROVE  UNCHANGED loop
    BY <1>8, ClosesOnly DEF GetOrAdd, RegisterInit, RegisterFind, RegisterUpdate, RegisterGraft, Return, vars
<1> QED BY <1>2, <1>3, <1>4, <1>5, <1>6, <1>7, <1>8 DEF Moves

\* A scan goes on from where it began, until it ends.
LEMMA ScanKeepsBase ==
    ASSUME Undisturbed, Basis, Growth, Moves \/ UNCHANGED vars, scan.stage = "update"
    PROVE  (scan'.stage = scan.stage /\ scan'.base = scan.base) \/ AddUpdate \/ RegisterGraft
<1>1. scan # NoScan
    BY DEF NoScan
<1>2. ~Act /\ ~GetOrAdd /\ ~RegisterUpdate /\ (\A p \in Path : ~Add(p)) /\ ~RegisterInit
    BY <1>1 DEF Act, GetOrAdd, RegisterUpdate, Add, RegisterInit, Scanned
<1>3. ASSUME NEW e \in Dir, ScanWatch(e) \/ ScanList(e) PROVE scan'.stage = scan.stage /\ scan'.base = scan.base
    BY <1>3, WatchGoesOn, ListGoesOn
<1> QED BY <1>2, <1>3, TreesStay DEF Moves

LEMMA ComingInductive ==
    ASSUME Undisturbed, Basis, Growth, StaleDoomed, LookedAway, Coming, ScanComing, Moves \/ Close \/ UNCHANGED vars
    PROVE  Coming'
<1>1. CASE DOMAIN rootDirectories' = {}
    BY <1>1 DEF Coming, Live
<1>2. CASE Close
    BY <1>1, <1>2 DEF Close
<1>3. CASE (Moves \/ UNCHANGED vars) /\ DOMAIN rootDirectories' # {}
    <2>1. \A d : AcceptsPrefix(d)' <=> AcceptsPrefix(d)
        BY <1>3, WantedStays DEF Growth, Fresh
    <2> SUFFICES ASSUME NEW d \in Dir, Len(d) > 1, fs'[d] = "dir", AcceptsPrefix(d), Live(Parent(d))',
                        ~Lost(d)'
                 PROVE  \/ Live(d)' \/ Doomed(d)' \/ Pending(d)' \/ d \in loop'.todo
                        \/ scan'.stage = "update" /\ StartsWith(d, scan'.base)
        BY <2>1 DEF Coming, Doomed
    <2>2. PICK q : q = Parent(d) /\ d \in Path
        BY NioAssumption
    <2>3. Live(q)'
        BY <2>2
    <2>7. ~Lost(d) /\ ~Lost(q)
        <3>1. ~Lost(d)
            BY <1>3, LostLasts
        <3> QED BY <2>2, <3>1, ParentsAreAbove, LostIsBelow
    <2>4. CASE (AddUpdate \/ RegisterInit \/ RegisterGraft) /\ q \in DOMAIN scan.found
        <3>1. UNCHANGED fs
            BY <2>4 DEF AddUpdate, RegisterInit, RegisterGraft, environment
        <3> QED BY <2>2, <2>4, <3>1, ScanBrings
    <2>5. CASE Live(q) /\ fs[d] # "dir"
        <3>1. PICK value : Change(d, "create", value)
            BY <1>3, <2>5, DirectoryAppears DEF Growth
        <3>2. "create" \in Kind \ {"overflow"}
            BY DEF Kind
        <3>3. Queued([kind |-> "create", path |-> d])'
            BY <2>2, <2>5, <2>7, <3>1, <3>2, LiveDirectoryHears
        <3> QED BY <2>2, <3>2, <3>3, QueuedIsPending
    <2>6. CASE Live(q) /\ fs[d] = "dir"
        <3>1. ASSUME Act, Removes(loop.kind, loop.exists), StartsWith(d, loop.path)
              PROVE  Pending(d)' \/ d \in loop'.todo
            <4>1. d = loop.path
                BY <3>1, ActRemoves
            <4> QED BY <2>2, <2>6, <2>7, <3>1, <4>1, ActBrings
        <3>2. ASSUME AddUpdate \/ RegisterGraft, StartsWith(d, scan.base)
              PROVE  Live(d)' \/ Doomed(d)' \/ Pending(d)'
            BY <2>6, <3>2, GraftBrings
        <3>3. CASE Live(d)
            <4>1. ~Delete(d)
                <5>1. fs'[d] # "none"
                    OBVIOUS
                <5> QED BY <2>2, <5>1 DEF Delete, Change, Basis, TreesInv, EnvironmentTyped
            <4> QED BY <1>3, <3>1, <3>2, <3>3, <4>1, LiveLasts
        <3>4. CASE Doomed(d)
            <4>1. loop.kind = "delete" => Removes(loop.kind, loop.exists)
                BY DEF Removes
            <4> QED BY <1>3, <2>2, <3>1, <3>4, <4>1, DoomLasts DEF Growth
        <3>5. CASE Pending(d)
            <4>1. Pending(d)' \/ (Act /\ d = loop.path)
                BY <1>3, <2>2, <2>6, <3>5, PendingLasts DEF Growth
            <4> QED BY <2>2, <2>6, <2>7, <4>1, ActBrings
        <3>6. CASE d \in loop.todo
            BY <1>3, <3>6, TodoGoesOn
        <3>7. CASE scan.stage = "update" /\ StartsWith(d, scan.base)
            BY <1>3, <3>2, <3>7, ScanKeepsBase
        <3> QED BY <2>2, <2>6, <3>3, <3>4, <3>5, <3>6, <3>7 DEF Coming
    <2> QED BY <1>3, <2>2, <2>3, <2>4, <2>5, <2>6, LiveComesFrom
<1> QED BY <1>1, <1>2, <1>3
-----------------------------------------------------------------------------
(* What exists is told                                                       *)

\* Whoever is told of a path that exists looks at it, and forgets none that exists.
LEMMA InformedTells ==
    ASSUME Files, NEW told, NEW p \in Path, fs[p] # "none",
           p \in told \/ (known[p] = fs[p] /\ told \subseteq Path)
    PROVE  Informed(told)[p] = fs[p]
<1>1. Informed(told)[p] = IF p \in told THEN fs[p]
                          ELSE IF \E q \in told : StartsWith(p, q) /\ fs[q] = "none" THEN "none"
                          ELSE known[p]
    BY DEF Informed
<1>2. ASSUME told \subseteq Path, NEW q \in told, StartsWith(p, q) PROVE fs[q] # "none"
    <2>1. q = p \/ fs[q] = "dir"
        BY <1>2, AboveIsThere
    <2> QED BY <2>1
<1> QED BY <1>1, <1>2

\* What the caller of register has listed is known, and nothing else is monitored.
LEMMA ReturnTells ==
    ASSUME Undisturbed, Basis, Growth, Return, NEW p \in monitored', fs[p] # "none"
    PROVE  known'[p] = fs'[p]
<1>1. PICK covered, told :
        /\ covered \subseteq Path
        /\ monitored' = monitored \cup covered /\ known' = Informed(covered \cup told)
        /\ UNCHANGED fs /\ call.stage = "updated"
    BY DEF Return
<1>2. ~Resting
    BY <1>1 DEF Resting
<1>3. monitored = {}
    BY <1>2 DEF Growth, OneCall, Only, Fresh
<1>4. p \in covered
    BY <1>1, <1>3
<1> QED BY <1>1, <1>4, InformedTells DEF Growth

\* A monitored path is wanted, and so is what is above it.
LEMMA MonitoredIsWanted ==
    ASSUME Basis, OneCall, ~closed, NEW p \in monitored
    PROVE  /\ p \in Path /\ Len(p) > 1 /\ Accepts(p) /\ AcceptsPrefix(p)
           /\ \A q \in Path : StartsWith(p, q) => AcceptsPrefix(q)
           /\ \E r \in DOMAIN rootDirectories : StartsWith(p, r)
<1>1. p \in Path /\ ~Fresh
    BY DEF Basis, TreesInv, EnvironmentTyped, Fresh
<1>2. PICK path \in Path, maxDepth \in Depth : Only(path, maxDepth)
    BY <1>1 DEF OneCall
<1>3. StartsWith(p, path) /\ Accepts(p) /\ Len(path) > 1 /\ \E r \in DOMAIN rootDirectories : StartsWith(p, r)
    BY <1>2 DEF Only
<1>4. Len(path) <= Len(p) /\ Len(path) \in Nat /\ Len(p) \in Nat
    BY <1>1, <1>3, StartsWithIsOrder, PathsAreLong
<1>5. AcceptsPrefix(p)
    BY <1>3, WantedMeans DEF Accepts, AcceptsPrefix
<1> QED BY <1>1, <1>3, <1>4, <1>5, WantedAbove

\* A report makes the observer know what it tells, and loses nothing that exists.
LEMMA ReportTells ==
    ASSUME Basis, Files, Report, NEW p \in Path, fs[p] # "none",
           known[p] = fs[p] \/ (p \in loop.told /\ Accepts(p))
    PROVE  known'[p] = fs'[p]
<1>1. PICK told : /\ {q \in loop.told : Accepts(q)} \subseteq told /\ told \subseteq Path
                  /\ known' = Informed(told) /\ UNCHANGED fs
    <2> DEFINE some == {q \in loop.told : Accepts(q)}
               overflown == {q \in some : loop.kind = "overflow" /\ q = loop.path}
               told == some \cup {q \in Path : Len(q) > 1 /\ Parent(q) \in overflown}
    <2>1. known' = Informed(told) /\ UNCHANGED fs
        BY DEF Report
    <2>2. loop.told \subseteq Path
        BY DEF Basis, TreesInv, LoopTyped
    <2>3. some \subseteq told /\ told \subseteq Path
        BY <2>2
    <2> HIDE DEF told
    <2> QED BY <2>1, <2>3
<1> QED BY <1>1, InformedTells

\* The loop thread reports what it has to tell.
LEMMA ToldGoesOn ==
    ASSUME Basis, Growth, Moves \/ UNCHANGED vars, ~Report, NEW p, loop.stage = "adding", p \in loop.told
    PROVE  loop'.stage = "adding" /\ p \in loop'.told
<1>1. loop = [stage |-> loop.stage, path |-> loop.path, kind |-> loop.kind,
              exists |-> loop.exists, todo |-> loop.todo, told |-> loop.told]
    BY DEF Basis, TreesInv, LoopTyped
<1>2. (\A k : ~Take(k)) /\ ~Look /\ ~Act
    BY DEF Take, Look, Act
<1>3. ASSUME NEW d \in Path, Add(d) PROVE loop'.stage = "adding" /\ p \in loop'.told
    <2>1. UNCHANGED loop \/ \E todo : loop' = [loop EXCEPT !.todo = todo]
        BY <1>3 DEF Add
    <2> QED BY <1>1, <2>1
<1>4. CASE AddUpdate
    <2>1. \E more : loop' = [loop EXCEPT !.told = loop.told \cup more]
        BY <1>4 DEF AddUpdate
    <2> QED BY <1>1, <2>1
<1>5. ASSUME NEW d \in Path, NEW value \in {"dir"} \cup Content,
             Create(d, value) \/ Modify(d, value) \/ Delete(d)
      PROVE  UNCHANGED loop
    BY <1>5 DEF Create, Modify, Delete, Change
<1>6. ASSUME NEW d \in Path, NEW maxDepth \in Depth, Register(d, maxDepth) PROVE UNCHANGED loop
    BY <1>6 DEF Register
<1>7. ASSUME NEW e \in Dir, ScanWatch(e) \/ ScanList(e) PROVE UNCHANGED loop
    BY <1>7 DEF ScanWatch, ScanList
<1>8. ASSUME GetOrAdd \/ RegisterInit \/ RegisterFind \/ RegisterUpdate \/ RegisterGraft \/ Return
             \/ Closes \/ UNCHANGED vars
      PROVE  UNCHANGED loop
    BY <1>8, ClosesOnly DEF GetOrAdd, RegisterInit, RegisterFind, RegisterUpdate, RegisterGraft, Return, vars
<1> QED BY <1>2, <1>3, <1>4, <1>5, <1>6, <1>7, <1>8 DEF Moves

\* An update tells what is in the directories that it adds, or they are doomed.
LEMMA UpdateTells ==
    ASSUME Undisturbed, Basis, Growth, StaleDoomed, AddUpdate, NEW p \in Path, Len(p) > 1, fs[p] # "none",
           Accepts(p), AcceptsPrefix(Parent(p)), Parent(p) \in DOMAIN scan.found, ~Live(Parent(p))
    PROVE  Doomed(Parent(p))' \/ (loop'.stage = "adding" /\ p \in loop'.told)
<1>1. PICK q : q = Parent(p) /\ q \in Path
    BY ParentsAreAbove
<1>2. scan.root \in DOMAIN rootDirectories /\ loop.stage = "adding" /\ Moves /\ ~Act
    BY DEF AddUpdate, Scanned, Growth, Turns, LoopScans, CallScans, NoScan, Basis, TreesInv, ScanRooted, Moves, Act
<1>3. CASE q \in DOMAIN rootDirectories[scan.root]
    <2>1. Doomed(q)
        BY <1>1, <1>2, <1>3 DEF StaleDoomed, Live
    <2>2. Doomed(q)'
        BY <1>1, <1>2, <2>1, DoomLasts DEF Growth
    <2> QED BY <1>1, <2>2
<1>4. CASE q \notin DOMAIN rootDirectories[scan.root]
    <2>1. q \in Created
        BY <1>1, <1>4 DEF Created, Below
    <2>2. p \in Announced(Created)
        BY <1>1, <2>1 DEF Announced
    <2>3. PICK told : loop' = [loop EXCEPT !.told = told] /\ Announced(Created) \subseteq told
        BY DEF AddUpdate
    <2>4. loop = [stage |-> loop.stage, path |-> loop.path, kind |-> loop.kind,
                  exists |-> loop.exists, todo |-> loop.todo, told |-> loop.told]
        BY DEF Basis, TreesInv, LoopTyped
    <2> QED BY <1>2, <2>2, <2>3, <2>4
<1> QED BY <1>3, <1>4

\* A monitored path is told while it stays as it is, and its directory lives.
LEMMA ToldLasts ==
    ASSUME Undisturbed, Basis, Growth, Told, Moves \/ UNCHANGED vars, ~Return, ~closed, NEW p \in monitored,
           fs[p] # "none", fs'[p] = fs[p], Live(Parent(p)), Live(Parent(p))'
    PROVE  \/ known'[p] = fs'[p] \/ Pending(p)' \/ Doomed(Parent(p))'
           \/ loop'.stage = "adding" /\ p \in loop'.told
<1>1. /\ p \in Path /\ Len(p) > 1 /\ Accepts(p) /\ AcceptsPrefix(p)
      /\ \A q \in Path : StartsWith(p, q) => AcceptsPrefix(q)
    BY MonitoredIsWanted DEF Growth
<1>2. PICK q : q = Parent(p) /\ q \in Path /\ StartsWith(p, q)
    BY <1>1, ParentsAreAbove
<1>3. CASE known[p] = fs[p]
    <2>1. CASE Report
        BY <1>1, <1>3, <2>1, ReportTells DEF Growth
    <2>2. CASE ~Report
        <3>1. UNCHANGED known
            BY <2>2, ClosesOnly DEF Moves, Create, Modify, Delete, Change, Register, ScanWatch, ScanList, Take, Look, Act,
               AddUpdate, Add, GetOrAdd, RegisterInit, RegisterFind, RegisterUpdate, RegisterGraft, vars, environment
        <3> QED BY <1>3, <3>1
    <2> QED BY <2>1, <2>2
<1>4. CASE Pending(p)
    <2>1. Pending(p)' \/ (Act /\ p = loop.path /\ (loop.exists \/ loop.kind = "delete"))
        BY <1>1, <1>4, PendingLasts DEF Growth
    <2>2. ASSUME Act, p = loop.path, loop.exists \/ loop.kind = "delete"
          PROVE  loop'.stage = "adding" /\ p \in loop'.told
        <3>1. /\ loop' = LoopWith("adding", loop.exists,
                               IF loop.exists /\ loop.path \in Dir THEN {loop.path} ELSE {},
                               loop'.told)
              /\ p \in loop'.told
            BY <2>2, ActCuts
        <3>2. PICK exists, todo, told : loop' = LoopWith("adding", exists, todo, told)
            BY <3>1
        <3>3. loop'.stage = "adding"
            BY <3>2 DEF LoopWith
        <3> QED BY <3>1, <3>3
    <2> QED BY <2>1, <2>2
<1>5. CASE Doomed(q)
    <2>1. ~(Act /\ loop.kind = "delete" /\ StartsWith(q, loop.path))
        <3> SUFFICES ASSUME Act, loop.kind = "delete", StartsWith(q, loop.path) PROVE FALSE
            OBVIOUS
        <3>1. Live(q)'
            BY <1>2
        <3>2. PICK r \in DOMAIN rootDirectories' : q \in DOMAIN rootDirectories'[r]
            BY <3>1 DEF Live
        <3> QED BY <3>2, ActCuts DEF Removes
    <2>2. Doomed(q)'
        BY <1>1, <1>2, <1>5, <2>1, DoomLasts DEF Growth
    <2> QED BY <1>2, <2>2
<1>6. CASE loop.stage = "adding" /\ p \in loop.told
    <2>1. CASE Report
        BY <1>1, <1>6, <2>1, ReportTells DEF Growth
    <2>2. CASE ~Report
        BY <1>6, <2>2, ToldGoesOn
    <2> QED BY <2>1, <2>2
<1> QED BY <1>1, <1>2, <1>3, <1>4, <1>5, <1>6 DEF Told

LEMMA ToldInductive ==
    ASSUME Undisturbed, Basis, Growth, StaleDoomed, Told, Moves \/ Close \/ UNCHANGED vars
    PROVE  Told'
<1>1. CASE Close
    BY <1>1 DEF Close, Told
<1>2. ASSUME NEW p \in Path, NEW n \in Depth, Register(p, n) PROVE Told'
    <2>1. monitored = {} /\ UNCHANGED monitored
        BY <1>2 DEF Register, Growth, OneCall, Fresh
    <2> QED BY <2>1 DEF Told
<1>3. CASE Return
    <2>1. ASSUME NEW p \in monitored', fs'[p] # "none" PROVE known'[p] = fs'[p]
        <3>1. UNCHANGED fs
            BY <1>3 DEF Return
        <3> QED BY <1>3, <2>1, <3>1, ReturnTells
    <2> QED BY <2>1 DEF Told
<1>4. CASE (Moves \/ UNCHANGED vars) /\ (\A p \in Path, n \in Depth : ~Register(p, n)) /\ ~Return
    <2>1. UNCHANGED <<registered, monitored, closed>>
        BY <1>4, RegistrationStays DEF Growth
    <2> SUFFICES ASSUME ~closed, NEW p \in monitored, Len(p) > 1, fs'[p] # "none", Live(Parent(p))'
                 PROVE  \/ known'[p] = fs'[p] \/ Pending(p)' \/ Doomed(Parent(p))'
                        \/ loop'.stage = "adding" /\ p \in loop'.told
        BY <2>1 DEF Told
    <2>2. /\ p \in Path /\ Accepts(p)
          /\ \A q \in Path : StartsWith(p, q) => AcceptsPrefix(q)
        BY MonitoredIsWanted DEF Growth
    <2>3. PICK q : q = Parent(p) /\ q \in Path /\ AcceptsPrefix(q)
        BY <2>2, ParentsAreAbove
    <2>4. Live(q)'
        BY <2>3
    <2>5. CASE Live(q) /\ fs'[p] = fs[p]
        BY <1>4, <2>3, <2>5, ToldLasts
    <2>6. CASE Live(q) /\ fs'[p] # fs[p]
        <3>1. PICK kind, value : kind \in {"create", "modify"} /\ Change(p, kind, value)
            BY <1>4, <2>2, <2>6, FilesMove DEF Create, Modify
        <3>2. kind \in Kind \ {"overflow"}
            BY <3>1 DEF Kind
        <3>3. Queued([kind |-> kind, path |-> p])' \/ Lost(q)
            BY <2>2, <2>3, <2>6, <3>1, <3>2, LiveDirectoryHears
        <3>4. Lost(q) => Doomed(q)'
            BY <1>4, LostLasts DEF Doomed
        <3> QED BY <2>2, <2>3, <3>2, <3>3, <3>4, QueuedIsPending
    <2>7. CASE ~Live(q)
        <3>1. (AddUpdate \/ RegisterInit \/ RegisterGraft) /\ q \in DOMAIN scan.found
            BY <1>4, <2>4, <2>7, LiveComesFrom
        <3>2. ~RegisterInit /\ ~RegisterGraft
            <4>1. Resting
                BY DEF Growth, OneCall, Only, Fresh
            <4> QED BY <4>1 DEF RegisterInit, RegisterGraft, Scanned, Growth, Turns, LoopScans, CallScans, NoScan, Resting
        <3>3. UNCHANGED fs
            BY <3>1, <3>2 DEF AddUpdate, environment
        <3> QED BY <2>2, <2>3, <2>7, <3>1, <3>2, <3>3, UpdateTells
    <2> QED BY <2>5, <2>6, <2>7
<1> QED BY <1>1, <1>2, <1>3, <1>4
-----------------------------------------------------------------------------
(* Nothing is missed, in one registration without overflow                   *)

MissInv == Basis /\ Growth /\ Arrival

LEMMA MissBegins == ASSUME MaxRegister <= 1, Init PROVE MissInv
<1>1. Basis
    <2>1. KeysInv
        BY DEF Init, KeysInv, KeysMatch, NoMap
    <2>2. OpenInv
        BY DEF Init, OpenInv, Opened, NoScan, NoMap
    <2>3. ScanHolds
        BY DEF Init, ScanHolds, KeysHeld, FoundStays, FoundMatches, RootIsNew, ClosingOrder,
               NothingToClose, NoScan, NoMap
    <2>4. NoneOverflows
        BY NioAssumption DEF Init, NoneOverflows, Waiting
    <2>5. TopsStay
        BY DEF Init, TopsStay, ToClose, NothingToClose
    <2> QED BY <2>1, <2>2, <2>3, <2>4, <2>5, TreesBegin DEF Basis
<1>2. Growth
    <2>1. Files
        BY DEF Init, Files
    <2>2. Fresh /\ budget.register \in 0..1
        BY NioAssumption DEF Init, Fresh, Resting, NoCall
    <2>3. Turns /\ ScanOrder
        BY DEF Init, Turns, Waiting, ScanOrder, NoScan, NoMap
    <2>4. TreesClosed /\ AllWanted
        BY DEF Init, TreesClosed, AllWanted, InTrees, NoScan, NoMap, NoCall
    <2> QED BY <2>1, <2>2, <2>3, <2>4 DEF Growth, OneCall
<1>3. Arrival
    <2>1. DOMAIN rootDirectories = {} /\ scan = NoScan /\ loop = Waiting /\ monitored = {}
        BY DEF Init
    <2>2. StaleDoomed /\ Coming /\ Told
        BY <2>1 DEF StaleDoomed, Coming, Told, Live, NoScan, NoMap
    <2>3. TodoStays /\ LookedAway
        BY <2>1 DEF TodoStays, LookedAway, Waiting
    <2>4. ScanComing
        BY <2>1 DEF ScanComing, Scanning, NoScan, NoMap
    <2> QED BY <2>2, <2>3, <2>4 DEF Arrival
<1> QED BY <1>1, <1>2, <1>3 DEF MissInv

\* No key of a topmost directory is to be closed: no event is about it, and update
\* keeps the root of the tree.
LEMMA TopsStayInductive ==
    ASSUME Undisturbed, Basis, [Next]_vars
    PROVE  TopsStay'
<1>1. RootsTyped /\ ScanTyped /\ ScanRooted /\ ClosingTyped /\ KeysInv /\ TreesInv
    BY DEF Basis, TreesInv
<1>2. CASE Close
    BY <1>2 DEF Close, TopsStay, ToClose, NothingToClose, Basis
<1>3. CASE ~Close
    <2>1. KeysGrow
        BY <1>1, <1>3, KeysInductive
    <2>2. ASSUME UNCHANGED reused,
                 \A k \in ToClose' \ (ToClose \cup {Invalid}) : k \in DOMAIN keys /\ keys[k].path \notin Permanent
          PROVE  TopsStay'
        <3>1. \A k \in ToClose \ {Invalid} : k \in DOMAIN keys
            BY <1>1 DEF ClosingTyped, ToClose
        <3> QED BY <2>1, <2>2, <3>1 DEF TopsStay, KeysGrow, Basis
    <2>3. CASE UNCHANGED <<closing, reused>>
        BY <2>2, <2>3 DEF ToClose
    <2>4. ASSUME NEW thread \in {"loop", "call"}, CloseOne(thread) PROVE TopsStay'
        <3>1. UNCHANGED reused /\ ToClose' \subseteq ToClose
            BY <1>1, <2>4 DEF CloseOne, ToClose, ClosingTyped
        <3> QED BY <2>2, <3>1
    <2>5. ASSUME NEW r \in DOMAIN rootDirectories, NEW dirs \in SUBSET DOMAIN rootDirectories[r],
                 r \notin dirs, UNCHANGED reused, NEW thread \in {"loop", "call"},
                 closing' = [closing EXCEPT ![thread] = KeysOf(rootDirectories[r], dirs)]
          PROVE  TopsStay'
        <3>1. ToClose' \subseteq ToClose \cup KeysOf(rootDirectories[r], dirs)
            BY <1>1, <2>5 DEF ToClose, ClosingTyped
        <3>2. ASSUME NEW d \in dirs, rootDirectories[r][d] # Invalid
              PROVE  /\ rootDirectories[r][d] \in DOMAIN keys
                     /\ keys[rootDirectories[r][d]].path \notin Permanent
            <4>1. /\ d \in Path /\ StartsWith(d, r) /\ r \in Permanent /\ r \in Path
                  /\ rootDirectories[r][d] \in DOMAIN keys
                  /\ keys[rootDirectories[r][d]].path = d
                BY <1>1, <3>2, NioAssumption DEF RootsTyped, KeysOfDirs
            <4>2. d \notin Permanent
                BY <2>5, <4>1, TopsMeet DEF Undisturbed
            <4> QED BY <4>1, <4>2
        <3> QED BY <2>2, <2>5, <3>1, <3>2 DEF KeysOf
    <2>6. ASSUME NEW thread \in {"loop", "call"}, Scanned(thread, "update"), Graft(thread), UNCHANGED reused
          PROVE  TopsStay'
        <3>1. /\ scan.root \in DOMAIN rootDirectories
              /\ closing' = [closing EXCEPT ![thread] = KeysOf(rootDirectories[scan.root], Deleted)]
              /\ rootDirectories' =
                   [rootDirectories EXCEPT ![scan.root] =
                       WithAll(Cut(rootDirectories[scan.root], scan.base), scan.found)]
            BY <1>1, <2>6 DEF Scanned, ScanRooted, Graft
        <3>2. RootsTyped'
            BY <1>1, TreesInductive DEF TreesInv
        <3>3. scan.root \in DOMAIN WithAll(Cut(rootDirectories[scan.root], scan.base), scan.found)
            BY <3>1, <3>2 DEF RootsTyped
        <3>4. scan.root \notin Deleted
            BY <3>3 DEF WithAll, Cut, Restrict, Deleted, Below
        <3>5. Deleted \subseteq DOMAIN rootDirectories[scan.root]
            BY DEF Deleted, Below
        <3> QED BY <2>5, <2>6, <3>1, <3>4, <3>5
    <2>7. CASE Act
        <3>1. UNCHANGED reused /\ loop.path \in Path /\ loop.path \notin Permanent
            BY <2>7 DEF Act, Basis, TreesInv, LoopTyped
        <3>2. ASSUME NEW r \in Find(loop.path),
                     closing' = [closing EXCEPT !["loop"] = KeysOf(rootDirectories[r], Below(rootDirectories[r], loop.path))]
              PROVE  TopsStay'
            <4>1. r \in DOMAIN rootDirectories /\ StartsWith(loop.path, r) /\ r \in Permanent /\ r \in Path
                BY <1>1, NioAssumption DEF Find, RootsTyped
            <4>2. r \notin Below(rootDirectories[r], loop.path)
                BY <3>1, <4>1, StartsWithIsOrder DEF Below
            <4>3. Below(rootDirectories[r], loop.path) \subseteq DOMAIN rootDirectories[r]
                BY DEF Below
            <4> QED BY <2>5, <3>1, <3>2, <4>1, <4>2, <4>3
        <3> QED BY <2>3, <2>7, <3>1, <3>2 DEF Act
    <2>8. ASSUME NEW d \in Dir, ScanWatch(d) PROVE TopsStay'
        <3>1. UNCHANGED closing /\ (reused' = reused \/
                (reused' = reused \cup {d} /\ KeyFor(d) # Invalid /\ KeyFor(d) \in ToClose))
            BY <2>8 DEF ScanWatch, ToClose
        <3>2. \A k \in ToClose \ {Invalid} : k \in DOMAIN keys
            BY <1>1 DEF ClosingTyped, ToClose
        <3>3. KeyFor(d) # Invalid /\ KeyFor(d) \in ToClose => keys[KeyFor(d)].path = d
            <4>1. KeyFor(d) \in DOMAIN keys => keys'[KeyFor(d)] = keys[KeyFor(d)]
                BY <1>1, <2>8, RegisterKeeps
            <4> QED BY <1>1, <2>8, <3>2, <4>1, RegisterKeeps
        <3> QED BY <2>1, <3>1, <3>2, <3>3 DEF TopsStay, ToClose, KeysGrow, Basis
    <2> QED BY <1>3, <2>3, <2>4, <2>6, <2>7, <2>8, ClosingSteps
<1> QED BY <1>2, <1>3

LEMMA BasisInductive ==
    ASSUME Undisturbed, Basis, [Next]_vars
    PROVE  Basis'
<1>1. RootsApart
    <2> SUFFICES ASSUME NEW r \in DOMAIN rootDirectories, NEW s \in DOMAIN rootDirectories,
                        StartsWith(r, s)
                 PROVE  r = s
        BY DEF RootsApart
    <2>1. r \in Path
        BY NioAssumption DEF Basis, TreesInv, RootsTyped
    <2>2. StartsWith(r, r)
        BY <2>1, StartsWithIsOrder
    <2> QED BY <2>1, <2>2, RootsAgree
<1> QED BY <1>1, TopsStayInductive, TreesInductive, KeysInductive, OpenInductive, OverflowsInductive, HoldsInductive DEF Basis

LEMMA MissInductive ==
    ASSUME Undisturbed, OneLevel \/ NotBoth, MissInv, [Next]_vars
    PROVE  MissInv'
<1>1. Basis /\ Growth /\ StaleDoomed /\ TodoStays /\ LookedAway /\ Coming /\ ScanComing /\ Told
    BY DEF MissInv, Arrival
<1>2. Moves \/ Close \/ UNCHANGED vars
    BY <1>1, OnlyMoves
<1>3. Basis' /\ Growth'
    BY <1>1, <1>2, BasisInductive, GrowthInductive
<1>4. StaleDoomed' /\ TodoStays' /\ LookedAway'
    BY <1>1, <1>2, StaleDoomedInductive, TodoStaysInductive, LookedAwayInductive
<1>5. Coming' /\ ScanComing' /\ Told'
    BY <1>1, <1>2, ComingInductive, ScanComingInductive, ToldInductive
<1> QED BY <1>3, <1>4, <1>5 DEF MissInv, Arrival

\* Nothing is to come once all is handled.
LEMMA NothingWaits ==
    ASSUME Quiescent
    PROVE  /\ \A d : (Doomed(d) => Lost(d)) /\ ~Pending(d) /\ d \notin loop.todo
           /\ scan.stage = "none" /\ loop.stage = "waiting"
<1>1. loop = Waiting /\ scan = NoScan
    BY DEF Quiescent
<1>2. \A e : ~Queued(e)
    BY DEF Quiescent, Queued
<1> QED BY <1>1, <1>2 DEF Waiting, NoScan, Doomed, DoomQueued, Pending, PathQueued

\* Once all is handled, every directory above a monitored path that exists lives.
LEMMA AboveLives ==
    ASSUME Undisturbed, MissInv, Quiescent, NEW p \in monitored, fs[p] # "none", ~Deaf(p)
    PROVE  \A n \in 1..Len(p) - 1 : Live(SubSeq(p, 1, n))
<1>1. /\ p \in Path /\ Len(p) > 1 /\ Len(p) \in Nat
      /\ \A q \in Path : StartsWith(p, q) => AcceptsPrefix(q)
    BY MonitoredIsWanted, PathsAreLong DEF MissInv, Growth, Quiescent
<1> SUFFICES ASSUME NEW m \in 1..Len(p) - 1, ~Live(SubSeq(p, 1, m)) PROVE FALSE
    OBVIOUS
<1> DEFINE S == {n \in 1..Len(p) - 1 : ~Live(SubSeq(p, 1, n))}
<1>2. S \in SUBSET Nat /\ S # {}
    BY <1>1
<1>3. PICK n \in S : \A i \in S : n <= i
    <2> HIDE DEF S
    <2> QED BY <1>2, LeastNumber
<1>4. n \in 1..Len(p) - 1 /\ n \in Nat /\ ~Live(SubSeq(p, 1, n))
    BY <1>3
<1> DEFINE d == SubSeq(p, 1, n)
<1>5. /\ n \in 1..Len(p) /\ Len(d) = n /\ StartsWith(p, d) /\ d \in Dir /\ d \in Path /\ d # p
      /\ n > 1 => Parent(d) = SubSeq(p, 1, n - 1)
    <2>1. n \in 1..Len(p) /\ n # Len(p)
        BY <1>1, <1>4
    <2>2. Len(d) = n /\ StartsWith(p, d) /\ (n > 1 => Parent(d) = SubSeq(p, 1, n - 1))
        BY <1>1, <2>1, PrefixIsThere
    <2>3. d \in Dir
        BY <1>1, <1>4, PathAssumption, NioAssumption
    <2> QED BY <2>1, <2>2, <2>3, NioAssumption
<1>6. fs[d] = "dir" /\ AcceptsPrefix(d)
    BY <1>1, <1>5, AboveIsThere DEF MissInv, Growth
<1>7. CASE n = 1
    <2>1. PICK r \in DOMAIN rootDirectories : StartsWith(p, r)
        BY MonitoredIsWanted DEF MissInv, Growth, Quiescent
    <2>2. r \in Path /\ Len(r) = 1 /\ InTrees(r)
        BY NioAssumption DEF MissInv, Basis, TreesInv, RootsTyped, Undisturbed, InTrees
    <2>3. r = d
        BY <1>1, <1>5, <1>7, <2>1, <2>2, PrefixIsPath
    <2> QED BY <1>4, <2>2, <2>3, TopsLive DEF MissInv, Arrival
<1>8. CASE n # 1
    <2>1. n > 1 /\ n - 1 \in 1..Len(p) - 1 /\ n - 1 < n
        BY <1>1, <1>4, <1>8
    <2>2. Live(SubSeq(p, 1, n - 1))
        <3>1. n - 1 \notin S
            <4> HIDE DEF S
            <4> QED BY <1>3, <1>4, <2>1
        <3> QED BY <2>1, <3>1
    <2> HIDE DEF d
    <2>3. Len(d) > 1 /\ Live(Parent(d)) /\ ~Live(d)
        BY <1>4, <1>5, <2>1, <2>2 DEF d
    <2>4. Doomed(d) \/ Pending(d) \/ d \in loop.todo \/ scan.stage = "update"
        BY <1>5, <1>6, <2>3 DEF MissInv, Arrival, Coming
    <2>5. ~Lost(d)
        BY <1>1, <1>5, LostIsDeaf DEF MissInv
    <2> QED BY <2>4, <2>5, NothingWaits
<1> QED BY <1>7, <1>8

LEMMA MissFollows ==
    ASSUME Undisturbed, MissInv
    PROVE  NothingMissed
<1> SUFFICES ASSUME Quiescent, NEW p \in monitored, fs[p] # "none", ~Deaf(p) PROVE known[p] = fs[p]
    BY DEF NothingMissed
<1>1. p \in Path /\ Len(p) > 1 /\ Len(p) \in Nat
    BY MonitoredIsWanted, PathsAreLong DEF MissInv, Growth, Quiescent
<1> DEFINE n == Len(p) - 1
<1>2. n \in 1..Len(p) - 1 /\ Parent(p) = SubSeq(p, 1, n)
    <2>1. Len(p) \in 1..Len(p) /\ SubSeq(p, 1, Len(p)) = p
        BY <1>1, PrefixIsThere
    <2>2. PICK q : q = SubSeq(p, 1, Len(p))
        OBVIOUS
    <2>3. Parent(q) = SubSeq(p, 1, n)
        BY <1>1, <2>1, <2>2, PrefixIsThere
    <2>4. q = p /\ n \in 1..Len(p) - 1
        BY <1>1, <2>1, <2>2
    <2> QED BY <2>3, <2>4
<1> HIDE DEF n
<1>3. Live(Parent(p))
    BY <1>2, AboveLives
<1>4. ~closed
    BY DEF Quiescent
<1>5. known[p] = fs[p] \/ Pending(p) \/ Doomed(Parent(p)) \/ loop.stage = "adding"
    BY <1>1, <1>3, <1>4 DEF MissInv, Arrival, Told
<1>6. ~Lost(Parent(p))
    BY <1>1, ParentsAreAbove, LostIsDeaf DEF MissInv
<1> QED BY <1>5, <1>6, NothingWaits

\* No creation and no modification of a monitored path is missed, as long as no queue
\* overflows, no directory goes while it is added, there is one registration, and the
\* loop thread handles no event while register scans (handleEvent, add, onCreate of
\* updateCacheObserver): for every number of directories and changes, an observer that
\* looks at each path it is told of knows every path that exists once all is handled,
\* except below a directory that got a key which the other thread was about to close.
THEOREM NothingIsMissed ==
    ASSUME Undisturbed, MaxRegister <= 1
    PROVE  Spec /\ []NotBoth => []NothingMissed
<1>1. Init => MissInv
    BY MissBegins
<1>2. MissInv /\ NotBoth /\ [Next]_vars => MissInv'
    BY MissInductive
<1>3. MissInv => NothingMissed
    BY MissFollows
<1> QED BY <1>1, <1>2, <1>3, PTL DEF Spec

\* The same, with the same exception, whatever the loop thread handles meanwhile, when all
\* that comes and goes is directly in directories that stay.
THEOREM NothingIsMissedBelow ==
    ASSUME Undisturbed, MaxRegister <= 1, OneLevel
    PROVE  Spec => []NothingMissed
<1>1. Init => MissInv
    BY MissBegins
<1>2. MissInv /\ [Next]_vars => MissInv'
    BY MissInductive
<1>3. MissInv => NothingMissed
    BY MissFollows
<1> QED BY <1>1, <1>2, <1>3, PTL DEF Spec

\* Without the exception: no directory ever gets a key that is about to be closed, and
\* nothing at all is missed, when the loop thread handles no event while register closes
\* keys either.
THEOREM NothingIsMissedAtAll ==
    ASSUME Undisturbed, MaxRegister <= 1
    PROVE  Spec /\ []NotBoth /\ []NotWhileClosing => []NothingMissedAtAll
<1>1. Init => MissInv /\ reused = {}
    BY MissBegins DEF Init
<1>2. MissInv /\ NotBoth /\ [Next]_vars => MissInv'
    BY MissInductive
<1>3. MissInv /\ NotBoth /\ NotWhileClosing /\ reused = {} /\ [Next]_vars => (reused = {})'
    <2> SUFFICES ASSUME MissInv, NotBoth, NotWhileClosing, reused = {}, [Next]_vars
                 PROVE  reused' = {}
        OBVIOUS
    <2>1. ClosingOrder /\ Basis
        BY DEF MissInv, Basis, ScanHolds
    <2>2. CASE Close
        BY <2>2 DEF Close
    <2>3. ASSUME NEW d \in Dir, ScanWatch(d) PROVE ToClose = {}
        <3>1. scan # NoScan /\ scan.by \in {"loop", "call"}
            BY <2>3, WatchGoesOn DEF MissInv, Growth, Turns, LoopScans, CallScans
        <3>2. CASE scan.by = "loop"
            BY <2>1, <3>1, <3>2 DEF ClosingOrder, NotWhileClosing, LoopLocked, ToClose
        <3>3. CASE scan.by = "call"
            BY <2>1, <3>1, <3>3 DEF ClosingOrder, NotBoth, LoopLocked, ToClose
        <3> QED BY <3>1, <3>2, <3>3
    <2>4. ASSUME NEW d \in Dir, ScanWatch(d) PROVE reused' = {}
        BY <2>3, <2>4 DEF ScanWatch, ToClose
    <2>5. CASE ~Close
        BY <2>4, <2>5, ClosingSteps DEF CloseOne, Act
    <2> QED BY <2>2, <2>5
<1>4. MissInv /\ reused = {} => NothingMissedAtAll
    BY MissFollows DEF NothingMissed, NothingMissedAtAll, Deaf
<1> QED BY <1>1, <1>2, <1>3, <1>4, PTL DEF Spec
=============================================================================
