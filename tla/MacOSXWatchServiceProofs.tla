------------------------- MODULE MacOSXWatchServiceProofs -------------------------
(***************************************************************************)
(* That a stream is left for every registered path, for every set of       *)
(* directories, whichever of their names start one another; and that what  *)
(* is reported is delivered, for every number of keys and every size of    *)
(* their queues.  The second needs to know for every reported change who   *)
(* has it: the queue of the callback thread, its task, or a key that is    *)
(* ready or taken.                                                         *)
(***************************************************************************)
EXTENDS MacOSXWatchService, FiniteSetTheorems, SequenceTheorems, WellFoundedInduction, TLAPS

-----------------------------------------------------------------------------
(* What the run loop drops *)

\* Streams are numbered, and no two are for the same path.
StreamsTyped ==
    /\ current_id \in Nat
    /\ IsFiniteSet(DOMAIN streams)
    /\ \A id \in DOMAIN streams : id \in Nat /\ id < current_id /\ streams[id] \in Dir
    /\ \A i, j \in DOMAIN streams : streams[i] = streams[j] => i = j

\* A path is the start of itself.
LEMMA StartsItself == \A p \in Dir : StringPrefix(p, p)
<1> SUFFICES ASSUME NEW p \in Dir PROVE StartsWith(p, p)
    BY DEF StringPrefix
<1>1. Len(p) \in Nat
    BY StringAssumption
<1> QED BY <1>1 DEF StartsWith

\* Of the streams that cover a path, one is covered by no other: the run loop keeps it,
\* however many it drops at once.
LEMMA OneIsKept ==
    ASSUME StreamsTyped, NEW p \in Dir, Covering(p) # {}
    PROVE  \E id \in Covering(p) : id \notin Redundant
<1> DEFINE above(id) == {j \in DOMAIN streams : StringPrefix(streams[j], streams[id])}
           T == {above(id) : id \in Covering(p)}
           S == FiniteSubsetsOf(DOMAIN streams)
           less == StrictSubsetOrdering(DOMAIN streams)
<1>1. \A id \in DOMAIN streams : above(id) \in S
    BY FS_Subset DEF StreamsTyped, FiniteSubsetsOf
<1>2. T \subseteq S /\ T # {}
    BY <1>1 DEF Covering
<1>3. PICK least \in T : \A y \in T : <<y, least>> \notin less
    <2>1. IsWellFoundedOn(less, S)
        BY FS_StrictSubsetOrderingWellFounded
    <2> HIDE DEF T, S, less
    <2> QED BY <1>2, <2>1, WFMin
<1>4. PICK id \in Covering(p) : least = above(id)
    OBVIOUS
<1>5. ASSUME NEW j \in DOMAIN streams \ {id}, StringPrefix(streams[j], streams[id])
      PROVE  FALSE
    <2>1. /\ id \in DOMAIN streams /\ streams[id] \in Dir /\ streams[j] \in Dir
          /\ StringPrefix(streams[id], p)
        BY DEF Covering, StreamsTyped
    <2>2. j \in Covering(p)
        BY <1>5, <2>1, StringAssumption DEF Covering
    <2>3. above(j) \subseteq above(id)
        BY <1>5, <2>1, StringAssumption DEF StreamsTyped
    <2>4. id \in above(id)
        BY <2>1, StartsItself
    <2>5. id \notin above(j)
        BY <1>5, <2>1, StringAssumption DEF StreamsTyped
    <2>6. <<above(j), above(id)>> \in less
        BY <1>1, <2>1, <2>3, <2>4, <2>5 DEF StrictSubsetOrdering, FiniteSubsetsOf
    <2> QED BY <1>3, <1>4, <2>2, <2>6
<1> QED BY <1>5 DEF Redundant
-----------------------------------------------------------------------------
(* The inductive invariant *)

\* What is registered, or about to be.
Registrations == DOMAIN registered \subseteq Dir /\ call \in Dir \cup {<<>>}

\* Only close stops streams, and the monitor last.
OnlyCloseStops ==
    /\ failures \in Nat
    /\ open => streams_to_remove = {} /\ ~stopped

CoverInv == StreamsTyped /\ Registrations /\ OnlyCloseStops /\ StreamsCover

\* Nothing is registered at first.
LEMMA CoverInit == Init => CoverInv
<1> SUFFICES ASSUME Init PROVE CoverInv
    OBVIOUS
<1>1. /\ DOMAIN streams = {} /\ current_id = 0 /\ streams_to_remove = {} /\ ~stopped
      /\ failures = 0 /\ DOMAIN registered = {} /\ call = <<>>
    BY DEF Init, MonitorInit, NoStreams, NoPaths
<1>2. IsFiniteSet(DOMAIN streams)
    BY <1>1, FS_EmptySet
<1> QED BY <1>1, <1>2 DEF CoverInv, StreamsTyped, Registrations, OnlyCloseStops, StreamsCover

\* register, under the lock: the path is covered by what covers a registered path above,
\* by a stream that there was, or by its own, unless the system does not start it.
LEMMA RegisterCovers ==
    ASSUME CoverInv, RegisterLocked
    PROVE  CoverInv'
<1>1. call \in Dir /\ call' = <<>> /\ closing' = closing
    BY DEF RegisterLocked, AddKey, CoverInv, Registrations
<1>2. DOMAIN registered' = DOMAIN registered \cup {call}
    BY DEF RegisterLocked, AddKey, With
<1>3. Registrations'
    BY <1>1, <1>2 DEF CoverInv, Registrations
<1>4. CASE HasStream(call) /\ UNCHANGED monitor
    <2>1. UNCHANGED <<streams, current_id, streams_to_remove, stopped, failures>>
        BY <1>4 DEF monitor
    <2>2. ASSUME open, failures = 0 PROVE Covering(call) # {}
        <3>1. PICK p \in DOMAIN registered : StartsWith(call, p)
            BY <1>4 DEF HasStream
        <3>2. PICK id \in Covering(p) : TRUE
            BY <2>2 DEF CoverInv, StreamsCover
        <3>3. /\ id \in DOMAIN streams /\ streams[id] \in Dir /\ p \in Dir
              /\ StringPrefix(streams[id], p)
            BY <3>2 DEF Covering, CoverInv, StreamsTyped, Registrations
        <3>4. StringPrefix(p, call)
            BY <3>1 DEF StringPrefix
        <3>5. StringPrefix(streams[id], call)
            BY <1>1, <3>3, <3>4, StringAssumption
        <3> QED BY <3>3, <3>5 DEF Covering
    <2>3. StreamsCover'
        BY <1>1, <1>2, <2>1, <2>2 DEF CoverInv, StreamsCover, Covering, open
    <2> QED BY <1>1, <1>3, <2>1, <2>3 DEF CoverInv, StreamsTyped, OnlyCloseStops, open
<1>5. ASSUME NEW handle, CreateStream(call, handle)
      PROVE  CoverInv'
    <2>1. UNCHANGED <<streams_to_remove, stopped>>
        BY <1>5 DEF CreateStream
    <2>2. CASE handle \in Covering(call) /\ UNCHANGED <<streams, current_id, failures>>
        <3>1. StreamsCover'
            BY <1>1, <1>2, <2>2 DEF CoverInv, StreamsCover, Covering, open
        <3> QED BY <1>1, <1>3, <2>1, <2>2, <3>1 DEF CoverInv, StreamsTyped, OnlyCloseStops, open
    <2>3. CASE /\ Covering(call) = {} /\ streams' = With(streams, current_id, call)
               /\ current_id' = current_id + 1 /\ UNCHANGED failures
        <3>1. /\ current_id \notin DOMAIN streams
              /\ DOMAIN streams' = DOMAIN streams \cup {current_id}
              /\ streams'[current_id] = call
              /\ \A id \in DOMAIN streams : streams'[id] = streams[id]
            BY <2>3 DEF With, CoverInv, StreamsTyped
        <3>2. IsFiniteSet(DOMAIN streams')
            BY <3>1, FS_AddElement DEF CoverInv, StreamsTyped
        <3>3. \A id \in DOMAIN streams : streams[id] # call
            BY <1>1, <2>3, StartsItself DEF Covering
        <3>4. StreamsTyped'
            BY <1>1, <2>3, <3>1, <3>2, <3>3 DEF CoverInv, StreamsTyped
        <3>5. ASSUME NEW p \in DOMAIN registered, open, failures = 0
              PROVE  Covering(p)' # {}
            <4>1. PICK id \in DOMAIN streams : StringPrefix(streams[id], p)
                BY <3>5 DEF CoverInv, StreamsCover, Covering
            <4> QED BY <3>1, <4>1 DEF Covering
        <3>6. \E id \in DOMAIN streams' : StringPrefix(streams'[id], call)
            BY <1>1, <3>1, StartsItself
        <3>7. \A p : p = call => Covering(p)' # {}
            BY <3>6 DEF Covering
        <3>8. StreamsCover'
            BY <1>1, <1>2, <2>3, <3>5, <3>7 DEF StreamsCover, open
        <3> QED BY <1>1, <1>3, <2>1, <2>3, <3>4, <3>8 DEF CoverInv, OnlyCloseStops, open
    <2>4. CASE failures' = failures + 1 /\ UNCHANGED <<streams, current_id>>
        <3>1. failures' \in Nat /\ failures' # 0
            BY <2>4 DEF CoverInv, OnlyCloseStops
        <3> QED BY <1>1, <1>3, <2>1, <2>4, <3>1
                   DEF CoverInv, StreamsTyped, OnlyCloseStops, StreamsCover, open
    <2> QED BY <1>5, <2>2, <2>3, <2>4 DEF CreateStream
<1> QED BY <1>4, <1>5 DEF RegisterLocked

\* The run loop drops what others cover, in an open service nothing else.
LEMMA RunLoopCovers ==
    ASSUME CoverInv, RunLoop
    PROVE  CoverInv'
<1>1. UNCHANGED <<registered, call, closing, current_id, stopped, failures>>
    BY DEF RunLoop, Cleanup, CleanupRunLoop, service
<1>2. /\ DOMAIN streams' \subseteq DOMAIN streams
      /\ \A id \in DOMAIN streams' : streams'[id] = streams[id]
      /\ streams_to_remove' \in {streams_to_remove, {}}
    BY DEF RunLoop, Cleanup, CleanupRunLoop, Restrict, NoStreams
<1>3. StreamsTyped'
    <2>1. IsFiniteSet(DOMAIN streams')
        BY <1>2, FS_Subset DEF CoverInv, StreamsTyped
    <2> QED BY <1>1, <1>2, <2>1 DEF CoverInv, StreamsTyped
<1>4. Registrations' /\ OnlyCloseStops'
    BY <1>1, <1>2 DEF CoverInv, Registrations, OnlyCloseStops, open
<1>5. ASSUME open', failures' = 0, NEW p \in DOMAIN registered'
      PROVE  Covering(p)' # {}
    <2>1. open /\ failures = 0 /\ p \in DOMAIN registered /\ p \in Dir
        BY <1>1, <1>5 DEF open, CoverInv, Registrations
    <2>2. PICK id \in Covering(p) : id \notin Redundant
        BY <2>1, OneIsKept DEF CoverInv, StreamsCover
    <2>3. Cleanup /\ streams_to_remove = {}
        BY <2>1 DEF RunLoop, CleanupRunLoop, CoverInv, OnlyCloseStops
    <2>4. DOMAIN streams' = DOMAIN streams \ Redundant
        BY <2>3 DEF Cleanup, Restrict, Redundant
    <2> QED BY <1>2, <2>2, <2>4 DEF Covering
<1>6. StreamsCover'
    BY <1>5 DEF StreamsCover
<1> QED BY <1>3, <1>4, <1>6 DEF CoverInv

\* The parts of close: from the first on the service is not open.
LEMMA CloseCovers ==
    ASSUME CoverInv, Close
    PROVE  CoverInv'
<1>1. ~open'
    BY DEF Close, BeginClose, StopAll, ClearAll, StopMonitor, EndClose, open
<1>2. UNCHANGED <<streams, current_id, failures, call>>
    BY DEF Close, BeginClose, StopAll, ClearAll, StopMonitor, EndClose, StopStreams, CloseMonitor,
           monitor
<1>3. DOMAIN registered' \subseteq DOMAIN registered
    BY DEF Close, BeginClose, StopAll, ClearAll, StopMonitor, EndClose, NoPaths
<1> QED BY <1>1, <1>2, <1>3
           DEF CoverInv, StreamsTyped, Registrations, OnlyCloseStops, StreamsCover

\* Every step keeps the invariant; callbacks and the consumer leave streams and paths alone.
LEMMA CoverInductive == CoverInv /\ [Next]_vars => CoverInv'
<1> SUFFICES ASSUME CoverInv, [Next]_vars PROVE CoverInv'
    OBVIOUS
<1> DEFINE same == UNCHANGED <<streams, current_id, streams_to_remove, stopped, failures, closing>>
<1>1. ASSUME same, DOMAIN registered' = DOMAIN registered, call' \in Dir \cup {<<>>}
      PROVE  CoverInv'
    BY <1>1 DEF CoverInv, StreamsTyped, Registrations, OnlyCloseStops, StreamsCover, Covering, open
<1>2. CASE Callback
    <2>1. same /\ call' = call /\ DOMAIN registered' = DOMAIN registered
        BY <1>2 DEF Callback, NextCallback, AddEvent, AddOverflow, monitor
    <2> QED BY <1>1, <2>1 DEF CoverInv, Registrations
<1>3. CASE Consume \/ UNCHANGED vars
    BY <1>1, <1>3 DEF Consume, Take, PollCount, PollEvents, vars, monitor, service,
                      CoverInv, Registrations
<1>4. CASE \E p \in Dir : Register(p)
    BY <1>1, <1>4 DEF Register, monitor
<1>5. CASE RegisterFails
    BY <1>1, <1>5 DEF RegisterFails, monitor
<1>6. CASE \E p \in Path : Change(p)
    BY <1>1, <1>6 DEF Change, Report, service, CoverInv, Registrations
<1> QED BY <1>2, <1>3, <1>4, <1>5, <1>6, RegisterCovers, RunLoopCovers, CloseCovers DEF Next

\* However registrations, drops and the run loop interleave, every registered path is
\* covered by a stream while the service is open and the system starts its streams
\* (MacOSXWatchService.java; swoval_apple_file_system.hpp, cleanupFunc).
THEOREM EveryPathIsCovered == Spec => []StreamsCover
<1>1. CoverInv => StreamsCover
    BY DEF CoverInv
<1> QED BY <1>1, CoverInit, CoverInductive, PTL DEF Spec
-----------------------------------------------------------------------------
(* Sequences, paths and what an event tells *)

\* A sequence and one more element.
LEMMA RangeAppend ==
    ASSUME NEW S, NEW s \in Seq(S), NEW e \in S
    PROVE  Append(s, e) \in Seq(S) /\ Range(Append(s, e)) = Range(s) \cup {e}
<1>1. /\ Append(s, e) \in Seq(S) /\ Len(Append(s, e)) = Len(s) + 1
      /\ \A i \in 1..Len(s) : Append(s, e)[i] = s[i]
      /\ Append(s, e)[Len(s) + 1] = e
    BY AppendProperties
<1>2. /\ Len(s) \in Nat /\ DOMAIN s = 1..Len(s) /\ DOMAIN Append(s, e) = 1..Len(s) + 1
    BY <1>1, LenProperties
<1>3. Range(s) \cup {e} \subseteq Range(Append(s, e))
    BY <1>1, <1>2 DEF Range
<1>4. ASSUME NEW i \in DOMAIN Append(s, e) PROVE Append(s, e)[i] \in Range(s) \cup {e}
    <2>1. i \in DOMAIN s \/ i = Len(s) + 1
        BY <1>2
    <2> QED BY <1>1, <1>2, <2>1 DEF Range
<1>5. Range(Append(s, e)) \subseteq Range(s) \cup {e}
    BY <1>4 DEF Range
<1> QED BY <1>1, <1>3, <1>5

\* A sequence without repetitions, and one more element that is not in it.
LEMMA AppendNew ==
    ASSUME NEW S, NEW s \in Seq(S), IsInjective(s), NEW e \in S, e \notin Range(s)
    PROVE  IsInjective(Append(s, e))
<1>1. /\ \A i \in 1..Len(s) : Append(s, e)[i] = s[i]
      /\ Append(s, e)[Len(s) + 1] = e
      /\ Len(s) \in Nat /\ DOMAIN s = 1..Len(s) /\ DOMAIN Append(s, e) = 1..Len(s) + 1
    BY AppendProperties, LenProperties
<1> SUFFICES ASSUME NEW i \in 1..Len(s) + 1, NEW j \in 1..Len(s) + 1,
                    Append(s, e)[i] = Append(s, e)[j]
             PROVE  i = j
    BY <1>1 DEF IsInjective
<1>2. \A n \in 1..Len(s) : s[n] # e
    BY <1>1 DEF Range
<1>3. CASE i \in 1..Len(s) /\ j \in 1..Len(s)
    BY <1>1, <1>3 DEF IsInjective
<1>4. CASE i = Len(s) + 1 \/ j = Len(s) + 1
    BY <1>1, <1>2, <1>4
<1> QED BY <1>1, <1>3, <1>4

\* The head of a sequence and its tail.
LEMMA RangeTail ==
    ASSUME NEW S, NEW s \in Seq(S), s # <<>>
    PROVE  /\ Head(s) \in S /\ Tail(s) \in Seq(S)
           /\ Range(s) = {Head(s)} \cup Range(Tail(s))
           /\ \A i \in DOMAIN s : i # 1 => i - 1 \in DOMAIN Tail(s) /\ Tail(s)[i - 1] = s[i]
           /\ IsInjective(s) => IsInjective(Tail(s))
<1>1. Len(s) \in Nat \ {0} /\ DOMAIN s = 1..Len(s) /\ Head(s) = s[1]
    BY EmptySeq, LenProperties
<1>2. /\ Head(s) \in S /\ Tail(s) \in Seq(S) /\ Len(Tail(s)) = Len(s) - 1
      /\ \A i \in 1..Len(Tail(s)) : Tail(s)[i] = s[i + 1]
    BY HeadTailProperties
<1>3. DOMAIN Tail(s) = 1..Len(s) - 1
    BY <1>2, LenProperties
<1>4. ASSUME NEW i \in DOMAIN s
      PROVE  i # 1 => i - 1 \in DOMAIN Tail(s) /\ Tail(s)[i - 1] = s[i]
    <2>1. CASE i # 1
        <3>1. i - 1 \in 1..Len(Tail(s)) /\ (i - 1) + 1 = i
            BY <1>1, <1>2, <2>1
        <3> QED BY <1>2, <1>3, <3>1
    <2> QED BY <2>1
<1>5. \A i \in DOMAIN Tail(s) : i + 1 \in DOMAIN s /\ Tail(s)[i] = s[i + 1]
    BY <1>1, <1>2, <1>3
<1>6. Range(s) \subseteq {Head(s)} \cup Range(Tail(s))
    BY <1>1, <1>4 DEF Range
<1>7. {Head(s)} \cup Range(Tail(s)) \subseteq Range(s)
    BY <1>1, <1>5 DEF Range
<1>8. IsInjective(s) => IsInjective(Tail(s))
    <2> SUFFICES ASSUME IsInjective(s), NEW i \in DOMAIN Tail(s), NEW j \in DOMAIN Tail(s),
                        Tail(s)[i] = Tail(s)[j]
                 PROVE  i = j
        BY DEF IsInjective
    <2>1. i + 1 = j + 1
        BY <1>5 DEF IsInjective
    <2> QED BY <1>2, <1>3, <2>1
<1> QED BY <1>2, <1>4, <1>6, <1>7, <1>8

\* The members of a finite set, one after the other.
LEMMA SetToSeqOfFinite ==
    ASSUME NEW S, IsFiniteSet(S)
    PROVE  SetToSeq(S) \in Seq(S)
<1> DEFINE n == Cardinality(S)
<1>1. n \in Nat /\ ExistsBijection(1..n, S)
    BY FS_CardinalityType
<1>2. PICK f \in [1..n -> S] : IsInjective(f)
    BY <1>1 DEF ExistsBijection, Bijection, Injection
<1>3. SetToSeq(S) \in [1..n -> S]
    BY <1>2 DEF SetToSeq
<1> HIDE DEF n
<1> QED BY <1>1, <1>3, SeqDef

\* A path starts with itself and with its parent.
LEMMA StartsWithParent ==
    ASSUME NEW p \in Seq(STRING) \ {<<>>}
    PROVE  StartsWith(p, p) /\ StartsWith(p, Parent(p))
<1>1. Len(p) \in Nat \ {0} /\ \A i \in 1..Len(p) - 1 : p[i] \in STRING
    BY EmptySeq, LenProperties
<1> DEFINE n == Len(p) - 1
<1>2. n \in Nat /\ \A i \in 1..n : p[i] \in STRING
    BY <1>1
<1> HIDE DEF n
<1>3. Len(SubSeq(p, 1, n)) = n /\ \A i \in 1..n : SubSeq(p, 1, n)[i] = p[i]
    <2>1. /\ Len(SubSeq(p, 1, n)) = IF 1 <= n THEN n - 1 + 1 ELSE 0
          /\ \A i \in 1..n - 1 + 1 : SubSeq(p, 1, n)[i] = p[1 + i - 1]
        BY <1>2, SubSeqProperties
    <2> QED BY <1>2, <2>1
<1>4. Len(Parent(p)) = n /\ \A i \in 1..n : Parent(p)[i] = p[i]
    BY <1>3 DEF Parent, n
<1>5. n + 1 = Len(p)
    BY <1>1 DEF n
<1> QED BY <1>1, <1>2, <1>4, <1>5 DEF StartsWith

\* What starts with a path starts with what that starts with.
LEMMA StartsWithTrans ==
    ASSUME NEW p \in Seq(STRING), NEW q \in Seq(STRING), NEW r, Len(r) \in Nat,
           StartsWith(p, q), StartsWith(q, r)
    PROVE  StartsWith(p, r)
<1>1. Len(p) \in Nat /\ Len(q) \in Nat
    OBVIOUS
<1> QED BY <1>1 DEF StartsWith
-----------------------------------------------------------------------------
(* Types, and what each key is at *)

FileEvent == [kind : {"file"}, path : Path] \cup [kind : {"scan", "drop"}, path : Dir]
Key == [path : Dir, events : Seq(Path \cup {Overflow}), overflow : Nat]

\* The callback thread is in the middle of addOverflow for k, from step n on.
Overflowing(k, n) == task.kind = "scan" /\ task.key = k /\ task.step >= n

\* Events are for what is below the key.
Below(path) == {p \in Path : StartsWith(p, path)}
KeyTyped(key) ==
    /\ key \in Key
    /\ Len(key.events) <= QueueSize
    /\ Range(key.events) \subseteq {Overflow} \cup Below(key.path)

KeysTyped == keys \in Seq(Key) /\ \A k \in DOMAIN keys : KeyTyped(keys[k])

RegisteredTyped ==
    \A p \in DOMAIN registered :
        /\ registered[p] \in [handle : Int, keys : SUBSET DOMAIN keys]
        /\ \A k \in registered[p].keys : keys[k].path = p
        /\ registered[p].handle \in 0 .. current_id - 1 \cup {Invalid}
        /\ open => registered[p].keys # {}

TaskTyped ==
    \/ task = Idle
    \/ /\ task = [kind |-> task.kind, path |-> task.path, left |-> task.left, step |-> task.step,
                  key |-> task.key]
       /\ \/ task.kind = "file" /\ task.path \in Path /\ task.step = 1
          \/ task.kind = "scan" /\ task.path \in Dir /\ task.step \in 1..3
       /\ task.left \subseteq DOMAIN keys /\ task.left # {}
       /\ \A k \in task.left : keys[k].path \in {task.path, Parent(task.path)}
       /\ task.step > 1 => task.key \in task.left

HandTyped ==
    /\ hand = [key |-> hand.key, counted |-> hand.counted, overflow |-> hand.overflow]
    /\ hand.key \in {0} \cup DOMAIN keys /\ hand.counted \in BOOLEAN /\ hand.overflow \in Nat
    /\ hand.key = 0 => hand = NoHand

ReadyTyped == readyKeys \in Seq(DOMAIN keys) /\ IsInjective(readyKeys)

ServiceTyped ==
    /\ KeysTyped /\ ReadyTyped /\ RegisteredTyped /\ TaskTyped /\ HandTyped
    /\ callbacks \in Seq(FileEvent)
    /\ behind \subseteq Path

\* Who has something to tell is ready, or taken, or about to be signalled.
Signalling ==
    \A k \in DOMAIN keys :
        /\ keys[k].events # <<>> =>
              k \in Range(readyKeys) \/ hand.key = k \/ Overflowing(k, 2)
        /\ keys[k].overflow # 0 =>
              k \in Range(readyKeys) \/ (hand.key = k /\ ~hand.counted) \/ Overflowing(k, 3)

\* What key k tells of when it is taken, and what the key in hand tells of with its count.
Holds(k, p) == p \in Told(keys[k].path, Range(keys[k].events), keys[k].overflow)
InHand(p) == hand.counted /\ p \in Told(keys[hand.key].path, Range(keys[hand.key].events), hand.overflow)

\* With a key: this will be told, whatever happens to the other keys.
WithKey(p) ==
    \/ \E k \in DOMAIN keys : Holds(k, p) /\ (k \in Range(readyKeys) \/ (hand.key = k /\ ~hand.counted))
    \/ hand.key # 0 /\ InHand(p)

Reported(p) == \E i \in DOMAIN callbacks : Tells(callbacks[i], p)

\* A task that ends leaves all it should tell with its last key: for a scan, already
\* when the overflow is in the key, though the key is not yet ready.
Settled(p) == Reported(p) \/ WithKey(p) \/ (Overflowing(task.key, 2) /\ Holds(task.key, p))

Delivered(p) ==
    /\ Near(p)
    /\ Reported(p) \/ Tells(task, p) \/ WithKey(p)
    /\ task.kind = "scan" /\ task.step > 1 => Settled(p)

Delivering == open /\ ~thrown /\ ~skipped => \A p \in behind : Delivered(p)

ServiceInv == ServiceTyped /\ Signalling /\ Delivering
-----------------------------------------------------------------------------
(* Keys that hold more and more *)

\* Who is told more, by a count or by events, looks at more.
LEMMA ToldGrows ==
    ASSUME NEW path, NEW E1, NEW E2, E1 \subseteq E2, E2 \subseteq {Overflow} \cup Below(path),
           NEW o1, NEW o2, o1 > 0 => o2 > 0
    PROVE  /\ Told(path, E1, o1) \subseteq Told(path, E2, o2)
           /\ Told(path, E2, o2) \subseteq Below(path)
           /\ o2 > 0 => Told(path, E2, o2) = Below(path)
<1>1. CASE o1 > 0 \/ Overflow \in E1
    BY <1>1 DEF Told, Below
<1>2. CASE ~(o1 > 0 \/ Overflow \in E1)
    BY <1>2 DEF Told, Below
<1> QED BY <1>1, <1>2

\* What a key is for, and what it holds.
LEMMA KeyFields ==
    ASSUME KeysTyped, NEW k \in DOMAIN keys
    PROVE  /\ keys[k] \in Key /\ KeyTyped(keys[k])
           /\ keys[k] = [path |-> keys[k].path, events |-> keys[k].events, overflow |-> keys[k].overflow]
           /\ keys[k].path \in Dir /\ keys[k].overflow \in Nat
           /\ keys[k].events \in Seq(Path \cup {Overflow}) /\ Len(keys[k].events) <= QueueSize
           /\ Range(keys[k].events) \subseteq {Overflow} \cup Below(keys[k].path)
<1>1. keys[k] \in Key /\ KeyTyped(keys[k])
    BY DEF KeysTyped
<1> QED BY <1>1 DEF Key, KeyTyped

\* The keys are numbered from 1.
LEMMA KeyNumbers ==
    ASSUME KeysTyped
    PROVE  Len(keys) \in Nat /\ DOMAIN keys = 1..Len(keys) /\ 0 \notin DOMAIN keys
<1>1. keys \in Seq(Key)
    BY DEF KeysTyped
<1>2. Len(keys) \in Nat /\ DOMAIN keys = 1..Len(keys)
    BY <1>1, LenProperties
<1> QED BY <1>2

\* The keys hold what they held, and who was ready or taken still is.
Growing ==
    /\ DOMAIN keys \subseteq DOMAIN keys'
    /\ \A k \in DOMAIN keys :
        /\ keys'[k].path = keys[k].path
        /\ Range(keys[k].events) \subseteq Range(keys'[k].events)
        /\ keys[k].overflow > 0 => keys'[k].overflow > 0
    /\ Range(readyKeys) \subseteq Range(readyKeys')
    /\ hand' = hand

\* Then what was with a key still is.
LEMMA GrowingKeeps ==
    ASSUME KeysTyped, KeysTyped', Growing, NEW p
    PROVE  /\ \A k \in DOMAIN keys : Holds(k, p) => Holds(k, p)'
           /\ hand.key \in DOMAIN keys /\ InHand(p) => InHand(p)'
           /\ hand.key \in {0} \cup DOMAIN keys /\ WithKey(p) => WithKey(p)'
<1>1. ASSUME NEW k \in DOMAIN keys
      PROVE  /\ Holds(k, p) => Holds(k, p)'
             /\ \A o : p \in Told(keys[k].path, Range(keys[k].events), o) =>
                    p \in Told(keys'[k].path, Range(keys'[k].events), o)
    <2>1. /\ k \in DOMAIN keys' /\ keys'[k].path = keys[k].path
          /\ Range(keys[k].events) \subseteq Range(keys'[k].events)
          /\ keys[k].overflow > 0 => keys'[k].overflow > 0
        BY DEF Growing
    <2>2. Range(keys'[k].events) \subseteq {Overflow} \cup Below(keys[k].path)
        BY <2>1 DEF KeysTyped, KeyTyped
    <2>3. \A o : Told(keys[k].path, Range(keys[k].events), o)
                    \subseteq Told(keys[k].path, Range(keys'[k].events), o)
        BY <2>1, <2>2, ToldGrows
    <2>4. Told(keys[k].path, Range(keys[k].events), keys[k].overflow)
            \subseteq Told(keys[k].path, Range(keys'[k].events), keys'[k].overflow)
        BY <2>1, <2>2, ToldGrows
    <2> QED BY <2>1, <2>3, <2>4 DEF Holds
<1>2. hand.key \in DOMAIN keys /\ InHand(p) => InHand(p)'
    BY <1>1 DEF InHand, Growing
<1>3. ASSUME hand.key \in {0} \cup DOMAIN keys, WithKey(p) PROVE WithKey(p)'
    <2>1. CASE hand.key # 0 /\ InHand(p)
        BY <1>2, <1>3, <2>1 DEF WithKey, Growing
    <2>2. ASSUME NEW k \in DOMAIN keys, Holds(k, p),
                 k \in Range(readyKeys) \/ (hand.key = k /\ ~hand.counted)
          PROVE  WithKey(p)'
        <3>1. k \in DOMAIN keys' /\ Holds(k, p)'
            BY <1>1, <2>2 DEF Growing
        <3>2. k \in Range(readyKeys') \/ (hand'.key = k /\ ~hand'.counted)
            BY <2>2 DEF Growing
        <3> QED BY <3>1, <3>2 DEF WithKey
    <2> QED BY <1>3, <2>1, <2>2 DEF WithKey
<1> QED BY <1>1, <1>2, <1>3

\* One key is given other events and another count.
LEMMA OneKeyChanges ==
    ASSUME KeysTyped, NEW k \in DOMAIN keys,
           NEW E \in Seq(Path \cup {Overflow}), Len(E) <= QueueSize,
           Range(E) \subseteq {Overflow} \cup Below(keys[k].path), NEW n \in Nat,
           keys' = [keys EXCEPT ![k] = [path |-> keys[k].path, events |-> E, overflow |-> n]]
    PROVE  /\ KeysTyped' /\ DOMAIN keys' = DOMAIN keys
           /\ \A j \in DOMAIN keys : j # k => keys'[j] = keys[j]
           /\ keys'[k].path = keys[k].path /\ keys'[k].events = E /\ keys'[k].overflow = n
<1> DEFINE key == [path |-> keys[k].path, events |-> E, overflow |-> n]
<1>1. key \in Key /\ KeyTyped(key)
    BY KeyFields DEF Key, KeyTyped
<1>2. keys \in Seq(Key) /\ DOMAIN keys = 1..Len(keys) /\ Len(keys) \in Nat
    BY KeyNumbers DEF KeysTyped
<1>3. keys' = [keys EXCEPT ![k] = key]
    OBVIOUS
<1>4. key.path = keys[k].path /\ key.events = E /\ key.overflow = n
    OBVIOUS
<1> HIDE DEF key
<1>5. keys' \in Seq(Key) /\ DOMAIN keys' = DOMAIN keys
    BY <1>1, <1>2, <1>3, ExceptSeq, LenProperties
<1>6. keys'[k] = key /\ \A j \in DOMAIN keys : j # k => keys'[j] = keys[j]
    BY <1>2, <1>3
<1>7. \A j \in DOMAIN keys' : KeyTyped(keys'[j])
    BY <1>1, <1>5, <1>6 DEF KeysTyped
<1>8. KeysTyped'
    BY <1>5, <1>7 DEF KeysTyped
<1> QED BY <1>4, <1>5, <1>6, <1>8
-----------------------------------------------------------------------------
(* Steps that leave the keys and the two threads alone *)

\* Nothing is registered, reported or behind.
LEMMA ServiceInit == Init => ServiceInv
<1> SUFFICES ASSUME Init PROVE ServiceInv
    OBVIOUS
<1>1. /\ keys = <<>> /\ registered = NoPaths /\ readyKeys = <<>> /\ task = Idle
      /\ hand = NoHand /\ behind = {} /\ callbacks = <<>>
    BY DEF Init, MonitorInit
<1>2. DOMAIN keys = {} /\ KeysTyped
    BY <1>1 DEF KeysTyped
<1>3. ReadyTyped /\ RegisteredTyped /\ TaskTyped /\ callbacks \in Seq(FileEvent)
    BY <1>1 DEF ReadyTyped, RegisteredTyped, TaskTyped, NoPaths, IsInjective
<1>4. HandTyped
    BY <1>1 DEF HandTyped, NoHand
<1>5. Signalling /\ Delivering
    BY <1>1, <1>2 DEF Signalling, Delivering
<1> QED BY <1>1, <1>2, <1>3, <1>4, <1>5 DEF ServiceInv, ServiceTyped

Untouched == UNCHANGED <<keys, readyKeys, task, hand>>

\* What does not change stays well typed,
LEMMA UntouchedTyped ==
    ASSUME ServiceTyped, Signalling, Untouched
    PROVE  KeysTyped' /\ ReadyTyped' /\ TaskTyped' /\ HandTyped' /\ Signalling'
<1>1. UNCHANGED <<keys, readyKeys, task, hand>>
    BY DEF Untouched
<1>2. KeysTyped' /\ ReadyTyped' /\ HandTyped'
    BY <1>1 DEF ServiceTyped, KeysTyped, ReadyTyped, HandTyped
<1>3. TaskTyped'
    BY <1>1 DEF ServiceTyped, TaskTyped
<1>4. Signalling'
    BY <1>1 DEF Signalling, Overflowing
<1> QED BY <1>2, <1>3, <1>4

\* and what is delivered stays delivered, if it is registered and reported as before.
LEMMA UntouchedDelivered ==
    ASSUME Untouched, DOMAIN registered \subseteq DOMAIN registered', NEW p, Delivered(p),
           Reported(p) => Reported(p)'
    PROVE  Delivered(p)'
<1>1. UNCHANGED <<keys, readyKeys, task, hand>>
    BY DEF Untouched
<1>2. Near(p)'
    BY DEF Delivered, Near
<1>3. (WithKey(p) => WithKey(p)') /\ (Tells(task, p) => Tells(task, p)')
    BY <1>1 DEF WithKey, Holds, InHand, Tells
<1>4. Settled(p) => Settled(p)'
    BY <1>1, <1>3 DEF Settled, Overflowing, Holds
<1> QED BY <1>1, <1>2, <1>3, <1>4 DEF Delivered

\* A call of register that waits or fails.
LEMMA RegisterKeepsService ==
    ASSUME ServiceInv, UNCHANGED <<monitor, keys, registered, readyKeys, task, hand, closing, account>>
    PROVE  ServiceInv'
<1>1. Untouched /\ UNCHANGED <<registered, callbacks, current_id, closing, behind, thrown, skipped>>
    BY DEF Untouched, monitor, account
<1>2. KeysTyped' /\ ReadyTyped' /\ TaskTyped' /\ HandTyped' /\ Signalling'
    BY <1>1, UntouchedTyped DEF ServiceInv
<1>3. RegisteredTyped' /\ callbacks' \in Seq(FileEvent) /\ behind' \subseteq Path
    BY <1>1 DEF ServiceInv, ServiceTyped, RegisteredTyped, Untouched, open
<1>4. \A p : Delivered(p) => Delivered(p)'
    BY <1>1, UntouchedDelivered DEF Reported
<1>5. Delivering'
    BY <1>1, <1>4 DEF ServiceInv, Delivering, open
<1> QED BY <1>2, <1>3, <1>5 DEF ServiceInv, ServiceTyped

\* Once close has begun nothing has to be delivered.
LEMMA CloseKeepsService ==
    ASSUME ServiceInv, Close
    PROVE  ServiceInv'
<1>1. Untouched /\ ~open' /\ UNCHANGED <<current_id, behind>> /\ callbacks' \in {callbacks, <<>>}
    BY DEF Close, BeginClose, StopAll, ClearAll, StopMonitor, EndClose, Untouched, StopStreams,
           CloseMonitor, monitor, account, open
<1>2. KeysTyped' /\ ReadyTyped' /\ TaskTyped' /\ HandTyped' /\ Signalling'
    BY <1>1, UntouchedTyped DEF ServiceInv
<1>3. callbacks' \in Seq(FileEvent) /\ behind' \subseteq Path
    <2>1. <<>> \in Seq(FileEvent) /\ callbacks \in Seq(FileEvent)
        BY EmptySeq DEF ServiceInv, ServiceTyped
    <2> QED BY <1>1, <2>1 DEF ServiceInv, ServiceTyped
<1>4. ASSUME NEW p \in DOMAIN registered'
      PROVE  /\ p \in DOMAIN registered
             /\ registered'[p] = [registered[p] EXCEPT !.keys = {}] \/ registered'[p] = registered[p]
    BY <1>4 DEF Close, BeginClose, StopAll, ClearAll, StopMonitor, EndClose, NoPaths
<1>5. ASSUME NEW p \in DOMAIN registered'
      PROVE  /\ registered'[p] \in [handle : Int, keys : SUBSET DOMAIN keys]
             /\ \A k \in registered'[p].keys : keys[k].path = p
             /\ registered'[p].handle \in 0 .. current_id - 1 \cup {Invalid}
    <2>1. /\ registered[p] \in [handle : Int, keys : SUBSET DOMAIN keys]
          /\ \A k \in registered[p].keys : keys[k].path = p
          /\ registered[p].handle \in 0 .. current_id - 1 \cup {Invalid}
        BY <1>4 DEF ServiceInv, ServiceTyped, RegisteredTyped
    <2> QED BY <1>4, <2>1
<1>6. RegisteredTyped'
    BY <1>1, <1>5 DEF RegisteredTyped, Untouched
<1> QED BY <1>1, <1>2, <1>3, <1>6 DEF ServiceInv, ServiceTyped, Delivering

\* One more event for the callback thread, or more.
LEMMA MoreReported ==
    ASSUME callbacks \in Seq(FileEvent), NEW more \in Seq(FileEvent), callbacks' = callbacks \o more
    PROVE  /\ callbacks' \in Seq(FileEvent)
           /\ \A p : Reported(p) => Reported(p)'
<1>1. /\ callbacks' \in Seq(FileEvent)
      /\ Len(callbacks') = Len(callbacks) + Len(more)
      /\ \A i \in 1..Len(callbacks) + Len(more) :
            callbacks'[i] = IF i <= Len(callbacks) THEN callbacks[i] ELSE more[i - Len(callbacks)]
    BY ConcatProperties
<1>2. /\ Len(callbacks) \in Nat /\ Len(more) \in Nat /\ DOMAIN callbacks = 1..Len(callbacks)
      /\ DOMAIN callbacks' = 1..Len(callbacks) + Len(more)
    BY <1>1, LenProperties
<1>3. \A i \in DOMAIN callbacks : i \in DOMAIN callbacks' /\ callbacks'[i] = callbacks[i]
    BY <1>1, <1>2
<1> QED BY <1>1, <1>3 DEF Reported

\* The run loop reports what it drops.
LEMMA RunLoopKeepsService ==
    ASSUME CoverInv, ServiceInv, RunLoop
    PROVE  ServiceInv'
<1>1. Untouched /\ UNCHANGED <<registered, current_id, closing, behind, thrown, skipped>>
    BY DEF RunLoop, Cleanup, CleanupRunLoop, Untouched, service, account
<1>2. KeysTyped' /\ ReadyTyped' /\ TaskTyped' /\ HandTyped' /\ Signalling'
    BY <1>1, UntouchedTyped DEF ServiceInv
<1>3. callbacks' \in Seq(FileEvent) /\ \A p : Reported(p) => Reported(p)'
    <2>1. CASE Cleanup
        <3> DEFINE gone == (Redundant \cup streams_to_remove) \cap DOMAIN streams
                   dropped == {[kind |-> "drop", path |-> streams[id]] : id \in gone}
        <3>1. callbacks' = callbacks \o SetToSeq(dropped)
            BY <2>1 DEF Cleanup
        <3>2. gone \subseteq DOMAIN streams /\ IsFiniteSet(gone)
            BY FS_Subset DEF CoverInv, StreamsTyped
        <3>3. dropped \subseteq FileEvent
            BY <3>2 DEF CoverInv, StreamsTyped, FileEvent
        <3>4. IsFiniteSet(dropped)
            <4> DEFINE f == [id \in gone |-> [kind |-> "drop", path |-> streams[id]]]
            <4>1. f \in Surjection(gone, dropped)
                BY DEF Surjection
            <4> QED BY <3>2, <4>1, FS_Surjection
        <3>5. SetToSeq(dropped) \in Seq(FileEvent)
            BY <3>3, <3>4, SetToSeqOfFinite, SeqMonotonic
        <3> HIDE DEF dropped
        <3> QED BY <3>1, <3>5, MoreReported DEF ServiceInv, ServiceTyped
    <2>2. CASE CleanupRunLoop
        BY <2>2 DEF CleanupRunLoop, Reported, ServiceInv, ServiceTyped
    <2> QED BY <2>1, <2>2 DEF RunLoop
<1>4. RegisteredTyped' /\ behind' \subseteq Path
    BY <1>1 DEF ServiceInv, ServiceTyped, RegisteredTyped, Untouched, open
<1>5. \A p : Delivered(p) => Delivered(p)'
    BY <1>1, <1>3, UntouchedDelivered
<1>6. Delivering'
    BY <1>1, <1>5 DEF ServiceInv, Delivering, open
<1> QED BY <1>2, <1>3, <1>4, <1>6 DEF ServiceInv, ServiceTyped

\* A change is reported; it is behind if there is a key for it.
LEMMA ChangeKeepsService ==
    ASSUME ServiceInv, NEW path \in Path, Change(path)
    PROVE  ServiceInv'
<1>1. Untouched /\ UNCHANGED <<registered, current_id, closing, thrown, skipped>>
    BY DEF Change, Report, Untouched, service
<1>2. KeysTyped' /\ ReadyTyped' /\ TaskTyped' /\ HandTyped' /\ Signalling'
    BY <1>1, UntouchedTyped DEF ServiceInv
<1>3. PICK event \in FileEvent : callbacks' = Append(callbacks, event) /\ Tells(event, path)
    <2>1. CASE Report([kind |-> "file", path |-> path])
        <3>1. [kind |-> "file", path |-> path] \in FileEvent
            BY DEF FileEvent
        <3> QED BY <2>1, <3>1 DEF Report, Tells
    <2>2. ASSUME NEW d \in Dir, StartsWith(path, d), Report([kind |-> "scan", path |-> d])
          PROVE  \E event \in FileEvent : callbacks' = Append(callbacks, event) /\ Tells(event, path)
        <3>1. [kind |-> "scan", path |-> d] \in FileEvent
            BY DEF FileEvent
        <3> QED BY <2>2, <3>1 DEF Report, Tells
    <2> QED BY <2>1, <2>2 DEF Change
<1>4. /\ callbacks' \in Seq(FileEvent) /\ \A p : Reported(p) => Reported(p)'
      /\ Reported(path)'
    <2>1. callbacks \in Seq(FileEvent) /\ <<event>> \in Seq(FileEvent)
        BY DEF ServiceInv, ServiceTyped
    <2>2. callbacks' = callbacks \o <<event>>
        BY <1>3, <2>1, AppendIsConcat
    <2>3. callbacks' \in Seq(FileEvent) /\ \A p : Reported(p) => Reported(p)'
        BY <2>1, <2>2, MoreReported
    <2>4. Len(callbacks) + 1 \in DOMAIN callbacks' /\ callbacks'[Len(callbacks) + 1] = event
        BY <1>3, <2>1, AppendProperties, LenProperties
    <2> QED BY <1>3, <2>3, <2>4 DEF Reported
<1>5. RegisteredTyped'
    BY <1>1 DEF ServiceInv, ServiceTyped, RegisteredTyped, Untouched, open
<1>6. behind' \subseteq Path /\ \A p \in behind' : p \in behind \/ (p = path /\ Near(p))
    BY DEF Change, ServiceInv, ServiceTyped
<1>7. \A p : Delivered(p) => Delivered(p)'
    BY <1>1, <1>4, UntouchedDelivered
<1>8. Near(path) => Delivered(path)'
    BY <1>1, <1>4 DEF Delivered, Settled, Near
<1>9. Delivering'
    BY <1>1, <1>6, <1>7, <1>8 DEF ServiceInv, Delivering, open
<1> QED BY <1>2, <1>4, <1>5, <1>6, <1>9 DEF ServiceInv, ServiceTyped
-----------------------------------------------------------------------------
(* register *)

\* What is not done with keys there were does not change them.
LEMMA GrowingDelivered ==
    ASSUME KeysTyped, KeysTyped', Growing, hand.key \in {0} \cup DOMAIN keys,
           DOMAIN registered \subseteq DOMAIN registered', task' = task, callbacks' = callbacks,
           task.kind = "scan" /\ task.step > 1 => task.key \in DOMAIN keys,
           NEW p, Delivered(p)
    PROVE  Delivered(p)'
<1>1. WithKey(p) => WithKey(p)'
    BY GrowingKeeps
<1>2. \A k \in DOMAIN keys : Holds(k, p) => Holds(k, p)'
    BY GrowingKeeps
<1>3. Near(p)' /\ (Reported(p) => Reported(p)') /\ (Tells(task, p) => Tells(task, p)')
    BY DEF Delivered, Near, Reported
<1>4. ASSUME task.kind = "scan", task.step > 1, Settled(p) PROVE Settled(p)'
    BY <1>1, <1>2, <1>3, <1>4 DEF Settled, Overflowing
<1> QED BY <1>1, <1>3, <1>4 DEF Delivered

\* The key of a scan that is half done is one of those left.
LEMMA ScannedKey ==
    ASSUME TaskTyped, task.kind = "scan", task.step > 1
    PROVE  task.key \in task.left /\ task.key \in DOMAIN keys
BY DEF TaskTyped, Idle

\* A new key holds nothing.
LEMMA RegisterLockedKeepsService ==
    ASSUME CoverInv, CoverInv', ServiceInv, RegisterLocked
    PROVE  ServiceInv'
<1>1. PICK handle : AddKey(handle) /\ (handle = Invalid \/ handle \in 0 .. current_id' - 1)
    <2>1. CASE HasStream(call) /\ AddKey(Invalid)
        BY <2>1
    <2>2. ASSUME NEW handle, CreateStream(call, handle), AddKey(handle)
          PROVE  handle = Invalid \/ handle \in 0 .. current_id' - 1
        <3>1. current_id \in Nat /\ \A id \in DOMAIN streams : id \in Nat /\ id < current_id
            BY DEF CoverInv, StreamsTyped
        <3> QED BY <2>2, <3>1 DEF CreateStream, Covering
    <2> QED BY <2>1, <2>2 DEF RegisterLocked
<1>2. current_id \in Nat /\ current_id' \in Nat /\ current_id <= current_id'
    BY DEF RegisterLocked, CreateStream, monitor, CoverInv, StreamsTyped
<1>3. /\ UNCHANGED <<callbacks, readyKeys, task, hand, closing, behind, thrown, skipped>>
      /\ call \in Dir
    BY DEF RegisterLocked, CreateStream, monitor, account, CoverInv, Registrations
<1> DEFINE number == Len(keys) + 1
           key == [path |-> call, events |-> <<>>, overflow |-> 0]
<1>4. key \in Key /\ KeyTyped(key)
    <2>1. <<>> \in Seq(Path \cup {Overflow}) /\ Len(<<>>) = 0 /\ Range(<<>>) = {}
        BY EmptySeq DEF Range
    <2> QED BY <1>3, <2>1, ServiceAssumption DEF Key, KeyTyped
<1>5. /\ DOMAIN keys' = DOMAIN keys \cup {number} /\ number \notin DOMAIN keys
      /\ \A k \in DOMAIN keys : keys'[k] = keys[k]
      /\ keys'[number] = key /\ keys' \in Seq(Key)
    <2>1. keys \in Seq(Key) /\ Len(keys) \in Nat /\ DOMAIN keys = 1..Len(keys)
        BY KeyNumbers DEF ServiceInv, ServiceTyped, KeysTyped
    <2>2. keys' = Append(keys, key)
        BY <1>1 DEF AddKey
    <2> HIDE DEF key
    <2>3. /\ keys' \in Seq(Key) /\ Len(keys') = Len(keys) + 1
          /\ \A k \in 1..Len(keys) : keys'[k] = keys[k]
          /\ keys'[Len(keys) + 1] = key
        BY <1>4, <2>1, <2>2, AppendProperties
    <2>4. DOMAIN keys' = 1..Len(keys) + 1
        BY <2>3, LenProperties
    <2> QED BY <2>1, <2>3, <2>4
<1>6. key.path = call /\ key.events = <<>> /\ key.overflow = 0
    OBVIOUS
<1> HIDE DEF number, key
<1>7. KeysTyped'
    BY <1>4, <1>5 DEF ServiceInv, ServiceTyped, KeysTyped
<1>8. ReadyTyped' /\ TaskTyped' /\ HandTyped'
    <2>1. readyKeys' \in Seq(DOMAIN keys')
        BY <1>3, <1>5, SeqMonotonic DEF ServiceInv, ServiceTyped, ReadyTyped
    <2>2. TaskTyped'
        BY <1>3, <1>5 DEF ServiceInv, ServiceTyped, TaskTyped
    <2>3. HandTyped'
        BY <1>3, <1>5 DEF ServiceInv, ServiceTyped, HandTyped
    <2> QED BY <1>3, <2>1, <2>2, <2>3 DEF ServiceInv, ServiceTyped, ReadyTyped
<1>9. DOMAIN registered' = DOMAIN registered \cup {call}
    BY <1>1 DEF AddKey, With
<1>10. RegisteredTyped'
    <2>1. ASSUME NEW p \in DOMAIN registered', p # call
          PROVE  /\ registered'[p] \in [handle : Int, keys : SUBSET DOMAIN keys']
                 /\ \A k \in registered'[p].keys : keys'[k].path = p
                 /\ registered'[p].handle \in 0 .. current_id' - 1 \cup {Invalid}
                 /\ open' => registered'[p].keys # {}
        <3>1. p \in DOMAIN registered /\ registered'[p] = registered[p]
            BY <1>1, <2>1 DEF AddKey, With
        <3>2. /\ registered[p] \in [handle : Int, keys : SUBSET DOMAIN keys]
              /\ \A k \in registered[p].keys : keys[k].path = p
              /\ registered[p].handle \in 0 .. current_id - 1 \cup {Invalid}
              /\ open => registered[p].keys # {}
            BY <3>1 DEF ServiceInv, ServiceTyped, RegisteredTyped
        <3>3. registered[p].keys \subseteq DOMAIN keys
            BY <3>2
        <3> QED BY <1>2, <1>3, <1>5, <3>1, <3>2, <3>3 DEF open
    <2> DEFINE watchKey == IF call \in DOMAIN registered THEN registered[call]
                           ELSE [handle |-> handle, keys |-> {}]
    <2>2. /\ watchKey \in [handle : Int, keys : SUBSET DOMAIN keys]
          /\ \A k \in watchKey.keys : keys[k].path = call
          /\ watchKey.handle \in 0 .. current_id' - 1 \cup {Invalid}
        <3>1. CASE call \in DOMAIN registered
            <4>1. /\ registered[call] \in [handle : Int, keys : SUBSET DOMAIN keys]
                  /\ \A k \in registered[call].keys : keys[k].path = call
                  /\ registered[call].handle \in 0 .. current_id - 1 \cup {Invalid}
                BY <3>1 DEF ServiceInv, ServiceTyped, RegisteredTyped
            <4> QED BY <1>2, <3>1, <4>1
        <3>2. CASE call \notin DOMAIN registered
            BY <1>1, <1>2, <3>2 DEF Invalid
        <3> QED BY <3>1, <3>2
    <2>3. registered'[call] = [watchKey EXCEPT !.keys = @ \cup {number}]
        BY <1>1 DEF AddKey, With, number
    <2> HIDE DEF watchKey
    <2>4. /\ registered'[call] \in [handle : Int, keys : SUBSET DOMAIN keys']
          /\ registered'[call].keys = watchKey.keys \cup {number}
          /\ registered'[call].handle = watchKey.handle
        BY <1>5, <2>2, <2>3
    <2>5. \A k \in registered'[call].keys : keys'[k].path = call
        BY <1>5, <1>6, <2>2, <2>4
    <2> QED BY <2>1, <2>2, <2>4, <2>5 DEF RegisteredTyped
<1>11. Signalling'
    BY <1>3, <1>5, <1>6 DEF ServiceInv, Signalling, Overflowing
<1>12. Growing
    BY <1>3, <1>5 DEF Growing
<1>13. \A p : Delivered(p) => Delivered(p)'
    BY <1>3, <1>7, <1>9, <1>12, GrowingDelivered, ScannedKey DEF ServiceInv, ServiceTyped, HandTyped
<1>14. Delivering'
    BY <1>3, <1>13 DEF ServiceInv, Delivering, open
<1> QED BY <1>3, <1>7, <1>8, <1>10, <1>11, <1>14 DEF ServiceInv, ServiceTyped
-----------------------------------------------------------------------------
(* The consumer *)

\* The first of the keys that are ready is in hand.
LEMMA TakeKeepsService ==
    ASSUME ServiceInv, Take
    PROVE  ServiceInv'
<1>1. /\ UNCHANGED <<keys, registered, callbacks, current_id, task, closing, behind, thrown, skipped>>
      /\ hand = NoHand /\ readyKeys # <<>> /\ readyKeys' = Tail(readyKeys)
      /\ hand' = [key |-> Head(readyKeys), counted |-> FALSE, overflow |-> 0]
    BY DEF Take, NoHand, monitor, account
<1>2. readyKeys \in Seq(DOMAIN keys) /\ IsInjective(readyKeys)
    BY DEF ServiceInv, ServiceTyped, ReadyTyped
<1>3. /\ Head(readyKeys) \in DOMAIN keys /\ Tail(readyKeys) \in Seq(DOMAIN keys)
      /\ Range(readyKeys) = {Head(readyKeys)} \cup Range(Tail(readyKeys))
      /\ IsInjective(Tail(readyKeys))
    BY <1>1, <1>2, RangeTail
<1>4. hand'.key = Head(readyKeys) /\ hand'.counted = FALSE /\ hand.key = 0 /\ 0 \notin DOMAIN keys
    BY <1>1, KeyNumbers DEF NoHand, ServiceInv, ServiceTyped
<1>5. KeysTyped' /\ RegisteredTyped' /\ TaskTyped'
    BY <1>1 DEF ServiceInv, ServiceTyped, KeysTyped, RegisteredTyped, TaskTyped, open
<1>6. ReadyTyped' /\ HandTyped'
    BY <1>1, <1>3, <1>4 DEF ReadyTyped, HandTyped
<1>7. Signalling'
    BY <1>1, <1>3, <1>4 DEF ServiceInv, Signalling, Overflowing
<1>8. ASSUME NEW p, Delivered(p) PROVE Delivered(p)'
    <2>1. WithKey(p) => WithKey(p)'
        BY <1>1, <1>3, <1>4 DEF WithKey, Holds
    <2>2. Near(p)' /\ (Reported(p) => Reported(p)') /\ (Tells(task, p) => Tells(task, p)')
        BY <1>1, <1>8 DEF Delivered, Near, Reported
    <2>3. Settled(p) => Settled(p)'
        BY <1>1, <2>1, <2>2 DEF Settled, Overflowing, Holds
    <2> QED BY <1>1, <1>8, <2>1, <2>2, <2>3 DEF Delivered
<1>9. Delivering'
    BY <1>1, <1>8 DEF ServiceInv, Delivering, open
<1> QED BY <1>1, <1>5, <1>6, <1>7, <1>9 DEF ServiceInv, ServiceTyped

\* The count goes from the key to the hand.
LEMMA PollCountKeepsService ==
    ASSUME ServiceInv, PollCount
    PROVE  ServiceInv'
<1> DEFINE k == hand.key
<1>1. /\ UNCHANGED <<registered, readyKeys, callbacks, current_id, task, closing, behind, thrown, skipped>>
      /\ hand.key # 0 /\ ~hand.counted
      /\ hand' = [hand EXCEPT !.counted = TRUE, !.overflow = keys[hand.key].overflow]
      /\ keys' = [keys EXCEPT ![hand.key].overflow = 0]
    BY DEF PollCount, monitor, account
<1>2. /\ k \in DOMAIN keys
      /\ hand = [key |-> hand.key, counted |-> hand.counted, overflow |-> hand.overflow]
    BY <1>1 DEF ServiceInv, ServiceTyped, HandTyped
<1>3. hand' = [key |-> k, counted |-> TRUE, overflow |-> keys[k].overflow]
    BY <1>1, <1>2
<1>4. KeysTyped /\ HandTyped /\ ReadyTyped /\ RegisteredTyped /\ TaskTyped
    BY DEF ServiceInv, ServiceTyped
<1>5. /\ keys[k] = [path |-> keys[k].path, events |-> keys[k].events, overflow |-> keys[k].overflow]
      /\ keys[k].overflow \in Nat
      /\ keys[k].events \in Seq(Path \cup {Overflow}) /\ Len(keys[k].events) <= QueueSize
      /\ Range(keys[k].events) \subseteq {Overflow} \cup Below(keys[k].path)
    BY <1>2, <1>4, KeyFields
<1> HIDE DEF k
<1>6. keys' = [keys EXCEPT ![k] = [path |-> keys[k].path, events |-> keys[k].events, overflow |-> 0]]
    <2>1. keys' = [keys EXCEPT ![k] = [keys[k] EXCEPT !.overflow = 0]]
        BY <1>1 DEF k
    <2>2. [keys[k] EXCEPT !.overflow = 0]
            = [path |-> keys[k].path, events |-> keys[k].events, overflow |-> 0]
        BY <1>5
    <2> QED BY <2>1, <2>2
<1>7. /\ KeysTyped' /\ DOMAIN keys' = DOMAIN keys
      /\ \A j \in DOMAIN keys : j # k => keys'[j] = keys[j]
      /\ keys'[k].path = keys[k].path /\ keys'[k].events = keys[k].events /\ keys'[k].overflow = 0
    BY <1>2, <1>4, <1>5, <1>6, OneKeyChanges
<1>8. \A j \in DOMAIN keys : keys'[j].path = keys[j].path /\ keys'[j].events = keys[j].events
    BY <1>7
<1>9. ReadyTyped' /\ RegisteredTyped' /\ TaskTyped'
    <2>1. RegisteredTyped'
        BY <1>1, <1>4, <1>7, <1>8 DEF RegisteredTyped, open
    <2>2. TaskTyped'
        BY <1>1, <1>4, <1>7, <1>8 DEF TaskTyped
    <2> QED BY <1>1, <1>4, <1>7, <2>1, <2>2 DEF ReadyTyped
<1>10. hand'.key = k /\ hand'.counted = TRUE /\ hand'.overflow = keys[k].overflow
    BY <1>3
<1>11. HandTyped'
    BY <1>1, <1>2, <1>3, <1>5, <1>7, <1>10 DEF HandTyped, k
<1>12. Signalling'
    <2>1. ASSUME NEW j \in DOMAIN keys, j # k
          PROVE  /\ keys'[j].events # <<>> =>
                        j \in Range(readyKeys') \/ hand'.key = j \/ Overflowing(j, 2)'
                 /\ keys'[j].overflow # 0 =>
                        \/ j \in Range(readyKeys') \/ Overflowing(j, 3)'
        BY <1>1, <1>7, <2>1 DEF ServiceInv, Signalling, Overflowing, k
    <2> QED BY <1>7, <1>10, <2>1 DEF Signalling
<1>13. ASSUME NEW p PROVE
            /\ WithKey(p) => WithKey(p)'
            /\ \A j \in DOMAIN keys : Holds(j, p) => Holds(j, p)' \/ WithKey(p)'
    <2>1. \A j \in DOMAIN keys : j # k /\ Holds(j, p) => Holds(j, p)'
        BY <1>7 DEF Holds
    <2>2. Holds(k, p) => InHand(p)'
        BY <1>7, <1>10 DEF Holds, InHand
    <2>3. k # 0 /\ InHand(p)' => WithKey(p)'
        BY <1>10 DEF WithKey
    <2>4. k # 0 /\ ~InHand(p) /\ hand.key = k
        BY <1>1 DEF InHand, k
    <2>5. WithKey(p) => WithKey(p)'
        <3> SUFFICES ASSUME NEW j \in DOMAIN keys, Holds(j, p), j # k, j \in Range(readyKeys)
                     PROVE  WithKey(p)'
            BY <1>1, <2>2, <2>3, <2>4 DEF WithKey
        <3> QED BY <1>1, <1>7, <2>1 DEF WithKey
    <2> QED BY <2>1, <2>2, <2>3, <2>4, <2>5
<1>14. ASSUME NEW p, Delivered(p) PROVE Delivered(p)'
    <2>1. Near(p)' /\ (Reported(p) => Reported(p)') /\ (Tells(task, p) => Tells(task, p)')
        BY <1>1, <1>14 DEF Delivered, Near, Reported
    <2>2. ASSUME task.kind = "scan", task.step > 1, Settled(p) PROVE Settled(p)'
        BY <1>1, <1>4, <1>13, <2>1, <2>2, ScannedKey DEF Settled, Overflowing
    <2> QED BY <1>1, <1>13, <1>14, <2>1, <2>2 DEF Delivered
<1>15. Delivering'
    BY <1>1, <1>14 DEF ServiceInv, Delivering, open
<1> QED BY <1>1, <1>7, <1>9, <1>11, <1>12, <1>15 DEF ServiceInv, ServiceTyped

\* The consumer is told of what is in hand; what the count of a key in hand was raised
\* for meanwhile is told the next time.
LEMMA PollEventsKeepsService ==
    ASSUME ServiceInv, PollEvents
    PROVE  ServiceInv'
<1>1. KeysTyped /\ HandTyped /\ ReadyTyped /\ RegisteredTyped /\ TaskTyped
    BY DEF ServiceInv, ServiceTyped
<1>2. PICK k \in DOMAIN keys : k = hand.key
    <2>1. hand # NoHand
        BY DEF PollEvents, NoHand
    <2> QED BY <1>1, <2>1 DEF HandTyped
<1>3. /\ UNCHANGED <<registered, readyKeys, callbacks, current_id, task, closing, thrown, skipped>>
      /\ hand.counted /\ hand' = NoHand
      /\ keys' = [keys EXCEPT ![k].events = <<>>]
      /\ behind' = behind \ Told(keys[k].path, Range(keys[k].events), hand.overflow)
    BY <1>2 DEF PollEvents, monitor
<1>4. /\ keys[k] = [path |-> keys[k].path, events |-> keys[k].events, overflow |-> keys[k].overflow]
      /\ keys[k].overflow \in Nat
      /\ Range(keys[k].events) \subseteq {Overflow} \cup Below(keys[k].path)
    BY <1>1, <1>2, KeyFields
<1>5. keys' = [keys EXCEPT ![k] = [path |-> keys[k].path, events |-> <<>>, overflow |-> keys[k].overflow]]
    <2>1. keys' = [keys EXCEPT ![k] = [keys[k] EXCEPT !.events = <<>>]]
        BY <1>3
    <2>2. [keys[k] EXCEPT !.events = <<>>]
            = [path |-> keys[k].path, events |-> <<>>, overflow |-> keys[k].overflow]
        BY <1>4
    <2> QED BY <2>1, <2>2
<1>6. /\ KeysTyped' /\ DOMAIN keys' = DOMAIN keys
      /\ \A j \in DOMAIN keys : j # k => keys'[j] = keys[j]
      /\ keys'[k].path = keys[k].path /\ keys'[k].events = <<>> /\ keys'[k].overflow = keys[k].overflow
    <2>1. <<>> \in Seq(Path \cup {Overflow}) /\ Len(<<>>) <= QueueSize /\ Range(<<>>) = {}
        BY EmptySeq, ServiceAssumption DEF Range
    <2> QED BY <1>1, <1>2, <1>4, <1>5, <2>1, OneKeyChanges
<1>7. \A j \in DOMAIN keys : keys'[j].path = keys[j].path /\ keys'[j].overflow = keys[j].overflow
    BY <1>6
<1>8. ReadyTyped' /\ RegisteredTyped' /\ TaskTyped'
    <2>1. RegisteredTyped'
        BY <1>1, <1>3, <1>6, <1>7 DEF RegisteredTyped, open
    <2>2. TaskTyped'
        BY <1>1, <1>3, <1>6, <1>7 DEF TaskTyped
    <2> QED BY <1>1, <1>3, <1>6, <2>1, <2>2 DEF ReadyTyped
<1>9. HandTyped'
    BY <1>3 DEF HandTyped, NoHand
<1>10. Signalling'
    <2>1. ASSUME NEW j \in DOMAIN keys
          PROVE  /\ j # k /\ keys'[j].events # <<>> =>
                        j \in Range(readyKeys') \/ Overflowing(j, 2)'
                 /\ keys'[j].overflow # 0 =>
                        j \in Range(readyKeys') \/ Overflowing(j, 3)'
        BY <1>2, <1>3, <1>6, <1>7 DEF ServiceInv, Signalling, Overflowing
    <2> QED BY <1>6, <2>1 DEF Signalling
<1>11. ASSUME NEW p, p \notin Told(keys[k].path, Range(keys[k].events), hand.overflow)
       PROVE  /\ WithKey(p) => WithKey(p)'
              /\ \A j \in DOMAIN keys : Holds(j, p) => Holds(j, p)'
    <2>1. \A j \in DOMAIN keys : j # k /\ Holds(j, p) => Holds(j, p)'
        BY <1>6 DEF Holds
    <2>2. ASSUME Holds(k, p) PROVE Holds(k, p)'
        <3>1. keys[k].overflow > 0
            <4> SUFFICES ASSUME ~(keys[k].overflow > 0) PROVE FALSE
                OBVIOUS
            <4>1. Told(keys[k].path, Range(keys[k].events), keys[k].overflow)
                    \subseteq Told(keys[k].path, Range(keys[k].events), hand.overflow)
                BY <1>4, ToldGrows
            <4> QED BY <1>11, <2>2, <4>1 DEF Holds
        <3>2. p \in Below(keys[k].path)
            BY <1>4, <2>2, <3>1, ToldGrows DEF Holds
        <3>3. p \in Told(keys'[k].path, Range(keys'[k].events), keys'[k].overflow)
            <4>1. \A E, o : o > 0 => Told(keys[k].path, E, o) = Below(keys[k].path)
                BY DEF Told, Below
            <4> QED BY <1>6, <3>1, <3>2, <4>1
        <3> QED BY <3>3 DEF Holds
    <2>3. ~InHand(p)
        BY <1>2, <1>11 DEF InHand
    <2>4. ASSUME NEW j \in DOMAIN keys, Holds(j, p) PROVE Holds(j, p)'
        <3>1. CASE j = k
            BY <2>2, <2>4, <3>1
        <3> QED BY <2>1, <2>4, <3>1
    <2>5. ASSUME WithKey(p) PROVE WithKey(p)'
        <3>1. PICK j \in DOMAIN keys : Holds(j, p) /\ j \in Range(readyKeys)
            BY <1>3, <2>3, <2>5 DEF WithKey
        <3>2. j \in DOMAIN keys' /\ j \in Range(readyKeys') /\ Holds(j, p)'
            BY <1>3, <1>6, <2>4, <3>1
        <3> QED BY <3>2 DEF WithKey
    <2> QED BY <2>4, <2>5
<1>12. ASSUME NEW p, Delivered(p), p \notin Told(keys[k].path, Range(keys[k].events), hand.overflow)
       PROVE  Delivered(p)'
    <2>1. Near(p)' /\ (Reported(p) => Reported(p)') /\ (Tells(task, p) => Tells(task, p)')
        BY <1>3, <1>12 DEF Delivered, Near, Reported
    <2>2. ASSUME task.kind = "scan", task.step > 1, Settled(p) PROVE Settled(p)'
        BY <1>1, <1>3, <1>11, <1>12, <2>1, <2>2, ScannedKey DEF Settled, Overflowing
    <2> QED BY <1>3, <1>11, <1>12, <2>1, <2>2 DEF Delivered
<1>13. Delivering'
    BY <1>3, <1>12 DEF ServiceInv, Delivering, open
<1> QED BY <1>3, <1>6, <1>8, <1>9, <1>10, <1>13 DEF ServiceInv, ServiceTyped
-----------------------------------------------------------------------------
(* The callback thread *)

\* The keys that an event is for are those of its path or of its parent, and an open
\* service has some for what is near a registered path.
LEMMA Targets ==
    ASSUME RegisteredTyped, NEW path
    PROVE  /\ Target(path) \subseteq DOMAIN keys
           /\ \A k \in Target(path) : keys[k].path \in {path, Parent(path)}
           /\ open /\ Near(path) => Target(path) # {}
<1>1. CASE path \in DOMAIN registered
    <2>1. /\ registered[path] \in [handle : Int, keys : SUBSET DOMAIN keys]
          /\ \A k \in registered[path].keys : keys[k].path = path
          /\ open => registered[path].keys # {}
        BY <1>1 DEF RegisteredTyped
    <2> QED BY <1>1, <2>1 DEF Target
<1>2. CASE path \notin DOMAIN registered /\ Parent(path) \in DOMAIN registered
    <2>1. /\ registered[Parent(path)] \in [handle : Int, keys : SUBSET DOMAIN keys]
          /\ \A k \in registered[Parent(path)].keys : keys[k].path = Parent(path)
          /\ open => registered[Parent(path)].keys # {}
        BY <1>2 DEF RegisteredTyped
    <2> QED BY <1>2, <2>1 DEF Target
<1>3. CASE path \notin DOMAIN registered /\ Parent(path) \notin DOMAIN registered
    BY <1>3 DEF Target, Near
<1> QED BY <1>1, <1>2, <1>3

\* An event is with the callback thread, if there is a key for it; what has none is not
\* near a registered path, unless it was a scan.
LEMMA NextCallbackKeepsService ==
    ASSUME ServiceInv, NextCallback
    PROVE  ServiceInv'
<1> DEFINE next == Head(callbacks)
           started == [kind |-> next.kind, path |-> next.path, left |-> Target(next.path),
                       step |-> 1, key |-> 0]
<1>1. /\ UNCHANGED <<keys, readyKeys, current_id, hand, closing, behind, thrown>>
      /\ task = Idle /\ callbacks # <<>> /\ callbacks' = Tail(callbacks)
      /\ DOMAIN registered' = DOMAIN registered
      /\ skipped' = (skipped \/ (next.kind = "scan" /\ Target(next.path) = {}))
    BY DEF NextCallback
<1>2. callbacks \in Seq(FileEvent) /\ KeysTyped /\ HandTyped /\ ReadyTyped /\ RegisteredTyped
    BY DEF ServiceInv, ServiceTyped
<1>3. /\ next \in FileEvent /\ callbacks' \in Seq(FileEvent)
      /\ \A i \in DOMAIN callbacks : i # 1 =>
            i - 1 \in DOMAIN callbacks' /\ callbacks'[i - 1] = callbacks[i]
      /\ callbacks[1] = next
    BY <1>1, <1>2, RangeTail
<1>4. /\ next.kind \in {"file", "scan", "drop"}
      /\ next.kind = "file" => next.path \in Path
      /\ next.kind = "scan" => next.path \in Dir
    BY <1>3 DEF FileEvent
<1>5. /\ next.kind = "drop" \/ Target(next.path) = {} => task' = Idle
      /\ next.kind # "drop" /\ Target(next.path) # {} => task' = started
    BY <1>1 DEF NextCallback, Idle
<1>6. started.kind = next.kind /\ started.path = next.path /\ started.left = Target(next.path)
      /\ started.step = 1
    OBVIOUS
<1> HIDE DEF next, started
<1>7. /\ Target(next.path) \subseteq DOMAIN keys
      /\ \A k \in Target(next.path) : keys[k].path \in {next.path, Parent(next.path)}
    BY <1>2, Targets
<1>8. TaskTyped'
    <2>1. CASE next.kind # "drop" /\ Target(next.path) # {}
        <3>1. task' = started /\ started.kind \in {"file", "scan"}
            BY <1>4, <1>5, <1>6, <2>1
        <3>2. task' = [kind |-> task'.kind, path |-> task'.path, left |-> task'.left,
                       step |-> task'.step, key |-> task'.key]
            BY <3>1 DEF started
        <3>3. /\ task'.left \subseteq DOMAIN keys' /\ task'.left # {}
              /\ \A k \in task'.left : keys'[k].path \in {task'.path, Parent(task'.path)}
            BY <1>1, <1>6, <1>7, <2>1, <3>1
        <3>4. \/ task'.kind = "file" /\ task'.path \in Path /\ task'.step = 1
              \/ task'.kind = "scan" /\ task'.path \in Dir /\ task'.step \in 1..3
            BY <1>4, <1>6, <3>1
        <3>5. ~(task'.step > 1)
            BY <1>6, <3>1
        <3> QED BY <3>2, <3>3, <3>4, <3>5 DEF TaskTyped
    <2>2. CASE next.kind = "drop" \/ Target(next.path) = {}
        BY <1>5, <2>2 DEF TaskTyped
    <2> QED BY <2>1, <2>2
<1>9. RegisteredTyped'
    <2> SUFFICES ASSUME NEW p \in DOMAIN registered'
                 PROVE  /\ registered'[p] \in [handle : Int, keys : SUBSET DOMAIN keys]
                        /\ \A k \in registered'[p].keys : keys[k].path = p
                        /\ registered'[p].handle \in 0 .. current_id - 1 \cup {Invalid}
                        /\ open => registered'[p].keys # {}
        BY <1>1 DEF RegisteredTyped, open
    <2>1. /\ p \in DOMAIN registered /\ registered[p] \in [handle : Int, keys : SUBSET DOMAIN keys]
          /\ \A k \in registered[p].keys : keys[k].path = p
          /\ registered[p].handle \in 0 .. current_id - 1 \cup {Invalid}
          /\ open => registered[p].keys # {}
        BY <1>1, <1>2 DEF RegisteredTyped
    <2>2. registered'[p] = registered[p] \/ registered'[p] = [registered[p] EXCEPT !.handle = Invalid]
        BY <2>1 DEF NextCallback
    <2> QED BY <2>1, <2>2 DEF Invalid
<1>10. Signalling'
    BY <1>1 DEF ServiceInv, Signalling, Overflowing, Idle
<1>11. KeysTyped' /\ ReadyTyped' /\ HandTyped' /\ behind' \subseteq Path
    BY <1>1 DEF ServiceInv, ServiceTyped, KeysTyped, ReadyTyped, HandTyped
<1>12. ASSUME open, ~skipped', NEW p, Delivered(p) PROVE Delivered(p)'
    <2>1. Near(p) /\ Near(p)' /\ (WithKey(p) => WithKey(p)')
        BY <1>1, <1>12 DEF Delivered, Near, WithKey, Holds, InHand
    <2>2. task'.kind = "scan" => ~(task'.step > 1)
        BY <1>5, <1>6 DEF Idle
    <2>3. ~Tells(task, p)
        BY <1>1 DEF Tells, Idle
    <2>4. ASSUME Reported(p) PROVE Reported(p)' \/ Tells(task', p)
        <3>1. PICK i \in DOMAIN callbacks : Tells(callbacks[i], p)
            BY <2>4 DEF Reported
        <3>2. CASE i # 1
            BY <1>3, <3>1, <3>2 DEF Reported
        <3>3. CASE i = 1
            <4>1. Tells(next, p) /\ next.kind # "drop"
                BY <1>3, <3>1, <3>3 DEF Tells
            <4>2. Target(next.path) # {}
                <5>1. CASE next.kind = "file"
                    BY <1>2, <1>12, <2>1, <4>1, <5>1, Targets DEF Tells
                <5>2. CASE next.kind = "scan"
                    BY <1>1, <1>12, <5>2
                <5> QED BY <1>4, <4>1, <5>1, <5>2
            <4> QED BY <1>5, <1>6, <4>1, <4>2 DEF Tells
        <3> QED BY <3>2, <3>3
    <2>5. Tells(task, p)' <=> Tells(task', p)
        BY DEF Tells
    <2> QED BY <1>12, <2>1, <2>2, <2>3, <2>4, <2>5 DEF Delivered
<1>13. Delivering'
    BY <1>1, <1>12 DEF ServiceInv, Delivering, open
<1> QED BY <1>3, <1>8, <1>9, <1>10, <1>11, <1>13 DEF ServiceInv, ServiceTyped

\* A key that is signalled is ready, and it is ready once.
LEMMA SignalledKey ==
    ASSUME ReadyTyped, NEW k \in DOMAIN keys
    PROVE  /\ Signalled(k) \in Seq(DOMAIN keys) /\ IsInjective(Signalled(k))
           /\ Range(Signalled(k)) = Range(readyKeys) \cup {k}
<1>1. readyKeys \in Seq(DOMAIN keys) /\ IsInjective(readyKeys)
    BY DEF ReadyTyped
<1>2. CASE k \in Range(readyKeys)
    BY <1>1, <1>2 DEF Signalled
<1>3. CASE k \notin Range(readyKeys)
    <2>1. Signalled(k) = Append(readyKeys, k)
        BY <1>3 DEF Signalled
    <2> QED BY <1>1, <1>3, <2>1, RangeAppend, AppendNew
<1> QED BY <1>2, <1>3

\* What is left to do when a key is done.
LEMMA DoneKey ==
    ASSUME TaskTyped, NEW k \in task.left, task' = Done(k), DOMAIN keys' = DOMAIN keys,
           \A j \in DOMAIN keys : keys'[j].path = keys[j].path
    PROVE  /\ TaskTyped' /\ ~(task'.step > 1)
           /\ \/ task' = Idle /\ task.left = {k}
              \/ task'.kind = task.kind /\ task'.path = task.path
<1>1. CASE task.left = {k}
    <2>1. task' = Idle
        BY <1>1 DEF Done
    <2> QED BY <1>1, <2>1 DEF TaskTyped, Idle
<1>2. CASE task.left # {k}
    <2>1. /\ task = [kind |-> task.kind, path |-> task.path, left |-> task.left, step |-> task.step,
                     key |-> task.key]
          /\ \/ task.kind = "file" /\ task.path \in Path
             \/ task.kind = "scan" /\ task.path \in Dir
          /\ task.left \subseteq DOMAIN keys
          /\ \A j \in task.left : keys[j].path \in {task.path, Parent(task.path)}
        BY DEF TaskTyped, Idle
    <2>2. task' = [task EXCEPT !.left = @ \ {k}, !.step = 1, !.key = 0]
        BY <1>2 DEF Done
    <2>3. task' = [kind |-> task.kind, path |-> task.path, left |-> task.left \ {k}, step |-> 1, key |-> 0]
        BY <2>1, <2>2
    <2>4. /\ task'.kind = task.kind /\ task'.path = task.path /\ task'.left = task.left \ {k}
          /\ task'.step = 1 /\ task'.key = 0
        BY <2>3
    <2>5. task'.left # {} /\ task'.left \subseteq DOMAIN keys'
        BY <1>2, <2>1, <2>4
    <2>6. \A j \in task'.left : keys'[j].path \in {task'.path, Parent(task'.path)}
        BY <2>1, <2>4
    <2>7. TaskTyped'
        BY <2>1, <2>3, <2>4, <2>5, <2>6 DEF TaskTyped
    <2> QED BY <2>4, <2>7
<1> QED BY <1>1, <1>2

\* What starts with the path of a task is below the keys that the task is for.
LEMMA TaskIsBelow ==
    ASSUME KeysTyped, TaskTyped, NEW k \in task.left, NEW p \in Path, StartsWith(p, task.path)
    PROVE  p \in Below(keys[k].path)
<1>1. /\ k \in DOMAIN keys /\ task.path \in Path \cup Dir
      /\ keys[k].path \in {task.path, Parent(task.path)}
    BY DEF TaskTyped, Idle
<1>2. /\ p \in Seq(STRING) /\ task.path \in Seq(STRING) \ {<<>>}
    BY <1>1, ServiceAssumption, StringAssumption
<1>3. keys[k].path \in Seq(STRING) /\ Len(keys[k].path) \in Nat
    <2>1. keys[k].path \in Dir
        BY <1>1, KeyFields
    <2> QED BY <2>1, StringAssumption
<1>4. StartsWith(task.path, keys[k].path)
    BY <1>1, <1>2, StartsWithParent
<1>5. StartsWith(p, keys[k].path)
    BY <1>2, <1>3, <1>4, StartsWithTrans
<1> QED BY <1>5 DEF Below

\* addEvent, with the fields of the key spelled out.
LEMMA EventAdded ==
    ASSUME NEW path, NEW events, NEW overflow
    PROVE  WithEvent([path |-> path, events |-> events, overflow |-> overflow]) =
               IF Len(events) = QueueSize
               THEN [path |-> path, events |-> events, overflow |-> overflow + 1]
               ELSE [path |-> path, events |-> Append(events, task.path), overflow |-> overflow]
<1> DEFINE key == [path |-> path, events |-> events, overflow |-> overflow]
<1>1. [key EXCEPT !.overflow = @ + 1] = [path |-> path, events |-> events, overflow |-> overflow + 1]
    OBVIOUS
<1>2. [key EXCEPT !.events = Append(@, task.path)]
        = [path |-> path, events |-> Append(events, task.path), overflow |-> overflow]
    OBVIOUS
<1>3. key.events = events
    OBVIOUS
<1> HIDE DEF key
<1>4. WithEvent(key) = IF Len(events) = QueueSize THEN [key EXCEPT !.overflow = @ + 1]
                       ELSE [key EXCEPT !.events = Append(@, task.path)]
    BY <1>3, Zenon DEF WithEvent
<1>5. WithEvent(key) =
               IF Len(events) = QueueSize
               THEN [path |-> path, events |-> events, overflow |-> overflow + 1]
               ELSE [path |-> path, events |-> Append(events, task.path), overflow |-> overflow]
    BY <1>1, <1>2, <1>4, Zenon
<1> QED BY <1>5, Zenon DEF key

\* The event is in the key, or counted there; the consumer is not between the count and
\* the events of that key.
LEMMA AddEventKeepsService ==
    ASSUME ServiceInv, NEW k \in DOMAIN keys, AddEvent(k)
    PROVE  ServiceInv'
<1>1. KeysTyped /\ HandTyped /\ ReadyTyped /\ RegisteredTyped /\ TaskTyped
    BY DEF ServiceInv, ServiceTyped
<1>2. /\ UNCHANGED <<registered, callbacks, current_id, hand, closing, behind, thrown, skipped>>
      /\ task.kind = "file" /\ k \in task.left /\ ~(hand.key = k /\ hand.counted)
      /\ keys' = [keys EXCEPT ![k] = WithEvent(keys[k])]
      /\ readyKeys' = IF Full(k) THEN readyKeys ELSE Signalled(k)
      /\ task' = Done(k)
    BY DEF AddEvent, monitor, account
<1>3. PICK path \in Path : path = task.path /\ StartsWith(path, path)
    <2>1. task.path \in Path
        BY <1>1, <1>2 DEF TaskTyped, Idle
    <2> QED BY <2>1, ServiceAssumption, StartsWithParent
<1>4. path \in Below(keys[k].path)
    BY <1>1, <1>2, <1>3, TaskIsBelow
<1>5. /\ keys[k] = [path |-> keys[k].path, events |-> keys[k].events, overflow |-> keys[k].overflow]
      /\ keys[k].overflow \in Nat
      /\ keys[k].events \in Seq(Path \cup {Overflow}) /\ Len(keys[k].events) <= QueueSize
      /\ Range(keys[k].events) \subseteq {Overflow} \cup Below(keys[k].path)
    BY <1>1, KeyFields
<1>6. PICK E \in Seq(Path \cup {Overflow}), n \in Nat :
            /\ WithEvent(keys[k]) = [path |-> keys[k].path, events |-> E, overflow |-> n]
            /\ Len(E) <= QueueSize
            /\ Range(keys[k].events) \subseteq Range(E)
            /\ Range(E) \subseteq {Overflow} \cup Below(keys[k].path)
            /\ keys[k].overflow > 0 => n > 0
            /\ Full(k) => n > 0 /\ keys[k].events # <<>>
            /\ ~Full(k) => path \in Range(E)
    <2>1. WithEvent(keys[k]) =
               IF Full(k)
               THEN [path |-> keys[k].path, events |-> keys[k].events, overflow |-> keys[k].overflow + 1]
               ELSE [path |-> keys[k].path, events |-> Append(keys[k].events, task.path),
                     overflow |-> keys[k].overflow]
        <3>1. WithEvent([path |-> keys[k].path, events |-> keys[k].events, overflow |-> keys[k].overflow]) =
                   IF Len(keys[k].events) = QueueSize
                   THEN [path |-> keys[k].path, events |-> keys[k].events,
                         overflow |-> keys[k].overflow + 1]
                   ELSE [path |-> keys[k].path, events |-> Append(keys[k].events, task.path),
                         overflow |-> keys[k].overflow]
            BY EventAdded
        <3> QED BY <1>5, <3>1, Zenon DEF Full
    <2>2. CASE Full(k)
        <3>1. keys[k].events # <<>>
            <4>1. Len(<<>>) = 0
                BY EmptySeq
            <4> QED BY <1>5, <2>2, <4>1, ServiceAssumption DEF Full
        <3>2. keys[k].overflow + 1 \in Nat /\ keys[k].overflow + 1 > 0
            BY <1>5
        <3>3. WithEvent(keys[k])
                = [path |-> keys[k].path, events |-> keys[k].events, overflow |-> keys[k].overflow + 1]
            BY <2>1, <2>2, Zenon
        <3> QED BY <1>5, <2>2, <3>1, <3>2, <3>3
    <2>3. CASE ~Full(k)
        <3>1. /\ Append(keys[k].events, path) \in Seq(Path \cup {Overflow})
              /\ Range(Append(keys[k].events, path)) = Range(keys[k].events) \cup {path}
            BY <1>3, <1>5, RangeAppend
        <3>2. Len(Append(keys[k].events, path)) <= QueueSize
            <4>1. /\ Len(Append(keys[k].events, path)) = Len(keys[k].events) + 1
                  /\ Len(keys[k].events) \in Nat
                BY <1>3, <1>5, AppendProperties
            <4> QED BY <1>5, <2>3, <4>1, ServiceAssumption DEF Full
        <3>3. WithEvent(keys[k])
                = [path |-> keys[k].path, events |-> Append(keys[k].events, path),
                   overflow |-> keys[k].overflow]
            BY <1>3, <2>1, <2>3, Zenon
        <3> QED BY <1>4, <1>5, <2>3, <3>1, <3>2, <3>3
    <2> QED BY <2>2, <2>3
<1>7. /\ KeysTyped' /\ DOMAIN keys' = DOMAIN keys
      /\ \A j \in DOMAIN keys : j # k => keys'[j] = keys[j]
      /\ keys'[k].path = keys[k].path /\ keys'[k].events = E /\ keys'[k].overflow = n
    <2>1. keys' = [keys EXCEPT ![k] = [path |-> keys[k].path, events |-> E, overflow |-> n]]
        BY <1>2, <1>6, Zenon
    <2>2. Len(E) <= QueueSize /\ Range(E) \subseteq {Overflow} \cup Below(keys[k].path)
        BY <1>6
    <2> QED BY <1>1, <2>1, <2>2, OneKeyChanges
<1>8. \A j \in DOMAIN keys : keys'[j].path = keys[j].path
    BY <1>7
<1>9. /\ TaskTyped' /\ ~(task'.step > 1)
      /\ \/ task' = Idle /\ task.left = {k}
         \/ task'.kind = task.kind /\ task'.path = task.path
    BY <1>1, <1>2, <1>7, <1>8, DoneKey
<1>10. ReadyTyped' /\ Range(readyKeys) \subseteq Range(readyKeys') /\ (~Full(k) => k \in Range(readyKeys'))
    BY <1>1, <1>2, <1>7, SignalledKey DEF ReadyTyped
<1>11. RegisteredTyped' /\ HandTyped'
    <2>1. RegisteredTyped'
        BY <1>1, <1>2, <1>7, <1>8 DEF RegisteredTyped, open
    <2> QED BY <1>1, <1>2, <1>7, <2>1 DEF HandTyped
<1>12. Full(k) => k \in Range(readyKeys) \/ (hand.key = k /\ ~hand.counted)
    BY <1>2, <1>6 DEF ServiceInv, Signalling, Overflowing
<1>13. Signalling'
    <2>1. ASSUME NEW j \in DOMAIN keys, j # k
          PROVE  /\ keys'[j].events # <<>> => j \in Range(readyKeys') \/ hand'.key = j
                 /\ keys'[j].overflow # 0 =>
                        j \in Range(readyKeys') \/ (hand'.key = j /\ ~hand'.counted)
        BY <1>2, <1>7, <1>10, <2>1 DEF ServiceInv, Signalling, Overflowing
    <2>2. k \in Range(readyKeys') \/ (hand'.key = k /\ ~hand'.counted)
        BY <1>2, <1>10, <1>12
    <2> QED BY <1>7, <2>1, <2>2 DEF Signalling
<1>14. Growing
    BY <1>2, <1>6, <1>7, <1>10 DEF Growing
<1>15. WithKey(path)'
    <2>1. Holds(k, path)'
        <3>1. n > 0 => path \in Told(keys[k].path, Range(E), n)
            BY <1>4 DEF Told, Below
        <3>2. path \in Range(E) => path \in Told(keys[k].path, Range(E), n)
            BY <1>4 DEF Told, Below
        <3>3. path \in Told(keys'[k].path, Range(keys'[k].events), keys'[k].overflow)
            BY <1>6, <1>7, <3>1, <3>2
        <3> QED BY <3>3 DEF Holds
    <2> QED BY <1>2, <1>7, <1>10, <1>12, <2>1 DEF WithKey
<1>16. ASSUME NEW p, Delivered(p) PROVE Delivered(p)'
    <2>1. Near(p)' /\ (Reported(p) => Reported(p)')
        BY <1>2, <1>16 DEF Delivered, Near, Reported
    <2>2. WithKey(p) => WithKey(p)'
        BY <1>1, <1>7, <1>14, GrowingKeeps DEF HandTyped
    <2>3. Tells(task, p) => WithKey(p)'
        BY <1>2, <1>3, <1>15 DEF Tells
    <2> QED BY <1>9, <1>16, <2>1, <2>2, <2>3 DEF Delivered
<1>17. Delivering'
    BY <1>2, <1>16 DEF ServiceInv, Delivering, open
<1> QED BY <1>2, <1>7, <1>9, <1>10, <1>11, <1>13, <1>17 DEF ServiceInv, ServiceTyped

\* The parts of addOverflow.
Having(key) == [key EXCEPT !.events = Append(@, Overflow)]
Counting(key) == [key EXCEPT !.overflow = @ + 1]
StepOn(scan, k) == [scan EXCEPT !.step = @ + 1, !.key = k]
HavingOverflow(k) == [keys EXCEPT ![k].events = Append(@, Overflow)]
CountingOverflow(k) == [keys EXCEPT ![k].overflow = @ + 1]

\* addOverflow throws, has the overflow in the key or counts it, or signals the key.
LEMMA ScanStep ==
    ASSUME TaskTyped, NEW k \in DOMAIN keys, AddOverflow(k)
    PROVE  /\ UNCHANGED <<registered, callbacks, current_id, hand, closing, behind, skipped>>
           /\ task.kind = "scan" /\ k \in task.left /\ task.path \in Dir
           /\ task.step > 1 => k = task.key
           /\ ~thrown' => ~thrown
           /\ \/ /\ task.step = 1 /\ Full(k)
                 /\ UNCHANGED <<keys, readyKeys>> /\ task' = Idle /\ thrown'
              \/ /\ task.step = 1 /\ ~Full(k) /\ UNCHANGED readyKeys
                 /\ keys' = HavingOverflow(k)
                 /\ task' = StepOn(task, k)
              \/ /\ task.step = 2 /\ UNCHANGED readyKeys
                 /\ keys' = CountingOverflow(k)
                 /\ task' = StepOn(task, k)
              \/ /\ task.step = 3 /\ UNCHANGED keys
                 /\ readyKeys' = Signalled(k) /\ task' = Done(k)
<1>1. /\ UNCHANGED <<registered, callbacks, current_id, hand, closing, behind, skipped>>
      /\ task.kind = "scan" /\ k \in task.left /\ (task.step > 1 => k = task.key)
    BY DEF AddOverflow, monitor
<1>2. task.path \in Dir /\ task.step \in 1..3
    BY <1>1 DEF TaskTyped, Idle
<1>3. /\ Len(OverflowSteps) = 3
      /\ OverflowSteps[1] = "add" /\ OverflowSteps[2] = "count" /\ OverflowSteps[3] = "signal"
    BY DEF OverflowSteps
<1> DEFINE step == OverflowSteps[task.step]
           throws == step = "add" /\ Full(k)
<1>4. /\ keys' = CASE throws -> keys
                   [] step = "add" /\ ~throws -> HavingOverflow(k)
                   [] step = "count" -> CountingOverflow(k)
                   [] OTHER -> keys
      /\ readyKeys' = IF step = "signal" THEN Signalled(k) ELSE readyKeys
      /\ task' = IF throws THEN Idle
                 ELSE IF task.step = Len(OverflowSteps) THEN Done(k)
                 ELSE StepOn(task, k)
      /\ thrown' <=> thrown \/ throws
    BY Zenon DEF AddOverflow, HavingOverflow, CountingOverflow, StepOn
<1>5. ~thrown' => ~thrown
    BY <1>4, Zenon
<1>6. CASE task.step = 1
    <2>1. CASE Full(k)
        <3>1. throws
            BY <1>3, <1>6, <2>1
        <3>2. thrown'
            BY <1>4, <3>1, Zenon
        <3>3. UNCHANGED <<keys, readyKeys>> /\ task' = Idle
            BY <1>3, <1>4, <1>6, <3>1
        <3> QED BY <1>1, <1>2, <1>5, <1>6, <2>1, <3>2, <3>3
    <2>2. CASE ~Full(k)
        BY <1>1, <1>2, <1>3, <1>4, <1>5, <1>6, <2>2
    <2> QED BY <2>1, <2>2
<1>7. CASE task.step = 2
    BY <1>1, <1>2, <1>3, <1>4, <1>5, <1>7
<1>8. CASE task.step = 3
    BY <1>1, <1>2, <1>3, <1>4, <1>5, <1>8
<1> QED BY <1>2, <1>6, <1>7, <1>8

\* The fields of a task one step on.
LEMMA StepRecord ==
    ASSUME NEW kind, NEW path, NEW left, NEW step, NEW key, NEW k
    PROVE  StepOn([kind |-> kind, path |-> path, left |-> left, step |-> step, key |-> key], k)
            = [kind |-> kind, path |-> path, left |-> left, step |-> step + 1, key |-> k]
<1> DEFINE scan == [kind |-> kind, path |-> path, left |-> left, step |-> step, key |-> key]
           next == [kind |-> kind, path |-> path, left |-> left, step |-> step + 1, key |-> key]
<1>1. [scan EXCEPT !.step = @ + 1] = next
    OBVIOUS
<1>2. [next EXCEPT !.key = k]
        = [kind |-> kind, path |-> path, left |-> left, step |-> step + 1, key |-> k]
    OBVIOUS
<1> HIDE DEF scan, next
<1>3. StepOn(scan, k) = [[scan EXCEPT !.step = @ + 1] EXCEPT !.key = k]
    BY Zenon DEF StepOn
<1>4. StepOn(scan, k) = [kind |-> kind, path |-> path, left |-> left, step |-> step + 1, key |-> k]
    BY <1>1, <1>2, <1>3, Zenon
<1> QED BY <1>4, Zenon DEF scan

LEMMA ScanGoesOn ==
    ASSUME TaskTyped, NEW k \in task.left, task.kind = "scan", task.step \in {1, 2},
           task' = StepOn(task, k), DOMAIN keys' = DOMAIN keys,
           \A j \in DOMAIN keys : keys'[j].path = keys[j].path
    PROVE  /\ TaskTyped'
           /\ task'.kind = "scan" /\ task'.path = task.path
           /\ task'.step = task.step + 1 /\ task'.key = k
<1>1. /\ task = [kind |-> task.kind, path |-> task.path, left |-> task.left, step |-> task.step,
                 key |-> task.key]
      /\ task.path \in Dir /\ task.left \subseteq DOMAIN keys
      /\ \A j \in task.left : keys[j].path \in {task.path, Parent(task.path)}
    BY DEF TaskTyped, Idle
<1>2. task' = [kind |-> task.kind, path |-> task.path, left |-> task.left, step |-> task.step + 1,
               key |-> k]
    <2>1. StepOn([kind |-> task.kind, path |-> task.path, left |-> task.left, step |-> task.step,
                  key |-> task.key], k)
            = [kind |-> task.kind, path |-> task.path, left |-> task.left, step |-> task.step + 1,
               key |-> k]
        BY StepRecord
    <2> QED BY <1>1, <2>1, Zenon
<1>3. /\ task'.kind = "scan" /\ task'.path = task.path /\ task'.left = task.left
      /\ task'.step = task.step + 1 /\ task'.key = k
    BY <1>2
<1>4. task' = [kind |-> task'.kind, path |-> task'.path, left |-> task'.left, step |-> task'.step,
               key |-> task'.key]
    BY <1>2, <1>3
<1>5. \A j \in task'.left : keys'[j].path \in {task'.path, Parent(task'.path)}
    BY <1>1, <1>3
<1>6. TaskTyped'
    BY <1>1, <1>3, <1>4, <1>5 DEF TaskTyped
<1> QED BY <1>3, <1>6

\* The fields of a key that the overflow is put into or counted for.
LEMMA OverflowRecords ==
    ASSUME NEW path, NEW events, NEW overflow
    PROVE  /\ Having([path |-> path, events |-> events, overflow |-> overflow])
                = [path |-> path, events |-> Append(events, Overflow), overflow |-> overflow]
           /\ Counting([path |-> path, events |-> events, overflow |-> overflow])
                = [path |-> path, events |-> events, overflow |-> overflow + 1]
<1> DEFINE key == [path |-> path, events |-> events, overflow |-> overflow]
<1>1. [key EXCEPT !.events = Append(@, Overflow)]
        = [path |-> path, events |-> Append(events, Overflow), overflow |-> overflow]
    OBVIOUS
<1>2. [key EXCEPT !.overflow = @ + 1] = [path |-> path, events |-> events, overflow |-> overflow + 1]
    OBVIOUS
<1> HIDE DEF key
<1>3. /\ Having(key) = [path |-> path, events |-> Append(events, Overflow), overflow |-> overflow]
      /\ Counting(key) = [path |-> path, events |-> events, overflow |-> overflow + 1]
    BY <1>1, <1>2, Zenon DEF Having, Counting
<1> QED BY <1>3, Zenon DEF key

LEMMA OverflowAdded ==
    ASSUME KeysTyped, NEW k \in DOMAIN keys
    PROVE  /\ HavingOverflow(k) = [keys EXCEPT ![k] = [path |-> keys[k].path,
                  events |-> Append(keys[k].events, Overflow), overflow |-> keys[k].overflow]]
           /\ CountingOverflow(k) = [keys EXCEPT ![k] = [path |-> keys[k].path,
                  events |-> keys[k].events, overflow |-> keys[k].overflow + 1]]
<1>1. keys[k] = [path |-> keys[k].path, events |-> keys[k].events, overflow |-> keys[k].overflow]
    BY KeyFields
<1>2. /\ Having(keys[k]) = [path |-> keys[k].path, events |-> Append(keys[k].events, Overflow),
                            overflow |-> keys[k].overflow]
      /\ Counting(keys[k]) = [path |-> keys[k].path, events |-> keys[k].events,
                              overflow |-> keys[k].overflow + 1]
    <2>1. /\ Having([path |-> keys[k].path, events |-> keys[k].events, overflow |-> keys[k].overflow])
                = [path |-> keys[k].path, events |-> Append(keys[k].events, Overflow),
                   overflow |-> keys[k].overflow]
          /\ Counting([path |-> keys[k].path, events |-> keys[k].events, overflow |-> keys[k].overflow])
                = [path |-> keys[k].path, events |-> keys[k].events, overflow |-> keys[k].overflow + 1]
        BY OverflowRecords
    <2> QED BY <1>1, <2>1, Zenon
<1>3. /\ HavingOverflow(k) = [keys EXCEPT ![k] = Having(keys[k])]
      /\ CountingOverflow(k) = [keys EXCEPT ![k] = Counting(keys[k])]
    BY Zenon DEF HavingOverflow, CountingOverflow, Having, Counting
<1> QED BY <1>2, <1>3, Zenon

\* The overflow is in the key and is counted, before the key is signalled: until then it
\* is the callback thread that has it.
LEMMA OverflowKeepsService ==
    ASSUME ServiceInv, NEW k \in DOMAIN keys, AddOverflow(k), task.step \in {1, 2},
           task.step = 1 => ~Full(k)
    PROVE  ServiceInv'
<1>1. KeysTyped /\ HandTyped /\ ReadyTyped /\ RegisteredTyped /\ TaskTyped
    BY DEF ServiceInv, ServiceTyped
<1>2. /\ UNCHANGED <<registered, readyKeys, callbacks, current_id, hand, closing, behind, skipped>>
      /\ ~thrown' => ~thrown
      /\ task.kind = "scan" /\ k \in task.left /\ task.path \in Dir
      /\ task.step > 1 => k = task.key
      /\ task' = StepOn(task, k)
      /\ \/ task.step = 1 /\ ~Full(k) /\ keys' = HavingOverflow(k)
         \/ task.step = 2 /\ keys' = CountingOverflow(k)
    BY <1>1, ScanStep
<1>3. /\ keys[k] = [path |-> keys[k].path, events |-> keys[k].events, overflow |-> keys[k].overflow]
      /\ keys[k].overflow \in Nat
      /\ keys[k].events \in Seq(Path \cup {Overflow}) /\ Len(keys[k].events) <= QueueSize
      /\ Range(keys[k].events) \subseteq {Overflow} \cup Below(keys[k].path)
    BY <1>1, KeyFields
<1>4. PICK E \in Seq(Path \cup {Overflow}), n \in Nat :
            /\ keys' = [keys EXCEPT ![k] = [path |-> keys[k].path, events |-> E, overflow |-> n]]
            /\ Len(E) <= QueueSize
            /\ Range(keys[k].events) \subseteq Range(E)
            /\ Range(E) \subseteq {Overflow} \cup Below(keys[k].path)
            /\ keys[k].overflow > 0 => n > 0
            /\ task.step = 1 => Overflow \in Range(E) /\ n = keys[k].overflow
    <2>1. CASE task.step = 1
        <3>1. /\ Append(keys[k].events, Overflow) \in Seq(Path \cup {Overflow})
              /\ Range(Append(keys[k].events, Overflow)) = Range(keys[k].events) \cup {Overflow}
            BY <1>3, RangeAppend
        <3>2. Len(Append(keys[k].events, Overflow)) <= QueueSize
            <4>1. /\ Len(Append(keys[k].events, Overflow)) = Len(keys[k].events) + 1
                  /\ Len(keys[k].events) \in Nat
                BY <1>3, AppendProperties
            <4> QED BY <1>2, <1>3, <2>1, <4>1, ServiceAssumption DEF Full
        <3>3. keys' = [keys EXCEPT ![k] = [path |-> keys[k].path,
                       events |-> Append(keys[k].events, Overflow), overflow |-> keys[k].overflow]]
            BY <1>1, <1>2, <2>1, OverflowAdded
        <3> QED BY <1>3, <2>1, <3>1, <3>2, <3>3
    <2>2. CASE task.step = 2
        <3> DEFINE more == keys[k].overflow + 1
        <3>1. more \in Nat /\ more > 0 /\ task.step # 1
            BY <1>3, <2>2
        <3>2. keys' = [keys EXCEPT ![k] = [path |-> keys[k].path, events |-> keys[k].events,
                                           overflow |-> more]]
            BY <1>1, <1>2, <2>2, OverflowAdded
        <3> HIDE DEF more
        <3> QED BY <1>3, <3>1, <3>2
    <2> QED BY <2>1, <2>2
<1>5. /\ KeysTyped' /\ DOMAIN keys' = DOMAIN keys
      /\ \A j \in DOMAIN keys : j # k => keys'[j] = keys[j]
      /\ keys'[k].path = keys[k].path /\ keys'[k].events = E /\ keys'[k].overflow = n
    BY <1>1, <1>4, OneKeyChanges
<1>6. \A j \in DOMAIN keys : keys'[j].path = keys[j].path
    BY <1>5
<1>7. /\ TaskTyped'
      /\ task'.kind = "scan" /\ task'.path = task.path
      /\ task'.step = task.step + 1 /\ task'.key = k
    BY <1>1, <1>2, <1>5, <1>6, ScanGoesOn
<1>8. ReadyTyped' /\ RegisteredTyped' /\ HandTyped'
    <2>1. RegisteredTyped'
        BY <1>1, <1>2, <1>5, <1>6 DEF RegisteredTyped, open
    <2> QED BY <1>1, <1>2, <1>5, <2>1 DEF ReadyTyped, HandTyped
<1>9. Signalling'
    <2>1. ASSUME NEW j \in DOMAIN keys, j # k
          PROVE  /\ keys'[j].events # <<>> => j \in Range(readyKeys') \/ hand'.key = j
                 /\ keys'[j].overflow # 0 =>
                        j \in Range(readyKeys') \/ (hand'.key = j /\ ~hand'.counted)
        BY <1>2, <1>5, <2>1 DEF ServiceInv, Signalling, Overflowing
    <2>2. /\ task'.kind = "scan" /\ task'.key = k /\ task'.step >= 2
          /\ task.step = 2 => task'.step >= 3
        BY <1>7
    <2>3. task.step = 1 /\ keys'[k].overflow # 0 =>
              k \in Range(readyKeys') \/ (hand'.key = k /\ ~hand'.counted)
        BY <1>2, <1>4, <1>5 DEF ServiceInv, Signalling, Overflowing
    <2> QED BY <1>5, <2>1, <2>2, <2>3 DEF Signalling, Overflowing
<1>10. Growing
    BY <1>2, <1>4, <1>5 DEF Growing
<1>11. ASSUME NEW p \in behind, Delivered(p) PROVE Delivered(p)'
    <2>1. Near(p)' /\ (Reported(p) => Reported(p)')
        BY <1>2, <1>11 DEF Delivered, Near, Reported
    <2>2. WithKey(p) => WithKey(p)'
        BY <1>1, <1>5, <1>10, GrowingKeeps DEF HandTyped
    <2>3. Tells(task, p) => Tells(task, p)'
        BY <1>2, <1>7 DEF Tells
    <2>4. Holds(k, p)' => Settled(p)'
        BY <1>7 DEF Settled, Overflowing
    <2>5. CASE task.step = 1
        <3>1. ASSUME Tells(task, p) PROVE Holds(k, p)'
            <4>1. p \in Path /\ StartsWith(p, task.path)
                BY <1>2, <3>1 DEF Tells, ServiceInv, ServiceTyped
            <4>2. p \in Below(keys[k].path)
                BY <1>1, <1>2, <4>1, TaskIsBelow
            <4>3. p \in Told(keys[k].path, Range(E), n)
                BY <1>4, <2>5, <4>2 DEF Told, Below
            <4> QED BY <1>5, <4>3 DEF Holds
        <3> QED BY <1>11, <2>1, <2>2, <2>3, <2>4, <3>1 DEF Delivered, Settled
    <2>6. CASE task.step = 2
        <3>1. Holds(k, p) => Holds(k, p)'
            BY <1>1, <1>5, <1>10, GrowingKeeps
        <3>2. Settled(p) /\ task.key = k
            BY <1>2, <1>11, <2>6 DEF Delivered
        <3>3. Reported(p) \/ WithKey(p) \/ Holds(k, p)
            BY <3>2 DEF Settled
        <3>4. Settled(p)'
            BY <2>1, <2>2, <2>4, <3>1, <3>3 DEF Settled
        <3> QED BY <1>11, <2>1, <2>2, <2>3, <3>4 DEF Delivered
    <2> QED BY <2>5, <2>6
<1>12. Delivering'
    BY <1>2, <1>11 DEF ServiceInv, Delivering, open
<1> QED BY <1>2, <1>5, <1>7, <1>8, <1>9, <1>12 DEF ServiceInv, ServiceTyped

\* The key is signalled, and the scan goes on with the next one or is over.
LEMMA SignalKeepsService ==
    ASSUME ServiceInv, NEW k \in DOMAIN keys, AddOverflow(k), task.step = 3
    PROVE  ServiceInv'
<1>1. KeysTyped /\ HandTyped /\ ReadyTyped /\ RegisteredTyped /\ TaskTyped
    BY DEF ServiceInv, ServiceTyped
<1>2. /\ UNCHANGED <<keys, registered, callbacks, current_id, hand, closing, behind, skipped>>
      /\ ~thrown' => ~thrown
      /\ task.kind = "scan" /\ k \in task.left /\ k = task.key
      /\ readyKeys' = Signalled(k) /\ task' = Done(k)
    BY <1>1, ScanStep
<1>3. /\ TaskTyped' /\ ~(task'.step > 1)
      /\ \/ task' = Idle /\ task.left = {k}
         \/ task'.kind = task.kind /\ task'.path = task.path
    BY <1>1, <1>2, DoneKey
<1>4. /\ readyKeys' \in Seq(DOMAIN keys) /\ IsInjective(readyKeys')
      /\ Range(readyKeys') = Range(readyKeys) \cup {k}
    BY <1>1, <1>2, SignalledKey
<1>5. KeysTyped' /\ ReadyTyped' /\ RegisteredTyped' /\ HandTyped'
    <2>1. RegisteredTyped'
        BY <1>1, <1>2 DEF RegisteredTyped, open
    <2> QED BY <1>1, <1>2, <1>4, <2>1 DEF KeysTyped, ReadyTyped, HandTyped
<1>6. Signalling'
    BY <1>2, <1>4 DEF ServiceInv, Signalling, Overflowing
<1>7. Growing
    BY <1>2, <1>4 DEF Growing
<1>8. ASSUME NEW p \in behind, Delivered(p) PROVE Delivered(p)'
    <2>1. Near(p)' /\ (Reported(p) => Reported(p)')
        BY <1>2, <1>8 DEF Delivered, Near, Reported
    <2>2. WithKey(p) => WithKey(p)'
        BY <1>1, <1>5, <1>7, GrowingKeeps DEF HandTyped
    <2>3. Holds(k, p) => WithKey(p)'
        BY <1>2, <1>4 DEF Holds, WithKey
    <2>4. Reported(p) \/ WithKey(p) \/ Holds(k, p)
        BY <1>2, <1>8 DEF Delivered, Settled
    <2> QED BY <1>3, <2>1, <2>2, <2>3, <2>4 DEF Delivered
<1>9. Delivering'
    BY <1>2, <1>8 DEF ServiceInv, Delivering, open
<1> QED BY <1>2, <1>3, <1>5, <1>6, <1>9 DEF ServiceInv, ServiceTyped

\* The queue is full: addOverflow throws, and from then on nothing is promised.
LEMMA ThrowKeepsService ==
    ASSUME ServiceInv, NEW k \in DOMAIN keys, AddOverflow(k), task.step = 1, Full(k)
    PROVE  ServiceInv'
<1>1. TaskTyped
    BY DEF ServiceInv, ServiceTyped
<1>2. /\ UNCHANGED <<keys, readyKeys, registered, callbacks, current_id, hand, closing, behind>>
      /\ task' = Idle /\ thrown'
    BY <1>1, ScanStep
<1>3. KeysTyped' /\ ReadyTyped' /\ HandTyped' /\ RegisteredTyped'
    BY <1>2 DEF ServiceInv, ServiceTyped, KeysTyped, ReadyTyped, HandTyped, RegisteredTyped, open
<1>4. TaskTyped'
    BY <1>2 DEF TaskTyped
<1>5. Signalling'
    BY <1>2 DEF ServiceInv, Signalling, Overflowing
<1> QED BY <1>2, <1>3, <1>4, <1>5 DEF ServiceInv, ServiceTyped, Delivering
-----------------------------------------------------------------------------
(* What holds for every set of directories and paths, every size of the queues *)

\* Every step keeps the invariant.
LEMMA ServiceInductive ==
    ASSUME CoverInv, CoverInv', ServiceInv, [Next]_vars
    PROVE  ServiceInv'
<1>1. CASE Callback
    <2>1. ASSUME NEW k \in DOMAIN keys, AddOverflow(k) PROVE ServiceInv'
        <3>1. task.step \in {1, 2, 3}
            BY <2>1, ScanStep DEF ServiceInv, ServiceTyped
        <3> QED BY <2>1, <3>1, OverflowKeepsService, SignalKeepsService, ThrowKeepsService
    <2> QED BY <1>1, <2>1, NextCallbackKeepsService, AddEventKeepsService DEF Callback
<1>2. CASE Consume
    BY <1>2, TakeKeepsService, PollCountKeepsService, PollEventsKeepsService DEF Consume
<1>3. CASE (\E p \in Dir : Register(p)) \/ RegisterFails \/ UNCHANGED vars
    BY <1>3, RegisterKeepsService DEF Register, RegisterFails, vars, service
<1> QED BY <1>1, <1>2, <1>3, RegisterLockedKeepsService, CloseKeepsService, ChangeKeepsService,
           RunLoopKeepsService DEF Next

LEMMA ServiceCorrect == Spec => [](CoverInv /\ ServiceInv)
<1>1. Init => CoverInv /\ ServiceInv
    BY CoverInit, ServiceInit
<1>2. CoverInv /\ ServiceInv /\ [Next]_vars => (CoverInv /\ ServiceInv)'
    BY CoverInductive, ServiceInductive
<1> QED BY <1>1, <1>2, PTL DEF Spec

\* Whatever is registered, reported, polled and closed in whatever order: a key is in
\* readyKeys at most once, a queue holds no more than its size and only what is below the
\* path of the key, and every handle is of a stream there has been
\* (MacOSXWatchService.java, MacOSXWatchKey).
THEOREM KeysStayInBounds == Spec => []TypeOK
<1>1. ASSUME CoverInv, ServiceInv PROVE TypeOK
    <2>1. /\ KeysTyped /\ ReadyTyped /\ RegisteredTyped /\ TaskTyped /\ HandTyped
          /\ behind \subseteq Path
        BY <1>1 DEF ServiceInv, ServiceTyped
    <2>2. IsInjective(readyKeys) /\ Range(readyKeys) \subseteq DOMAIN keys
        BY <2>1, RangeOfSeq DEF ReadyTyped
    <2>3. \A k \in DOMAIN keys :
            /\ Len(keys[k].events) <= QueueSize /\ Range(keys[k].events) \subseteq Path \cup {Overflow}
            /\ keys[k].overflow \in Nat /\ keys[k].path \in Dir
        BY <2>1, KeyFields DEF Below
    <2>4. ASSUME NEW p \in DOMAIN registered
          PROVE  /\ registered[p].keys \subseteq {k \in DOMAIN keys : keys[k].path = p}
                 /\ registered[p].handle \in 0 .. current_id - 1 \cup {Invalid}
        BY <2>1 DEF RegisteredTyped
    <2>5. task.left \subseteq DOMAIN keys /\ hand.key \in {0} \cup DOMAIN keys
        BY <2>1 DEF TaskTyped, Idle, HandTyped
    <2> QED BY <2>1, <2>2, <2>3, <2>4, <2>5 DEF TypeOK
<1> QED BY <1>1, ServiceCorrect, PTL

\* What was reported near a registered path is with the callback thread or with a key that
\* the consumer will empty, however addEvent, addOverflow and pollEvents interleave: only
\* an exception of addOverflow and a scan of a directory without a key lose anything
\* (MacOSXWatchService.java, MacOSXWatchKey).
THEOREM ReportedIsDelivered == Spec => []NothingMissed
<1>1. ASSUME CoverInv, ServiceInv PROVE NothingMissed
    <2> SUFFICES ASSUME open, ~thrown, ~skipped, NEW p \in behind PROVE UnderWay(p)
        BY DEF NothingMissed
    <2>1. KeysTyped /\ HandTyped /\ Delivered(p)
        BY <1>1 DEF ServiceInv, ServiceTyped, Delivering
    <2>2. ASSUME NEW k \in DOMAIN keys, Holds(k, p), k \in Range(readyKeys) \cup {hand.key}
          PROVE  WillTell(k, p)
        <3> DEFINE counted == keys[k].overflow + IF hand.key = k THEN hand.overflow ELSE 0
        <3>1. keys[k].overflow \in Nat /\ hand.overflow \in Nat
            BY <2>1, KeyFields DEF HandTyped
        <3>2. keys[k].overflow > 0 => counted > 0
            BY <3>1
        <3>3. Range(keys[k].events) \subseteq {Overflow} \cup Below(keys[k].path)
            BY <2>1, KeyFields
        <3> HIDE DEF counted
        <3>4. p \in Told(keys[k].path, Range(keys[k].events), counted)
            BY <2>2, <3>2, <3>3, ToldGrows DEF Holds
        <3> QED BY <2>2, <3>4 DEF WillTell, counted
    <2>3. ASSUME hand.key # 0, InHand(p) PROVE WillTell(hand.key, p)
        <3> DEFINE counted == keys[hand.key].overflow + hand.overflow
        <3>1. hand.key \in DOMAIN keys
            BY <2>1, <2>3 DEF HandTyped
        <3>2. keys[hand.key].overflow \in Nat /\ hand.overflow \in Nat
            BY <2>1, <3>1, KeyFields DEF HandTyped
        <3>3. hand.overflow > 0 => counted > 0
            BY <3>2
        <3>4. Range(keys[hand.key].events) \subseteq {Overflow} \cup Below(keys[hand.key].path)
            BY <2>1, <3>1, KeyFields
        <3> HIDE DEF counted
        <3>5. p \in Told(keys[hand.key].path, Range(keys[hand.key].events), counted)
            BY <2>3, <3>3, <3>4, ToldGrows DEF InHand
        <3> QED BY <3>5 DEF WillTell, counted
    <2>4. CASE WithKey(p)
        <3>1. hand.key # 0 => hand.key \in DOMAIN keys
            BY <2>1 DEF HandTyped
        <3> QED BY <2>2, <2>3, <2>4, <3>1 DEF WithKey, UnderWay
    <2> QED BY <2>1, <2>4 DEF Delivered, Reported, UnderWay
<1> QED BY <1>1, ServiceCorrect, PTL
=============================================================================
