------------------------- MODULE ApplePathWatcherProofs -------------------------
(***************************************************************************)
(* First why ApplePathWatcher is silent after unregister and close         *)
(* although the system goes on reporting: the callback thread asks the     *)
(* registry once for each event, after it has looked at the path.  Then    *)
(* why no change falls between two streams while one takes the place of    *)
(* another, and streams and entries agree in the end.  For every set of    *)
(* directories, files and users, and every choice of depths.               *)
(***************************************************************************)
EXTENDS ApplePathWatcher, FiniteSetTheorems, SequenceTheorems, WellFoundedInduction, TLAPS

-----------------------------------------------------------------------------
(* The inductive invariant *)

\* An event of the run loop: a file that changed, or a stream that was dropped.
FileEvent == [kind : {"file"}, path : File] \cup [kind : {"drop"}, path : Dir]

\* Streams are for directories, and the queue holds what they reported.
MonitorTyped ==
    /\ IsFiniteSet(DOMAIN streams)
    /\ \A id \in DOMAIN streams : streams[id] \in Dir
    /\ callbacks \in Seq(FileEvent)

\* A call that is under way, and the thread that the callbacks run in.
CallTyped(c) ==
    /\ c = [step |-> c.step, path |-> c.path, depth |-> c.depth, handle |-> c.handle]
    /\ c.step # "idle" => c.path \in Dir /\ c.depth \in Depth

TaskTyped ==
    /\ task = [step |-> task.step, path |-> task.path, seen |-> task.seen]
    /\ task.step \in {"resting", "looked", "accepted"}
    /\ task.step # "resting" => task.path \in File

Typed ==
    /\ MonitorTyped /\ TaskTyped
    /\ registered \in [DOMAIN registered -> Depth] /\ DOMAIN registered \subseteq Dir
    /\ DOMAIN call = User /\ \A u \in User : CallTyped(call[u])

\* After an event that was told though not accepted none is under way that could be
\* the second: the thread rests, or will ask the registry, or has just asked it.
OneUnderWay ==
    /\ surplus \in {0, 1}
    /\ surplus = 1 =>
        \/ task.step = "resting"
        \/ ~closed /\ task.step = "looked"
        \/ ~closed /\ Accepted(task.path)

SilentInv == Typed /\ OneUnderWay
-----------------------------------------------------------------------------
(* The registry *)

\* A larger maxDepth lets a path lie further below (compMaxDepth), and addDirectory
\* takes no path away.
LEMMA PutGrows ==
    ASSUME NEW reg, reg \in [DOMAIN reg -> Depth], DOMAIN reg \subseteq Dir,
           NEW path \in Dir, NEW depth \in Depth, Registry!Extends(reg, path, depth)
    PROVE  /\ Registry!Put(reg, path, depth) \in [DOMAIN Registry!Put(reg, path, depth) -> Depth]
           /\ DOMAIN Registry!Put(reg, path, depth) \subseteq Dir
           /\ \A p \in File : Registry!Accepts(reg, p) =>
                Registry!Accepts(Registry!Put(reg, path, depth), p)
<1> DEFINE wider == Registry!Put(reg, path, depth)
<1>1. /\ DOMAIN wider = DOMAIN reg \cup {path} /\ wider[path] = depth
      /\ \A d \in DOMAIN reg \ {path} : wider[d] = reg[d]
      /\ wider \in [DOMAIN wider -> Depth]
    BY DEF Registry!Put
<1>2. ASSUME NEW d \in DOMAIN reg
      PROVE  /\ Registry!CompMaxDepth(reg[d]) \in Int /\ Registry!CompMaxDepth(wider[d]) \in Int
             /\ Registry!CompMaxDepth(reg[d]) <= Registry!CompMaxDepth(wider[d])
    <2>1. reg[d] \in -1..MaxInt /\ wider[d] \in -1..MaxInt /\ MaxInt \in Nat \ {0}
        BY <1>1, WatcherAssumption
    <2>2. reg[d] <= wider[d]
        BY <1>1, <2>1 DEF Registry!Extends
    <2> QED BY <2>1, <2>2 DEF Registry!CompMaxDepth, Registry!Int32, Registry!MinInt
<1> HIDE DEF wider
<1>3. ASSUME NEW p \in File, Registry!Accepts(reg, p) PROVE Registry!Accepts(wider, p)
    <2>1. PICK d \in DOMAIN reg : Registry!Covers(reg, d, p)
        BY <1>3 DEF Registry!Accepts
    <2>2. Len(p) \in Nat /\ Len(d) \in Nat
        BY WatcherAssumption
    <2>3. Registry!Distance(d, p) \in Int
        BY <2>2 DEF Registry!Distance
    <2>4. Registry!Covers(wider, d, p)
        BY <1>2, <2>1, <2>3 DEF Registry!Covers
    <2> QED BY <1>1, <2>4 DEF Registry!Accepts
<1> QED BY <1>1, <1>3 DEF wider
-----------------------------------------------------------------------------
(* Calls *)

\* A call goes on.
LEMMA CallGoesOn ==
    ASSUME NEW c, CallTyped(c), NEW step, step # "idle" => c.step # "idle"
    PROVE  CallTyped([c EXCEPT !.step = step])
<1> DEFINE d == [step |-> step, path |-> c.path, depth |-> c.depth, handle |-> c.handle]
<1>1. [c EXCEPT !.step = step] = d
    BY DEF CallTyped
<1>2. CallTyped(d)
    BY DEF CallTyped
<1> QED BY <1>1, <1>2

\* A call of register, and none.
LEMMA CallRecords ==
    /\ \A step, handle : \A path \in Dir, depth \in Depth :
            CallTyped(Called(step, path, depth, handle))
    /\ CallTyped(Idle)
BY DEF CallTyped, Called, Idle

\* The other calls stay as they are.
LEMMA OneCallChanges ==
    ASSUME Typed, NEW u \in User, NEW c, CallTyped(c), call' = [call EXCEPT ![u] = c]
    PROVE  DOMAIN call' = User /\ \A v \in User : CallTyped(call'[v])
BY DEF Typed
-----------------------------------------------------------------------------
(* The steps of register *)

\* What a step leaves alone keeps its part of the invariant.
LEMMA MonitorKept == MonitorTyped /\ UNCHANGED <<streams, callbacks>> => MonitorTyped'
BY DEF MonitorTyped

LEMMA TaskKept == TaskTyped /\ UNCHANGED task => TaskTyped'
BY DEF TaskTyped

LEMMA OneKept == OneUnderWay /\ UNCHANGED <<surplus, task, registered, closing>> => OneUnderWay'
BY DEF OneUnderWay, Accepted, closed

\* Nothing has been told since: the count begins again.
LEMMA OneBegins == surplus' = 0 => OneUnderWay'
BY DEF OneUnderWay

\* A wider registry accepts what it accepted.
LEMMA OneWidens ==
    ASSUME Typed, OneUnderWay, UNCHANGED <<surplus, task, closing>>,
           \A p \in File : Registry!Accepts(registered, p) => Registry!Accepts(registered', p)
    PROVE  OneUnderWay'
BY DEF OneUnderWay, Typed, TaskTyped, Accepted, closed

LEMMA RegisterSilent ==
    ASSUME SilentInv, NEW u \in User, NEW path \in Dir, NEW depth \in Depth,
           Register(u, path, depth)
    PROVE  SilentInv'
<1>1. /\ call' = [call EXCEPT ![u] = Called("find", path, depth, Invalid)]
      /\ surplus' = 0
      /\ \/ UNCHANGED registered
         \/ /\ Registry!Extends(registered, path, depth)
            /\ registered' = Registry!Put(registered, path, depth)
      /\ UNCHANGED <<streams, callbacks, task>>
    BY DEF Register, monitor
<1>2. DOMAIN call' = User /\ \A v \in User : CallTyped(call'[v])
    BY <1>1, CallRecords, OneCallChanges DEF SilentInv
<1>3. registered' \in [DOMAIN registered' -> Depth] /\ DOMAIN registered' \subseteq Dir
    BY <1>1, PutGrows DEF SilentInv, Typed
<1>4. MonitorTyped' /\ TaskTyped'
    BY <1>1, MonitorKept, TaskKept DEF SilentInv, Typed
<1> QED BY <1>1, <1>2, <1>3, <1>4, OneBegins DEF SilentInv, Typed

\* A step of register that goes on or returns, and leaves the registry alone.
LEMMA CallKeepsSilent ==
    ASSUME SilentInv, NEW u \in User, NEW c, CallTyped(c), call' = [call EXCEPT ![u] = c],
           MonitorTyped', UNCHANGED <<surplus, task, registered, closing>>
    PROVE  SilentInv'
<1>1. DOMAIN call' = User /\ \A v \in User : CallTyped(call'[v])
    BY OneCallChanges DEF SilentInv
<1> QED BY <1>1, TaskKept, OneKept DEF SilentInv, Typed

LEMMA FindSilent ==
    ASSUME SilentInv, NEW u \in User, Find(u)
    PROVE  SilentInv'
<1> DEFINE step == IF Found(call[u].path) THEN "add_found" ELSE "add"
           c == [call[u] EXCEPT !.step = step]
<1>1. call' = [call EXCEPT ![u] = c] /\ call[u].step = "find"
    BY DEF Find
<1>2. UNCHANGED <<streams, callbacks, surplus, task, registered, closing>>
    BY DEF Find, monitor, watcher
<1>3. CallTyped(c)
    <2>1. CallTyped(call[u]) /\ call[u].step # "idle"
        BY <1>1 DEF SilentInv, Typed
    <2> HIDE DEF step
    <2> QED BY <2>1, CallGoesOn
<1>4. MonitorTyped'
    BY <1>2, MonitorKept DEF SilentInv, Typed
<1> HIDE DEF c
<1> QED BY <1>1, <1>2, <1>3, <1>4, CallKeepsSilent

\* addDirectory under the feet of the callback thread.
LEMMA AddDirectorySilent ==
    ASSUME SilentInv, NEW u \in User, AddDirectory(u)
    PROVE  SilentInv'
<1>1. CallTyped(call[u]) /\ call[u].step # "idle"
    BY DEF AddDirectory, SilentInv, Typed
<1>2. PICK path \in Dir, depth \in Depth : path = call[u].path /\ depth = call[u].depth
    BY <1>1 DEF CallTyped
<1>3. /\ \/ UNCHANGED registered
         \/ /\ Registry!Extends(registered, path, depth)
            /\ registered' = Registry!Put(registered, path, depth)
      /\ UNCHANGED <<streams, callbacks, surplus, task, closing>>
    BY <1>2 DEF AddDirectory, monitor
<1>4. PICK c : CallTyped(c) /\ call' = [call EXCEPT ![u] = c]
    <2>1. \/ call' = [call EXCEPT ![u] = Idle]
          \/ call' = [call EXCEPT ![u] = [call[u] EXCEPT !.step = "create"]]
        BY DEF AddDirectory, Returns
    <2>2. CallTyped([call[u] EXCEPT !.step = "create"])
        BY <1>1, CallGoesOn
    <2> QED BY <2>1, <2>2, CallRecords
<1>5. DOMAIN call' = User /\ \A v \in User : CallTyped(call'[v])
    BY <1>4, OneCallChanges DEF SilentInv
<1>6. /\ registered' \in [DOMAIN registered' -> Depth] /\ DOMAIN registered' \subseteq Dir
      /\ \A p \in File : Registry!Accepts(registered, p) => Registry!Accepts(registered', p)
    BY <1>3, PutGrows DEF SilentInv, Typed
<1>7. MonitorTyped' /\ TaskTyped' /\ OneUnderWay'
    BY <1>3, <1>6, MonitorKept, TaskKept, OneWidens DEF SilentInv, Typed
<1> QED BY <1>5, <1>6, <1>7 DEF SilentInv, Typed

\* A new stream is for the path of the call.
LEMMA StreamsTyped ==
    ASSUME MonitorTyped, NEW path \in Dir, NEW handle, CreateStream(path, handle)
    PROVE  MonitorTyped'
<1>1. UNCHANGED callbacks
    BY DEF CreateStream
<1>2. CASE UNCHANGED streams
    BY <1>1, <1>2, MonitorKept
<1>3. CASE streams' = With(streams, current_id, path)
    <2>1. DOMAIN streams' = DOMAIN streams \cup {current_id}
        BY <1>3 DEF With
    <2>2. \A id \in DOMAIN streams' : streams'[id] \in Dir
        BY <1>3 DEF With, MonitorTyped
    <2>3. IsFiniteSet(DOMAIN streams')
        BY <2>1, FS_AddElement DEF MonitorTyped
    <2> QED BY <1>1, <2>2, <2>3 DEF MonitorTyped
<1> QED BY <1>2, <1>3 DEF CreateStream

LEMMA CreateSilent ==
    ASSUME SilentInv, NEW u \in User, CreateAppleStream(u) \/ CreateThrows(u)
    PROVE  SilentInv'
<1>1. CallTyped(call[u]) /\ call[u].step # "idle"
    BY DEF CreateAppleStream, CreateThrows, SilentInv, Typed
<1>2. PICK path \in Dir, depth \in Depth : path = call[u].path /\ depth = call[u].depth
    BY <1>1 DEF CallTyped
<1>3. UNCHANGED <<surplus, task, registered, closing>>
    BY DEF CreateAppleStream, CreateThrows, watcher
<1>4. MonitorTyped'
    <2>1. CASE CreateThrows(u)
        BY <2>1, MonitorKept DEF CreateThrows, monitor, SilentInv, Typed
    <2>2. CASE CreateAppleStream(u)
        BY <1>2, <2>2, StreamsTyped DEF CreateAppleStream, SilentInv, Typed
    <2> QED BY <2>1, <2>2
<1>5. PICK c : CallTyped(c) /\ call' = [call EXCEPT ![u] = c]
    <2>1. \/ call' = [call EXCEPT ![u] = Idle]
          \/ \E handle : call' = [call EXCEPT ![u] = Called("created", path, depth, handle)]
        BY <1>2 DEF CreateAppleStream, CreateThrows, Returns
    <2> QED BY <2>1, CallRecords
<1> QED BY <1>3, <1>4, <1>5, CallKeepsSilent
\* The paths below are unregistered, and what is under way is counted anew.
LEMMA RemoveRedundantSilent ==
    ASSUME SilentInv, NEW u \in User, RemoveRedundantStreams(u)
    PROVE  SilentInv'
<1> DEFINE gone == IF closed THEN {} ELSE RedundantPaths(call[u].path)
           c == [call[u] EXCEPT !.step = "put"]
<1>1. /\ call[u].step = "created" /\ call' = [call EXCEPT ![u] = c]
      /\ registered' = IF managed THEN registered ELSE Restrict(registered, DOMAIN registered \ gone)
      /\ surplus' = IF gone = {} THEN surplus ELSE 0
      /\ UNCHANGED <<task, closing>>
    BY DEF RemoveRedundantStreams
<1>2. UNCHANGED <<streams, callbacks>>
    BY DEF RemoveRedundantStreams, StopStreams, monitor
<1>3. CallTyped(c)
    BY <1>1, CallGoesOn DEF SilentInv, Typed
<1> HIDE DEF gone, c
<1>4. DOMAIN call' = User /\ \A v \in User : CallTyped(call'[v])
    BY <1>1, <1>3, OneCallChanges DEF SilentInv
<1>5. /\ registered' \in [DOMAIN registered' -> Depth] /\ DOMAIN registered' \subseteq Dir
      /\ gone = {} => registered' = registered
    BY <1>1 DEF SilentInv, Typed, Restrict
<1>6. OneUnderWay'
    BY <1>1, <1>5, OneKept, OneBegins DEF SilentInv
<1>7. MonitorTyped' /\ TaskTyped'
    BY <1>1, <1>2, MonitorKept, TaskKept DEF SilentInv, Typed
<1> QED BY <1>4, <1>5, <1>6, <1>7 DEF SilentInv, Typed

LEMMA PutStreamSilent ==
    ASSUME SilentInv, NEW u \in User, PutStream(u)
    PROVE  SilentInv'
<1>1. /\ call' = [call EXCEPT ![u] = Idle]
      /\ UNCHANGED <<streams, callbacks, surplus, task, registered, closing>>
    BY DEF PutStream, Returns, monitor
<1>2. MonitorTyped'
    BY <1>1, MonitorKept DEF SilentInv, Typed
<1> QED BY <1>1, <1>2, CallRecords, CallKeepsSilent
-----------------------------------------------------------------------------
(* unregister and close *)

\* Steps that leave the calls of register, the registry and the callback thread alone.
LEMMA OthersKeepSilent ==
    ASSUME SilentInv, UNCHANGED <<call, task, registered>>, MonitorTyped', OneUnderWay'
    PROVE  SilentInv'
BY TaskKept DEF SilentInv, Typed

LEMMA UnregisterSilent ==
    ASSUME SilentInv, NEW path \in Dir, Unregister(path)
    PROVE  SilentInv'
<1>1. /\ registered' = Restrict(registered, DOMAIN registered \ {path})
      /\ surplus' = 0
      /\ UNCHANGED <<streams, callbacks, call, task>>
    BY DEF Unregister, monitor
<1>2. registered' \in [DOMAIN registered' -> Depth] /\ DOMAIN registered' \subseteq Dir
    BY <1>1 DEF SilentInv, Typed, Restrict
<1>3. MonitorTyped' /\ TaskTyped' /\ OneUnderWay'
    BY <1>1, MonitorKept, TaskKept, OneBegins DEF SilentInv, Typed
<1> QED BY <1>1, <1>2, <1>3 DEF SilentInv, Typed

LEMMA StopSilent ==
    ASSUME SilentInv, RemoveStream \/ StopStream \/ ClearStreams
    PROVE  SilentInv'
<1>1. UNCHANGED <<streams, callbacks, call, task, registered, surplus>>
    BY DEF RemoveStream, StopStream, ClearStreams, StopStreams, monitor, watcher
<1>2. closing' = closing \/ (closing = "flagged" /\ closing' = "cleared")
    BY DEF RemoveStream, StopStream, ClearStreams
<1>3. OneUnderWay'
    BY <1>1, <1>2 DEF SilentInv, OneUnderWay, Accepted, closed
<1> QED BY <1>1, <1>3, MonitorKept, OthersKeepSilent DEF SilentInv, Typed

LEMMA CloseSilent ==
    ASSUME SilentInv, BeginClose \/ StopMonitor
    PROVE  SilentInv'
<1>1. CASE BeginClose
    <2>1. UNCHANGED <<streams, callbacks, call, task, registered>> /\ surplus' = 0
        BY <1>1 DEF BeginClose, monitor, watcher
    <2> QED BY <2>1, MonitorKept, OneBegins, OthersKeepSilent DEF SilentInv, Typed
<1>2. CASE StopMonitor
    <2>1. /\ UNCHANGED <<streams, call, task, registered, surplus>>
          /\ callbacks' = <<>> /\ closing = "cleared" /\ closing' = "yes"
        BY <1>2 DEF StopMonitor, CloseMonitor, watcher
    <2>2. MonitorTyped'
        BY <2>1 DEF SilentInv, Typed, MonitorTyped
    <2>3. OneUnderWay'
        BY <2>1 DEF SilentInv, OneUnderWay, Accepted, closed
    <2> QED BY <2>1, <2>2, <2>3, OthersKeepSilent
<1> QED BY <1>1, <1>2
-----------------------------------------------------------------------------
(* The callback thread and the run loop *)

LEMMA NextCallbackSilent ==
    ASSUME SilentInv, NextCallback
    PROVE  SilentInv'
<1> DEFINE next == Head(callbacks)
           looked == [step |-> "looked", path |-> next.path, seen |-> fs[next.path]]
<1>1. /\ callbacks # <<>> /\ callbacks' = Tail(callbacks)
      /\ task' = IF next.kind = "drop" \/ closed THEN Resting ELSE looked
      /\ UNCHANGED <<streams, call, registered, surplus, closing>>
    BY DEF NextCallback, calls
<1>2. next \in FileEvent /\ callbacks' \in Seq(FileEvent)
    BY <1>1 DEF SilentInv, Typed, MonitorTyped
<1>3. MonitorTyped'
    BY <1>1, <1>2 DEF SilentInv, Typed, MonitorTyped
<1>4. next.kind # "drop" => next.path \in File
    BY <1>2 DEF FileEvent
<1> HIDE DEF next
<1>5. TaskTyped' /\ (task'.step = "resting" \/ (~closed /\ task'.step = "looked"))
    BY <1>1, <1>4 DEF TaskTyped, Resting
<1>6. OneUnderWay'
    BY <1>1, <1>5 DEF SilentInv, OneUnderWay, closed
<1> QED BY <1>1, <1>3, <1>5, <1>6 DEF SilentInv, Typed

\* directoryRegistry.accept: the second event is not accepted.
LEMMA AcceptSilent ==
    ASSUME SilentInv, Accept
    PROVE  SilentInv'
<1> DEFINE accepted == [step |-> "accepted", path |-> task.path, seen |-> task.seen]
<1>1. task.step = "looked" /\ UNCHANGED <<streams, callbacks, call, registered, surplus, closing>>
    BY DEF Accept, monitor, watcher, calls
<1>2. [task EXCEPT !.step = "accepted"] = accepted
    BY DEF SilentInv, Typed, TaskTyped
<1>3. task' = IF Accepted(task.path) THEN accepted ELSE Resting
    BY <1>2 DEF Accept
<1>4. MonitorTyped'
    BY <1>1, MonitorKept DEF SilentInv, Typed
<1>5. TaskTyped'
    BY <1>1, <1>3 DEF SilentInv, Typed, TaskTyped, Resting
<1>6. OneUnderWay'
    <2>1. CASE Accepted(task.path)
        <3>1. task'.path = task.path /\ Accepted(task'.path)
            BY <1>3, <2>1
        <3> QED BY <1>1, <2>1, <3>1 DEF SilentInv, OneUnderWay, Accepted, closed
    <2>2. CASE ~Accepted(task.path)
        BY <1>1, <1>3, <2>2 DEF SilentInv, OneUnderWay, Resting
    <2> QED BY <2>1, <2>2
<1> QED BY <1>1, <1>4, <1>5, <1>6 DEF SilentInv, Typed

\* observers.onNext: of two such events the first was the last under way.
LEMMA TellSilent ==
    ASSUME SilentInv, Tell
    PROVE  SilentInv'
<1>1. /\ task.step = "accepted" /\ task' = Resting
      /\ surplus' = IF closed \/ ~Accepted(task.path) THEN surplus + 1 ELSE surplus
      /\ UNCHANGED <<streams, callbacks, call, registered>>
    BY DEF Tell, Accepted, monitor, watcher, calls
<1>2. TaskTyped' /\ task'.step = "resting"
    BY <1>1 DEF TaskTyped, Resting
<1>3. surplus \in {0, 1} /\ (surplus = 1 => ~closed /\ Accepted(task.path))
    BY <1>1 DEF SilentInv, OneUnderWay
<1>4. surplus' \in {0, 1}
    BY <1>1, <1>3
<1>5. OneUnderWay'
    BY <1>2, <1>4 DEF OneUnderWay
<1>6. MonitorTyped'
    BY <1>1, MonitorKept DEF SilentInv, Typed
<1> QED BY <1>1, <1>2, <1>5, <1>6 DEF SilentInv, Typed

LEMMA ChangeSilent ==
    ASSUME SilentInv, NEW path \in File, Change(path)
    PROVE  SilentInv'
<1> DEFINE event == [kind |-> "file", path |-> path]
<1>1. UNCHANGED <<call, task, registered, surplus, closing>>
    BY DEF Change, watcher, calls
<1>2. UNCHANGED streams /\ callbacks' \in {callbacks, Append(callbacks, event)}
    BY DEF Change, Report, monitor
<1>3. event \in FileEvent
    BY DEF FileEvent
<1> HIDE DEF event
<1>4. MonitorTyped'
    BY <1>2, <1>3 DEF SilentInv, Typed, MonitorTyped
<1> QED BY <1>1, <1>4, OneKept, OthersKeepSilent DEF SilentInv

\* The members of a finite set, one after the other.
LEMMA SetToSeqOfFinite ==
    ASSUME NEW S, IsFiniteSet(S)
    PROVE  SetToSeq(S) \in Seq(S)
<1> DEFINE n == Cardinality(S)
<1>1. n \in Nat /\ ExistsBijection(1..n, S)
    BY FS_CardinalityType
<1>2. PICK f \in [1..n -> S] : IsInjective(f)
    BY <1>1 DEF ExistsBijection, Bijection, Injection
<1>3. SetToSeq(S) \in [1..n -> S]
    BY <1>2 DEF SetToSeq
<1> HIDE DEF n
<1> QED BY <1>1, <1>3, SeqDef

\* All members of a finite set are in the queue of them.
LEMMA SetToSeqHasAll ==
    ASSUME NEW S, IsFiniteSet(S)
    PROVE  \A e : Contains(SetToSeq(S), e) <=> e \in S
<1> DEFINE n == Cardinality(S)
           s == SetToSeq(S)
<1>1. n \in Nat /\ ExistsBijection(1..n, S)
    BY FS_CardinalityType
<1>2. PICK f \in [1..n -> S] : IsInjective(f)
    BY <1>1 DEF ExistsBijection, Bijection, Injection
<1>3. s \in [1..n -> S] /\ IsInjective(s)
    BY <1>2 DEF SetToSeq
<1>4. Cardinality(1..n) = n
    BY <1>1, FS_Interval
<1> HIDE DEF n, s
<1>5. s \in Injection(1..n, S)
    BY <1>3 DEF Injection
<1>6. s \in Surjection(1..n, S)
    BY <1>4, <1>5, FS_Injection DEF n
<1>7. Len(s) = n
    BY <1>1, <1>3
<1>8. \A e : Contains(s, e) <=> e \in S
    BY <1>3, <1>6, <1>7 DEF Contains, Surjection
<1> QED BY <1>8 DEF s

\* What the run loop tells of the streams that it drops.
LEMMA DroppedAreQueued ==
    ASSUME Typed
    PROVE  \A gone \in SUBSET DOMAIN streams :
             LET dropped == {[kind |-> "drop", path |-> streams[id]] : id \in gone}
             IN  /\ SetToSeq(dropped) \in Seq(FileEvent)
                 /\ \A e : Contains(SetToSeq(dropped), e) <=> e \in dropped
<1> SUFFICES ASSUME NEW gone \in SUBSET DOMAIN streams
             PROVE  /\ SetToSeq({[kind |-> "drop", path |-> streams[id]] : id \in gone}) \in Seq(FileEvent)
                    /\ \A e : Contains(SetToSeq({[kind |-> "drop", path |-> streams[id]] : id \in gone}), e)
                               <=> e \in {[kind |-> "drop", path |-> streams[id]] : id \in gone}
    OBVIOUS
<1> DEFINE dropped == {[kind |-> "drop", path |-> streams[id]] : id \in gone}
<1>1. dropped \subseteq FileEvent
    BY DEF Typed, MonitorTyped, FileEvent
<1>2. IsFiniteSet(gone)
    BY FS_Subset DEF Typed, MonitorTyped
<1>3. IsFiniteSet(dropped)
    <2> DEFINE event(id) == [kind |-> "drop", path |-> streams[id]]
               f == [id \in gone |-> event(id)]
    <2> HIDE DEF event
    <2>1. f \in Surjection(gone, {event(id) : id \in gone})
        BY DEF Surjection
    <2> HIDE DEF f
    <2>2. IsFiniteSet({event(id) : id \in gone})
        BY <1>2, <2>1, FS_Surjection, Zenon
    <2> QED BY <2>2 DEF event
<1> HIDE DEF dropped
<1>4. SetToSeq(dropped) \in Seq(FileEvent)
    BY <1>1, <1>3, SetToSeqOfFinite, SeqMonotonic
<1>5. \A e : Contains(SetToSeq(dropped), e) <=> e \in dropped
    BY <1>3, SetToSeqHasAll
<1> QED BY <1>4, <1>5 DEF dropped

\* cleanupFunc tells of directories only.
LEMMA RunLoopSilent ==
    ASSUME SilentInv, RunLoop
    PROVE  SilentInv'
<1>1. UNCHANGED <<call, task, registered, surplus, closing>>
    BY DEF RunLoop, watcher, calls
<1>2. CASE Cleanup
    <2> DEFINE gone == (Redundant \cup streams_to_remove) \cap DOMAIN streams
               dropped == {[kind |-> "drop", path |-> streams[id]] : id \in gone}
    <2>1. /\ streams' = Restrict(streams, DOMAIN streams \ gone)
          /\ callbacks' = callbacks \o SetToSeq(dropped)
        BY <1>2 DEF Cleanup
    <2>2. gone \subseteq DOMAIN streams /\ IsFiniteSet(DOMAIN streams)
        BY DEF SilentInv, Typed, MonitorTyped
    <2>3. SetToSeq(dropped) \in Seq(FileEvent)
        BY <2>2, DroppedAreQueued DEF SilentInv
    <2> HIDE DEF gone, dropped
    <2>4. callbacks' \in Seq(FileEvent)
        BY <2>1, <2>3 DEF SilentInv, Typed, MonitorTyped
    <2>5. /\ DOMAIN streams' \subseteq DOMAIN streams
          /\ \A id \in DOMAIN streams' : streams'[id] = streams[id]
        BY <2>1 DEF Restrict
    <2>6. MonitorTyped'
        BY <2>2, <2>4, <2>5, FS_Subset DEF SilentInv, Typed, MonitorTyped
    <2> QED BY <1>1, <2>6, OneKept, OthersKeepSilent DEF SilentInv
<1>3. CASE CleanupRunLoop
    <2>1. UNCHANGED callbacks /\ streams' = NoStreams
        BY <1>3 DEF CleanupRunLoop
    <2>2. MonitorTyped'
        BY <2>1, FS_EmptySet DEF SilentInv, Typed, MonitorTyped, NoStreams
    <2> QED BY <1>1, <2>2, OneKept, OthersKeepSilent DEF SilentInv
<1> QED BY <1>2, <1>3 DEF RunLoop
-----------------------------------------------------------------------------
LEMMA SilentInit == Init => SilentInv
<1> SUFFICES ASSUME Init PROVE SilentInv
    OBVIOUS
<1>1. /\ streams = NoStreams /\ callbacks = <<>> /\ registered = Registry!NoDirectories
      /\ call = [u \in User |-> Idle] /\ task = Resting /\ surplus = 0
    BY DEF Init, MonitorInit
<1>2. MonitorTyped /\ TaskTyped
    BY <1>1, FS_EmptySet DEF MonitorTyped, TaskTyped, NoStreams, Resting
<1>3. registered \in [DOMAIN registered -> Depth] /\ DOMAIN registered \subseteq Dir
    BY <1>1 DEF Registry!NoDirectories
<1>4. DOMAIN call = User /\ \A u \in User : CallTyped(call[u])
    BY <1>1, CallRecords
<1> QED BY <1>1, <1>2, <1>3, <1>4 DEF SilentInv, Typed, OneUnderWay

LEMMA SilentInductive == SilentInv /\ [Next]_vars => SilentInv'
<1> SUFFICES ASSUME SilentInv, [Next]_vars PROVE SilentInv'
    OBVIOUS
<1>1. CASE \E u \in User, p \in Dir, d \in Depth : Register(u, p, d)
    BY <1>1, RegisterSilent
<1>2. CASE \E u \in User : Find(u) \/ AddDirectory(u) \/ RemoveRedundantStreams(u) \/ PutStream(u)
    BY <1>2, FindSilent, AddDirectorySilent, RemoveRedundantSilent, PutStreamSilent
<1>3. CASE \E u \in User : CreateAppleStream(u) \/ CreateThrows(u)
    BY <1>3, CreateSilent
<1>4. CASE \E p \in Dir : Unregister(p)
    BY <1>4, UnregisterSilent
<1>5. CASE RemoveStream \/ StopStream \/ ClearStreams
    BY <1>5, StopSilent
<1>6. CASE BeginClose \/ StopMonitor
    BY <1>6, CloseSilent
<1>7. CASE Callback
    BY <1>7, NextCallbackSilent, AcceptSilent, TellSilent DEF Callback
<1>8. CASE \E f \in File : Change(f)
    BY <1>8, ChangeSilent
<1>9. CASE RunLoop
    BY <1>9, RunLoopSilent
<1>10. CASE UNCHANGED vars
    <2>1. UNCHANGED <<streams, callbacks, call, task, registered, surplus, closing>>
        BY <1>10 DEF vars, monitor, watcher, calls
    <2> QED BY <2>1, MonitorKept, OneKept, OthersKeepSilent DEF SilentInv, Typed
<1> QED BY <1>1, <1>2, <1>3, <1>4, <1>5, <1>6, <1>7, <1>8, <1>9, <1>10 DEF Next

\* After unregister and after close at most one more event is told, whatever streams
\* go on reporting and whoever registers at the same time (unregister, close and
\* the callback of ApplePathWatcher).
THEOREM UnregisteredIsSilent == Spec => []SilentAfterUnregister
<1>1. SilentInv => SilentAfterUnregister
    BY DEF SilentInv, OneUnderWay, SilentAfterUnregister
<1> QED BY <1>1, SilentInit, SilentInductive, PTL DEF Spec
-----------------------------------------------------------------------------
(* Paths and queues *)

\* startsWith is a partial order, and what starts with two paths has the shorter of
\* them above the longer.
LEMMA AboveIsOrder ==
    /\ \A p \in Path : StartsWith(p, p)
    /\ \A p, q, r \in Path : StartsWith(p, q) /\ StartsWith(q, r) => StartsWith(p, r)
    /\ \A p, q \in Path : StrictlyBelow(p, q) => Len(p) > Len(q)
    /\ \A p, q, r \in Path :
         StartsWith(p, q) /\ StartsWith(p, r) /\ Len(r) <= Len(q) => StartsWith(q, r)
<1>1. \A p \in Path : p \in Seq(STRING) /\ Len(p) \in Nat
    BY WatcherAssumption DEF Path
<1>2. ASSUME NEW p \in Path, NEW q \in Path, StrictlyBelow(p, q) PROVE Len(p) > Len(q)
    <2>1. CASE Len(p) = Len(q)
        <3>1. p = q
            BY <1>1, <1>2, <2>1 DEF StrictlyBelow, StartsWith
        <3> QED BY <1>2, <3>1 DEF StrictlyBelow
    <2> QED BY <1>1, <1>2, <2>1 DEF StrictlyBelow, StartsWith
<1>3. ASSUME NEW p \in Path, NEW q \in Path, NEW r \in Path, StartsWith(p, q), StartsWith(q, r)
      PROVE  StartsWith(p, r)
    BY <1>1, <1>3 DEF StartsWith
<1>4. ASSUME NEW p \in Path, NEW q \in Path, NEW r \in Path,
             StartsWith(p, q), StartsWith(p, r), Len(r) <= Len(q)
      PROVE  StartsWith(q, r)
    BY <1>1, <1>4 DEF StartsWith
<1>5. \A p \in Path : StartsWith(p, p)
    BY <1>1 DEF StartsWith
<1> QED BY <1>2, <1>3, <1>4, <1>5

\* What lies below a path lies strictly below whatever that lies strictly below.
LEMMA BelowStrictly ==
    \A p, q, r \in Path :
        \/ StrictlyBelow(p, q) /\ StartsWith(q, r)
        \/ StartsWith(p, q) /\ StrictlyBelow(q, r)
        => StrictlyBelow(p, r)
<1> SUFFICES ASSUME NEW p \in Path, NEW q \in Path, NEW r \in Path,
                    \/ StrictlyBelow(p, q) /\ StartsWith(q, r)
                    \/ StartsWith(p, q) /\ StrictlyBelow(q, r)
             PROVE  StrictlyBelow(p, r)
    OBVIOUS
<1>1. Len(p) \in Nat /\ Len(q) \in Nat /\ Len(r) \in Nat
    BY WatcherAssumption DEF Path
<1>2. StartsWith(p, q) /\ StartsWith(q, r) /\ StartsWith(p, r)
    BY AboveIsOrder DEF StrictlyBelow
<1>3. Len(p) >= Len(q) /\ Len(q) >= Len(r)
    BY <1>2 DEF StartsWith
<1>4. Len(p) > Len(r)
    BY <1>1, <1>3, AboveIsOrder
<1>5. p # r
    BY <1>1, <1>4
<1> QED BY <1>2, <1>5 DEF StrictlyBelow

\* Of some paths one is the shortest.
LEMMA ShortestPath ==
    ASSUME NEW S, S \subseteq Path, S # {}
    PROVE  \E p \in S : \A q \in S : Len(p) <= Len(q)
<1> DEFINE less == {ss \in Nat \X Nat : ss[1] < ss[2]}
           T == {Len(p) : p \in S}
<1>1. \A p \in S : Len(p) \in Nat
    BY WatcherAssumption DEF Path
<1>2. T \subseteq Nat /\ T # {}
    BY <1>1
<1>3. less = OpToRel(<, Nat)
    BY Zenon DEF OpToRel
<1>4. PICK n \in T : \A m \in T : ~(<<m, n>> \in less)
    <2> HIDE DEF less, T
    <2> QED BY <1>2, <1>3, NatLessThanWellFounded, WFMin
<1>5. ASSUME NEW m \in T PROVE n <= m
    <2>1. n \in Nat /\ m \in Nat
        BY <1>2
    <2>2. <<m, n>> \notin less
        BY <1>4
    <2> QED BY <2>1, <2>2
<1> QED BY <1>5

\* What waits in a queue after one step of it.
LEMMA QueueTail ==
    ASSUME NEW T, NEW s \in Seq(T), s # <<>>
    PROVE  \A e : Contains(s, e) <=> e = Head(s) \/ Contains(Tail(s), e)
<1>1. Len(s) \in Nat \ {0} /\ Len(Tail(s)) = Len(s) - 1 /\ Head(s) = s[1]
    BY EmptySeq
<1>2. \A i \in 1..Len(Tail(s)) : Tail(s)[i] = s[i + 1]
    OBVIOUS
<1> SUFFICES ASSUME NEW e PROVE Contains(s, e) <=> e = Head(s) \/ Contains(Tail(s), e)
    OBVIOUS
<1>3. ASSUME Contains(s, e) PROVE e = Head(s) \/ Contains(Tail(s), e)
    <2>1. PICK i \in 1..Len(s) : s[i] = e
        BY <1>3 DEF Contains
    <2>2. CASE i = 1
        BY <1>1, <2>1, <2>2
    <2>3. CASE i # 1
        <3>1. i - 1 \in 1..Len(Tail(s)) /\ Tail(s)[i - 1] = e
            BY <1>1, <1>2, <2>1, <2>3
        <3> QED BY <3>1 DEF Contains
    <2> QED BY <2>2, <2>3
<1>4. ASSUME e = Head(s) PROVE Contains(s, e)
    BY <1>1, <1>4 DEF Contains
<1>5. ASSUME Contains(Tail(s), e) PROVE Contains(s, e)
    <2>1. PICK i \in 1..Len(Tail(s)) : Tail(s)[i] = e
        BY <1>5 DEF Contains
    <2>2. i + 1 \in 1..Len(s) /\ s[i + 1] = e
        BY <1>1, <1>2, <2>1
    <2> QED BY <2>2 DEF Contains
<1> QED BY <1>3, <1>4, <1>5

\* One queue after another.
LEMMA QueueConcat ==
    ASSUME NEW T, NEW s \in Seq(T), NEW t \in Seq(T)
    PROVE  \A e : Contains(s \o t, e) <=> Contains(s, e) \/ Contains(t, e)
<1> SUFFICES ASSUME NEW e PROVE Contains(s \o t, e) <=> Contains(s, e) \/ Contains(t, e)
    OBVIOUS
<1>1. /\ Len(s) \in Nat /\ Len(t) \in Nat /\ Len(s \o t) = Len(s) + Len(t)
      /\ \A i \in 1..(Len(s) + Len(t)) : (s \o t)[i] = IF i <= Len(s) THEN s[i] ELSE t[i - Len(s)]
    OBVIOUS
<1>2. ASSUME Contains(s \o t, e) PROVE Contains(s, e) \/ Contains(t, e)
    <2>1. PICK i \in 1..(Len(s) + Len(t)) : (s \o t)[i] = e
        BY <1>1, <1>2 DEF Contains
    <2>2. CASE i <= Len(s)
        BY <1>1, <2>1, <2>2 DEF Contains
    <2>3. CASE i > Len(s)
        <3>1. i - Len(s) \in 1..Len(t) /\ t[i - Len(s)] = e
            BY <1>1, <2>1, <2>3
        <3> QED BY <3>1 DEF Contains
    <2> QED BY <1>1, <2>2, <2>3
<1>3. ASSUME Contains(s, e) PROVE Contains(s \o t, e)
    BY <1>1, <1>3 DEF Contains
<1>4. ASSUME Contains(t, e) PROVE Contains(s \o t, e)
    <2>1. PICK i \in 1..Len(t) : t[i] = e
        BY <1>4 DEF Contains
    <2>2. i + Len(s) \in 1..(Len(s) + Len(t)) /\ (s \o t)[i + Len(s)] = e
        BY <1>1, <2>1
    <2> QED BY <1>1, <2>2 DEF Contains
<1> QED BY <1>2, <1>3, <1>4

LEMMA QueueAppend ==
    ASSUME NEW T, NEW s \in Seq(T), NEW x \in T
    PROVE  \A e : Contains(Append(s, x), e) <=> Contains(s, e) \/ e = x
<1>1. <<x>> \in Seq(T) /\ Append(s, x) = s \o <<x>>
    OBVIOUS
<1>2. \A e : Contains(<<x>>, e) <=> e = x
    BY DEF Contains
<1> QED BY <1>1, <1>2, QueueConcat
-----------------------------------------------------------------------------
(* The streams and their entries, while nothing is unregistered *)

\* The calls of register that have a stream and no entry yet, and the paths that have an
\* entry or will.
Created == {u \in User : call[u].step \in {"created", "put"}}
Held == Watched \cup {call[u].path : u \in Created}

\* A path lies below one that stays.
Covered(p) == \E q \in Held : StrictlyBelow(p, q)

\* The callback thread is still to learn that the stream of p is gone.
Dropped(p) == Contains(callbacks, [kind |-> "drop", path |-> p])

\* The stream of p is there and nobody has stopped it.
Lives(p, id) == id \in DOMAIN streams /\ streams[id] = p /\ id \notin streams_to_remove

\* Calls of register come one after the other.
OneCall == \A u, v \in User : call[u].step # "idle" /\ call[v].step # "idle" => u = v

\* Streams are numbered in their order.
Numbered ==
    /\ current_id \in Nat
    /\ DOMAIN streams \subseteq 0..(current_id - 1)
    /\ streams_to_remove \subseteq 0..(current_id - 1)
    /\ \A p \in Watched : p \in Dir /\ appleFileEventStreams[p] \in 0..(current_id - 1)

\* No two streams are for one path, and no two paths have one stream.
OneStreamEach ==
    /\ \A i, j \in DOMAIN streams : streams[i] = streams[j] => i = j
    /\ \A p, q \in Watched : appleFileEventStreams[p] = appleFileEventStreams[q] => p = q

\* A stream has its entry, or will have it, or is to be stopped because another covers it.
StreamsAreKnown ==
    \A id \in DOMAIN streams :
        \/ streams[id] \in Watched /\ appleFileEventStreams[streams[id]] = id
        \/ \E u \in Created : call[u].handle = id
        \/ id \in streams_to_remove /\ Covered(streams[id])

\* An entry has its stream, or the callback thread will remove it.
EntriesLive == \A p \in Watched : Lives(p, appleFileEventStreams[p]) \/ Dropped(p)

\* A stream that was dropped is covered by another, and its path gets none again.
DropsAreCovered ==
    \A p \in Dir : Dropped(p) => Covered(p) /\ \A id \in DOMAIN streams : streams[id] # p

\* register makes a stream only where there is none, and it stays.
CallsAreNew ==
    \A u \in User :
        /\ call[u].step \in {"add", "create", "created", "put"} => ~Found(call[u].path)
        /\ call[u].step \in {"created", "put"} =>
             /\ Lives(call[u].path, call[u].handle)
             /\ \A p \in Watched : appleFileEventStreams[p] # call[u].handle
        /\ call[u].step = "add_found" => Found(call[u].path)

Linked ==
    /\ OneCall /\ Numbered /\ OneStreamEach
    /\ StreamsAreKnown /\ EntriesLive /\ DropsAreCovered /\ CallsAreNew

\* Nothing but unregister and close ends this.
Running == ~closed /\ NothingUnregistered
Undisturbed == ~stopped /\ unregistering = Idle

\* Calls of register come one after the other: they are one thread's, or those of a
\* repository, whose tree they hold the lock of.
OneByOne ==
    \A u \in User, p \in Dir, d \in Depth : Register(u, p, d) => \A v \in User : call[v] = Idle

\* Whatever was at or below a path that is held still is.
HeldStays == \A q \in Held : \E r \in Held' : StartsWith(q, r)

\* Where no name starts another, a stream covers just what lies below its path.
LEMMA CoveringMeans ==
    ASSUME SameStart = {}, NEW p
    PROVE  Covering(p) = {id \in DOMAIN streams : StartsWith(p, streams[id])}
BY DEF Covering, StringPrefix

\* What a set of handles and the paths that are held consist of when one call is under way.
LEMMA OneCallCreates ==
    ASSUME OneCall, NEW u \in User, call[u].step # "idle"
    PROVE  /\ \A v \in User \ {u} : call[v].step = "idle"
           /\ Created = IF call[u].step \in {"created", "put"} THEN {u} ELSE {}
           /\ Held = IF call[u].step \in {"created", "put"} THEN Watched \cup {call[u].path} ELSE Watched
<1>1. \A v \in User \ {u} : call[v].step = "idle"
    BY DEF OneCall
<1>2. Created = IF call[u].step \in {"created", "put"} THEN {u} ELSE {}
    BY <1>1 DEF Created
<1>3. Held = IF call[u].step \in {"created", "put"} THEN Watched \cup {call[u].path} ELSE Watched
    BY <1>2 DEF Held
<1> QED BY <1>1, <1>2, <1>3

\* What is held and what is dropped are paths of directories.
LEMMA HeldAreDirs ==
    ASSUME Typed, Numbered
    PROVE  /\ Held \subseteq Dir /\ Watched \subseteq Dir
           /\ \A id \in DOMAIN streams : streams[id] \in Dir
           /\ \A u \in User : call[u].step # "idle" => call[u].path \in Dir
BY DEF Typed, MonitorTyped, CallTyped, Numbered, Held, Created

\* Every stream is at or below a path that is held.
LEMMA StreamsAreHeld ==
    ASSUME Typed, Linked
    PROVE  \A id \in DOMAIN streams : \E q \in Held : StartsWith(streams[id], q)
<1> SUFFICES ASSUME NEW id \in DOMAIN streams PROVE \E q \in Held : StartsWith(streams[id], q)
    OBVIOUS
<1>1. streams[id] \in Dir /\ streams[id] \in Path
    BY DEF Typed, MonitorTyped, Path
<1>2. StartsWith(streams[id], streams[id])
    BY <1>1, AboveIsOrder
<1>3. CASE streams[id] \in Watched
    BY <1>2, <1>3 DEF Held
<1>4. ASSUME NEW u \in Created, call[u].handle = id PROVE \E q \in Held : StartsWith(streams[id], q)
    <2>1. streams[id] = call[u].path /\ call[u].path \in Held
        BY <1>4 DEF Linked, CallsAreNew, Lives, Created, Held
    <2> QED BY <1>2, <2>1
<1>5. CASE Covered(streams[id])
    BY <1>5 DEF Covered, StrictlyBelow
<1> QED BY <1>3, <1>4, <1>5 DEF Linked, StreamsAreKnown
-----------------------------------------------------------------------------
(* The steps of register *)

\* A step that touches neither streams nor entries keeps what is linked, if it keeps the
\* calls that have a stream.
LEMMA CallKeepsLinks ==
    ASSUME Linked, OneCall', CallsAreNew', Created' = Created,
           \A v \in Created : call'[v].path = call[v].path /\ call'[v].handle = call[v].handle,
           UNCHANGED <<monitor, appleFileEventStreams>>
    PROVE  Linked' /\ Held' = Held
<1>1. UNCHANGED <<streams, current_id, streams_to_remove, callbacks, Watched>>
    BY DEF monitor, Watched
<1>2. Held' = Held
    BY <1>1 DEF Held
<1>3. Numbered' /\ OneStreamEach'
    BY <1>1 DEF Linked, Numbered, OneStreamEach
<1>4. StreamsAreKnown'
    BY <1>1, <1>2 DEF Linked, StreamsAreKnown, Covered
<1>5. EntriesLive' /\ DropsAreCovered'
    BY <1>1, <1>2 DEF Linked, EntriesLive, DropsAreCovered, Lives, Dropped, Covered
<1> QED BY <1>2, <1>3, <1>4, <1>5 DEF Linked

LEMMA RegisterLinks ==
    ASSUME Typed, Linked, NEW u \in User, NEW path \in Dir, NEW depth \in Depth,
           Register(u, path, depth), \A v \in User : call[v] = Idle
    PROVE  Linked' /\ Held' = Held
<1>1. /\ call' = [call EXCEPT ![u] = Called("find", path, depth, Invalid)]
      /\ UNCHANGED <<monitor, appleFileEventStreams>>
    BY DEF Register
<1>2. DOMAIN call = User /\ \A v \in User : call[v].step = "idle"
    BY DEF Typed, Idle, Called
<1>3. call'[u].step = "find" /\ \A v \in User \ {u} : call'[v].step = "idle"
    BY <1>1, <1>2 DEF Called
<1>4. Created = {} /\ Created' = {}
    BY <1>2, <1>3 DEF Created
<1>5. OneCall' /\ CallsAreNew'
    BY <1>3 DEF OneCall, CallsAreNew
<1> QED BY <1>1, <1>4, <1>5, CallKeepsLinks

\* A step of register of one call, seen from the others.
LEMMA CallAlone ==
    ASSUME Typed, OneCall, NEW u \in User, call[u].step # "idle",
           NEW c, call' = [call EXCEPT ![u] = c]
    PROVE  /\ OneCall' /\ call'[u] = c
           /\ \A v \in User \ {u} : call'[v] = call[v] /\ call[v].step = "idle"
BY OneCallCreates DEF Typed, OneCall

LEMMA FindLinks ==
    ASSUME Typed, Linked, NEW u \in User, Find(u)
    PROVE  Linked' /\ Held' = Held
<1> DEFINE step == IF Found(call[u].path) THEN "add_found" ELSE "add"
           c == [call[u] EXCEPT !.step = step]
<1>1. /\ call[u].step = "find" /\ call' = [call EXCEPT ![u] = c]
      /\ UNCHANGED <<monitor, appleFileEventStreams>>
    BY DEF Find, watcher
<1>2. CallTyped(call[u])
    BY DEF Typed
<1>3. c.step = step /\ c.path = call[u].path
    BY <1>2 DEF CallTyped
<1> HIDE DEF c
<1>4. OneCall' /\ call'[u] = c /\ \A v \in User \ {u} : call'[v] = call[v] /\ call[v].step = "idle"
    BY <1>1, CallAlone DEF Linked
<1>5. Created = {} /\ Created' = {}
    BY <1>1, <1>3, <1>4 DEF Created
<1>6. CallsAreNew'
    BY <1>1, <1>3, <1>4 DEF CallsAreNew, Found, Watched
<1> QED BY <1>1, <1>4, <1>5, <1>6, CallKeepsLinks

\* A call that ends keeps what is linked, if it has no stream.
LEMMA ReturnLinks ==
    ASSUME Typed, Linked, NEW u \in User, call[u].step \notin {"idle", "created", "put"},
           call' = [call EXCEPT ![u] = Idle], UNCHANGED <<monitor, appleFileEventStreams>>
    PROVE  Linked' /\ Held' = Held
<1>1. /\ OneCall' /\ call'[u] = Idle
      /\ \A v \in User \ {u} : call'[v] = call[v] /\ call[v].step = "idle"
    BY CallAlone DEF Linked
<1>2. Idle.step = "idle"
    BY DEF Idle, Called
<1>3. Created = {} /\ Created' = {} /\ CallsAreNew'
    BY <1>1, <1>2 DEF Created, CallsAreNew
<1> QED BY <1>1, <1>3, CallKeepsLinks

LEMMA AddDirectoryLinks ==
    ASSUME Typed, Linked, NEW u \in User, AddDirectory(u)
    PROVE  Linked' /\ Held' = Held
<1> DEFINE c == [call[u] EXCEPT !.step = "create"]
<1>1. call[u].step \in {"add_found", "add"} /\ UNCHANGED <<monitor, appleFileEventStreams>>
    BY DEF AddDirectory
<1>2. CASE call[u].step = "add_found"
    <2>1. call' = [call EXCEPT ![u] = Idle]
        BY <1>2 DEF AddDirectory, Returns
    <2> QED BY <1>1, <1>2, <2>1, ReturnLinks
<1>3. CASE call[u].step = "add"
    <2>1. call' = [call EXCEPT ![u] = c]
        BY <1>3 DEF AddDirectory
    <2>2. c.step = "create" /\ c.path = call[u].path
        BY DEF Typed, CallTyped
    <2> HIDE DEF c
    <2>3. /\ OneCall' /\ call'[u] = c
          /\ \A v \in User \ {u} : call'[v] = call[v] /\ call[v].step = "idle"
        BY <1>3, <2>1, CallAlone DEF Linked
    <2>4. Created = {} /\ Created' = {}
        BY <1>3, <2>2, <2>3 DEF Created
    <2>5. ~Found(call[u].path)
        BY <1>3 DEF Linked, CallsAreNew
    <2>6. CallsAreNew'
        BY <1>1, <2>2, <2>3, <2>5 DEF CallsAreNew, Found, Watched
    <2> QED BY <1>1, <2>3, <2>4, <2>6, CallKeepsLinks
<1> QED BY <1>1, <1>2, <1>3

\* No stream is at or above a path that register did not find.
LEMMA NoStreamIsAbove ==
    ASSUME Typed, Linked, SameStart = {}, NEW u \in User, call[u].step = "create"
    PROVE  Covering(call[u].path) = {} /\ \A id \in DOMAIN streams : streams[id] # call[u].path
<1>1. Held = Watched /\ ~Found(call[u].path)
    BY OneCallCreates DEF Linked, CallsAreNew
<1>2. call[u].path \in Path /\ Held \subseteq Path /\ \A id \in DOMAIN streams : streams[id] \in Path
    BY HeldAreDirs DEF Linked, Path
<1>3. ASSUME NEW id \in DOMAIN streams, StartsWith(call[u].path, streams[id]) PROVE FALSE
    <2>1. PICK q \in Held : StartsWith(streams[id], q)
        BY StreamsAreHeld
    <2>2. StartsWith(call[u].path, q)
        BY <1>2, <1>3, <2>1, AboveIsOrder
    <2> QED BY <1>1, <2>1, <2>2 DEF Found
<1>4. StartsWith(call[u].path, call[u].path)
    BY <1>2, AboveIsOrder
<1> QED BY <1>3, <1>4, CoveringMeans

LEMMA CreateLinks ==
    ASSUME Typed, Linked, SameStart = {}, NEW u \in User, CreateAppleStream(u)
    PROVE  Linked' /\ Held \subseteq Held' /\ ~stopped'
<1>0. PICK path \in Dir : path = call[u].path
    BY HeldAreDirs DEF CreateAppleStream, Linked
<1>1. /\ call[u].step = "create"
      /\ UNCHANGED <<appleFileEventStreams, callbacks, streams_to_remove, stopped>>
    BY DEF CreateAppleStream, CreateStream, watcher
<1>2. PICK handle : CreateStream(path, handle) /\ IF Fails(handle) THEN Returns(u, FALSE)
                       ELSE call' = [call EXCEPT ![u] = Called("created", @.path, @.depth, handle)]
    BY <1>0 DEF CreateAppleStream
<1>3. ~stopped'
    BY <1>2 DEF CreateStream
<1>4. Covering(path) = {} /\ \A id \in DOMAIN streams : streams[id] # path
    BY <1>0, <1>1, NoStreamIsAbove
<1>5. Numbered
    BY DEF Linked
<1>6. CASE handle = Invalid /\ UNCHANGED <<streams, current_id>>
    <2>1. call' = [call EXCEPT ![u] = Idle]
        BY <1>2, <1>6 DEF Returns, Fails
    <2>2. UNCHANGED <<streams, current_id, streams_to_remove, callbacks, Watched>>
        BY <1>1, <1>6 DEF Watched
    <2>3. /\ OneCall' /\ call'[u] = Idle
          /\ \A v \in User \ {u} : call'[v] = call[v] /\ call[v].step = "idle"
        BY <1>1, <2>1, CallAlone DEF Linked
    <2>4. Idle.step = "idle"
        BY DEF Idle, Called
    <2>5. Created = {} /\ Created' = {} /\ CallsAreNew'
        BY <1>1, <2>3, <2>4 DEF Created, CallsAreNew
    <2>6. Held' = Held
        BY <2>2, <2>5 DEF Held
    <2>7. Numbered' /\ OneStreamEach'
        BY <1>1, <2>2 DEF Linked, Numbered, OneStreamEach
    <2>8. StreamsAreKnown'
        BY <1>1, <2>2, <2>5, <2>6 DEF Linked, StreamsAreKnown, Covered
    <2>9. EntriesLive' /\ DropsAreCovered'
        BY <1>1, <2>2, <2>6 DEF Linked, EntriesLive, DropsAreCovered, Lives, Dropped, Covered
    <2> QED BY <1>3, <2>3, <2>5, <2>6, <2>7, <2>8, <2>9 DEF Linked
<1>7. CASE /\ handle = current_id /\ current_id' = current_id + 1
           /\ streams' = With(streams, current_id, path)
    <2>1. handle \in Nat /\ handle # Invalid
        BY <1>5, <1>7 DEF Numbered, Invalid
    <2>2. call' = [call EXCEPT ![u] = Called("created", path, call[u].depth, handle)]
        BY <1>0, <1>2, <2>1 DEF Fails
    <2>3. /\ OneCall' /\ call'[u] = Called("created", path, call[u].depth, handle)
          /\ \A v \in User \ {u} : call'[v] = call[v] /\ call[v].step = "idle"
        BY <1>1, <2>2, CallAlone DEF Linked
    <2>4. call'[u].step = "created" /\ call'[u].path = path /\ call'[u].handle = handle
        BY <2>3 DEF Called
    <2>5. Created = {} /\ Created' = {u}
        BY <1>1, <2>3, <2>4 DEF Created
    <2>6. Watched' = Watched /\ Held = Watched /\ Held' = Watched \cup {path}
        BY <1>1, <2>4, <2>5 DEF Held, Watched
    <2>7. /\ DOMAIN streams' = DOMAIN streams \cup {handle} /\ handle \notin DOMAIN streams
          /\ streams'[handle] = path /\ \A id \in DOMAIN streams : streams'[id] = streams[id]
          /\ handle \notin streams_to_remove /\ \A p \in Watched : appleFileEventStreams[p] # handle
        BY <1>5, <1>7 DEF With, Numbered
    <2>8. Numbered'
        BY <1>1, <1>5, <1>7, <2>6, <2>7 DEF Numbered
    <2>9. OneStreamEach'
        BY <1>1, <1>4, <2>6, <2>7 DEF Linked, OneStreamEach
    <2>10. \A p : Covered(p) => Covered(p)'
        BY <2>6 DEF Covered
    <2>11. StreamsAreKnown'
        <3>1. ASSUME NEW id \in DOMAIN streams
              PROVE  \/ streams'[id] \in Watched' /\ appleFileEventStreams'[streams'[id]] = id
                     \/ id \in streams_to_remove' /\ \E q \in Held' : StrictlyBelow(streams'[id], q)
            BY <1>1, <2>5, <2>6, <2>7 DEF Linked, StreamsAreKnown, Covered
        <3> QED BY <2>4, <2>5, <2>7, <3>1 DEF StreamsAreKnown, Covered
    <2>12. EntriesLive'
        BY <1>1, <2>6, <2>7 DEF Linked, EntriesLive, Lives, Dropped
    <2>13. \A p \in Dir : Dropped(p) => p # path
        <3>1. \A p \in Dir : Dropped(p) => Found(p)
            BY <2>6 DEF Linked, DropsAreCovered, Covered, Found, StrictlyBelow
        <3> QED BY <1>0, <1>1, <3>1 DEF Linked, CallsAreNew
    <2>14. DropsAreCovered'
        BY <1>1, <2>7, <2>10, <2>13 DEF Linked, DropsAreCovered, Dropped
    <2>15. CallsAreNew'
        <3>1. ~Found(path)'
            BY <1>0, <1>1, <2>6 DEF Linked, CallsAreNew, Found
        <3>2. ~\E q \in Watched' : StartsWith(call'[u].path, q)
            BY <2>4, <3>1 DEF Found
        <3>3. Lives(path, handle)'
            BY <1>1, <2>7 DEF Lives
        <3> QED BY <1>1, <2>3, <2>4, <2>6, <2>7, <3>2, <3>3 DEF CallsAreNew, Found, Lives
    <2> QED BY <1>3, <2>3, <2>6, <2>8, <2>9, <2>11, <2>12, <2>14, <2>15 DEF Linked
<1> QED BY <1>2, <1>4, <1>6, <1>7 DEF CreateStream

\* What is covered stays covered.
LEMMA CoverStays ==
    ASSUME Typed, Linked, HeldStays, Held' \subseteq Dir
    PROVE  \A p \in Dir : Covered(p) => Covered(p)'
<1> SUFFICES ASSUME NEW p \in Dir, Covered(p) PROVE Covered(p)'
    OBVIOUS
<1>1. PICK q \in Held : StrictlyBelow(p, q)
    BY DEF Covered
<1>2. PICK r \in Held' : StartsWith(q, r)
    BY DEF HeldStays
<1>3. p \in Path /\ q \in Path /\ r \in Path
    BY HeldAreDirs DEF Linked, Path
<1>4. StrictlyBelow(p, r)
    BY <1>1, <1>2, <1>3, BelowStrictly
<1> QED BY <1>4 DEF Covered

LEMMA HeldStaysHeld ==
    ASSUME Typed, Linked, Held \subseteq Held'
    PROVE  HeldStays
BY HeldAreDirs, AboveIsOrder DEF HeldStays, Linked, Path

\* removeRedundantStreams: the streams below are stopped, and the one above covers them.
LEMMA RemoveRedundantLinks ==
    ASSUME Typed, Linked, Running, Undisturbed, NEW u \in User, RemoveRedundantStreams(u)
    PROVE  Linked' /\ HeldStays /\ Held' \subseteq Held /\ ~stopped'
<1>0. PICK path \in Dir : path = call[u].path
    BY HeldAreDirs DEF RemoveRedundantStreams, Linked
<1> DEFINE gone == RedundantPaths(path)
           c == [call[u] EXCEPT !.step = "put"]
<1>1. /\ call[u].step = "created" /\ call' = [call EXCEPT ![u] = c]
      /\ appleFileEventStreams' = WithoutStreams(gone)
      /\ streams_to_remove' = streams_to_remove \cup (Handles(gone) \ {Invalid})
      /\ UNCHANGED <<streams, current_id, stopped, callbacks>>
    BY <1>0 DEF RemoveRedundantStreams, StopStreams, Running, Undisturbed
<1>2. c.step = "put" /\ c.path = path /\ c.handle = call[u].handle
    BY <1>0 DEF Typed, CallTyped
<1> HIDE DEF c
<1>3. OneCall' /\ call'[u] = c /\ \A v \in User \ {u} : call'[v] = call[v] /\ call[v].step = "idle"
    BY <1>1, CallAlone DEF Linked
<1>4. Created = {u} /\ Created' = {u}
    BY <1>1, <1>2, <1>3 DEF Created
<1>5. /\ Watched' = Watched \ gone /\ gone \subseteq Watched
      /\ \A p \in Watched' : appleFileEventStreams'[p] = appleFileEventStreams[p]
    BY <1>1 DEF WithoutStreams, Restrict, Watched, RedundantPaths
<1>6. Held = Watched \cup {path} /\ Held' = (Watched \ gone) \cup {path}
    BY <1>0, <1>2, <1>3, <1>4, <1>5 DEF Held
<1>7. \A q \in gone : StrictlyBelow(q, path)
    BY DEF RedundantPaths
<1>8. Handles(gone) = {appleFileEventStreams[p] : p \in gone}
    BY <1>5 DEF Handles
<1> HIDE DEF gone
<1>9. /\ Numbered /\ Held \subseteq Dir /\ Held' \subseteq Dir
      /\ \A id \in DOMAIN streams : streams[id] \in Dir
    BY <1>0, <1>6, HeldAreDirs DEF Linked
<1>10. HeldStays
    <2>1. \A q \in Held \cap Held' : StartsWith(q, q)
        BY <1>9, AboveIsOrder DEF Path
    <2>2. \A q \in gone : StartsWith(q, path)
        BY <1>7 DEF StrictlyBelow
    <2> QED BY <1>6, <2>1, <2>2 DEF HeldStays
<1>11. \A p \in Dir : Covered(p) => Covered(p)'
    BY <1>9, <1>10, CoverStays
<1>12. \A p \in gone : Covered(p)'
    BY <1>6, <1>7 DEF Covered
<1>13. \A p \in gone : appleFileEventStreams[p] \in Handles(gone) \ {Invalid} /\ p \in Watched
    BY <1>5, <1>8, <1>9 DEF Numbered, Invalid
<1>14. Numbered'
    <2>1. Handles(gone) \subseteq 0..(current_id - 1)
        BY <1>5, <1>8, <1>9 DEF Numbered
    <2> QED BY <1>1, <1>5, <1>9, <2>1 DEF Numbered
<1>15. OneStreamEach'
    BY <1>1, <1>5 DEF Linked, OneStreamEach
<1>16. StreamsAreKnown'
    <2> SUFFICES ASSUME NEW id \in DOMAIN streams
                 PROVE  \/ streams[id] \in Watched' /\ appleFileEventStreams'[streams[id]] = id
                        \/ call'[u].handle = id
                        \/ id \in streams_to_remove' /\ \E q \in Held' : StrictlyBelow(streams[id], q)
        BY <1>1, <1>4 DEF StreamsAreKnown, Covered
    <2>1. CASE streams[id] \in Watched /\ appleFileEventStreams[streams[id]] = id
        <3>1. CASE streams[id] \in gone
            <4>1. id \in streams_to_remove'
                BY <1>1, <1>13, <2>1, <3>1
            <4>2. StrictlyBelow(streams[id], path) /\ path \in Held'
                BY <1>6, <1>7, <3>1
            <4> QED BY <4>1, <4>2
        <3>2. CASE streams[id] \notin gone
            BY <1>5, <2>1, <3>2
        <3> QED BY <3>1, <3>2
    <2>2. CASE \E v \in Created : call[v].handle = id
        BY <1>2, <1>3, <1>4, <2>2
    <2>3. CASE id \in streams_to_remove /\ Covered(streams[id])
        <3>1. \E q \in Held' : StrictlyBelow(streams[id], q)
            <4>1. PICK p \in Dir : p = streams[id]
                BY <1>9
            <4>2. Covered(p)'
                BY <1>11, <2>3, <4>1
            <4> QED BY <4>1, <4>2 DEF Covered
        <3> QED BY <1>1, <2>3, <3>1
    <2> QED BY <2>1, <2>2, <2>3 DEF Linked, StreamsAreKnown
<1>17. EntriesLive'
    <2> SUFFICES ASSUME NEW p \in Watched \ gone
                 PROVE  Dropped(p) \/ (/\ appleFileEventStreams[p] \in DOMAIN streams
                                       /\ streams[appleFileEventStreams[p]] = p
                                       /\ appleFileEventStreams[p] \notin streams_to_remove')
        BY <1>1, <1>5 DEF EntriesLive, Lives, Dropped
    <2>1. appleFileEventStreams[p] \notin Handles(gone)
        BY <1>5, <1>8 DEF Linked, OneStreamEach
    <2> QED BY <1>1, <2>1 DEF Linked, EntriesLive, Lives
<1>18. DropsAreCovered'
    BY <1>1, <1>11 DEF Linked, DropsAreCovered, Dropped
<1>19. CallsAreNew'
    <2>1. call[u].handle \notin Handles(gone)
        BY <1>1, <1>8, <1>13 DEF Linked, CallsAreNew
    <2>2. /\ Lives(path, call[u].handle) /\ ~Found(path)
          /\ \A p \in Watched : appleFileEventStreams[p] # call[u].handle
        BY <1>0, <1>1 DEF Linked, CallsAreNew
    <2>3. ~\E q \in Watched' : StartsWith(call'[u].path, q)
        BY <1>2, <1>3, <1>5, <2>2 DEF Found
    <2>4. /\ call'[u].handle \in DOMAIN streams' /\ streams'[call'[u].handle] = call'[u].path
          /\ call'[u].handle \notin streams_to_remove'
        BY <1>1, <1>2, <1>3, <2>1, <2>2 DEF Lives
    <2>5. \A p \in Watched' : appleFileEventStreams'[p] # call'[u].handle
        BY <1>2, <1>3, <1>5, <2>2
    <2> QED BY <1>2, <1>3, <2>3, <2>4, <2>5 DEF CallsAreNew, Found, Lives
<1> QED BY <1>1, <1>3, <1>6, <1>10, <1>14, <1>15, <1>16, <1>17, <1>18, <1>19 DEF Linked, Undisturbed

\* The stream gets its entry.
LEMMA PutStreamLinks ==
    ASSUME Typed, Linked, NEW u \in User, PutStream(u)
    PROVE  Linked' /\ Held' = Held
<1>0. PICK path \in Dir : path = call[u].path
    BY HeldAreDirs DEF PutStream, Linked
<1> PICK handle : handle = call[u].handle
    OBVIOUS
<1>1. /\ call[u].step = "put" /\ call' = [call EXCEPT ![u] = Idle]
      /\ appleFileEventStreams' = With(appleFileEventStreams, path, handle)
      /\ UNCHANGED <<streams, current_id, streams_to_remove, callbacks>>
    BY <1>0 DEF PutStream, Returns, monitor
<1>2. /\ OneCall' /\ call'[u] = Idle
      /\ \A v \in User \ {u} : call'[v] = call[v] /\ call[v].step = "idle"
    BY <1>1, CallAlone DEF Linked
<1>3. Idle.step = "idle"
    BY DEF Idle, Called
<1>4. Created = {u} /\ Created' = {} /\ CallsAreNew'
    BY <1>1, <1>2, <1>3 DEF Created, CallsAreNew
<1>5. /\ Lives(path, handle) /\ ~Found(path) /\ \A p \in Watched : appleFileEventStreams[p] # handle
    BY <1>0, <1>1 DEF Linked, CallsAreNew
<1>6. path \notin Watched
    BY <1>5, AboveIsOrder DEF Found, Path
<1>7. /\ Watched' = Watched \cup {path} /\ appleFileEventStreams'[path] = handle
      /\ \A p \in Watched : appleFileEventStreams'[p] = appleFileEventStreams[p]
    BY <1>1, <1>6 DEF Watched, With
<1>8. Held' = Held
    BY <1>0, <1>4, <1>7 DEF Held
<1>9. Numbered'
    BY <1>1, <1>5, <1>7 DEF Linked, Numbered, Lives
<1>10. OneStreamEach'
    BY <1>1, <1>5, <1>7 DEF Linked, OneStreamEach
<1>11. StreamsAreKnown'
    BY <1>0, <1>1, <1>4, <1>5, <1>7, <1>8 DEF Linked, StreamsAreKnown, Covered, Lives
<1>12. EntriesLive'
    <2>1. ASSUME NEW p \in Watched
          PROVE  Lives(p, appleFileEventStreams'[p]) \/ Dropped(p)
        BY <1>7 DEF Linked, EntriesLive
    <2>2. Lives(path, appleFileEventStreams'[path])
        BY <1>5, <1>7
    <2> QED BY <1>1, <1>7, <2>1, <2>2 DEF EntriesLive, Lives, Dropped
<1>13. DropsAreCovered'
    BY <1>1, <1>8 DEF Linked, DropsAreCovered, Dropped, Covered
<1> QED BY <1>2, <1>4, <1>8, <1>9, <1>10, <1>11, <1>12, <1>13 DEF Linked
-----------------------------------------------------------------------------
(* The callback thread and the run loop *)

\* A stream that was dropped has no entry any more.
LEMMA NextCallbackLinks ==
    ASSUME Typed, Linked, Running, NextCallback
    PROVE  Linked' /\ HeldStays /\ Held' \subseteq Held
<1> DEFINE next == Head(callbacks)
           gone == IF next.kind = "drop" THEN {next.path} ELSE {}
<1>1. /\ callbacks # <<>> /\ callbacks' = Tail(callbacks)
      /\ appleFileEventStreams' = IF next.kind = "drop" THEN WithoutStreams({next.path})
                                  ELSE appleFileEventStreams
      /\ UNCHANGED <<streams, current_id, streams_to_remove, call>>
    BY DEF NextCallback, calls, Running
<1>2. next \in FileEvent /\ callbacks \in Seq(FileEvent)
    BY <1>1 DEF Typed, MonitorTyped
<1>3. \A e : Contains(callbacks, e) <=> e = next \/ Contains(callbacks', e)
    BY <1>1, <1>2, QueueTail
<1>4. \A p : Dropped(p)' => Dropped(p)
    BY <1>3 DEF Dropped
<1>5. \A p : Dropped(p) /\ p \notin gone => Dropped(p)'
    <2>1. \A p : [kind |-> "drop", path |-> p] = next => p \in gone
        OBVIOUS
    <2> HIDE DEF next, gone
    <2> QED BY <1>3, <2>1 DEF Dropped
<1>6. \A p \in gone : Dropped(p) /\ p \in Dir
    <2>1. next.kind = "drop" => next = [kind |-> "drop", path |-> next.path] /\ next.path \in Dir
        BY <1>2 DEF FileEvent
    <2> QED BY <1>3, <2>1 DEF Dropped
<1>7. /\ Watched' = Watched \ gone
      /\ \A p \in Watched' : appleFileEventStreams'[p] = appleFileEventStreams[p]
    <2>1. CASE next.kind = "drop"
        BY <1>1, <2>1 DEF WithoutStreams, Restrict, Watched
    <2>2. CASE next.kind # "drop"
        BY <1>1, <2>2 DEF Watched
    <2> QED BY <2>1, <2>2
<1>8. \A p, q \in gone : p = q
    OBVIOUS
<1> HIDE DEF next, gone
<1>9. \A p \in gone : Covered(p) /\ \A id \in DOMAIN streams : streams[id] # p
    BY <1>6 DEF Linked, DropsAreCovered
<1>10. Created' = Created /\ \A v \in Created : call[v].path \notin gone
    BY <1>1, <1>9 DEF Created, Linked, CallsAreNew, Lives
<1>11. Held' = Held \ gone
    BY <1>1, <1>7, <1>10 DEF Held
<1>12. Held \subseteq Dir /\ \A id \in DOMAIN streams : streams[id] \in Dir
    BY HeldAreDirs DEF Linked
<1>13. HeldStays
    <2>1. \A q \in Held : StartsWith(q, q)
        BY <1>12, AboveIsOrder DEF Path
    <2>2. ASSUME NEW q \in gone PROVE \E r \in Held' : StartsWith(q, r)
        BY <1>8, <1>9, <1>11 DEF Covered, StrictlyBelow
    <2> QED BY <1>11, <2>1, <2>2 DEF HeldStays
<1>14. \A p \in Dir : Covered(p) => Covered(p)'
    BY <1>11, <1>12, <1>13, CoverStays
<1>15. OneCall' /\ Numbered' /\ OneStreamEach'
    <2>1. OneCall'
        BY <1>1 DEF Linked, OneCall
    <2>2. Numbered'
        BY <1>1, <1>7 DEF Linked, Numbered
    <2>3. \A p, q \in Watched' : appleFileEventStreams'[p] = appleFileEventStreams'[q] => p = q
        BY <1>7 DEF Linked, OneStreamEach
    <2>4. OneStreamEach'
        BY <1>1, <2>3 DEF Linked, OneStreamEach
    <2> QED BY <2>1, <2>2, <2>4
<1>16. StreamsAreKnown'
    <2> SUFFICES ASSUME NEW id \in DOMAIN streams
                 PROVE  \/ streams[id] \in Watched' /\ appleFileEventStreams'[streams[id]] = id
                        \/ \E v \in Created : call[v].handle = id
                        \/ id \in streams_to_remove /\ \E q \in Held' : StrictlyBelow(streams[id], q)
        BY <1>1, <1>10 DEF StreamsAreKnown, Covered
    <2>1. PICK p \in Dir : p = streams[id]
        BY <1>12
    <2>2. Covered(streams[id]) => \E q \in Held' : StrictlyBelow(streams[id], q)
        BY <1>14, <2>1 DEF Covered
    <2> QED BY <1>7, <1>9, <2>2 DEF Linked, StreamsAreKnown
<1>17. EntriesLive'
    BY <1>1, <1>5, <1>7 DEF Linked, EntriesLive, Lives
<1>18. DropsAreCovered'
    BY <1>1, <1>4, <1>14 DEF Linked, DropsAreCovered
<1>19. CallsAreNew'
    <2>1. ASSUME NEW v \in User, call[v].step = "add_found"
          PROVE  \E q \in Watched' : StartsWith(call[v].path, q)
        <3>1. Held = Watched /\ Held' = Watched'
            BY <1>7, <1>11, <2>1, OneCallCreates DEF Linked
        <3>2. PICK q \in Watched : StartsWith(call[v].path, q)
            BY <2>1 DEF Linked, CallsAreNew, Found
        <3>3. PICK r \in Watched' : StartsWith(q, r)
            BY <1>13, <3>1, <3>2 DEF HeldStays
        <3>4. call[v].path \in Path /\ q \in Path /\ r \in Path
            BY <1>11, <1>12, <2>1, <3>1, <3>2, <3>3, HeldAreDirs DEF Linked, Path
        <3> QED BY <3>2, <3>3, <3>4, AboveIsOrder
    <2>2. \A v \in User : call[v].step \in {"add", "create", "created", "put"}
                            => ~\E q \in Watched' : StartsWith(call[v].path, q)
        BY <1>7 DEF Linked, CallsAreNew, Found
    <2> QED BY <1>1, <1>7, <2>1, <2>2 DEF Linked, CallsAreNew, Found, Lives
<1> QED BY <1>11, <1>13, <1>15, <1>16, <1>17, <1>18, <1>19 DEF Linked

\* A step that moves neither a stream nor an entry nor a call.
LEMMA OthersKeepLinks ==
    ASSUME Linked, UNCHANGED <<streams, current_id, streams_to_remove, appleFileEventStreams, call>>,
           \A p : Dropped(p)' <=> Dropped(p)
    PROVE  Linked' /\ Held' = Held
<1>1. Watched' = Watched /\ Created' = Created
    BY DEF Watched, Created
<1>2. Held' = Held
    BY <1>1 DEF Held
<1>3. OneCall' /\ Numbered' /\ OneStreamEach'
    BY <1>1 DEF Linked, OneCall, Numbered, OneStreamEach
<1>4. StreamsAreKnown'
    BY <1>1, <1>2 DEF Linked, StreamsAreKnown, Covered
<1>5. EntriesLive' /\ DropsAreCovered'
    BY <1>1, <1>2 DEF Linked, EntriesLive, DropsAreCovered, Covered, Lives
<1>6. CallsAreNew'
    BY <1>1 DEF Linked, CallsAreNew, Found, Lives
<1> QED BY <1>2, <1>3, <1>4, <1>5, <1>6 DEF Linked

LEMMA ChangeLinks ==
    ASSUME Typed, Linked, Undisturbed, NEW path \in File, Change(path)
    PROVE  /\ Linked' /\ Held' = Held /\ ~stopped'
           /\ \A e : Contains(callbacks, e) => Contains(callbacks', e)
           /\ Stream(path) => Contains(callbacks', [kind |-> "file", path |-> path])
<1> DEFINE event == [kind |-> "file", path |-> path]
<1>1. /\ UNCHANGED <<streams, current_id, streams_to_remove, appleFileEventStreams, call, stopped>>
      /\ callbacks' = IF Stream(path) THEN Append(callbacks, event) ELSE callbacks
    BY DEF Change, Report, monitor, watcher, calls
<1>2. \A p : [kind |-> "drop", path |-> p] # event
    <2>1. \A p : [kind |-> "drop", path |-> p].kind # event.kind
        OBVIOUS
    <2> QED BY <2>1
<1>3. event \in FileEvent /\ callbacks \in Seq(FileEvent)
    BY DEF FileEvent, Typed, MonitorTyped
<1> HIDE DEF event
<1>4. \A e : Contains(Append(callbacks, event), e) <=> Contains(callbacks, e) \/ e = event
    BY <1>3, QueueAppend
<1>5. \A p : Dropped(p)' <=> Dropped(p)
    BY <1>1, <1>2, <1>4 DEF Dropped
<1>6. Linked' /\ Held' = Held
    BY <1>1, <1>5, OthersKeepLinks
<1> QED BY <1>1, <1>4, <1>6 DEF Undisturbed, event

\* cleanupFunc: whatever goes is covered by what stays, and told.
LEMMA CleanupLinks ==
    ASSUME Typed, Linked, SameStart = {}, Cleanup, UNCHANGED <<appleFileEventStreams, call>>
    PROVE  /\ Linked' /\ Held' = Held /\ ~stopped'
           /\ \A e : Contains(callbacks, e) => Contains(callbacks', e)
<1> DEFINE gone == (Redundant \cup streams_to_remove) \cap DOMAIN streams
           dropped == {[kind |-> "drop", path |-> streams[id]] : id \in gone}
<1>1. /\ ~stopped' /\ streams' = Restrict(streams, DOMAIN streams \ gone)
      /\ streams_to_remove' = {} /\ UNCHANGED <<current_id, appleFileEventStreams, call>>
      /\ callbacks' = callbacks \o SetToSeq(dropped)
    BY DEF Cleanup
<1>2. /\ SetToSeq(dropped) \in Seq(FileEvent)
      /\ \A e : Contains(SetToSeq(dropped), e) <=> e \in dropped
    BY DroppedAreQueued
<1>3. callbacks \in Seq(FileEvent) /\ \A id \in DOMAIN streams : streams[id] \in Dir
    BY DEF Typed, MonitorTyped
<1>4. Watched' = Watched /\ Created' = Created
    BY <1>1 DEF Watched, Created
<1>5. Held' = Held /\ Held \subseteq Dir
    BY <1>1, <1>4, HeldAreDirs DEF Held, Linked
<1>6. /\ DOMAIN streams' = DOMAIN streams \ gone /\ gone \subseteq DOMAIN streams
      /\ \A id \in DOMAIN streams' : streams'[id] = streams[id]
    BY <1>1 DEF Restrict
<1>7. ASSUME NEW id \in gone PROVE Covered(streams[id])
    <2>1. ASSUME NEW j \in DOMAIN streams \ {id}, StartsWith(streams[id], streams[j])
          PROVE  Covered(streams[id])
        <3>1. StrictlyBelow(streams[id], streams[j])
            BY <2>1 DEF StrictlyBelow, Linked, OneStreamEach
        <3>2. PICK q \in Held : StartsWith(streams[j], q)
            BY StreamsAreHeld
        <3>3. streams[id] \in Path /\ streams[j] \in Path /\ q \in Path
            BY <1>3, <1>5 DEF Path
        <3>4. StrictlyBelow(streams[id], q)
            BY <3>1, <3>2, <3>3, BelowStrictly
        <3> QED BY <3>4 DEF Covered
    <2>2. CASE id \in streams_to_remove
        <3>1. \A p : ~Lives(p, id)
            BY <2>2 DEF Lives
        <3>2. \A p \in Watched : appleFileEventStreams[p] = id /\ streams[id] = p => FALSE
            BY <1>3, <3>1 DEF Linked, EntriesLive, DropsAreCovered
        <3>3. \A u \in Created : call[u].handle # id
            BY <3>1 DEF Linked, CallsAreNew, Created
        <3> QED BY <3>2, <3>3 DEF Linked, StreamsAreKnown
    <2> QED BY <2>1, <2>2 DEF Redundant, StringPrefix
<1>8. \A e : Contains(callbacks', e) <=> Contains(callbacks, e) \/ e \in dropped
    <2> HIDE DEF gone, dropped
    <2>1. \A e : Contains(callbacks \o SetToSeq(dropped), e)
                    <=> Contains(callbacks, e) \/ Contains(SetToSeq(dropped), e)
        BY <1>2, <1>3, QueueConcat
    <2> QED BY <1>1, <1>2, <2>1
<1>9. \A p : Dropped(p)' <=> Dropped(p) \/ \E id \in gone : streams[id] = p
    <2>1. \A p : [kind |-> "drop", path |-> p] \in dropped <=> \E id \in gone : streams[id] = p
        <3>1. ASSUME NEW p, NEW q, [kind |-> "drop", path |-> p] = [kind |-> "drop", path |-> q]
              PROVE  p = q
            <4>1. [kind |-> "drop", path |-> p].path = [kind |-> "drop", path |-> q].path
                BY <3>1
            <4> QED BY <4>1
        <3> HIDE DEF gone
        <3> QED BY <3>1
    <2> HIDE DEF gone, dropped
    <2> QED BY <1>8, <2>1 DEF Dropped
<1>10. streams_to_remove \cap DOMAIN streams' = {}
    BY <1>6
<1> HIDE DEF gone, dropped
<1>11. OneCall' /\ Numbered' /\ OneStreamEach'
    <2>1. OneCall'
        BY <1>1 DEF Linked, OneCall
    <2>2. Numbered'
        BY <1>1, <1>4, <1>6 DEF Linked, Numbered
    <2>3. \A i, j \in DOMAIN streams' : streams'[i] = streams'[j] => i = j
        BY <1>6 DEF Linked, OneStreamEach
    <2>4. \A p, q \in Watched' : appleFileEventStreams'[p] = appleFileEventStreams'[q] => p = q
        BY <1>1, <1>4 DEF Linked, OneStreamEach
    <2> QED BY <2>1, <2>2, <2>3, <2>4 DEF OneStreamEach
<1>12. StreamsAreKnown'
    BY <1>1, <1>4, <1>6, <1>10 DEF Linked, StreamsAreKnown
<1>13. EntriesLive'
    <2> SUFFICES ASSUME NEW p \in Watched PROVE Lives(p, appleFileEventStreams[p])' \/ Dropped(p)'
        BY <1>1, <1>4 DEF EntriesLive
    <2>1. CASE Dropped(p)
        BY <1>9, <2>1
    <2>2. CASE Lives(p, appleFileEventStreams[p])
        <3>1. CASE appleFileEventStreams[p] \in gone
            BY <1>9, <2>2, <3>1 DEF Lives
        <3>2. CASE appleFileEventStreams[p] \notin gone
            BY <1>1, <1>6, <2>2, <3>2 DEF Lives
        <3> QED BY <3>1, <3>2
    <2> QED BY <2>1, <2>2 DEF Linked, EntriesLive
<1>14. DropsAreCovered'
    <2> SUFFICES ASSUME NEW p \in Dir, Dropped(p)'
                 PROVE  Covered(p) /\ \A id \in DOMAIN streams' : streams'[id] # p
        BY <1>5 DEF DropsAreCovered, Covered
    <2>1. CASE Dropped(p)
        BY <1>6, <2>1 DEF Linked, DropsAreCovered
    <2>2. CASE \E id \in gone : streams[id] = p
        BY <1>6, <1>7, <2>2 DEF Linked, OneStreamEach
    <2> QED BY <1>9, <2>1, <2>2
<1>15. CallsAreNew'
    <2>1. ASSUME NEW u \in Created PROVE call[u].handle \notin gone
        <3> SUFFICES ASSUME call[u].handle \in gone PROVE FALSE
            OBVIOUS
        <3>1. Lives(call[u].path, call[u].handle) /\ ~Found(call[u].path)
            BY DEF Linked, CallsAreNew, Created
        <3>2. Covered(call[u].path)
            BY <1>7, <3>1 DEF Lives
        <3>3. Held = Watched \cup {call[u].path}
            BY OneCallCreates DEF Linked, Created
        <3> QED BY <3>1, <3>2, <3>3 DEF Covered, StrictlyBelow, Found
    <2>2. \A u \in Created : Lives(call[u].path, call[u].handle)'
        BY <1>1, <1>6, <2>1 DEF Linked, CallsAreNew, Created, Lives
    <2> QED BY <1>1, <1>4, <2>2 DEF Linked, CallsAreNew, Created, Found
<1> QED BY <1>1, <1>5, <1>8, <1>11, <1>12, <1>13, <1>14, <1>15 DEF Linked
-----------------------------------------------------------------------------
(* What the observer knows *)

\* What was registered with success lies at or below a path that is held.
ActiveIsHeld == active \subseteq Dir /\ \A p \in active : \E q \in Held : StartsWith(p, q)

Waits(file) == Contains(callbacks, [kind |-> "file", path |-> file])

\* Of a file that is due an event waits, or else the one under way, or else the last one
\* told, says what is there.
DueIsKnown ==
    \A f \in due :
        /\ f \in File /\ IsDue(f)
        /\ \/ Waits(f)
           \/ task.step # "resting" /\ task.path = f /\ task.seen = fs[f]
           \/ (task.step = "resting" \/ task.path # f) /\ believed[f] = fs[f]

DiskTyped == DOMAIN fs = File /\ DOMAIN believed = File

Told == Undisturbed /\ Linked /\ ActiveIsHeld /\ DueIsKnown /\ DiskTyped

\* The shortest path that is held above a file has a stream: nothing covers it.
LEMMA StreamIsAbove ==
    ASSUME Typed, Linked, ActiveIsHeld, NEW f \in File, IsDue(f)
    PROVE  Stream(f)
<1> DEFINE S == {q \in Held : StartsWith(f, q)}
<1>1. Held \subseteq Dir /\ Held \subseteq Path /\ f \in Path /\ Dir \subseteq Path
    BY HeldAreDirs DEF Linked, Path
<1>2. S # {}
    <2>1. PICK p \in active : StartsWith(f, p)
        BY DEF IsDue
    <2>2. PICK q \in Held : StartsWith(p, q)
        BY DEF ActiveIsHeld
    <2>3. StartsWith(f, q)
        BY <1>1, <2>1, <2>2, AboveIsOrder DEF ActiveIsHeld
    <2> QED BY <2>3
<1>3. PICK m \in S : \A q \in S : Len(m) <= Len(q)
    <2>1. S \subseteq Path
        BY <1>1
    <2> HIDE DEF S
    <2> QED BY <1>2, <2>1, ShortestPath
<1>4. ~Covered(m)
    <2> SUFFICES ASSUME NEW q \in Held, StrictlyBelow(m, q) PROVE FALSE
        BY DEF Covered
    <2>1. m \in Path /\ q \in Path
        BY <1>1
    <2>2. Len(m) > Len(q) /\ Len(m) \in Nat /\ Len(q) \in Nat
        BY <2>1, AboveIsOrder, WatcherAssumption DEF Path
    <2>3. StartsWith(f, q)
        BY <1>1, <2>1, AboveIsOrder DEF StrictlyBelow
    <2> QED BY <1>3, <2>2, <2>3
<1>5. CASE m \in Watched
    <2>1. Lives(m, appleFileEventStreams[m])
        BY <1>1, <1>4, <1>5 DEF Linked, EntriesLive, DropsAreCovered
    <2> QED BY <2>1 DEF Lives, Stream
<1>6. ASSUME NEW u \in Created, m = call[u].path PROVE Stream(f)
    BY <1>6 DEF Linked, CallsAreNew, Created, Lives, Stream
<1> QED BY <1>5, <1>6 DEF Held

\* Where paths are held they still cover what is active.
LEMMA ActiveStays ==
    ASSUME Typed, Linked, ActiveIsHeld, HeldStays, Held' \subseteq Dir, UNCHANGED active
    PROVE  ActiveIsHeld'
<1>1. ASSUME NEW p \in active PROVE \E r \in Held' : StartsWith(p, r)
    <2>1. PICK q \in Held : StartsWith(p, q)
        BY DEF ActiveIsHeld
    <2>2. PICK r \in Held' : StartsWith(q, r)
        BY DEF HeldStays
    <2>3. p \in Path /\ q \in Path /\ r \in Path
        BY HeldAreDirs DEF ActiveIsHeld, Linked, Path
    <2> QED BY <2>1, <2>2, <2>3, AboveIsOrder
<1> QED BY <1>1 DEF ActiveIsHeld

LEMMA DueStays ==
    ASSUME DueIsKnown, UNCHANGED <<task, fs, believed>>, active \subseteq active', due' \subseteq due,
           \A e : Contains(callbacks, e) => Contains(callbacks', e),
           \A f \in due' : Registry!Accepts(registered', f)
    PROVE  DueIsKnown'
<1> SUFFICES ASSUME NEW f \in due' PROVE
        /\ f \in File /\ (\E p \in active' : StartsWith(f, p))
        /\ \/ Waits(f)'
           \/ task.step # "resting" /\ task.path = f /\ task.seen = fs[f]
           \/ (task.step = "resting" \/ task.path # f) /\ believed[f] = fs[f]
    BY DEF DueIsKnown, IsDue
<1>1. f \in due
    OBVIOUS
<1>2. Waits(f) => Waits(f)'
    BY DEF Waits
<1> QED BY <1>1, <1>2 DEF DueIsKnown, IsDue

\* register grows the registry, until removeRedundantStreams.
LEMMA RegistryGrows ==
    ASSUME Typed, NEW u \in User,
           AddDirectory(u) \/ \E path \in Dir, depth \in Depth : Register(u, path, depth)
    PROVE  \A f \in File : Registry!Accepts(registered, f) => Registry!Accepts(registered', f)
<1>1. \/ UNCHANGED registered
      \/ \E path \in Dir, depth \in Depth :
            /\ Registry!Extends(registered, path, depth)
            /\ registered' = Registry!Put(registered, path, depth)
    <2>1. CASE AddDirectory(u)
        <3>1. call[u].path \in Dir /\ call[u].depth \in Depth
            BY <2>1 DEF AddDirectory, Typed, CallTyped
        <3> QED BY <2>1, <3>1 DEF AddDirectory
    <2>2. CASE \E path \in Dir, depth \in Depth : Register(u, path, depth)
        BY <2>2 DEF Register
    <2> QED BY <2>1, <2>2
<1> QED BY <1>1, PutGrows DEF Typed

LEMMA CallTells ==
    ASSUME Typed, Told, SameStart = {}, Running, NEW u \in User,
           \/ Find(u) \/ AddDirectory(u) \/ CreateAppleStream(u) \/ CreateThrows(u)
           \/ RemoveRedundantStreams(u) \/ PutStream(u)
    PROVE  Told'
<1>0. Linked /\ ActiveIsHeld /\ DueIsKnown /\ DiskTyped /\ ~stopped /\ unregistering = Idle
    BY DEF Told, Undisturbed
<1>1. Held \subseteq Dir /\ Held \subseteq Path
    BY <1>0, HeldAreDirs DEF Linked, Path
<1>2. \A f \in due : f \in File /\ Registry!Accepts(registered, f)
    BY <1>0 DEF DueIsKnown, IsDue
<1>3. CASE Find(u)
    <2>1. /\ UNCHANGED <<task, fs, believed, active, due, registered, callbacks, stopped, unregistering>>
        BY <1>3 DEF Find, monitor, watcher
    <2>2. Linked' /\ Held' = Held
        BY <1>0, <1>3, FindLinks
    <2>3. DueIsKnown'
        BY <1>0, <1>2, <2>1, DueStays
    <2> QED BY <1>0, <2>1, <2>2, <2>3 DEF Told, Undisturbed, ActiveIsHeld, DiskTyped
<1>4. CASE AddDirectory(u)
    <2>1. /\ UNCHANGED <<task, fs, believed, due, callbacks, stopped, unregistering>>
          /\ active' = IF call[u].step = "add_found" THEN active \cup {call[u].path} ELSE active
          /\ call[u].step # "idle"
        BY <1>4 DEF AddDirectory, Returns, monitor
    <2>2. Linked' /\ Held' = Held
        BY <1>0, <1>4, AddDirectoryLinks
    <2>3. DueIsKnown'
        BY <1>0, <1>2, <1>4, <2>1, RegistryGrows, DueStays
    <2>4. call[u].step = "add_found" =>
            call[u].path \in Dir /\ \E q \in Held : StartsWith(call[u].path, q)
        BY <1>0, HeldAreDirs DEF Linked, CallsAreNew, Found, Held
    <2>5. ActiveIsHeld'
        BY <1>0, <2>1, <2>2, <2>4 DEF ActiveIsHeld
    <2> QED BY <1>0, <2>1, <2>2, <2>3, <2>5 DEF Told, Undisturbed, DiskTyped
<1>5. CASE CreateAppleStream(u)
    <2>1. /\ UNCHANGED <<task, fs, believed, active, due, registered, callbacks, unregistering>>
        BY <1>5 DEF CreateAppleStream, CreateStream, Returns, watcher
    <2>2. Linked' /\ Held \subseteq Held' /\ ~stopped'
        BY <1>0, <1>5, CreateLinks
    <2>3. DueIsKnown'
        BY <1>0, <1>2, <2>1, DueStays
    <2>4. ActiveIsHeld'
        BY <1>0, <2>1, <2>2 DEF ActiveIsHeld
    <2> QED BY <1>0, <2>1, <2>2, <2>3, <2>4 DEF Told, Undisturbed, DiskTyped
<1>6. CASE CreateThrows(u)
    BY <1>0, <1>6 DEF CreateThrows
<1>7. CASE RemoveRedundantStreams(u)
    <2>1. /\ UNCHANGED <<task, fs, believed, active, callbacks, unregistering>>
          /\ due' = StillDue(registered')
        BY <1>7 DEF RemoveRedundantStreams, StopStreams, monitor
    <2>2. Linked' /\ HeldStays /\ Held' \subseteq Held /\ ~stopped'
        BY <1>0, <1>7, RemoveRedundantLinks DEF Told
    <2>3. due' \subseteq due /\ \A f \in due' : Registry!Accepts(registered', f)
        BY <2>1 DEF StillDue
    <2>4. DueIsKnown'
        BY <1>0, <2>1, <2>3, DueStays
    <2>5. ActiveIsHeld'
        BY <1>0, <1>1, <2>1, <2>2, ActiveStays
    <2> QED BY <1>0, <2>1, <2>2, <2>4, <2>5 DEF Told, Undisturbed, DiskTyped
<1>8. CASE PutStream(u)
    <2>1. /\ UNCHANGED <<task, fs, believed, due, registered, callbacks, stopped, unregistering>>
          /\ active' = active \cup {call[u].path} /\ call[u].step = "put"
        BY <1>8 DEF PutStream, Returns, monitor
    <2>2. Linked' /\ Held' = Held
        BY <1>0, <1>8, PutStreamLinks
    <2>3. DueIsKnown'
        BY <1>0, <1>2, <2>1, DueStays
    <2>4. call[u].path \in Held
        BY <2>1 DEF Held, Created
    <2>5. ActiveIsHeld'
        BY <1>0, <1>1, <2>1, <2>2, <2>4, AboveIsOrder DEF ActiveIsHeld
    <2> QED BY <1>0, <2>1, <2>2, <2>3, <2>5 DEF Told, Undisturbed, DiskTyped
<1> QED BY <1>3, <1>4, <1>5, <1>6, <1>7, <1>8

LEMMA RegisterTells ==
    ASSUME Typed, Told, NEW u \in User, NEW path \in Dir, NEW depth \in Depth,
           Register(u, path, depth), \A v \in User : call[v] = Idle
    PROVE  Told'
<1>0. Linked /\ ActiveIsHeld /\ DueIsKnown /\ DiskTyped /\ ~stopped /\ unregistering = Idle
    BY DEF Told, Undisturbed
<1>1. \A f \in due : f \in File /\ Registry!Accepts(registered', f)
    BY <1>0, RegistryGrows DEF DueIsKnown, IsDue
<1>2. UNCHANGED <<task, fs, believed, active, due, callbacks, stopped, unregistering>>
    BY DEF Register, monitor
<1>3. Linked' /\ Held' = Held
    BY <1>0, RegisterLinks
<1>4. DueIsKnown'
    BY <1>0, <1>1, <1>2, DueStays
<1> QED BY <1>0, <1>2, <1>3, <1>4 DEF Told, Undisturbed, ActiveIsHeld, DiskTyped

\* An event is taken from the queue, and what the thread sees then is what is there.
LEMMA NextCallbackTells ==
    ASSUME Typed, Told, Running, NextCallback
    PROVE  Told'
<1> DEFINE next == Head(callbacks)
           looked == [step |-> "looked", path |-> next.path, seen |-> fs[next.path]]
<1>0. Linked /\ ActiveIsHeld /\ DueIsKnown /\ DiskTyped /\ ~stopped /\ unregistering = Idle
    BY DEF Told, Undisturbed
<1>1. /\ task = Resting /\ callbacks # <<>> /\ callbacks' = Tail(callbacks)
      /\ task' = IF next.kind = "drop" THEN Resting ELSE looked
      /\ UNCHANGED <<fs, believed, active, due, registered, stopped, unregistering>>
    BY DEF NextCallback, calls, Running
<1>2. next \in FileEvent /\ callbacks \in Seq(FileEvent)
    BY <1>1 DEF Typed, MonitorTyped
<1>3. \A e : Contains(callbacks, e) <=> e = next \/ Contains(callbacks', e)
    BY <1>1, <1>2, QueueTail
<1>4. Linked' /\ HeldStays /\ Held' \subseteq Held
    BY <1>0, NextCallbackLinks
<1>5. ActiveIsHeld'
    BY <1>0, <1>1, <1>4, HeldAreDirs, ActiveStays DEF Linked
<1>6. Resting.step = "resting"
    BY DEF Resting
<1>7. DueIsKnown'
    <2> SUFFICES ASSUME NEW f \in due
                 PROVE  \/ Waits(f)'
                        \/ task'.step # "resting" /\ task'.path = f /\ task'.seen = fs[f]
                        \/ (task'.step = "resting" \/ task'.path # f) /\ believed[f] = fs[f]
        BY <1>0, <1>1 DEF DueIsKnown, IsDue
    <2>1. CASE [kind |-> "file", path |-> f] = next
        <3>1. next.kind = "file" /\ next.path = f
            BY <2>1
        <3>2. task' = [step |-> "looked", path |-> f, seen |-> fs[f]]
            BY <1>1, <3>1
        <3> QED BY <3>2
    <2>2. CASE [kind |-> "file", path |-> f] # next
        <3>1. Waits(f) => Waits(f)'
            BY <1>3, <2>2 DEF Waits
        <3>2. CASE Waits(f)
            BY <3>1, <3>2
        <3>3. CASE believed[f] = fs[f] /\ task'.step = "resting"
            BY <3>3
        <3>4. CASE believed[f] = fs[f] /\ task'.step # "resting"
            <4>1. /\ next.kind = "file" /\ task'.path = next.path
                  /\ next = [kind |-> "file", path |-> next.path]
                BY <1>1, <1>2, <1>6, <3>4 DEF FileEvent
            <4> HIDE DEF next
            <4>2. task'.path # f
                BY <2>2, <4>1
            <4> QED BY <3>4, <4>2
        <3>5. task.step = "resting"
            BY <1>1, <1>6
        <3> QED BY <1>0, <3>2, <3>3, <3>4, <3>5 DEF DueIsKnown
    <2> QED BY <2>1, <2>2
<1> QED BY <1>0, <1>1, <1>4, <1>5, <1>7 DEF Told, Undisturbed, DiskTyped

\* What is due is accepted, and told.
LEMMA CallbackTells ==
    ASSUME Typed, Told, Accept \/ Tell
    PROVE  Told'
<1>0. Linked /\ ActiveIsHeld /\ DueIsKnown /\ DiskTyped /\ ~stopped /\ unregistering = Idle
    BY DEF Told, Undisturbed
<1>1. UNCHANGED <<streams, current_id, streams_to_remove, callbacks, appleFileEventStreams, call, fs,
                  active, due, registered, stopped, unregistering>>
    BY DEF Accept, Tell, monitor, watcher, calls
<1>2. Linked' /\ Held' = Held
    BY <1>0, <1>1, OthersKeepLinks DEF Dropped
<1>3. ActiveIsHeld'
    BY <1>0, <1>1, <1>2 DEF ActiveIsHeld
<1>4. task = [step |-> task.step, path |-> task.path, seen |-> task.seen]
    BY DEF Typed, TaskTyped
<1>5. Resting.step = "resting"
    BY DEF Resting
<1>6. CASE Accept
    <2>1. task.step = "looked" /\ UNCHANGED believed
        BY <1>6 DEF Accept
    <2>2. \/ Accepted(task.path) /\ task' = [step |-> "accepted", path |-> task.path, seen |-> task.seen]
          \/ ~Accepted(task.path) /\ task' = Resting
        BY <1>4, <1>6 DEF Accept
    <2>3. \A f \in due : Accepted(f)
        BY <1>0 DEF DueIsKnown, IsDue, Accepted
    <2>4. DueIsKnown'
        <3> SUFFICES ASSUME NEW f \in due
                     PROVE  \/ Waits(f)
                            \/ task'.step # "resting" /\ task'.path = f /\ task'.seen = fs[f]
                            \/ (task'.step = "resting" \/ task'.path # f) /\ believed[f] = fs[f]
            BY <1>0, <1>1, <2>1 DEF DueIsKnown, IsDue, Waits
        <3>1. CASE task.path = f
            <4>1. task'.step = "accepted" /\ task'.path = f /\ task'.seen = task.seen
                BY <2>2, <2>3, <3>1
            <4> QED BY <1>0, <2>1, <3>1, <4>1 DEF DueIsKnown
        <3>2. CASE task.path # f
            BY <1>0, <1>5, <2>2, <3>2 DEF DueIsKnown
        <3> QED BY <3>1, <3>2
    <2> QED BY <1>0, <1>1, <1>2, <1>3, <2>1, <2>4 DEF Told, Undisturbed, DiskTyped
<1>7. CASE Tell
    <2>1. /\ task.step = "accepted" /\ task' = Resting
          /\ believed' = [believed EXCEPT ![task.path] = task.seen]
        BY <1>7 DEF Tell
    <2>2. task.path \in File /\ DOMAIN believed = File
        BY <1>0, <2>1 DEF Typed, TaskTyped, DiskTyped
    <2>3. \A f \in File : believed'[f] = IF f = task.path THEN task.seen ELSE believed[f]
        BY <2>1, <2>2
    <2>4. DueIsKnown'
        BY <1>0, <1>1, <1>5, <2>1, <2>3 DEF DueIsKnown, IsDue, Waits
    <2>5. DiskTyped'
        BY <1>0, <1>1, <2>1 DEF DiskTyped
    <2> QED BY <1>0, <1>1, <1>2, <1>3, <2>4, <2>5 DEF Told, Undisturbed
<1> QED BY <1>6, <1>7

\* A file that changes below a path that is active is below a stream.
LEMMA ChangeTells ==
    ASSUME Typed, Told, NEW path \in File, Change(path)
    PROVE  Told'
<1>0. Linked /\ ActiveIsHeld /\ DueIsKnown /\ DiskTyped /\ ~stopped /\ unregistering = Idle
    BY DEF Told, Undisturbed
<1>1. /\ UNCHANGED <<task, believed, active, registered, unregistering>>
      /\ due' = IF IsDue(path) THEN due \cup {path} ELSE due
    BY DEF Change, watcher, calls
<1>2. DOMAIN fs' = File /\ \A f \in File \ {path} : fs'[f] = fs[f]
    BY <1>0 DEF Change, DiskTyped
<1>3. /\ Linked' /\ Held' = Held /\ ~stopped'
      /\ \A e : Contains(callbacks, e) => Contains(callbacks', e)
      /\ Stream(path) => Waits(path)'
    BY <1>0, ChangeLinks DEF Told, Waits
<1>4. IsDue(path) => Waits(path)'
    BY <1>0, <1>3, StreamIsAbove
<1>5. \A f : Waits(f) => Waits(f)'
    BY <1>3 DEF Waits
<1>6. \A f \in due : f \in File /\ IsDue(f)
    BY <1>0 DEF DueIsKnown
<1>7. DueIsKnown'
    <2> SUFFICES ASSUME NEW f \in due'
                 PROVE  /\ f \in File /\ IsDue(f)
                        /\ \/ Waits(f)'
                           \/ task.step # "resting" /\ task.path = f /\ task.seen = fs'[f]
                           \/ (task.step = "resting" \/ task.path # f) /\ believed[f] = fs'[f]
        BY <1>1 DEF DueIsKnown, IsDue
    <2>1. CASE f = path
        BY <1>1, <1>4, <1>6, <2>1
    <2>2. CASE f # path
        BY <1>0, <1>1, <1>2, <1>5, <2>2 DEF DueIsKnown
    <2> QED BY <2>1, <2>2
<1>8. ActiveIsHeld'
    BY <1>0, <1>1, <1>3 DEF ActiveIsHeld
<1> QED BY <1>0, <1>1, <1>2, <1>3, <1>7, <1>8 DEF Told, Undisturbed, DiskTyped

LEMMA RunLoopTells ==
    ASSUME Typed, Told, SameStart = {}, RunLoop
    PROVE  Told'
<1>0. Linked /\ ActiveIsHeld /\ DueIsKnown /\ DiskTyped /\ ~stopped /\ unregistering = Idle
    BY DEF Told, Undisturbed
<1>1. UNCHANGED <<task, believed, fs, active, due, registered, unregistering,
                  appleFileEventStreams, call>>
    BY DEF RunLoop, watcher, calls
<1>2. Cleanup
    BY <1>0 DEF RunLoop, CleanupRunLoop
<1>3. /\ Linked' /\ Held' = Held /\ ~stopped'
      /\ \A e : Contains(callbacks, e) => Contains(callbacks', e)
    BY <1>0, <1>1, <1>2, CleanupLinks
<1>4. \A f \in due : Registry!Accepts(registered, f)
    BY <1>0 DEF DueIsKnown, IsDue
<1>5. DueIsKnown'
    BY <1>0, <1>1, <1>3, <1>4, DueStays
<1> QED BY <1>0, <1>1, <1>3, <1>5 DEF Told, Undisturbed, ActiveIsHeld, DiskTyped
-----------------------------------------------------------------------------
\* What is left of the calls of unregister.
BudgetTyped ==
    /\ budget = [register |-> budget.register, unregister |-> budget.unregister, changes |-> budget.changes]
    /\ budget.unregister \in Int /\ budget.unregister <= MaxUnregister

\* Only a step of unregister spends the budget of it, and it ends what is Running.
LEMMA BudgetKept ==
    ASSUME BudgetTyped, [Next]_vars
    PROVE  /\ BudgetTyped'
           /\ Running' => Running /\ \A p \in Dir : ~Unregister(p)
<1>1. MaxUnregister \in Nat
    BY WatcherAssumption
<1>2. CASE UNCHANGED <<budget, closing>>
    <2>1. \A p \in Dir : ~Unregister(p)
        BY <1>2 DEF BudgetTyped, Unregister
    <2> QED BY <1>2, <2>1 DEF BudgetTyped, Running, NothingUnregistered, closed
<1>3. CASE \E p \in Dir : Unregister(p)
    BY <1>1, <1>3 DEF BudgetTyped, Unregister, Running, NothingUnregistered
<1>4. CASE \/ \E u \in User, p \in Dir, d \in Depth : Register(u, p, d)
           \/ \E f \in File : Change(f)
    <2>1. budget' = [budget EXCEPT !.register = @ - 1] \/ budget' = [budget EXCEPT !.changes = @ - 1]
        BY <1>4 DEF Register, Change
    <2>2. BudgetTyped' /\ budget'.unregister = budget.unregister
        BY <2>1 DEF BudgetTyped
    <2>3. \A p \in Dir : ~Unregister(p)
        BY <2>2 DEF BudgetTyped, Unregister
    <2>4. UNCHANGED closing
        BY <1>4 DEF Register, Change, calls
    <2> QED BY <2>2, <2>3, <2>4 DEF Running, NothingUnregistered, closed
<1>5. CASE BeginClose \/ ClearStreams \/ StopMonitor
    <2>1. closed' /\ UNCHANGED budget
        BY <1>5 DEF BeginClose, ClearStreams, StopMonitor, closed
    <2> QED BY <2>1 DEF BudgetTyped, Running
<1>6. CASE Callback \/ RunLoop \/ RemoveStream \/ StopStream
    <2>1. UNCHANGED <<budget, closing>>
        BY <1>6 DEF Callback, NextCallback, Accept, Tell, RunLoop, RemoveStream, StopStream, calls
    <2> QED BY <1>2, <2>1
<1>7. CASE \E u \in User : \/ Find(u) \/ AddDirectory(u) \/ CreateAppleStream(u) \/ CreateThrows(u)
                           \/ RemoveRedundantStreams(u) \/ PutStream(u)
    <2>1. UNCHANGED <<budget, closing>>
        BY <1>7 DEF Find, AddDirectory, CreateAppleStream, CreateThrows, RemoveRedundantStreams, PutStream
    <2> QED BY <1>2, <2>1
<1>8. CASE UNCHANGED vars
    BY <1>2, <1>8 DEF vars, calls
<1> QED BY <1>3, <1>4, <1>5, <1>6, <1>7, <1>8 DEF Next

ToldInv == BudgetTyped /\ (Running => Told)

LEMMA ToldInit == Init => ToldInv
<1> SUFFICES ASSUME Init PROVE ToldInv
    OBVIOUS
<1>1. /\ streams = NoStreams /\ callbacks = <<>> /\ current_id = 0 /\ streams_to_remove = {} /\ ~stopped
      /\ call = [u \in User |-> Idle] /\ unregistering = Idle /\ appleFileEventStreams = NoStreams
      /\ active = {} /\ due = {}
    BY DEF Init, MonitorInit
<1>2. \A u \in User : call[u].step = "idle"
    BY <1>1 DEF Idle, Called
<1>3. DOMAIN streams = {} /\ Watched = {} /\ Created = {}
    BY <1>1, <1>2 DEF NoStreams, Watched, Created
<1>4. \A e : ~Contains(callbacks, e)
    BY <1>1 DEF Contains
<1>5. OneCall /\ Numbered /\ OneStreamEach /\ StreamsAreKnown /\ EntriesLive
    BY <1>1, <1>2, <1>3 DEF OneCall, Numbered, OneStreamEach, StreamsAreKnown, EntriesLive
<1>6. DropsAreCovered /\ CallsAreNew
    BY <1>2, <1>4 DEF DropsAreCovered, Dropped, CallsAreNew
<1>7. ActiveIsHeld /\ DueIsKnown
    BY <1>1 DEF ActiveIsHeld, DueIsKnown
<1>8. DiskTyped /\ BudgetTyped
    BY WatcherAssumption DEF Init, DiskTyped, BudgetTyped
<1> QED BY <1>1, <1>5, <1>6, <1>7, <1>8 DEF ToldInv, Told, Undisturbed, Linked

\* While calls of register come one by one, and nothing is unregistered or closed, every
\* step keeps what is linked and known.
LEMMA ToldInductive ==
    ASSUME SameStart = {}, Typed, ToldInv, [Next]_vars, [OneByOne]_vars
    PROVE  ToldInv'
<1>1. BudgetTyped' /\ (Running' => Running /\ \A p \in Dir : ~Unregister(p))
    BY BudgetKept DEF ToldInv
<1> SUFFICES ASSUME Running, Told, \A p \in Dir : ~Unregister(p), Running' PROVE Told'
    BY <1>1 DEF ToldInv
<1>2. CASE UNCHANGED vars
    <2>1. /\ UNCHANGED <<streams, current_id, streams_to_remove, appleFileEventStreams, call, callbacks>>
          /\ UNCHANGED <<stopped, unregistering, active, due, task, fs, believed, registered>>
        BY <1>2 DEF vars, monitor, watcher, calls
    <2>2. Linked' /\ Held' = Held
        BY <2>1, OthersKeepLinks DEF Told, Dropped
    <2>3. DueIsKnown'
        BY <2>1 DEF Told, DueIsKnown, IsDue, Waits
    <2> QED BY <2>1, <2>2, <2>3 DEF Told, Undisturbed, ActiveIsHeld, DiskTyped
<1>3. CASE OneByOne /\ \E u \in User, p \in Dir, d \in Depth : Register(u, p, d)
    <2>1. PICK u \in User, p \in Dir, d \in Depth : Register(u, p, d)
        BY <1>3
    <2>2. \A v \in User : call[v] = Idle
        BY <1>3, <2>1 DEF OneByOne
    <2> QED BY <2>1, <2>2, RegisterTells
<1>4. CASE \E u \in User : \/ Find(u) \/ AddDirectory(u) \/ CreateAppleStream(u) \/ CreateThrows(u)
                           \/ RemoveRedundantStreams(u) \/ PutStream(u)
    BY <1>4, CallTells
<1>5. CASE RemoveStream \/ StopStream
    <2>1. Idle.step = "idle" /\ unregistering = Idle
        BY DEF Idle, Called, Told, Undisturbed
    <2> QED BY <1>5, <2>1 DEF RemoveStream, StopStream
<1>6. CASE BeginClose \/ ClearStreams \/ StopMonitor
    BY <1>6 DEF BeginClose, ClearStreams, StopMonitor, Running, closed
<1>7. CASE Callback
    BY <1>7, NextCallbackTells, CallbackTells DEF Callback
<1>8. CASE \E f \in File : Change(f)
    BY <1>8, ChangeTells
<1>9. CASE RunLoop
    BY <1>9, RunLoopTells
<1> QED BY <1>2, <1>3, <1>4, <1>5, <1>6, <1>7, <1>8, <1>9 DEF Next

LEMMA AlwaysTold ==
    ASSUME SameStart = {}
    PROVE  Spec /\ [][OneByOne]_vars => [](Typed /\ ToldInv)
<1>1. SilentInv => Typed
    BY DEF SilentInv
<1> QED BY <1>1, SilentInit, SilentInductive, ToldInit, ToldInductive, PTL DEF Spec

\* Where calls of register come one by one and nothing is unregistered or closed, the
\* last event of each file that is due says what is there: no change falls between two
\* streams while one takes the place of another, in whatever order the callback thread,
\* the run loop and register take their steps (register, removeRedundantStreams and the
\* callbacks of ApplePathWatcher; cleanupFunc).
THEOREM LastEventStaysTrue ==
    ASSUME SameStart = {}
    PROVE  Spec /\ [][OneByOne]_vars => []LastEventIsTrue
<1>1. Typed /\ ToldInv => LastEventIsTrue
    <2> SUFFICES ASSUME Typed, Told, NEW f \in due, ~IsPending(f) PROVE believed[f] = fs[f]
        BY DEF ToldInv, Running, LastEventIsTrue, BelievedIsTrue
    <2>1. ~Waits(f)
        <3>1. ASSUME NEW i \in 1..Len(callbacks), callbacks[i] = [kind |-> "file", path |-> f]
              PROVE  FALSE
            <4>1. callbacks[i].kind = "file" /\ callbacks[i].path = f
                BY <3>1
            <4>2. i \in DOMAIN callbacks
                BY DEF Typed, MonitorTyped
            <4> QED BY <4>1, <4>2 DEF IsPending
        <3> QED BY <3>1 DEF Waits, Contains
    <2>2. task.step = "resting" \/ task.path # f
        BY DEF IsPending, Resting
    <2> QED BY <2>1, <2>2 DEF Told, DueIsKnown
<1> QED BY <1>1, AlwaysTold, PTL

\* Under the same hypotheses streams and entries agree once nothing is under way: each
\* stream has the entry that stops it, and each entry its stream (appleFileEventStreams
\* against stream_handles of the run loop).
THEOREM StreamsStayMatched ==
    ASSUME SameStart = {}
    PROVE  Spec /\ [][OneByOne]_vars => []StreamsMatch
<1>1. Typed /\ ToldInv => StreamsMatch
    <2> SUFFICES ASSUME Linked, Quiescent PROVE Handles(Watched) = DOMAIN streams
        BY DEF ToldInv, Running, Told, StreamsMatch, Quiescent
    <2>1. Created = {} /\ streams_to_remove = {}
        BY DEF Created, Quiescent, Idle, Called
    <2>2. \A p : ~Dropped(p)
        BY DEF Quiescent, Dropped, Contains
    <2>3. \A p \in Watched : appleFileEventStreams[p] \in DOMAIN streams
        BY <2>2 DEF Linked, EntriesLive, Lives
    <2>4. \A id \in DOMAIN streams : streams[id] \in Watched /\ appleFileEventStreams[streams[id]] = id
        BY <2>1 DEF Linked, StreamsAreKnown
    <2> QED BY <2>3, <2>4 DEF Handles
<1> QED BY <1>1, AlwaysTold, PTL

\* What a run checks: one thread that registers, whatever it registers and however often.
THEOREM OneUserIsTold ==
    ASSUME SameStart = {}, \A u, v \in User : u = v
    PROVE  Spec => [](LastEventIsTrue /\ StreamsMatch)
<1>1. OneByOne
    <2> SUFFICES ASSUME NEW u \in User, NEW p \in Dir, NEW d \in Depth, Register(u, p, d)
                 PROVE  \A v \in User : call[v] = Idle
        BY DEF OneByOne
    <2>1. call[u] = Idle
        BY DEF Register
    <2> QED BY <2>1
<1> QED BY <1>1, LastEventStaysTrue, StreamsStayMatched, PTL

\* In a repository it holds for any number of threads: each holds the lock of the tree
\* while it registers (FileCacheDirectoryTree.register).
THEOREM RepositoryIsTold ==
    ASSUME SameStart = {}
    PROVE  Spec /\ managed => [](LastEventIsTrue /\ StreamsMatch)
<1>1. managed /\ [Next]_vars => managed'
    BY DEF Next, vars, watcher, calls, Register, Find, AddDirectory, CreateAppleStream, CreateThrows,
           RemoveRedundantStreams, PutStream, Unregister, RemoveStream, StopStream, BeginClose,
           ClearStreams, StopMonitor, Callback, NextCallback, Accept, Tell, Change, RunLoop
<1>2. managed => OneByOne
    BY DEF OneByOne, Register
<1> QED BY <1>1, <1>2, LastEventStaysTrue, StreamsStayMatched, PTL DEF Spec
=============================================================================
