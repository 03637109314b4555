---------------------------- MODULE ApplePathWatcher ----------------------------
(***************************************************************************)
(* ApplePathWatcher.java: the path watcher of Mac OS, on top of the        *)
(* streams of FileEventMonitor.  A path below a watched one needs no       *)
(* stream; a path above some takes their place.  register and unregister   *)
(* hold no lock from one of their steps to the next.                       *)
(*                                                                         *)
(* The registry is the watcher's own, or that of a repository, which adds  *)
(* and removes paths itself and hands out a view that does neither         *)
(* (FileCacheDirectoryTree.readOnlyDirectoryRegistry).                     *)
(*                                                                         *)
(* Kinds of events are left out: they are best effort (PathWatcher.java),  *)
(* and depend on flags that the system merges.  What an event says is what *)
(* was there when the watcher looked.                                      *)
(***************************************************************************)
EXTENDS FileEventMonitor

CONSTANTS
    Dir,           \* the directories that are registered
    File,          \* the files that change
    Content,       \* what they may hold
    Depth,         \* the maxDepth arguments of register
    MaxInt,        \* Integer.MAX_VALUE
    User,          \* threads that call register
    MaxRegister,   \* bound on the calls of register
    MaxUnregister, \* bound on the calls of unregister
    MaxChanges     \* bound on the changes of the file system

\* A path has fewer names than an int can count, and -1, "the path alone", is the
\* least depth that a caller passes.
ASSUME WatcherAssumption ==
    /\ MaxInt \in Nat \ {0} /\ Depth \subseteq -1..MaxInt
    /\ \A p \in Dir \cup File : p \in Seq(STRING) /\ Len(p) <= MaxInt
    /\ {MaxRegister, MaxUnregister, MaxChanges} \subseteq Nat

VARIABLES
    managed,      \* the registry is a repository's
    registered,   \* the registry
    appleFileEventStreams, \* path -> handle
    call,         \* per user: how far register is
    unregistering,\* how far unregister is
    closing,      \* how far close has come
    task,         \* what the callback thread does
    fs,           \* file -> "none" or its content
    believed,     \* file -> what the observer was told last, or "unknown"
    active,       \* paths whose register returned a success
    due,          \* files that changed below such a path, accepted ever since
    surplus,      \* events that were told though not accepted, since the last call of
                  \* register, unregister or close
    budget        \* calls and changes left

watcher == <<managed, registered, appleFileEventStreams>>
calls == <<call, unregistering, closing>>
vars == <<monitor, watcher, calls, task, fs, believed, active, due, surplus, budget>>

Path == Dir \cup File
Registry == INSTANCE DirectoryRegistry

Called(step, path, depth, handle) ==
    [step |-> step, path |-> path, depth |-> depth, handle |-> handle]
Idle == Called("idle", <<>>, 0, Invalid)
Resting == [step |-> "resting", path |-> <<>>, seen |-> "none"]
closed == closing # "no"
Watched == DOMAIN appleFileEventStreams
Handles(paths) == {appleFileEventStreams[p] : p \in paths \cap Watched}
WithoutStreams(paths) == Restrict(appleFileEventStreams, Watched \ paths)
StillDue(reg) == {p \in due : Registry!Accepts(reg, p)}
-----------------------------------------------------------------------------
(* register *)

\* A repository adds the path before it calls, calls only for what is new, and holds
\* the lock of its tree.
Register(u, path, depth) ==
    /\ call[u] = Idle /\ budget.register > 0
    /\ managed => /\ Registry!Extends(registered, path, depth)
                  /\ \A v \in User : call[v] = Idle
    /\ budget' = [budget EXCEPT !.register = @ - 1]
    /\ call' = [call EXCEPT ![u] = Called("find", path, depth, Invalid)]
    /\ registered' = IF managed THEN Registry!Put(registered, path, depth) ELSE registered
    /\ surplus' = 0
    /\ UNCHANGED <<monitor, managed, appleFileEventStreams, unregistering, closing, task, fs,
                   believed, active, due>>

\* A path that is watched already, or lies below one.
Found(path) == \E p \in Watched : StartsWith(path, p)

Find(u) ==
    /\ call[u].step = "find"
    /\ call' = [call EXCEPT ![u].step = IF Found(call[u].path) THEN "add_found" ELSE "add"]
    /\ UNCHANGED <<monitor, watcher, unregistering, closing, task, fs, believed, active, due,
                   surplus, budget>>

Returns(u, success) ==
    /\ call' = [call EXCEPT ![u] = Idle]
    /\ active' = IF success THEN active \cup {call[u].path} ELSE active

\* addDirectory, which a repository's view ignores.
AddDirectory(u) ==
    LET path == call[u].path
    IN /\ call[u].step \in {"add_found", "add"}
       /\ registered' = IF ~managed /\ Registry!Extends(registered, path, call[u].depth)
                        THEN Registry!Put(registered, path, call[u].depth) ELSE registered
       /\ IF call[u].step = "add_found" THEN Returns(u, TRUE)
          ELSE call' = [call EXCEPT ![u].step = "create"] /\ UNCHANGED active
       /\ UNCHANGED <<monitor, managed, appleFileEventStreams, unregistering, closing, task, fs,
                      believed, due, surplus, budget>>

\* Mutant: the handle is not looked at.
NeverFails(handle) == FALSE

\* id == Handles.INVALID
Fails(handle) == handle = Invalid

CreateAppleStream(u) ==
    /\ call[u].step = "create"
    /\ \E handle \in DOMAIN streams \cup {current_id, Invalid} :
        /\ CreateStream(call[u].path, handle)
        /\ IF Fails(handle) THEN Returns(u, FALSE)
           ELSE /\ call' = [call EXCEPT ![u] = Called("created", @.path, @.depth, handle)]
                /\ UNCHANGED active
    /\ UNCHANGED <<watcher, unregistering, closing, task, fs, believed, due, surplus, budget>>

\* ClosedFileEventMonitorException; close has been called already.
CreateThrows(u) ==
    /\ call[u].step = "create" /\ stopped
    /\ Returns(u, FALSE)
    /\ UNCHANGED <<monitor, watcher, unregistering, closing, task, fs, believed, due, surplus, budget>>

\* Mutant: siblings as well.
OtherPaths(path) == Watched \ {path}

RedundantPaths(path) == {p \in Watched : StrictlyBelow(p, path)}

\* removeRedundantStreams, under the lock of the streams: what is watched below the
\* path is unregistered.
RemoveRedundantStreams(u) ==
    LET gone == IF closed THEN {} ELSE RedundantPaths(call[u].path)
    IN /\ call[u].step = "created"
       /\ registered' = IF managed THEN registered ELSE Restrict(registered, DOMAIN registered \ gone)
       /\ appleFileEventStreams' = WithoutStreams(gone)
       /\ IF stopped THEN UNCHANGED monitor ELSE StopStreams(Handles(gone))
       /\ due' = StillDue(registered')
       /\ call' = [call EXCEPT ![u].step = "put"]
       /\ surplus' = IF gone = {} THEN surplus ELSE 0
       /\ UNCHANGED <<managed, unregistering, closing, task, fs, believed, active, budget>>

PutStream(u) ==
    /\ call[u].step = "put"
    /\ appleFileEventStreams' = With(appleFileEventStreams, call[u].path, call[u].handle)
    /\ Returns(u, TRUE)
    /\ UNCHANGED <<monitor, managed, registered, unregistering, closing, task, fs, believed, due,
                   surplus, budget>>
-----------------------------------------------------------------------------
(* unregister and close *)

\* removeDirectory; a repository has done so before it calls.
Unregister(path) ==
    /\ unregistering = Idle /\ ~closed /\ budget.unregister > 0
    /\ budget' = [budget EXCEPT !.unregister = @ - 1]
    /\ unregistering' = Called("remove", path, 0, Invalid)
    /\ registered' = Restrict(registered, DOMAIN registered \ {path})
    /\ active' = active \ {path}
    /\ due' = StillDue(registered')
    /\ surplus' = 0
    /\ UNCHANGED <<monitor, managed, appleFileEventStreams, call, closing, task, fs, believed>>

RemoveStream ==
    LET path == unregistering.path
    IN /\ unregistering.step = "remove"
       /\ appleFileEventStreams' = WithoutStreams({path})
       /\ unregistering' = IF path \in Watched
                           THEN Called("stop", path, 0, appleFileEventStreams[path])
                           ELSE Idle
       /\ UNCHANGED <<monitor, managed, registered, call, closing, task, fs, believed, active, due,
                      surplus, budget>>

\* The exception of a closed monitor is printed.
StopStream ==
    /\ unregistering.step = "stop"
    /\ IF stopped THEN UNCHANGED monitor ELSE StopStreams({unregistering.handle})
    /\ unregistering' = Idle
    /\ UNCHANGED <<watcher, call, closing, task, fs, believed, active, due, surplus, budget>>

BeginClose ==
    /\ ~closed
    /\ closing' = "flagged"
    /\ surplus' = 0
    /\ UNCHANGED <<monitor, watcher, call, unregistering, task, fs, believed, active, due, budget>>

\* appleFileEventStreams.clear, which stops them.
ClearStreams ==
    /\ closing = "flagged"
    /\ StopStreams(Handles(Watched))
    /\ appleFileEventStreams' = NoStreams
    /\ closing' = "cleared"
    /\ UNCHANGED <<managed, registered, call, unregistering, task, fs, believed, active, due,
                   surplus, budget>>

StopMonitor ==
    /\ closing = "cleared"
    /\ CloseMonitor
    /\ closing' = "yes"
    /\ UNCHANGED <<watcher, call, unregistering, task, fs, believed, active, due, surplus, budget>>
-----------------------------------------------------------------------------
(* The callback thread *)

\* The next callback: a stream that was dropped, or a look at the path of an event.
NextCallback ==
    LET next == Head(callbacks)
    IN /\ task = Resting /\ callbacks # <<>>
       /\ callbacks' = Tail(callbacks)
       /\ appleFileEventStreams' = IF next.kind = "drop" /\ ~closed THEN WithoutStreams({next.path})
                                   ELSE appleFileEventStreams
       /\ task' = IF next.kind = "drop" \/ closed THEN Resting
                  ELSE [step |-> "looked", path |-> next.path, seen |-> fs[next.path]]
       /\ UNCHANGED <<streams, current_id, streams_to_remove, stopped, failures, managed,
                      registered, calls, fs, believed, active, due, surplus, budget>>

\* Mutant: whatever a stream reports is told.
AcceptedAlways(path) == TRUE

Accepted(path) == Registry!Accepts(registered, path)

Accept ==
    /\ task.step = "looked"
    /\ task' = IF Accepted(task.path) THEN [task EXCEPT !.step = "accepted"] ELSE Resting
    /\ UNCHANGED <<monitor, watcher, calls, fs, believed, active, due, surplus, budget>>

\* observers.onNext
Tell ==
    /\ task.step = "accepted"
    /\ believed' = [believed EXCEPT ![task.path] = task.seen]
    /\ surplus' = IF closed \/ ~Registry!Accepts(registered, task.path)
                  THEN surplus + 1 ELSE surplus
    /\ task' = Resting
    /\ UNCHANGED <<monitor, watcher, calls, fs, active, due, budget>>
-----------------------------------------------------------------------------
(* The file system, and the run loop *)

Stream(path) == \E id \in DOMAIN streams : StartsWith(path, streams[id])
IsDue(path) == (\E p \in active : StartsWith(path, p)) /\ Registry!Accepts(registered, path)

Change(path) ==
    /\ budget.changes > 0 /\ ~closed
    /\ budget' = [budget EXCEPT !.changes = @ - 1]
    /\ \E content \in Content \cup {"none"} :
        content # fs[path] /\ fs' = [fs EXCEPT ![path] = content]
    /\ IF Stream(path) THEN Report([kind |-> "file", path |-> path]) ELSE UNCHANGED monitor
    /\ due' = IF IsDue(path) THEN due \cup {path} ELSE due
    /\ UNCHANGED <<watcher, calls, task, believed, active, surplus>>

RunLoop ==
    /\ Cleanup \/ CleanupRunLoop
    /\ UNCHANGED <<watcher, calls, task, fs, believed, active, due, surplus, budget>>
-----------------------------------------------------------------------------
Init ==
    /\ MonitorInit
    /\ managed \in BOOLEAN
    /\ registered = Registry!NoDirectories
    /\ appleFileEventStreams = NoStreams
    /\ call = [u \in User |-> Idle]
    /\ unregistering = Idle
    /\ closing = "no"
    /\ task = Resting
    /\ fs = [f \in File |-> "none"]
    /\ believed = [f \in File |-> "unknown"]
    /\ active = {} /\ due = {}
    /\ surplus = 0
    /\ budget = [register |-> MaxRegister, unregister |-> MaxUnregister, changes |-> MaxChanges]

Callback == NextCallback \/ Accept \/ Tell

Next ==
    \/ \E u \in User, p \in Dir, d \in Depth : Register(u, p, d)
    \/ \E u \in User : \/ Find(u) \/ AddDirectory(u) \/ CreateAppleStream(u) \/ CreateThrows(u)
                       \/ RemoveRedundantStreams(u) \/ PutStream(u)
    \/ \E p \in Dir : Unregister(p)
    \/ RemoveStream \/ StopStream
    \/ BeginClose \/ ClearStreams \/ StopMonitor
    \/ Callback
    \/ \E f \in File : Change(f)
    \/ RunLoop

Spec == Init /\ [][Next]_vars
-----------------------------------------------------------------------------
IsPending(file) ==
    \/ task # Resting /\ task.path = file
    \/ \E i \in DOMAIN callbacks : callbacks[i].kind = "file" /\ callbacks[i].path = file

BelievedIsTrue == \A f \in due : ~IsPending(f) => believed[f] = fs[f]

NothingUnregistered == budget.unregister = MaxUnregister

\* Whatever streams come, cover one another and are taken back while files change,
\* the last event of a file that changed below a registered path says what is
\* there: no change falls between two streams, provided that a stream hands its
\* events over as they happen (the code asks for a latency, and stops a stream
\* without a flush).
LastEventIsTrue == ~closed /\ NothingUnregistered => BelievedIsTrue

\* In a repository where paths are unregistered as well it does not hold.
LastEventIsAlwaysTrue == ~closed => BelievedIsTrue

\* Nothing is under way.
Quiescent ==
    /\ \A u \in User : call[u] = Idle
    /\ unregistering = Idle /\ ~closed
    /\ callbacks = <<>> /\ task = Resting
    /\ streams_to_remove = {} /\ Redundant = {}

\* The watcher and the run loop, each of which drops streams and learns of it later
\* what the other did, agree in the end: each stream has an entry that stops it, and
\* each entry has a stream.
StreamsMatch ==
    Quiescent /\ NothingUnregistered => Handles(Watched) = DOMAIN streams

\* The same with paths that are unregistered: it does not hold.
StreamsAlwaysMatch == Quiescent => Handles(Watched) = DOMAIN streams

\* unregister and close silence the watcher at once, although the system goes on
\* reporting until its run loop has stopped the stream: one event may be under way.
SilentAfterUnregister == surplus <= 1

\* A registered path stays registered until it is unregistered.  It does not hold:
\* register of a path above unregisters it.
RegistrationsStand == active \subseteq DOMAIN registered
=============================================================================
