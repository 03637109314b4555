--------------------------- MODULE MacOSXWatchService ---------------------------
(***************************************************************************)
(* MacOSXWatchService.java: a WatchService on top of the streams of        *)
(* FileEventMonitor.  The callback thread of the monitor puts events into  *)
(* the watch keys of their path or of its parent, and keys that have some  *)
(* into readyKeys; a consumer takes keys and empties them.  One thread     *)
(* registers paths (register holds the lock of `registered`, which has one *)
(* holder anyway), and any thread closes the service.                      *)
(*                                                                         *)
(* Keys are registered for every kind of event, as NioPathWatcherService   *)
(* does; an event is the path it is about.  A key's flag `valid`, which     *)
(* cancel clears, is left out: nothing in the service reads it.            *)
(***************************************************************************)
EXTENDS FileEventMonitor

CONSTANTS
    Path,        \* the paths that change
    Dir,         \* the directories that are registered
    QueueSize,   \* the events that a key holds
    MaxRegister, \* bound on the calls of register
    MaxChanges   \* bound on the changes of the file system

ASSUME ServiceAssumption ==
    /\ QueueSize \in Nat \ {0} /\ {MaxRegister, MaxChanges} \subseteq Nat
    /\ Path \subseteq Seq(STRING) \ {<<>>}

\* That one string starts another is a partial order.
ASSUME StringAssumption ==
    /\ Dir \subseteq Seq(STRING) \ {<<>>}
    /\ \A p, q, r \in Dir : StringPrefix(p, q) /\ StringPrefix(q, r) => StringPrefix(p, r)
    /\ \A p, q \in Dir : StringPrefix(p, q) /\ StringPrefix(q, p) => p = q

VARIABLES
    keys,       \* the MacOSXWatchKeys there ever were
    registered, \* path -> its WatchKey: the handle of its stream and its keys
    readyKeys,
    task,       \* what the callback thread does
    hand,       \* the key the consumer has taken, and how far it has emptied it
    call,       \* the path that is being registered, or <<>>
    closing,    \* how far close has come
    behind,     \* reported changes near a registered path that the consumer
                \* has not been told of
    thrown,     \* addOverflow has thrown
    skipped,    \* an overflow was for a directory for which there is no key
    changes     \* changes so far

service == <<keys, registered, readyKeys, task, hand, call, closing>>
account == <<behind, thrown, skipped, changes>>
vars == <<monitor, service, account>>

Overflow == <<>>  \* the event of kind OVERFLOW
Idle == [kind |-> "none", path |-> <<>>, left |-> {}, step |-> 1, key |-> 0]
NoHand == [key |-> 0, counted |-> FALSE, overflow |-> 0]
NoPaths == [p \in {} |-> Overflow]
open == closing = "no"
-----------------------------------------------------------------------------
(* register *)

\* The first check; then the lock is awaited.
Register(path) ==
    /\ open /\ call = <<>> /\ Len(keys) < MaxRegister
    /\ call' = path
    /\ UNCHANGED <<monitor, keys, registered, readyKeys, task, hand, closing, account>>

\* A new key for call, in a WatchKey with that handle if there is none yet.
AddKey(handle) ==
    LET number == Len(keys) + 1
        watchKey == IF call \in DOMAIN registered THEN registered[call]
                    ELSE [handle |-> handle, keys |-> {}]
    IN /\ keys' = Append(keys, [path |-> call, events |-> <<>>, overflow |-> 0])
       /\ registered' = With(registered, call, [watchKey EXCEPT !.keys = @ \cup {number}])
       /\ call' = <<>>

\* A registered path above has a stream, or shares one.
HasStream(path) == \E p \in DOMAIN registered : StartsWith(path, p)

\* Under the lock.
RegisterLocked ==
    /\ call # <<>>
    /\ \/ HasStream(call) /\ AddKey(Invalid) /\ UNCHANGED monitor
       \/ /\ ~HasStream(call)
          /\ \E handle \in DOMAIN streams \cup {current_id, Invalid} :
                CreateStream(call, handle) /\ AddKey(handle)
    /\ UNCHANGED <<readyKeys, task, hand, closing, account>>

\* createStream throws: the monitor has been closed meanwhile.
RegisterFails ==
    /\ call # <<>> /\ ~HasStream(call) /\ stopped
    /\ call' = <<>>
    /\ UNCHANGED <<monitor, keys, registered, readyKeys, task, hand, closing, account>>
-----------------------------------------------------------------------------
(* The callback thread *)

\* Mutant: events are for the keys of the parent.
TargetParent(path) == IF Parent(path) \in DOMAIN registered THEN registered[Parent(path)].keys ELSE {}

Target(path) ==
    IF path \in DOMAIN registered THEN registered[path].keys
    ELSE IF Parent(path) \in DOMAIN registered THEN registered[Parent(path)].keys
    ELSE {}

\* The next callback: dropEvent, or the first part of onFileEvent.
NextCallback ==
    LET next == Head(callbacks)
    IN /\ task = Idle /\ callbacks # <<>>
       /\ callbacks' = Tail(callbacks)
       /\ IF next.kind = "drop"
          THEN /\ registered' = IF next.path \in DOMAIN registered
                                THEN [registered EXCEPT ![next.path].handle = Invalid]
                                ELSE registered
               /\ UNCHANGED task
          ELSE /\ task' = IF Target(next.path) = {} THEN Idle
                          ELSE [Idle EXCEPT !.kind = next.kind, !.path = next.path,
                                            !.left = Target(next.path)]
               /\ UNCHANGED registered
       /\ skipped' = (skipped \/ (next.kind = "scan" /\ Target(next.path) = {}))
       /\ UNCHANGED <<streams, current_id, streams_to_remove, stopped, failures, keys, readyKeys,
                      hand, call, closing, behind, thrown, changes>>

Full(k) == Len(keys[k].events) = QueueSize

Done(k) == IF task.left = {k} THEN Idle
           ELSE [task EXCEPT !.left = @ \ {k}, !.step = 1, !.key = 0]

\* Mutant: a key is added each time.
SignalledAgain(k) == Append(readyKeys, k)

Signalled(k) == IF k \in Range(readyKeys) THEN readyKeys ELSE Append(readyKeys, k)

WithEvent(key) ==
    IF Len(key.events) = QueueSize THEN [key EXCEPT !.overflow = @ + 1]
    ELSE [key EXCEPT !.events = Append(@, task.path)]

\* addEvent, which has the monitor of the key.
AddEvent(k) ==
    /\ task.kind = "file" /\ k \in task.left
    /\ ~(hand.key = k /\ hand.counted)
    /\ keys' = [keys EXCEPT ![k] = WithEvent(@)]
    /\ readyKeys' = IF Full(k) THEN readyKeys ELSE Signalled(k)
    /\ task' = Done(k)
    /\ UNCHANGED <<monitor, registered, hand, call, closing, account>>

\* Mutant: the key is ready before its events are there.
SignalFirst == <<"signal", "add", "count">>

OverflowSteps == <<"add", "count", "signal">>

\* addOverflow, which has no monitor.  A full queue makes it throw, and the other
\* keys are not told.
AddOverflow(k) ==
    LET step == OverflowSteps[task.step]
        throws == step = "add" /\ Full(k)
    IN /\ task.kind = "scan" /\ k \in task.left /\ (task.step > 1 => k = task.key)
       /\ keys' = CASE throws -> keys
                    [] step = "add" /\ ~throws -> [keys EXCEPT ![k].events = Append(@, Overflow)]
                    [] step = "count" -> [keys EXCEPT ![k].overflow = @ + 1]
                    [] OTHER -> keys
       /\ readyKeys' = IF step = "signal" THEN Signalled(k) ELSE readyKeys
       /\ task' = IF throws THEN Idle
                  ELSE IF task.step = Len(OverflowSteps) THEN Done(k)
                  ELSE [task EXCEPT !.step = @ + 1, !.key = k]
       /\ thrown' = (thrown \/ throws)
       /\ UNCHANGED <<monitor, registered, hand, call, closing, behind, skipped, changes>>
-----------------------------------------------------------------------------
(* The consumer *)

Take ==
    /\ open /\ hand = NoHand /\ readyKeys # <<>>
    /\ hand' = [NoHand EXCEPT !.key = Head(readyKeys)]
    /\ readyKeys' = Tail(readyKeys)
    /\ UNCHANGED <<monitor, keys, registered, task, call, closing, account>>

\* pollEvents, in two steps: the overflow count,
PollCount ==
    /\ hand.key # 0 /\ ~hand.counted
    /\ hand' = [hand EXCEPT !.counted = TRUE, !.overflow = keys[hand.key].overflow]
    /\ keys' = [keys EXCEPT ![hand.key].overflow = 0]
    /\ UNCHANGED <<monitor, registered, readyKeys, task, call, closing, account>>

\* Who is told of an overflow looks at everything below the path of the key.
Told(path, events, overflow) ==
    IF overflow > 0 \/ Overflow \in events THEN {p \in Path : StartsWith(p, path)} ELSE events

\* and the events.
PollEvents ==
    LET key == keys[hand.key]
    IN /\ hand.counted
       /\ keys' = [keys EXCEPT ![hand.key].events = <<>>]
       /\ behind' = behind \ Told(key.path, Range(key.events), hand.overflow)
       /\ hand' = NoHand
       /\ UNCHANGED <<monitor, registered, readyKeys, task, call, closing, thrown, skipped, changes>>
-----------------------------------------------------------------------------
(* close *)

BeginClose ==
    /\ open
    /\ closing' = "flagged"
    /\ UNCHANGED <<monitor, keys, registered, readyKeys, task, hand, call, account>>

\* The streams are stopped, the keys cancelled and forgotten.
StopAll ==
    /\ closing = "flagged"
    /\ StopStreams({registered[p].handle : p \in DOMAIN registered})
    /\ registered' = [p \in DOMAIN registered |-> [registered[p] EXCEPT !.keys = {}]]
    /\ closing' = "cancelled"
    /\ UNCHANGED <<keys, readyKeys, task, hand, call, account>>

\* registered.clear, which cancels what was registered meanwhile.
ClearAll ==
    /\ closing = "cancelled"
    /\ registered' = NoPaths
    /\ closing' = "cleared"
    /\ UNCHANGED <<monitor, keys, readyKeys, task, hand, call, account>>

StopMonitor ==
    /\ closing = "cleared"
    /\ CloseMonitor
    /\ closing' = "stopping"
    /\ UNCHANGED <<keys, registered, readyKeys, task, hand, call, account>>

\* The run loop and the callback thread have ended.
EndClose ==
    /\ closing = "stopping" /\ streams = NoStreams /\ task = Idle
    /\ closing' = "yes"
    /\ UNCHANGED <<monitor, keys, registered, readyKeys, task, hand, call, account>>
-----------------------------------------------------------------------------
(* The file system *)

Near(path) == path \in DOMAIN registered \/ Parent(path) \in DOMAIN registered

\* A change that a stream covers: it reports the path, or (mustScanSubDirs) that
\* everything below a directory above has to be looked at.  What changes after close
\* began is of no account.
Change(path) ==
    /\ open /\ changes < MaxChanges
    /\ changes' = changes + 1
    /\ \/ Report([kind |-> "file", path |-> path])
       \/ \E d \in Dir : StartsWith(path, d) /\ Report([kind |-> "scan", path |-> d])
    /\ behind' = IF Near(path) THEN behind \cup {path} ELSE behind
    /\ UNCHANGED <<service, thrown, skipped>>

RunLoop == (Cleanup \/ CleanupRunLoop) /\ UNCHANGED <<service, account>>
-----------------------------------------------------------------------------
Init ==
    /\ MonitorInit
    /\ keys = <<>>
    /\ registered = NoPaths
    /\ readyKeys = <<>>
    /\ task = Idle
    /\ hand = NoHand
    /\ call = <<>>
    /\ closing = "no"
    /\ behind = {}
    /\ thrown = FALSE /\ skipped = FALSE
    /\ changes = 0

Callback == NextCallback \/ \E k \in DOMAIN keys : AddEvent(k) \/ AddOverflow(k)
Consume == Take \/ PollCount \/ PollEvents
Close == BeginClose \/ StopAll \/ ClearAll \/ StopMonitor \/ EndClose

Next ==
    \/ \E p \in Dir : Register(p)
    \/ RegisterLocked \/ RegisterFails
    \/ Callback
    \/ Consume
    \/ Close
    \/ \E p \in Path : Change(p)
    \/ RunLoop

\* The callback thread and the consumer run.
Spec == Init /\ [][Next]_vars /\ WF_vars(Callback) /\ WF_vars(Consume)
-----------------------------------------------------------------------------
\* Types; a key is ready once, and a queue is never over its size.
TypeOK ==
    /\ IsInjective(readyKeys) /\ Range(readyKeys) \subseteq DOMAIN keys
    /\ \A k \in DOMAIN keys :
        /\ Len(keys[k].events) <= QueueSize /\ Range(keys[k].events) \subseteq Path \cup {Overflow}
        /\ keys[k].overflow \in Nat /\ keys[k].path \in Dir
    /\ \A p \in DOMAIN registered :
        /\ registered[p].keys \subseteq {k \in DOMAIN keys : keys[k].path = p}
        /\ registered[p].handle \in 0 .. current_id - 1 \cup {Invalid}
    /\ task.left \subseteq DOMAIN keys /\ hand.key \in {0} \cup DOMAIN keys
    /\ behind \subseteq Path

Tells(event, path) ==
    \/ event.kind = "file" /\ event.path = path
    \/ event.kind = "scan" /\ StartsWith(path, event.path)

\* The consumer has key k in readyKeys or in hand, and it will tell of path.
WillTell(k, path) ==
    /\ k \in Range(readyKeys) \cup {hand.key}
    /\ path \in Told(keys[k].path, Range(keys[k].events),
                     keys[k].overflow + IF hand.key = k THEN hand.overflow ELSE 0)

\* A reported change that is behind is with the callback thread, or with a key that is
\* ready or taken.
UnderWay(p) ==
    \/ \E i \in DOMAIN callbacks : Tells(callbacks[i], p)
    \/ Tells(task, p)
    \/ \E k \in DOMAIN keys : WillTell(k, p)

\* Nothing that was reported is lost on the way through the threads, whatever arrives
\* while a key is emptied (addEvent, addOverflow, pollEvents).  A full queue counts; only
\* addOverflow on a full queue loses what it should tell, and an overflow for a directory
\* that is not registered, nor its parent, although directories below it are.
NothingMissed == open /\ ~thrown /\ ~skipped => \A p \in behind : UnderWay(p)

\* That only addOverflow on a full queue loses anything does not hold.
NothingSkipped == open /\ ~thrown => \A p \in behind : UnderWay(p)

\* Streams come and go, with drops and registrations in any order, but a stream is
\* left for every registered path - as the run loop sees it, which takes a path
\* for covered by any path whose name is the start of its own.
StreamsCover ==
    open /\ failures = 0 => \A p \in DOMAIN registered : Covering(p) # {}

\* That it really is below the path of a stream does not hold.
StreamsAreAbove ==
    open /\ failures = 0 =>
        \A p \in DOMAIN registered : \E id \in DOMAIN streams : StartsWith(p, streams[id])

\* What was reported is told in the end, while the service is open.
EveryChangeIsTold == behind # {} ~> behind = {} \/ ~open \/ thrown \/ skipped
=============================================================================
