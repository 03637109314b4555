-------------------------------- MODULE Callbacks --------------------------------
(***************************************************************************)
(* How a change of the cache reaches the observers of a repository.  The   *)
(* watcher's threads handle events under the lock of `directories` and     *)
(* hand the callbacks of each event to the executor after they let go of   *)
(* it (FileCacheDirectoryTree.runCallbacks); the executor's worker runs    *)
(* them, and each callback copies the observers under their monitor and    *)
(* calls them outside of it (CacheObservers.java).                         *)
(*                                                                         *)
(* Task n of the executor is the list of callbacks of the n-th event that  *)
(* was handled, so the numbers are the versions of the cache.              *)
(***************************************************************************)
EXTENDS Executor

CONSTANTS
    Thread,     \* the threads that call handleEvent
    Handle,     \* the handles that addObserver returns, each once
    PerEvent    \* callbacks of an event: one for each entry that changed

ASSUME CallbacksAssumption ==
    /\ Cardinality(Task) \in Nat /\ Task = 1..Cardinality(Task)
    /\ PerEvent \in Nat \ {0}

VARIABLES
    version,    \* events handled so far
    inHand,     \* per thread: the event whose callbacks it has to submit, or 0
    handledBy,  \* per event handled: the thread
    observers,  \* per handle: "new", "added", "removed", or "cleared" by close
    since,      \* per handle: the version when it was added
    part,       \* callbacks of the current task that have begun
    copy,       \* cbs: the handles that the current callback has yet to call
    told,       \* per handle: the versions it was called for, in order
    surplus,    \* per handle: calls since it was removed
    crowded,    \* three tasks have met in the worker's queue since it was empty
    closingTree \* what close of the tree does next

cvars == <<version, inHand, handledBy, observers, since, part, copy, told, surplus, crowded,
           closingTree>>
allVars == <<vars, cvars>>

Added == {h \in Handle : observers[h] = "added"}
Cleared == {h \in Handle : observers[h] = "cleared"}
-----------------------------------------------------------------------------
(* The watcher's threads *)

\* The part of handleEvent that holds the lock.
HandleEvent(w) ==
    /\ inHand[w] = 0 /\ closingTree = "open"
    /\ version < Cardinality(Task)
    /\ version' = version + 1
    /\ inHand' = [inHand EXCEPT ![w] = version']
    /\ handledBy' = Append(handledBy, w)
    /\ UNCHANGED <<vars, observers, since, part, copy, told, surplus, crowded, closingTree>>

\* runCallbacks of an open tree, up to the executor's own look at `closed`.
RunCallbacks(w) ==
    /\ inHand[w] # 0
    /\ Run(inHand[w])
    /\ UNCHANGED cvars

OfferCallbacks(w) ==
    /\ inHand[w] # 0
    /\ Offer(inHand[w])
    /\ inHand' = [inHand EXCEPT ![w] = 0]
    /\ UNCHANGED <<version, handledBy, observers, since, part, copy, told, surplus, crowded,
                   closingTree>>

\* The tree or the executor is found closed.
DropCallbacks(w) ==
    /\ inHand[w] # 0 /\ inHand[w] \notin submitting
    /\ closingTree # "open"
    /\ inHand' = [inHand EXCEPT ![w] = 0]
    /\ UNCHANGED <<vars, version, handledBy, observers, since, part, copy, told, surplus, crowded,
                   closingTree>>
-----------------------------------------------------------------------------
(* The executor's worker *)

WorkerStep ==
    /\ Check \/ Take \/ TakeThrows \/ Drain
    /\ UNCHANGED cvars

PollTask ==
    /\ Poll
    /\ crowded' = (Len(queue) > 1 /\ (crowded \/ Len(queue) > 2))
    /\ UNCHANGED <<version, inHand, handledBy, observers, since, part, copy, told, surplus,
                   closingTree>>

\* Mutant: the observers are copied once for all callbacks of a task.
CopyOnce == IF part = 0 THEN Added ELSE {h \in Handle : told[h] # <<>> /\ Last(told[h]) = current}

\* new ArrayList<>(observers.values()).
Copied == Added

\* A callback copies the observers.  close clears them without their monitor:
\* the copy may then hold any of them.
CopyObservers ==
    /\ current \in Task /\ part < PerEvent /\ copy = {}
    /\ part' = part + 1
    /\ \E stale \in SUBSET Cleared : copy' = Copied \cup stale
    /\ UNCHANGED <<vars, version, inHand, handledBy, observers, since, told, surplus, crowded,
                   closingTree>>

\* observer.onNext
CallObserver(h) ==
    /\ h \in copy
    /\ copy' = copy \ {h}
    /\ told' = [told EXCEPT ![h] = Append(@, current)]
    /\ surplus' = [surplus EXCEPT ![h] = IF observers[h] = "removed" THEN @ + 1 ELSE @]
    /\ UNCHANGED <<vars, version, inHand, handledBy, observers, since, part, crowded, closingTree>>

FinishTask ==
    /\ Finish
    /\ current \in Task => part = PerEvent /\ copy = {}
    /\ part' = 0
    /\ UNCHANGED <<version, inHand, handledBy, observers, since, copy, told, surplus, crowded,
                   closingTree>>
-----------------------------------------------------------------------------
(* The user *)

AddObserver(h) ==
    /\ observers[h] = "new"
    /\ observers' = [observers EXCEPT ![h] = "added"]
    /\ since' = [since EXCEPT ![h] = version]
    /\ UNCHANGED <<vars, version, inHand, handledBy, part, copy, told, surplus, crowded,
                   closingTree>>

RemoveObserver(h) ==
    /\ observers[h] \in {"added", "cleared"}
    /\ observers' = [observers EXCEPT ![h] = "removed"]
    /\ UNCHANGED <<vars, version, inHand, handledBy, since, part, copy, told, surplus, crowded,
                   closingTree>>

\* close of the tree takes the lock that handleEvent needs.
CloseTree ==
    /\ closingTree = "open"
    /\ closingTree' = "executor"
    /\ UNCHANGED <<vars, version, inHand, handledBy, observers, since, part, copy, told, surplus,
                   crowded>>

\* callbackExecutor.close, but for the wait of up to five seconds at its end.
CloseExecutor ==
    /\ closingTree = "executor"
    /\ Close
    /\ UNCHANGED cvars

\* observers.close, after that wait: the worker has stopped or is still busy.
CloseObservers ==
    /\ closingTree = "executor" /\ closing = "done"
    /\ closingTree' = "closed"
    /\ observers' = [h \in Handle |-> IF observers[h] = "added" THEN "cleared" ELSE observers[h]]
    /\ UNCHANGED <<vars, version, inHand, handledBy, since, part, copy, told, surplus, crowded>>
-----------------------------------------------------------------------------
CallbacksInit ==
    /\ Init
    /\ version = 0
    /\ inHand = [w \in Thread |-> 0]
    /\ handledBy = <<>>
    /\ observers = [h \in Handle |-> "new"]
    /\ since = [h \in Handle |-> 0]
    /\ part = 0 /\ copy = {}
    /\ told = [h \in Handle |-> <<>>]
    /\ surplus = [h \in Handle |-> 0]
    /\ crowded = FALSE
    /\ closingTree = "open"

Worker == WorkerStep \/ PollTask \/ CopyObservers \/ FinishTask \/ \E h \in Handle : CallObserver(h)
Watcher(w) == RunCallbacks(w) \/ OfferCallbacks(w) \/ DropCallbacks(w)
Closer == CloseExecutor \/ CloseObservers

CallbacksNext ==
    \/ Worker \/ Closer \/ CloseTree
    \/ \E w \in Thread : HandleEvent(w) \/ Watcher(w)
    \/ \E h \in Handle : AddObserver(h) \/ RemoveObserver(h)

\* The worker and the threads inside a call are scheduled, and observers return.
CallbacksFairness ==
    /\ WF_allVars(Worker)
    /\ \A w \in Thread : WF_allVars(Watcher(w))

CallbacksSpec == CallbacksInit /\ [][CallbacksNext]_allVars /\ CallbacksFairness
-----------------------------------------------------------------------------
CallsFor(h, n) == Cardinality({i \in DOMAIN told[h] : told[h][i] = n})

\* However threads submit, add, remove, drain and clear, an observer is called
\* at most once for each callback of an event.
ToldOnce == \A h \in Handle, n \in Task : CallsFor(h, n) <= PerEvent

\* removeObserver takes effect at once but for the callback under way, although
\* the observers are called outside of their monitor.
RemovedIsSilent == \A h \in Handle : surplus[h] <= 1

\* What an observer may conclude from the order of its callbacks: events of one
\* thread wait in the order in which they were handled, as long as no three of
\* them wait in the worker's queue together.
InOrderUnlessCrowded ==
    LET line == <<current>> \o queue \o consumers
    IN ~crowded => \A i, j \in DOMAIN line :
            /\ i < j /\ {line[i], line[j]} \subseteq Task
            /\ handledBy[line[i]] = handledBy[line[j]]
            => line[i] < line[j]

\* "it will notify all of the registered Observers of the change"
\* (FileTreeRepository.java:24): an observer is told of every event that is
\* handled while it is registered, unless it is removed or the tree is closed.
EveryEventIsTold ==
    <>[](\A h \in Handle, n \in Task :
            observers[h] = "added" /\ since[h] < n /\ n <= version
                => CallsFor(h, n) = PerEvent \/ closingTree # "open")

\* An observer that is told last of what the cache holds: the order that users
\* would like (it is not kept).
LastToldIsCurrent ==
    \A h \in Handle :
        (observers[h] = "added" /\ since[h] = 0 /\ version = Cardinality(Task) /\ closingTree = "open"
          /\ \A n \in Task : CallsFor(h, n) = PerEvent)
            => Last(told[h]) = version
=============================================================================
