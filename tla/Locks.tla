---------------------------------- MODULE Locks ----------------------------------
(***************************************************************************)
(* The locks of a repository that follows links, and the threads that take *)
(* them.  Four locks are held while another one is asked for:              *)
(*                                                                         *)
(*    tree    directories and pendingFiles of the FileCacheDirectoryTree   *)
(*    roots   rootDirectories of its NioPathWatcher                        *)
(*    links   watchedSymlinksByTarget of the SymlinkWatcher                *)
(*    inner   rootDirectories of the NioPathWatcher of the SymlinkWatcher  *)
(*                                                                         *)
(* (Nothing is asked for under the locks of the registry, of the watch     *)
(* keys, of one cached directory and of the observers.)  Each is a         *)
(* ReentrantLock that Lockable.lock tries for a minute; the region it      *)
(* guards is skipped when that fails.                                      *)
(*                                                                         *)
(* A method is the sequence of its calls and of the locks it takes.  What  *)
(* it computes decides only which of its calls it makes.                   *)
(***************************************************************************)
EXTENDS Integers, Sequences, FiniteSets

CONSTANTS
    MainLoop, InnerLoop,  \* the loop threads of the two watchers
    Worker,               \* the thread of the callback executor
    User,                 \* threads that call the repository
    CallbackCalls,        \* what callbacks call: they are the user's code
    MaxSteps              \* bound on the calls that are nested

\* The user's code calls the repository like any user.
ASSUME LocksAssumption == CallbackCalls \subseteq {"register", "unregister", "list", "close"}

Thread == {MainLoop, InnerLoop, Worker} \cup User
Lock == {"tree", "roots", "links", "inner"}

VARIABLES
    program,  \* per thread: the steps it has still to do
    held,     \* per thread: how often it holds each lock
    closed    \* close was called

vars == <<program, held, closed>>
-----------------------------------------------------------------------------
(* Steps: a lock, with the number of steps to skip when it is not got; its    *)
(* release; a call; a call that may be made or not; the wait of close for the *)
(* callback thread.                                                           *)

Acquire(l, skip) == [op |-> "acquire", on |-> l, skip |-> skip]
Release(l) == [op |-> "release", on |-> l, skip |-> 0]
Call(m) == [op |-> "call", on |-> m, skip |-> 0]
MayCall(m) == [op |-> "mayCall", on |-> m, skip |-> 0]
AwaitCallbacks == [op |-> "await", on |-> "callbacks", skip |-> 0]

\* Mutant: the observers are called under the lock of the directories.
WatcherReportsLocked(roots, observer) ==
    <<Acquire(roots, 2), MayCall(observer), Release(roots)>>

\* NioPathWatcher.handleEvent, handleOverflow and register: something is done
\* under the lock, and what it found is reported after.
WatcherReports(roots, observer) ==
    <<Acquire(roots, 1), Release(roots), MayCall(observer)>>

\* FileCacheDirectoryTree.handleEvent: handleDelete removes links under the lock,
\* the links that were met are added or removed after it.
HandleEvent ==
    <<Acquire("tree", 4), MayCall("removeLink"), Release("tree"),
      MayCall("addLink"), MayCall("removeLink")>>

\* FileCacheDirectoryTree.register, and what FileCachePathWatcher.register adds.
Register ==
    <<Acquire("tree", 3), Call("mainWatcher"), Release("tree"), MayCall("addLink")>>

Unregister ==
    <<Acquire("tree", 1), Release("tree"), Acquire("roots", 1), Release("roots")>>

List == <<Acquire("tree", 1), Release("tree")>>

\* FileTreeRepositoryImpl.close: the path watcher, the symlink watcher and its
\* watcher, the tree, which waits for its callbacks.
Close ==
    <<Acquire("roots", 1), Release("roots"), Acquire("links", 1), Release("links"),
      Acquire("inner", 1), Release("inner"),
      Acquire("tree", 2), AwaitCallbacks, Release("tree")>>

\* SymlinkWatcher.addSymlink
AddLink == <<Acquire("links", 2), MayCall("innerWatcher"), Release("links")>>

RemoveLink == <<Acquire("links", 1), Release("links")>>

\* The observer of the inner watcher: the lookup, the target that is gone, and
\* the observers of the links, which is the tree.
LinkObserver ==
    <<Acquire("links", 1), Release("links"), MayCall("forgetTarget"), MayCall("handleEvent")>>

ForgetTarget ==
    <<Acquire("links", 3), Acquire("inner", 1), Release("inner"), Release("links")>>

Body(m) ==
    CASE m = "mainWatcher"  -> WatcherReports("roots", "handleEvent")
      [] m = "innerWatcher" -> WatcherReports("inner", "linkObserver")
      [] m = "handleEvent"   -> HandleEvent
      [] m = "linkObserver" -> LinkObserver
      [] m = "forgetTarget" -> ForgetTarget
      [] m = "addLink"      -> AddLink
      [] m = "removeLink"   -> RemoveLink
      [] m = "register"      -> Register
      [] m = "unregister"    -> Unregister
      [] m = "list"          -> List
      [] m = "close"         -> Close

UserCalls == {"register", "unregister", "list", "close"}

\* What a thread calls when it has nothing to do.
Calls(t) ==
    CASE t = MainLoop  -> {"mainWatcher"}
      [] t = InnerLoop -> {"innerWatcher"}
      [] t = Worker    -> CallbackCalls
      [] OTHER         -> UserCalls
-----------------------------------------------------------------------------
Next1(t) == Head(program[t])
Wants(t) == IF program[t] # <<>> /\ Next1(t).op = "acquire" THEN {Next1(t).on} ELSE {}
Holds(t) == {l \in Lock : held[t][l] > 0}
Free(t, l) == \A u \in Thread \ {t} : l \notin Holds(u)

Start(t, m) ==
    /\ program[t] = <<>> /\ m \in Calls(t)
    /\ m = "close" => ~closed
    /\ program' = [program EXCEPT ![t] = Body(m)]
    /\ closed' = (closed \/ m = "close")
    /\ UNCHANGED held

\* tryLock succeeds.
Get(t) ==
    /\ program[t] # <<>> /\ Next1(t).op = "acquire" /\ Free(t, Next1(t).on)
    /\ held' = [held EXCEPT ![t][Next1(t).on] = @ + 1]
    /\ program' = [program EXCEPT ![t] = Tail(@)]
    /\ UNCHANGED closed

Unlock(t) ==
    /\ program[t] # <<>> /\ Next1(t).op = "release"
    /\ held' = [held EXCEPT ![t][Next1(t).on] = @ - 1]
    /\ program' = [program EXCEPT ![t] = Tail(@)]
    /\ UNCHANGED closed

Enter(t) ==
    /\ program[t] # <<>> /\ Next1(t).op \in {"call", "mayCall"}
    /\ Len(program[t]) <= MaxSteps
    /\ program' = [program EXCEPT ![t] = Body(Next1(t).on) \o Tail(@)]
    /\ UNCHANGED <<held, closed>>

PassBy(t) ==
    /\ program[t] # <<>> /\ Next1(t).op = "mayCall"
    /\ program' = [program EXCEPT ![t] = Tail(@)]
    /\ UNCHANGED <<held, closed>>

\* awaitTermination: the worker is done with its callback.
Terminated(t) ==
    /\ program[t] # <<>> /\ Next1(t).op = "await" /\ program[Worker] = <<>>
    /\ program' = [program EXCEPT ![t] = Tail(@)]
    /\ UNCHANGED <<held, closed>>

\* Mutant: a lock is waited for without limit.
WaitsForEver(t) == Next1(t).op = "await"

\* What has a limit: tryLock and awaitTermination.  close interrupts the threads
\* of the repository; tryLock then fails even if the lock is free.
WaitsALimitedTime(t) ==
    \/ Next1(t).op = "await"
    \/ Next1(t).op = "acquire" /\ (~Free(t, Next1(t).on) \/ (closed /\ t \notin User))

\* Mutant: the steps after the region are skipped as well.
SkipAll(steps) == <<>>

\* The steps that are left when the limit is over.
Skip(steps) == SubSeq(steps, Head(steps).skip + 2, Len(steps))

\* A minute is over (five seconds for the wait), or the thread was interrupted.
TimeOut(t) ==
    /\ program[t] # <<>> /\ WaitsALimitedTime(t)
    /\ program' = [program EXCEPT ![t] = Skip(@)]
    /\ UNCHANGED <<held, closed>>
-----------------------------------------------------------------------------
Init ==
    /\ program = [t \in Thread |-> <<>>]
    /\ held = [t \in Thread |-> [l \in Lock |-> 0]]
    /\ closed = FALSE

Step(t) == Get(t) \/ Unlock(t) \/ Enter(t) \/ PassBy(t) \/ Terminated(t) \/ TimeOut(t)

Next == \E t \in Thread : Step(t) \/ \E m \in Calls(t) : Start(t, m)

\* A thread inside a call is scheduled, and time passes.
Fairness == \A t \in Thread : WF_vars(Step(t))

Spec == Init /\ [][Next]_vars /\ Fairness
-----------------------------------------------------------------------------
\* The releases of l that a thread has still to do, of the locks it holds now.
Places(steps, first, op, l) ==
    {i \in first..Len(steps) : steps[i].op = op /\ steps[i].on = l}
ReleasesFrom(steps, first, l) ==
    Cardinality(Places(steps, first, "release", l)) - Cardinality(Places(steps, first, "acquire", l))
Releases(steps, l) == ReleasesFrom(steps, 1, l)

\* Types; and whatever was skipped and whoever called whom, a thread releases
\* each lock as often as it got it, and no two threads hold the same.
TypeOK ==
    /\ closed \in BOOLEAN
    /\ \A t \in Thread, l \in Lock :
        /\ held[t][l] = Releases(program[t], l)
        /\ l \in Holds(t) => Free(t, l)

\* t waits for a lock that u holds, or for u to end its callback.
Awaits(t) == program[t] # <<>> /\ Next1(t).op = "await"
WaitsFor(t, u) ==
    t # u /\ (Wants(t) \cap Holds(u) # {} \/ (Awaits(t) /\ u = Worker /\ program[u] # <<>>))

Deadlock(S) == S # {} /\ \A t \in S : \E u \in S : WaitsFor(t, u)

\* The one deadlock the locks allow, which only the timeouts end: a thread adds a
\* link, and the inner watcher's register reports into the tree while `links` is
\* held; another removes a link while it holds `tree`.  No other order of locks is
\* ever reversed, whoever reports to whom and whatever callbacks do; but close,
\* which holds `tree`, may wait for a callback that waits for `tree`.
OnlyLinksDeadlock ==
    \A S \in SUBSET Thread :
        Deadlock(S) =>
            \/ \E t, u \in S : /\ "links" \in Holds(t) /\ "tree" \in Wants(t)
                               /\ "tree" \in Holds(u) /\ "links" \in Wants(u)
            \/ \E t \in S : Awaits(t)

\* That there is no deadlock at all does not hold.
NoDeadlock == \A S \in SUBSET Thread : ~Deadlock(S)

\* Every call of the repository returns, and every event is done with some time:
\* what close waits for and what the deadlock holds up goes on in the end.
CallsReturn == \A t \in Thread : program[t] # <<>> ~> program[t] = <<>>
=============================================================================
