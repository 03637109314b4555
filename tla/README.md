# file-tree-views in TLA+

Specifications of the concurrent core of swoval's `file-tree-views`: what is
registered, what is watched, what is cached, and what observers are told. All
sources named below are Java files of
`src/files/jvm/src/main/java/com/swoval/files/` unless a directory is given. The
Scala.js sources under `src/files/js` are translated from them, but run in a single
thread: their `Executor` calls each task where it is submitted
(`src/files/js/src/main/scala/com/swoval/files/Executor.scala`), so that what is said
here of threads and queues is about the JVM.

## The system

| Component | State | Operations | Talks to |
|---|---|---|---|
| `DirectoryRegistryImpl` | a map from registered paths to depths | addDirectory, removeDirectory, maxDepthFor, accept, acceptPrefix, close | asked by every other part |
| `CachedDirectoryImpl` | a tree of directories and files below one root, with a depth per directory | init, update, remove, list, close | `FileTreeView` for listings, the registry as filter |
| `FileCacheDirectoryTree` | cached roots, pending files, observers | register, unregister, handleEvent, list, close | path watcher, symlink watcher, callback executor |
| `FileTreeRepositoryImpl`, `FileCachePathWatcher` | closed flag | register, unregister, close, list | wires watcher and tree together |
| `NioPathWatcher`, `NioPathWatcherService` | a tree of watched directories, one watch key each | register, unregister, handleEvent, handleOverflow, close | `WatchService`, observers |
| `MacOSXWatchService` | a stream per path, or one that is shared; a bounded event queue per key | register, poll, take, cancel, close | `FileEventMonitor` |
| `apple/FileEventMonitors`, its native run loop | the streams, those to be stopped, a callback thread | createStream, stopStream, close | FSEvents |
| `ApplePathWatcher` | a stream per registered path, or one that is shared | register, unregister, close, callbacks | `FileEventMonitor` |
| `PollingPathWatcher`, `PeriodicTask` | the previous listing | register, unregister, poll, close | `FileTreeView`, observers |
| `SymlinkWatcher`, `SymlinkFollowingPathWatcher` | a map from targets to links, a path watcher of its own | addSymlink, remove, the handler of the inner watcher, close | inner watcher, tree |
| `Executor` | a blocking queue and the worker's priority queue | run, close | runs callbacks |
| `Observers`, `CacheObservers` | a map from handles to observers | addObserver, removeObserver, onNext, close | user code |
| `Lockable` | a `ReentrantLock`, taken with a timeout of a minute | lock, unlock | registry, tree, watchers |
| `SimpleFileTreeView`, directory listers | the set of visited link targets of one listing | list | the file system |
| `runtime/ShutdownHooks` | hooks by priority | addHook, removeHook, run | JVM shutdown |

An event travels like this. The platform watcher's thread learns that a path
changed, asks the registry whether the path is wanted, looks at the path and
hands what it saw to its observers. In a repository the observer is
`handleEvent` of the tree: it finds the cached root above the path, brings it up
to date under the lock of `directories`, and afterwards submits one task to the
executor that runs the callbacks of the user's observers. Links the tree meets
are handed to the symlink watcher, whose own watcher thread enters the tree by
the same handler. Meanwhile user threads register, unregister, list and close.

What makes this hard:

* The event says what was there when the watcher looked, the handler acts later,
  and rescans look at the file system again in the middle of the handler.
* Events of one path are coalesced while they wait, and events of different paths arrive
  in any order: a file before its directory, a directory after its entries are gone. Two
  threads may hold events of one path, and the older one may be handled last.
* `register` changes the registry, then takes the lock, then makes the watcher
  watch, then lists: each gap can hold a change, an `unregister` or a `close`.
* Roots lie above one another with different depths, roots absorb roots, and
  missing roots wait in `pendingFiles`.
* Depths are `int`s with `Integer.MAX_VALUE` for "no limit", added to and
  subtracted from.
* Two monitors guard the polling watcher's listing, none guards both its users.
* The executor's queues are drained, cleared and refilled by three threads.
* Callbacks are handed over after the lock was released, and observers are called
  outside of their monitor.
* Watch keys are closed after the lock of the tree they left was released, and are handed
  out again as long as they are in the map of the service.
* Four locks are nested, user code runs under some of them, and what keeps them
  from blocking for ever is a timeout of a minute after which work is skipped.
* Streams of file events cover one another, and their end is reported by another
  thread than the one that asks for them.
* One set of visited directories is all that keeps a listing out of loops of links.

The correctness of each part, in words: the registry's answers agree with one
another; the cache ends up mirroring the registered part of the file system;
observers are told of every difference; watchers miss nothing and invent nothing;
the executor runs each task once and stops when closed; a link is told of every
change of its target; what FSEvents reports reaches the reader of a watch key;
every call returns; a listing holds all it should and ends.

## Modules

| Module | Models | EXTENDS / INSTANCE |
|---|---|---|
| `Paths` | the part of `java.nio.file.Path` that the code relies on | |
| `DirectoryRegistry` | `DirectoryRegistryImpl` | `Paths` |
| `MCDirectoryRegistry` | its instance for TLC | `DirectoryRegistry` |
| `CachedDirectory` | `CachedDirectoryImpl`, as functions on trees | `Paths` |
| `FileCacheDirectoryTree` | the tree of roots, with file system, watcher and user threads | `CachedDirectory`, `Registry == INSTANCE DirectoryRegistry` |
| `FileCacheDirectoryTreeProofs` | theorems about the trees of `CachedDirectory` and the cache | `FileCacheDirectoryTree`, `FiniteSetTheorems`, `SequenceTheorems`, `WellFoundedInduction`, `TLAPS` |
| `MCFileCacheDirectoryTree` | its instance for TLC | `FileCacheDirectoryTree` |
| `PollingPathWatcher` | the polling watcher and its periodic thread | `DirectoryRegistry` |
| `PollingPathWatcherProofs` | theorems about `DirectoryRegistry`, then about `PollingPathWatcher` | `PollingPathWatcher`, `WellFoundedInduction`, `TLAPS` |
| `MCPollingPathWatcher` | its instance for TLC | `PollingPathWatcher` |
| `TaskPool` | the abstract promise of an executor | |
| `Executor` | `ExecutorImpl`, which implements `TaskPool` | `Pool == INSTANCE TaskPool WITH ...` |
| `Callbacks` | the way of a change from `handleEvent` to the observers: `runCallbacks`, the executor and `CacheObservers` | `Executor` |
| `CallbacksProofs` | theorems about `Executor`, then about `Callbacks` | `Callbacks`, `FiniteSetTheorems`, `SequenceTheorems`, `TLAPS` |
| `Locks` | `Lockable`, the four locks that are nested, and every method that nests them | |
| `LocksProofs` | theorems about it | `Locks`, `FiniteSetTheorems`, `SequenceTheorems`, `TLAPS` |
| `SymlinkWatcher` | `SymlinkWatcher` over an ideal inner watcher | `Paths`, `Registry == INSTANCE DirectoryRegistry` |
| `SymlinkWatcherProofs` | theorems about it | `SymlinkWatcher`, `TLAPS` |
| `MCSymlinkWatcher` | its instance for TLC | `SymlinkWatcher` |
| `NioPathWatcher` | `NioPathWatcher` and `NioPathWatcherService` over a watch service like inotify's | `Paths`, `Registry == INSTANCE DirectoryRegistry` |
| `NioPathWatcherProofs` | theorems about it | `NioPathWatcher`, `SequenceTheorems`, `WellFoundedInduction`, `TLAPS` |
| `MCNioPathWatcher` | its instance for TLC | `NioPathWatcher` |
| `FileEventMonitor` | `apple/FileEventMonitors.java` and `src/files/js/npm/src/swoval_apple_file_system.hpp`, the run loop that JVM and node share | `Paths` |
| `MacOSXWatchService` | `MacOSXWatchService` over those streams | `FileEventMonitor` |
| `MacOSXWatchServiceProofs` | theorems about both | `MacOSXWatchService`, `FiniteSetTheorems`, `SequenceTheorems`, `WellFoundedInduction`, `TLAPS` |
| `MCMacOSXWatchService` | its instance for TLC | `MacOSXWatchService` |
| `ApplePathWatcher` | `ApplePathWatcher` over those streams, alone or in a repository | `FileEventMonitor`, `Registry == INSTANCE DirectoryRegistry` |
| `ApplePathWatcherProofs` | theorems about it | `ApplePathWatcher`, `FiniteSetTheorems`, `SequenceTheorems`, `WellFoundedInduction`, `TLAPS` |
| `MCApplePathWatcher` | its instance for TLC | `ApplePathWatcher` |
| `SimpleFileTreeView` | one `list`, over a file system with links that loses directories | |
| `MCSimpleFileTreeView` | its instance for TLC: the file systems | `SimpleFileTreeView` |

An operator whose comment begins with "Mutant" is the operator below it with one
mistake a programmer might make. It is not part of the model; each property of a
passing run is known to fail when the mutant takes the operator's place.

### DirectoryRegistry

One variable, `registered`, is `registeredDirectoriesByPath`. Every method of the
class runs under the lock of the map, so each is one action. Arithmetic is
Java's: `Int32` wraps around, with `MaxInt` in the place of `Integer.MAX_VALUE`.
`Covers` is `RegisteredDirectory.accept`, through `compMaxDepth`; `MaxDepthFor`
subtracts. A method whose lock times out does nothing and is a stuttering step.

### CachedDirectory

A root with everything below it is one record: `dirs` maps the path of every
`CachedDirectoryImpl` of the tree to its depth and the kind of its entry, `files`
holds the entries of all the `files` maps. A file's key is part of the entry,
because `addDirectory` files an entry under its full path where the rest of the
class uses the file name. `Scan` is a new instance after `init`; `Update` is
`update(typedPath, rescan)` with its branches as operators of their own;
`Remove` is `remove`. What the code adds to an `Updates` object are the sets
`created`, `updated` and `deleted`. A listing of a directory is atomic, symbolic
links are not modelled, and the user's filter accepts everything. What the
converter makes of a file is its content: a kind such as `"file"` or `"edited"`.

### FileCacheDirectoryTree

| Code | Action |
|---|---|
| `register`: `directoryRegistry.addDirectory`, before the lock | `Register` |
| `register`: `directories.lock`, `watcher.register` | `Watch` |
| `register`: listing, `cleanupDirectories`, unlock | `Fill` |
| `tree.unregister` | `Unregister` |
| `pathWatcher.unregister` (`FileCachePathWatcher`) | `Unwatch` |
| `NioPathWatcher.runCallbacks`: the look at the path | `Stat` |
| `handleEvent` with `handleDelete` and the branch for pending files | `HandleEvent` (what it does to the cache is `Handle`) |
| `FileTreeRepositoryImpl.closeRunnable` | `Close` |
| the file system | `Appear`, `Disappear`, `Modify` |

`changed` holds the paths the watcher has still to look at: a set, because
events of one path coalesce and those of different paths come in any order.
`Watcher` are the threads that look at paths and call `handleEvent`: that of the
path watcher and that of the symlink watcher's own watcher. `events` holds what each of
them saw and has not handled yet. Two of them may look at one path one after the other
and handle what they saw in either order; `newest` marks the later look, and `overtaken`
are the paths of which it was handled first. What the cache says of such a path is what
the older look saw (`handleEvent` compares nothing), so `FoundExists` and `EntriesMatch`
leave these paths out (see "Departures"); `CachedUnlessPending` does not. The deletions
that `NioPathWatcher.register` tells itself, in the thread that registers and under the
lock of `directories` (`NioPathWatcher.java:227`), are not modelled apart: nothing comes
between such a look and its handling, and the look and the handling of a third thread
give the same orders of looks, one register later. `observed` is what an observer believes
that lists whatever it registers and then replays the callbacks; the callbacks run with
the event here, and `Callbacks` has what lies between.

The path watcher is taken at its word: from `watcher.register` on it reports
every change of a registered path. A directory that gains or loses an entry may
or may not be reported as modified (`Modify` of a directory). `SwapsKinds` says
whether a path that is gone may come back, perhaps as another kind, before the event
of that was handled; the passing runs exclude that (see "Departures").

### PollingPathWatcher

`Register` is the listing outside of any lock, `Registered` the synchronized
rest. A poll is `PollStart` (the registered directories), one `PollList` for
each of them, `PollDiff` and `PollSwap`: between any two the file system changes
and callers run. `known` is what an observer believes that lists what it
registers and then replays Create, Modify and Delete events.

### Executor and TaskPool

`consumers` is the blocking queue, `queue` the array of the worker's
`PriorityQueue`: `AddAll` and `Rest` say what its `addAll` and `poll` do to the array
when all tasks compare as equal and STOP as smaller. A task is submitted in two
steps, `Run` (the check of `closed`) and `Offer`. The worker's steps are the
condition of its outer loop (`Check`), `Take` or `TakeThrows`, `Drain`, `Poll`
and `Finish`; a task may swallow the interrupt. `close` is `CloseSet`,
`CloseClear` and `CloseInterrupt`. `TaskPool` keeps a set of pending tasks, the
running one, and whether the pool is open; `Executor` maps both of its queues to
the set, and STOP to nothing.

That the worker stops after close does not hang on a single mechanism: STOP, the
`closed` flag and the interrupt each end it. `AtMostOneLate` is about the part
that only one of them gives, the bound on what still runs.

### Callbacks

`Callbacks` puts the executor between the tree and its observers. Its tasks are the
callbacks of one event each, numbered in the order in which `handleEvent` changed the
cache. `HandleEvent` is the part under the lock; `RunCallbacks` and `OfferCallbacks`
are the two steps of `callbackExecutor.run`, so another thread may come between the
change and the submission. A task has `PerEvent` callbacks; each copies the observers
(`CopyObservers`) and then calls them one by one (`CallObserver`). `close` of the
observers does not take their monitor, so a copy may hold any of those it cleared.
`told` and `surplus` record what the observers saw; `crowded` says that three tasks
have met in the worker's heap, from where on their order is that of the heap.

### Locks

A method is a sequence of steps: locks to take, with the number of steps to skip
when that fails, releases, and calls, some of which the method makes only sometimes.
`Body` has one for every method that takes a lock while it or its caller holds
another. A thread that has nothing to do starts one of its own (`Calls`): the loop
threads of both watchers, the callback thread with whatever the user calls from
callbacks, users with the methods of the repository. `TimeOut` is the minute of
`Lockable.lock`, the five seconds of `ExecutorImpl.close`, and the interrupt by close,
which makes `tryLock` fail on a lock that is free.

### SymlinkWatcher

`AddSymlink` are the checks outside of the lock, `AddLocked` the part under it.
The observer of the inner watcher is four steps, as in the code: the lookup
under the lock (`Collect`), `Files.exists` without it (`CheckTarget`), the removal of a
target that was missing, under the lock again (`DropTarget`), and the calls of the
observers (`Notify`). The inner
watcher is its registry and the promise to report every change of what the
registry accepts. `monitored` and `missed` record what callers are owed: the links
that were added and not removed, and those of them with a change that nobody told,
where a caller of `addSymlink` wants the target as deep as the `maxDepth` of that call
(`Wants`), whatever the inner watcher is registered with. `surplus` counts the calls that
a link gets after it was removed or lost its target: the observer notifies without the
lock, so the one that had looked the link up reports it still; `RemovedFallsSilent` says
that no other does.

### NioPathWatcher

| Code | Action |
|---|---|
| the converter: `service.register(path)` | `ScanWatch` |
| `CachedDirectoryImpl.init`: one listing | `ScanList` |
| loop thread: `take`, `pollEvents` | `Take` |
| `handleEvent`: lock, `acceptPrefix`, the look at the path | `Look` |
| `handleEvent`: `remove`, the tree | `Act` |
| `remove`, and `onDelete` of the observer of `update`: one key is closed | `CloseOne` |
| `handleOverflow` | `Overflow` |
| `add`: `getOrAdd`, and `update` up to where its observer closes keys | `Add`, `AddInit`, `AddUpdate` |
| `runCallbacks` | `Report` |
| `register` | `Register`, `GetOrAdd`, `RegisterInit`, `RegisterFind`, `RegisterUpdate`, `RegisterGraft`, `Return` |
| `unregister` | `Unregister` (the registry), `UnregisterRoot` (the rest, under the lock) |
| `close` | `Close` |
| the file system, and the events it leaves in the keys | `Create`, `Modify`, `Delete` |

`rootDirectories` maps each root to its tree, and a tree maps directories to the
numbers of their keys. `keys` holds every key that was ever created: whether its
directory still is the one it was created for (`valid`), whether it was cancelled
(`open`), and its events, up to `MaxEvents` before they are replaced by an
overflow. A directory enters a tree in two steps, its key first and its listing
second, and `scan` is the part of a tree that is being built. The locks are in
the guards: the loop thread holds that of `rootDirectories` from `Look` to
`Report`, a first registration while it builds a root, and a scan holds that of
the cached directory. `known` is what an observer knows that lists what it
registers and looks at each path it is told of.

A tree changes in one step (`Graft`, `Act`), at whose end its lock is released; the keys
of what it lost are then closed one by one (`closing`, per thread), while the other thread
may scan: the loop thread closes keys under the lock of `rootDirectories`, which the scan
of `register` does not take (NioPathWatcher.java:205), and `register` closes its keys with
no lock at all. A key that waits for this is still in `watchedDirectoriesByPath`, so a scan
may get it for a directory that has come back, put it into the tree, and see it closed.
`reused` are the directories to which that has happened. Nothing is heard any more of what
is in them, and `NothingMissed`, `CatchesUp` and `TreesHoldOpenKeys` leave them out; that
they cannot do without is `NothingMissedAtAll` and `AllTreesHoldOpenKeys` (see
"Departures").

Simplified: to close a key is one step, although `close` takes it out of the map before it
cancels it; what is in a new directory is listed with the swap of the tree (`Announced`),
not one directory after the other; `unregister` closes its keys in one step, because the
loop thread waits for the lock that it holds and the thread that registers is the one that
unregisters; events are taken from the keys one by one and in any order of keys,
where the code takes all that a key has; a path is a directory or a file for
good; one thread calls `register` and `unregister`; roots are never deleted, so
`findOrAddRoot` never has to climb and `update` never catches a
`NoSuchFileException`. The guard of `Register` sees to that for the roots of calls.
For those that the loop thread adds, once `unregister` has dropped a root,
`RootAssumption` does: where `unregister` is called, directories that come and go lie
directly below permanent ones, and permanent ones form at most two levels. With
`MaxUnregister = 0` it asks for nothing, because then the loop thread always finds a
root: this is proved (`LoopAddsRoots`).

### FileEventMonitor and MacOSXWatchService

`streams` is `stream_handles` of the native code. `CreateStream` is `startStream`:
the first stream whose path starts the new one *as a string*, or a new stream, or
none when the system fails to start it. `SameStart` are the pairs of siblings whose
strings start one another. `StopStreams` only queues; `Cleanup`, of the run loop,
stops what was queued and what others cover, and reports each as a drop.
`callbacks` is the queue of the callback thread.

| Code | Action |
|---|---|
| `register`: `isOpen`, before the lock | `Register` |
| `register`, under the lock | `RegisterLocked`, `RegisterFails` |
| `dropEvent`, and `onFileEvent` up to its keys | `NextCallback` |
| `addEvent`, for one key | `AddEvent` |
| `addOverflow`, for one key: the event, the count, the signal | `AddOverflow`, three times |
| the consumer: `take` or `poll` | `Take` |
| `pollEvents`: the count, the events | `PollCount`, `PollEvents` |
| `close` | `BeginClose`, `StopAll`, `ClearAll`, `StopMonitor`, `EndClose` |
| the file system and FSEvents | `Change` |

`behind` are the reported changes of which the consumer has not been told, `thrown` and
`skipped` that one of the two things has happened that lose some.

### ApplePathWatcher

| Code | Action |
|---|---|
| `register`: up to `find`; `find`; `addDirectory` | `Register`, `Find`, `AddDirectory` |
| `register`: `createStream`, and its two failures | `CreateAppleStream`, `CreateThrows` |
| `removeRedundantStreams`, under the lock of the streams | `RemoveRedundantStreams` |
| `register`: `put` | `PutStream` |
| `unregister`: registry, map, monitor | `Unregister`, `RemoveStream`, `StopStream` |
| `close`: flag, `clear`, monitor | `BeginClose`, `ClearStreams`, `StopMonitor` |
| the callback for an event: flag and look, `accept`, `onNext` | `NextCallback`, `Accept`, `Tell` |
| the callback for a stream that was dropped | `NextCallback` |
| the file system and FSEvents; the run loop | `Change`; `RunLoop` |

No lock is held from one of these steps to the next. `managed` says whether the
registry is that of a repository (`readOnlyDirectoryRegistry`): the repository adds
and removes paths itself, and `addDirectory` and `removeDirectory` of the watcher do
nothing. `believed` is what an observer knows that looks at each event's path as the
watcher did; `due` are the files that changed below a path whose `register` had
returned, and that the registry accepted ever since; `surplus` counts the events that
an observer got though their path was not accepted any more. The kinds of events are
left out: `PathWatcher` promises them as best effort, and an event whose merged flags
say "created" and "removed" is a Delete, whatever is there
(`apple/FileEvent.java:31-33`, ApplePathWatcher.java:272-278).

### SimpleFileTreeView

The recursion of `Lister` is a stack of frames, one per call of `fillResults`; the
steps of a frame are its listing (`ListDirectory`), each subdirectory, the files, and
each link. `visited` holds real directories: `impl` adds the path it lists, which is
of use only when it is a real path, and the target of a link it follows, and every
call that returns clears the set. `KindOf` is `getSymbolicLinkTargetKind`, with its
exceptions. The file systems are given as a set, one is chosen at first, and
directories are deleted from it between any two steps.

## Runs

| Run | Checks | Shows |
|---|---|---|
| `DirectoryRegistry` | `TypeOK`, `AcceptMatchesMaxDepth`, `AcceptedIsReachable`, `AddNeverNarrows` | the answers of the registry agree, for every map from four paths to four depths and a 3 bit int |
| `TreeOneRoot` | `TypeOK`, `RegisteredIsCached`, `ObserversInStep`, `Settles` | with one registration and one watcher thread the cache has what is registered, at rest and in the end, and observers are in step with it at every moment |
| `TreeRoots` | `FoundExists`, `EntriesMatch`, `CachedUnlessPending`, `RootsAreWanted` | two registrations of any depth above one another, an unregistration, two watcher threads and rescans: no gap in what registrations cover, no ghost and no stale entry but of a path of which the older of two events was handled last, and unregister drops exactly the roots that nothing covers |
| `PollingPathWatcher` | `NothingMissed`, `CatchesUp` | no creation and no modification goes unreported while `register` races with polls |
| `Callbacks` | `TypeOK`, `AtMostOneLate`, `ToldOnce`, `RemovedIsSilent`, `InOrderUnlessCrowded`, `ImplementsPool`, `EveryEventIsTold` | the executor runs each task once, forgets none and starts at most one after close; observers are called once per callback, in order unless the heap is crowded, for every event, and not after they were removed but for the call under way |
| `SymlinkWatcher` | `RemovedFallsSilent`, `HeldLinksAreTold` | a removed link is reported once more at most, the links that the map holds are told |
| `NioPathWatcher` | `TypeOK`, `NothingMissed`, `NoKeyLeaks`, `CatchesUp` | what appears in a directory before it has a watch key is told all the same, unless the directory got a key that the other thread was about to close; what is gone keeps no key; the loop thread and `register`, which wait for each other's locks, come to an end |
| `NioKeys` | `TreesHoldOpenKeys` | registrations, unregistrations, overflows and failing listings put no closed key into a tree, with the same exception |
| `Locks` | `TypeOK`, `OnlyLinksDeadlock`, `CallsReturn` | locks are given back as often as they were got, whatever times out; the order of `links` and `tree` is the only one that is reversed; every call returns, by the timeouts |
| `MacOSXWatchService` | `TypeOK`, `NothingMissed`, `StreamsCover`, `EveryChangeIsTold` | what a stream reports reaches the consumer through a bounded queue that is emptied while it is filled; a stream is left for every registered path |
| `ApplePathWatcher` | `LastEventIsTrue`, `StreamsMatch`, `SilentAfterUnregister` | no change falls between two streams when one takes the place of another, if streams have no latency; each stream keeps an entry that stops it; what is unregistered or closed falls silent but for one event |
| `SimpleFileTreeView` | `Complete`, `LoopsAreCut` | no directory is left out for a loop that is none or for a directory that goes meanwhile; simple loops are cut |

Bounds. The tree runs on a chain `a`, `a/b`, `a/b/c`, the shortest on which a
path, its parent and its grandparent come and go independently: a rescan of `a`
meets a directory whose entries change, and a root can lie above, at and below
another. Depths are 0, 1 and "no limit", which the chain tells apart (-1 is added
where a departure needs it). With one registration, five changes of the file system
build the chain, tear it down and build part of it again, starting from any file
system on it; `TreeRoots` does so with three. Two registrations make
every pair of roots; two watcher threads make every order of two looks and their
handling, at different paths or at the same one, and they are interchangeable
(`Watchers` is their symmetry). The
registry has a sibling besides a chain of three. A width of 3 bits makes
`maxDepth + 1` overflow at a depth that the runs reach. The polling watcher has a
directory and a file, two changes and two registrations: one to be polled while
the other is added. The executor has three tasks, the least with which a heap of
equal elements reorders. Links are three, two of them sharing a target.
The watcher over watch keys has three levels of directories, so that a scan finds
a directory in a new directory, and four changes: create both, create a file,
delete it; or create and delete a directory twice. It registers with no limit of depth,
so that all three levels are watched; `NioKeys` registers with depth 0 on two levels and
trades depth for two registrations and two unregistrations, with keys that overflow at
their second event.
`Callbacks` has three events of two callbacks, two threads and one
observer: threads overtake one another, and the heap gets crowded. `Locks` nests calls
up to the depth at which a link that is added reports into the tree and removes a link
there; with the two loop threads, the callback thread and a user every pair of locks
is asked for by two threads at once. `MacOSXWatchService` has a directory, two of its
subdirectories, one of whose names starts the other's, two registrations and queues of
two; a third change overflows them. `ApplePathWatcher` has a directory and two of its
subdirectories, two registrations, so that each way in which one of two streams covers
the other occurs, and a file that changes twice, so that what was seen can be out of
date when it is told. `SimpleFileTreeView` has all links among three
directories, two of them nested, some thousand file systems, and depths -1 to 2 and
"no limit"; a path may pass two links before the system refuses it, so that a loop that
is not cut ends all the same.
`CHECK_DEADLOCK FALSE` is in the cfgs of systems that stop: the budgets run out, a
closed executor or an idle repository does nothing, a listing is over. `Locks` has no
budget, and TLC checks that it never stops.

`Quiescent` and `UpToDate`. `FileTreeRepository.java:27-29` promises a mirror
"once the file system activity settles down". The invariants are therefore about
states in which no notification, event or call is under way; `Settles` and
`CatchesUp` add that such states are reached.

Fairness. `FileCacheDirectoryTree`: weak fairness of each watcher thread (`HandleEvent`),
of the look at each path that has a notification, by some watcher thread (`Stat`), and of
a call of register or unregister that has begun.
`PollingPathWatcher`: of the polling thread and of a register that has begun.
`Executor` (in `FairSpec`): of the worker and of calls that have begun.
`Callbacks`: of the worker, whose callbacks return, and of a thread that has callbacks
to submit; not of close, and not of threads that might have events.
`Locks`: of every thread inside a call; that a timeout comes is part of that, and is
what `tryLock(1, TimeUnit.MINUTES)` gives. Threads inside a user's callback are fair
too: a callback that never returns is the user's.
`MacOSXWatchService`: of the callback thread and of the consumer, which is the loop of
`NioPathWatcherService`; not of the run loop.
`NioPathWatcher` (in `FairSpec`): of the loop thread, of a call that has begun, both
with the keys that they have to close, and of the scan that either of them runs. These are
threads that the code starts and that the JVM schedules; nothing is assumed of
the user (no call has to come) and nothing of the file system (no change has to
come).

## Proofs

The first part of `PollingPathWatcherProofs` is about the registry alone. It proves, for
every set of paths, every set of depths within -1..`MaxInt` and every `MaxInt` above zero:

* `RegistryTypeCorrect`: `Spec => []TypeOK`.
* `AcceptAgreesWithMaxDepth`: a path is accepted exactly when `maxDepthFor`
  leaves it at least -1.
* `AcceptedPathsAreReachable`: an accepted path has no refused ancestor.
* `RegisteringNeverNarrows`: no step that keeps all registrations drops a path.

The assumption is `RegistryAssumption`: a path has no more names than an int can
count, and callers pass -1 or more. `TypeOK` is inductive and all the others need
of the state, so they are lemmas on states (`AcceptMatches`, `PrefixOfAccepted`)
or steps (`AddStepNeverNarrows`) that hold wherever `TypeOK` does. The argument
of the second theorem is that no sum or difference leaves the range of an int:
`NoOverflow` (a depth of at least -1 minus a distance of at most `MaxInt` is at
least `MinInt`) and `CoversMeansLevelLeft` (`compMaxDepth` is `maxDepth + 1`
except at `MaxInt`, where no path is further away than the depth allows).
`MaxDepthForIsLargest` shows that the maximum that the loop computes exists: the
depths form a finite set of integers. The third rests on `PrefixesAreOrdered`:
two prefixes of one path are prefixes of one another.

The second part is about the watcher, for every file system and any number of users and
changes (`PollingAssumption`: a path has a name, and its parent is a path).
`PollingUsesRegistry` is `PollingSpec => Spec`: what the watcher does to its registry is
what the registry allows, so that the theorems of the first part hold inside of it.
`PollingMissesNothing` is `PollingSpec => []NothingMissed`. `register` and the poll write `oldEntries` under different
monitors, and each overwrites what the other has just put there, so that no invariant
about `oldEntries` alone is inductive. What saves the watcher is that last modified
times do not come back: whatever a listing says of a path is either what is there or
out of date for ever. `PollInv` therefore says only that an entry which agrees with the
file system is known (`KnownInStep`), where the entries are those that the next poll
will compare with; and that all listings hold times up to the clock. `ChangeKeeps` is the
step in which entries go out of date.

`FileCacheDirectoryTreeProofs` is about the cache, for every set of paths, contents and
depths, any number of users, calls, changes and watcher threads. It proves:

* `TreeTypeCorrect`: `Spec => []TypeOK`.
* `TreeUsesRegistry`: `Spec => Registry!Spec`, so that what is proved of the registry
  holds of the one inside the cache.
* `ObserversStayInStep`: `[]ObserversInStep` for every behaviour of `Spec` in which a path
  that is registered lies apart from all that are (neither at, above nor below one) and
  nothing is unregistered (`[][UsedApart]_vars`), without rescans. `OneRootStaysInStep`:
  with one registration and no unregistration that is all behaviours.
* `RootsStayWanted`: `Spec => []RootsAreWanted` for one user and at most one
  unregistration, whatever lies above what. `RootsApartStayWanted`: for one user and any
  number of them, where what is registered lies apart.
* `FoundExistsApart`: `[]FoundExists` for every behaviour of `Spec` in which what is
  registered lies apart from all that is (`[][RegistersApart]_vars`), with depths of 0 or
  more. It says nothing of a repository where something was unregistered, nor of a path of
  which an older event was handled last; users, changes, and watcher threads that hold
  events of the same or of other paths may be as many as they like, rescans may be on, and
  files and directories may take one another's place.
* `EntriesMatchApart`: `[]EntriesMatch` under the same hypotheses, where in addition no
  path that is gone comes back before the event of that was handled (`~SwapsKinds`), nor
  ever if events of it were handled in the wrong order (`[][GoneForGood]_vars`): the ghost
  of such a path may be of another kind than what is put there, or below it, later.
* `CachedUnlessPendingApart`: `[]CachedUnlessPending` under the hypotheses of
  `EntriesMatchApart`, without the exception that it makes: whatever exists and is
  registered is shown once all is quiet (`RegisteredIsShown`), also below a path that was
  missing when it was registered. So that exception is one for nested registrations alone.
* `RegisteredIsCachedApart`: `[]RegisteredIsCached` where nothing is ever unregistered and
  one thread looks at paths and handles what it saw (`OneWatcher`), under the same
  hypotheses otherwise, of which `GoneForGood` then holds by itself (`OneIsInOrder`).
  `OneRootIsCached`: with one registration that is all behaviours.

`TypeOK` is not inductive: how deep a new directory becomes depends on the one that it is
hung under. `WellFormed` says of a tree that everything in it lies below the root
(`Rooted`), that whatever lies between the root and an entry is a directory that has
entries (`Supported`), and that a directory is as deep as its distance from the root
leaves it, or a leaf (`Levelled`). Each operation of `CachedDirectoryImpl` has a lemma that
it gives a well-formed tree and tells exactly what it changed (`Keeps`): what is found
afterwards is what was found before, with what was created and updated and without what
was deleted, and all of that lies below the root. `UpdateKeeps` and `RemoveKeeps` are the
two that the cache calls; `ClearedIsWellFormed` is for the rescan that throws, which tells
nothing (Departures). `Typed` is that all trees are well formed, that the disk is a file
system, and that calls and events have their form. What `init` reads is a set, the
directories with nothing but directories to read between them and the root, so that
none of this needs induction over the tree. The assumptions are `PathAssumption` (a path
has a name, no more than an int can count, and what it lies in is a path too) and
`TreeAssumption` (callers pass -1 or more; the bounds are numbers).

For the observers, `Apart` adds that roots lie apart, that what a call is about to fill is
neither cached nor pending, and that calls under way are apart from one another, so that
`Fill` never meets an existing root and each event reaches one tree. That is the only way
an update goes untold (see Departures); everything else is told by `Keeps`.

For the roots, the point is the lock: `addDirectory` comes before it, so a root may be
filled for a path that was unregistered meanwhile, unless the same thread does both.
`RootsInv` says that every root is registered or pending and, once there was an unregister,
at least covered. The second bound is sharp: two calls of `unregister` can leave a root
behind (Departures).

`FoundExists` and `EntriesMatch` speak of a moment when all is quiet, and what they say
is false at others. The invariants say instead who still knows of what is wrong.
`GoneIsKnown`: when a path that is found is gone, the watcher has still to see that, or
an event of it is on its way (the path is `Due`), or events of it were handled in the wrong
order (together `Doubtful`). A step keeps that because whatever can be found is
watched (`FoundIsWatched`), which needs that what is registered lies apart and is
watched unless its call is about to see to it (`Located`, `Watches`), that no root goes
deeper than its registration (`Limited`), and that an event which tells an older state
has something behind it (`Noticed`): another notification if it is the newest look at its
path, and otherwise a thread that holds a newer one, or held one and was faster, and then
the path is `overtaken`. `Informed` is all five, and
`AlwaysInformed` is the induction. `Shown` says the same of kinds: an entry does not
match the disk only if a notification or an event of its path is to come (`EntriesFit`),
and what was seen is not of another kind than what is there now, nor than what another
thread saw (`SeenAlike`), which is what `~SwapsKinds` is for. That no event leaves a wrong entry
behind is a property of the operations on trees: `UpdateFinds` and `UpdateShows` say that
what `update` puts into a tree was read from the disk in that step, except at the path
of the event, where it is what the event saw; `RemoveShows`, `ScanShows` and `NewShows`
say it of the others. Of depths of -1 `FoundExists` does not hold (Departures).

`CachedUnlessPending` and `RegisteredIsCached` say that nothing is missing. The invariant
behind them, `Complete`, again says who still knows of what is. `TreesAreFull`: a root is as
deep as its registration unless it is no directory, each directory below it has exactly
the depth that its distance leaves it (`Exact`), and whatever exists, is registered and
has room in the tree is in it, as a directory with entries where it is one, unless a
notification or an event of its path is to come. `PendingAreKnown`: a registration without
a root is one whose call is under way, or it waits in `pendingFiles` for a path that does
not exist or is about to be noticed. A step keeps that because of three facts about the
watcher: what lies above a watched path is watched if it is registered (`WatchedAbove`);
what was seen to be gone does not come back before that is handled (`GoneStaysGone`, which
is `~SwapsKinds`: an older event of a deletion would otherwise drop a directory whose
contents no event names again); and with one watcher thread, whatever lies above the path
of the event is a directory, or its removal is noticed (`AboveIsThere`). The last one is
what `OneWatcher` is for: an entry whose directory has gone is filed by its whole
path and cannot be found by its name, and with one thread the removal of that
entry is still to be handled. `GoneForGood` is needed because a root that is gone may stay
in the cache as the file that an overtaken event saw, and a tree below a file has room for
nothing. `Fills` is what the operations on trees have to show:
`UpdateFills`, `DeleteFills`, `ScanFills` and `NewFills` say that each makes room for no more
than it reads in the same step, and `RoomIsReached` that `find` knows the root that has
room for a path. At rest nothing is due; then if a registered path were
missing, the first name on the way to it that has no entry would exist and have room
(`CoveredHasRoom`), which `TreesAreFull` excludes (`WantedIsHeld`).

The first part of `CallbacksProofs` proves, for every set of tasks:

* `ExecutorTypeCorrect`: `Spec => []TypeOK`, which includes that the worker never polls
  an empty queue.
* `ExecutorStops`: `Spec => []AtMostOneLate`.
* `ExecutorImplementsPool`: `Spec => ImplementsPool`.

The assumption is `ExecutorAssumption`: STOP is no task. None of the three is inductive.
`IInv` adds two things. `OnePlace`: a task, or STOP, is being submitted, or in
`consumers`, or in the worker's queue, or running, once and in one of them only, and the
worker takes from `consumers` only when its own queue is empty; without it a task could
be started twice, and `Take`, which makes a new queue, could forget some. `StopPlaced`:
before `consumers` is cleared there is no STOP; afterwards it is at the head of
`consumers`, or at the head of the worker's queue, or was taken, so that only the task
that the worker was about to poll may come before it. The lemmas `OnceAppended`,
`OnceTail`, `OnceJoined`, `OnceRest` and `AddedOnce` say what the operations of the
queues do to the set of their elements; they are proved from positions, without
induction. The implementation is by steps (`PoolStep`): `Offer` is the pool's Submit,
`Poll` its Start, `Finish` its Finish, `CloseSet` its Shut and `CloseClear` its Drop;
taking and draining leave the set of waiting tasks as it is.

The second part proves, for every number of events, threads, observers and callbacks:

* `RepositoryExecutor`: the three above hold under `CallbacksSpec`, the specification of
  the run. Each step of the composition is one of the executor's or leaves it alone
  (`CallbacksStep`), because a thread holds the number of an event (`InHandIsTask`).
* `RemovedObserversAreSilent`: `CallbacksSpec => []RemovedIsSilent`. The inductive
  invariant `CalledOnce` says that an observer which was called after its removal is not
  in the copy that is being called, and new copies hold none that was removed.
* `CallbacksComeInOrder`: `CallbacksSpec => []InOrderUnlessCrowded`. What is in order in
  every state is each of the two queues, and everything in `consumers` comes after what
  the worker holds (`LineInOrder`); and an event that a thread has in its hand is the
  latest that it handled (`HandledInTurn`), which is why an offer keeps the order. The
  worker's heap is asked to keep it for two tasks only (`PollLine`); the third one sets
  `crowded`. The statement joins the pieces into one line.
* `EachCallbackTellsOnce`: `CallbacksSpec => []ToldOnce`. The count of calls is compared
  with how far the task is (`CallsCounted`): an observer was called at most `part` times
  for the event that runs, once less if it is still in the copy, and never for an event
  that has not begun. That needs `IInv` of the executor, each task in one place: a task
  that ran twice would tell everything twice. `OccurrencesAppended` counts the positions
  of a sequence after an append, without induction.

The assumptions are `ExecutorAssumption` and `CallbacksAssumption`: the events are
numbered from one.

`LocksProofs` proves, for any set of threads, finite or not, any `CallbackCalls` and
every bound on the length of a program:

* `LocksExclude`: `Spec => []TypeOK`.
* `OnlyLinksReverse`: `Spec => []OnlyLinksDeadlock`.

`LocksInv` says of the steps that a thread has still to do that they are `Proper`: from
each of them on no lock is taken that is not released; those that are skipped when a
lock is not got are balanced; and a lock of `roots` or `inner` that is held is
released by the next step. This is a property of every suffix, so that it is inductive:
taking the first step away (`AfterFirst`), skipping (`TimeOutKeeps`) and putting a
called method in front (`JoinedIsProper`) keep it. Every method is shown to be proper and
balanced by reading it backwards (`LeftBefore...`, `BodyIsWhole`). For the deadlock
`LeafIsFree` and `WaitsForTreeOrLinks` leave `tree` and `links` as the only locks for
which one may wait and be waited for; of two that one holds the other (`tree`, then
`links`, and the reverse) a circle of waiting threads, followed for four steps, has both
orders in it, or someone in `await`. The assumption is `LocksAssumption`: callbacks call
methods of the repository.

`SymlinkWatcherProofs` proves, for every set of paths and links:

* `OnlyMonitoredLinksAreHeld`: `Spec => []OnlyMonitored`: the map keeps no target without
  links, and no link that was removed or lost its target, wherever the links point. (No
  run has it.) What has to be added is that a link is held by its own target only
  (`LinksByTarget`): otherwise a target that is dropped could leave a link of its own
  behind, with another.
* `RemovedLinksFallSilent`: `Spec => []RemovedFallsSilent`, likewise for all links. It
  rests on `LinksByTarget`, by which what the observer looks up is monitored, and on
  `Silence`: a link that the observer has in hand was not reported since its removal.
* `HeldLinksHear`: `Alike => (Spec => []HeldLinksAreTold)`. `Alike` has two parts, and
  the code needs both (Departures): `TargetsAreApart`, no target below another, because
  `find` stops at the nearest target; and `DepthsAgree`, links of one target are added
  with one depth, because `addSymlink` registers a target with the depth of its first
  link only. The run has three links of two such targets.

The third rests on `ToldInv`. `TargetsRegistered`: every target of the map is registered,
with the depth of its links. `MissedIsPending`: a link that is held and has missed a
change has an event under way that will reach it, one that the inner watcher has still
to report, or one whose links the observer has read while this link was among them.
What makes it inductive is `HeldOrRefused`: a link that was added is in the entry of its
target whenever the map has one. A target that leaves the map stays registered, so that
`register` refuses it from then on and the map has no entry of it again
(`OnlyNewTargetsExtend`); an entry can therefore not come back under a link that missed
a change in between. `TargetIsFound` is where the first part of `Alike` is needed, and
`TargetsRegistered` where the second is. The assumption is `SymlinkAssumption`: depths
are -1 or more, and no path has more names than an int can count.

`MacOSXWatchServiceProofs` proves, for every set of directories and paths, every size of
the queues and any number of registrations and changes:

* `EveryPathIsCovered`: `Spec => []StreamsCover`. The heart is `OneIsKept`: the run loop
  drops all redundant streams at once, and of those that cover a path one is covered by
  no other, so that it stays. For each stream take the set of streams above it; these
  sets are finite, so one of them has no strict subset among the others, and its stream
  is not redundant, provided that no two streams are for the same path (`StreamsTyped`).
  The invariant `CoverInv` adds that only close stops streams.
* `KeysStayInBounds`: `Spec => []TypeOK`.
* `ReportedIsDelivered`: `Spec => []NothingMissed`.

The last two rest on `ServiceInv`. `Signalling` is what the order of the steps in
`addEvent`, `addOverflow` and `pollEvents` is for: a key that has something to tell is
ready, or in the hand of a consumer who has not passed the place where it would see it,
or the callback thread is about to signal it. `NothingMissed` is not inductive: the
callback thread has a report, and when its task ends some key must have taken it over,
but a key that is being emptied loses what it had. So `Delivered` says of every change
that is behind who has it: the queue of callbacks, the task, or one key that will tell
*by itself* (`WithKey`) - with the count that is in hand, or with what it still holds and
a place in `readyKeys`; and of a scan that has put its overflow into a key, that it needs
its task no more (`Settled`). `GrowingKeeps` then covers every step that only adds to
keys, and what is left is `Take`, the two halves of `pollEvents`, and the last step of a
task. `Targets` is where it matters that a registered path of an open service has a
key.

The assumptions are `StringAssumption`, that one string starts another is a partial
order, which `SameStart` has to respect, and `ServiceAssumption`: queues hold at least
one event, and no path that changes is the root of the file system.

`NioPathWatcherProofs` proves, for every tree of directories, every size of the queues
and any number of calls and changes:

* `OneKeyPerDirectory`: `Spec => []KeysMatch`. A directory has at most one open key, and
  `watchedDirectoriesByPath` holds exactly the open ones. With the types of the keys
  this is inductive (`KeysInv`): events and deletions leave paths and openness alone
  (`SameKeysMatch`), a new key is for a directory that has none (`RegisterKeeps`), and
  closed keys are forgotten in the same step (`CloseKeysKeeps`).
* `NioTypeCorrect`: `Spec => []TypeOK`, which adds the trees.
* `HeldKeysOpen`: `Spec /\ []RootsApart => []TreesHoldOpenKeys`, for as long as no root lies
  above another (`RootsApart`; the code needs that, see Departures). `TopKeysOpen` draws
  from it that `TreesHoldOpenKeys` always holds where the permanent directories are
  topmost ones, as in the runs. Both leave out `reused` directories: a tree may hold a
  closed key of those, and of no others.

The trees are the harder part: what a scan has found is put into a tree many steps
after the scan began, when others may have cut the tree or replaced its root. `TreesInv`
says of each entry that it holds the directory's own key (`KeysOfDirs`), of the root of
an update that it is still a root (`ScanRooted`), of a root that `register` has found that
no root of the loop thread takes its place (`CallTyped`, `FoundRootStays`), and of what an
event or an overflow can cut that it is never the root itself (`EventsMatch`: only paths
that can go are reported). That the loop thread makes no root of its own unless
`unregister` dropped one needs `AllCovered`: each key, and the event in hand, lies below a
root or below the one that is being added. `FirstIsToAdd` and `LastIsThere` show that the
two CHOOSEs of the model, the first directory that is missing on the way to a path and
the nearest one above it, always choose something, and what. For `TreesHoldOpenKeys` the
invariant is `OpenInv`: trees and the scan under way hold `Sound` keys, which are open and
which nobody is about to close, or are those of a `reused` directory. The point is that
what an update is going to close, it has not found again, that each of these is the key of
one directory only (`KeysOfDirs` once more), that no other tree has that directory
(`TreesApart`), and that a scan which gets such a key afterwards makes its directory
`reused`.

`KeysDoNotLeak` is `[]NoKeyLeaks` for the constants with which no departure leaves a key
behind (`Undisturbed`): queues have room for all changes, nothing is unregistered, no
directory goes while it is added, and only topmost directories are permanent. Trees of
directories, registrations and changes are any, and a directory goes and comes back
while its events wait. The invariant is `ScanHolds`: an open key is that of a tree, of
the scan under way, or of what a thread is about to close (`KeysHeld`); what a scan has
found so far, it has found with the key that the map of the service holds
(`FoundMatches`), so that the tree that it replaces has the same key for the same directory
and what is to be closed after `Graft` is exactly what is not found again; what it has found
is still there when it is listed, or its key is a tree's or about to be closed
(`FoundStays`); a new root takes the place of none (`RootIsNew`); and a thread has closed
its keys before it comes to its next tree (`ClosingOrder`). `NoneOverflows` counts: no queue is
longer than the number of changes so far.

The last part proves `[]NothingMissed` for constants as in `KeysDoNotLeak` and at most one
call of `register` (a second one may leave paths untold, see Departures), for every tree
of directories and any number of changes: `NothingIsMissed`, for behaviours in which the
loop thread handles no event while `register` scans (`[]NotBoth`), and
`NothingIsMissedBelow`, for all behaviours, where whatever comes and goes is directly
below directories that stay (`OneLevel`). Where neither is given it does not hold
(Departures). `NothingMissed` leaves out what is in `reused` directories;
`NothingIsMissedAtAll` is without that exception, for behaviours in which the loop thread
handles no event while `register` scans or closes keys (`[]NotBoth`, `[]NotWhileClosing`),
because then there are no such directories.
The invariant is `MissInv`. `Growth` says how trees grow: what exists has directories above it
(`Files`), at most one path is registered and what is monitored is below it (`OneCall`), a scan
goes downwards (`ScanOrder`), a tree that holds a directory holds the one above
(`TreesClosed`), and nothing else than what is wanted or on the way there is in a tree
(`AllWanted`), which is why no event of a tree is filtered out. `Arrival` says what is still
to come. A directory whose key is dead, in a tree or in a scan, is `Doomed`: the event of
its deletion, or of that of a directory above it, waits or is in the hand of the loop
thread, which will therefore take it out (`StaleDoomed`), or it is `reused` or below such a
directory (`Lost`), of which nothing is promised; a scan could otherwise find it
"there already" with its dead key when it comes back. What the loop thread is about to
add is there, or its deletion still waits (`TodoStays`), and this is the part that breaks
when `register` brings a directory into the tree meanwhile. A directory that exists and
is wanted, in one whose key lives, has a live key too, or is doomed, or an event about it
waits, or it is about to be added, or the update under way began above it (`Coming`); the
same holds within a scan (`ScanComing`), and for what came just after the loop thread had
looked for it (`LookedAway`). A monitored path that exists in a directory whose key lives
is known as it is, or an event about it waits, or the loop thread has it on its list, or
the directory is doomed (`Told`). Once all is handled nothing of that waits, so that all
directories above a monitored path have live keys, from the root down (`AboveLives`), and
the path is known (`MissFollows`).

The assumptions are `NioAssumption`; `DepthAssumption`, that depths are ints and at least
-1; `PathAssumption`, that what is above a path is a directory, permanent if the path is;
and `RootAssumption` (see the section on the module).

`ApplePathWatcherProofs` proves `UnregisteredIsSilent`, `Spec => []SilentAfterUnregister`,
for every set of directories, files and users, every choice of depths, with a registry
of the watcher's own and with that of a repository: however streams are shared, replaced
or left behind, and whatever the system reports after them, at most the one event that
the callback thread has in its hand is told after unregister or close. The invariant
`SilentInv` is about that thread (`OneUnderWay`): once such an event was told, the thread
rests, or it has still to ask the registry, or what it asked for is accepted now. A
register in between must not disturb the last case; `PutGrows` shows that `addDirectory`
takes no path away, which needs that `compMaxDepth` grows with the depth in int
arithmetic. The rest of `SilentInv` (`Typed`) says that calls and streams hold
directories of the model, so that the registry is never given anything else. The
assumption is `WatcherAssumption`, which says of depths and lengths of paths what
`SymlinkAssumption` does.

Its second part proves `LastEventStaysTrue` and `StreamsStayMatched`: `[]LastEventIsTrue`
and `[]StreamsMatch` for every behaviour of `Spec` in which calls of `register` come one
after the other (`[][OneByOne]_vars`), where no name starts another (`SameStart = {}`).
`OneUserIsTold`: with one user that is all behaviours; `RepositoryIsTold`: in a repository
as well, for any number of users, because it holds the lock of its tree while it
registers. Without that, or where names start one another, `LastEventIsTrue` does not
hold (Departures). Both properties are about what happens until something is
unregistered.

The invariant is `Told`. `Held` are the paths that have an entry, or will have one because
their stream was created; `Linked` says how streams and entries hang together while
`register`, the run loop and the callback thread drop both behind one another's back. A
stream has its entry, or will have it, or was stopped because a path that is held covers
it (`StreamsAreKnown`); an entry has its stream, or the callback thread has still to learn
that it went (`EntriesLive`); a stream that went is covered by a path that is held, and
its path gets none again (`DropsAreCovered`); and `register` makes a stream only where
none is (`CallsAreNew`), so that the one it made is neither redundant nor stopped before
it has its entry. Each step keeps covered what was (`HeldStays`). A file that is due then
has a stream above it at every moment: of the held paths above it the shortest is covered
by no other, so that its stream is there (`StreamIsAbove`). So each change is queued, and
`DueIsKnown` follows the last one through the callback thread: an event waits, or else the
one in hand says what is there, or else the one told last does.

Only model-checked: everything else. Liveness (`Settles`, `CatchesUp`, `CallsReturn`,
`EveryEventIsTold`, `EveryChangeIsTold`) is beyond the proof system, as is induction over
data: `PathsBelow` of `SimpleFileTreeView` is recursive, so that `Complete` and
`LoopsAreCut` stay with TLC. Of `FileCacheDirectoryTree`, `FoundExists`, `EntriesMatch`
and `CachedUnlessPending` are with TLC where registrations lie above one another: a path
then has entries in several trees and an event reaches one of them. The run of
`NioPathWatcher` has no `NotBoth`, and directories on two levels: its bounds are too small
for the departure that `NothingIsMissed` excludes.

## Departures

The following does not hold of the code, and is the reason for the restrictions in
the passing runs. Each is reproduced by the named property, which is in the run's
module, with the named constants (others as in the run in the last column). That takes
seconds or a few minutes, but for `NothingMissed` with `MaxChanges = 8`, which needs some
forty million states.

| Property | Constants | What happens | Source | Run |
|---|---|---|---|---|
| `RegisteredIsCached` | `MaxRegister = 2`, `MaxChanges = 3` | a path that is registered before it exists is never cached when another root is above it | FileCacheDirectoryTree.java:310 | `TreeOneRoot` |
| `RegisteredIsCached` | `Watcher = {w1, w2}` | what one thread saw of a path is handled after the directory above has gone, has come back as a file, and both were handled by another thread: the entry of that file is filed under its full path and not found by its name any more | CachedDirectoryImpl.java:297 | `TreeOneRoot` |
| `FoundExistsInAnyOrder` | | two threads hold events of one path, and the older one is handled last: the path is gone and stays in the cache | FileCacheDirectoryTree.java:286 | `TreeRoots` |
| `RegisteredIsCached` | `MaxChanges = 0`, `Depth <- Unlimited` | unregistering a path whose root absorbed another drops what is still registered | FileCacheDirectoryTree.java:221 | `TreeRoots` |
| `RootsAreWanted` | `MaxUnregister = 2`, `MaxChanges = 0` | a root that was kept at its unregister, because a wider registration covered it, outlives that registration | FileCacheDirectoryTree.java:217 | `TreeRoots` |
| `RootsAreWanted` | `User = {u1, u2}`, `MaxRegister = 1`, `MaxChanges = 0` | an unregister between addDirectory and the lock leaves a root that nothing registers | FileCacheDirectoryTree.java:433 | `TreeRoots` |
| `ClosedIsEmpty` | `MaxChanges = 0`, `MaxRegister = 1` | a register that waits for the lock fills the cache after close | FileCacheDirectoryTree.java:433 | `TreeRoots` |
| `ObserversInStep` | `MaxRegister = 2` | register below a cached root updates it and drops the list of what changed | FileCacheDirectoryTree.java:476 | `TreeOneRoot` |
| `ObserversInStep` | `RescanOnDirectoryUpdate = TRUE` | a rescan of a root that is gone clears its maps before it fails, and nothing is reported | CachedDirectoryImpl.java:563 | `TreeOneRoot` |
| `EntriesMatch` | `SwapsKinds = TRUE` | a path that changes between file and directory has two entries | CachedDirectoryImpl.java:393 | `TreeOneRoot` |
| `EntriesMatchInAllRoots` | `MaxRegister = 2` | a path below two roots is updated in the deeper one only | FileCacheDirectoryTree.java:295 | `TreeOneRoot` |
| `FoundExists` | `Depth <- AnyDepth` | a missing path registered with depth -1 is cached as if it existed | FileCacheDirectoryTree.java:466 | `TreeOneRoot` |
| `RegisteredExists` | | an event that was seen before unregister is handled after the next register: what it saw is cached for good | FileCacheDirectoryTree.java:294 | `TreeRoots` |
| `ListedExists` | | an entry that was filed under its full path is not found by a deletion, and is listed for ever | CachedDirectoryImpl.java:297 | `TreeOneRoot` |
| `UnregisteredIsForgotten` | | `unregister` leaves the path in `pendingFiles`, and its next event caches it again | FileCacheDirectoryTree.java:310 | `TreeRoots` |
| `LastToldIsCurrent` | `Task = {1, 2}` | two threads submit their callbacks in another order than they handled their events: an observer is told last of an older state | FileCacheDirectoryTree.java:370 | `Callbacks` |
| `LastToldIsCurrent` | `Thread = {w1}` | the same with one thread: three tasks of equal priority leave the heap in another order | Executor.java:61 | `Callbacks` |
| `EveryTaskRuns` | module `Executor`, `SPECIFICATION FairSpec` | tasks of equal priority overtake one another in the heap, and with a steady flow of them one may never run | Executor.java:60 | `Callbacks` |
| `NoDeadlock` | | a link is added under the lock of the links, and the watcher reports into the tree; the tree removes a link under its own lock. close waits, with the lock of the tree, for a callback that waits for it | SymlinkWatcher.java:206 | `Locks` |
| `DeletionsHappened` | `MaxChanges = 0`, `MaxRegister = 1`, `MaxUnregister = 0` | register adds its listing to `oldEntries` before the path is in the registry, and not under the monitor of the poll: a poll that read the registry before reports what is there as deleted, although Delete means "The file was deleted." (PathWatchers.java:186) | PollingPathWatcher.java:70 | `PollingPathWatcher` |
| `NoDeletionMissed` | | a deletion between register and the end of a poll is never reported | PollingPathWatcher.java:181 | `PollingPathWatcher` |
| `LinksAreTold` | `PointsTo <- Nested`, `Link = {k, l}`, `DepthOf <- TwoDepths`, `MaxRemove = 0` | a change below two targets reaches the links of the inner one only | SymlinkWatcher.java:141 | `SymlinkWatcher` |
| `OnlyGoneTargetsAreDropped` | | a target that comes back between `Files.exists` and the lock is forgotten, with the links that were added to it in between | SymlinkWatcher.java:83 | `SymlinkWatcher` |
| `LinksAreTold` | | `remove` leaves the target of the last link registered with the inner watcher, and `addSymlink` takes its answer for nothing to do: a link that comes back is not told | SymlinkWatcher.java:245 | `SymlinkWatcher` |
| `HeldLinksAreTold` | `DepthOf <- MixedDepths`, `MaxRemove = 0` | a link that is added to a target which is in the map already does not register its own, larger depth: what lies between the two is not told, as if `maxDepth` had been that of the first link | SymlinkWatcher.java:212 | `SymlinkWatcher` |
| `HeldLinksAreTold` | `PointsTo <- Nested`, `Link = {k, l}`, `DepthOf <- TwoDepths` | of two targets above one another `find` knows the nearer one only, and the links of the other are held and not told | SymlinkWatcher.java:141 | `SymlinkWatcher` |
| `NothingMissed` | `MaxRegister = 2`, `Depth <- MCDepth` | a second register takes a new directory into the tree and tells nothing; the loop thread then finds nothing new in it | NioPathWatcher.java:205 | `NioPathWatcher` |
| `NothingMissed` | `MaxChanges = 8`, `Content = {"file"}` | register updates a directory while the loop thread handles an older deletion in it: the loop thread then adds a directory that has gone again, with an invalid key; when it comes back it is there already, and what is created in it is not told | NioPathWatcher.java:205 | `NioPathWatcher` |
| `NothingMissedAtAll` | | a directory goes and comes back while `register`, or the loop thread, is about to close its former key, with the lock of the tree released: the other thread gets that key from the map of the service, the directory is in the tree with a key that is then closed, and what is created in it is not told | NioPathWatcher.java:378 | `NioPathWatcher` |
| `AllTreesHoldOpenKeys` | | the same, as seen in the tree | NioPathWatcherService.java:147 | `NioKeys` |
| `NothingMissed`, `NoKeyLeaks` | `MaxEvents <- Tight` | an overflow for a directory that is gone takes it out of its tree and leaves its key, which is handed out when the directory comes back | NioPathWatcher.java:422 | `NioPathWatcher` |
| `NothingMissed`, `NoKeyLeaks` | `DeletesWhatIsScanned = TRUE` | a directory that is deleted between its key and its listing leaves the key behind | CachedDirectoryImpl.java:583 | `NioPathWatcher` |
| `TreesHoldOpenKeys` | `Path <- Nested`, `Dir <- NestedDir`, `Permanent <- NestedDir`, `MaxEvents <- Roomy`, `MaxChanges = 0`, `MaxRegister = 3` | unregister takes any root above the path, in the order of a HashMap: with two it closes keys in the tree of the one, which the tree of the other still holds | NioPathWatcher.java:337 | `NioKeys` |
| `NoKeyLeaks` | `DeletesWhatIsScanned = FALSE`, `MaxEvents <- Roomy` | unregister drops a root and does not close the root's own key | NioPathWatcher.java:354 | `NioKeys` |
| `StreamsAreAbove` | | a path whose name starts with that of a sibling is taken for covered by the sibling's stream, although a stream is for what is below its path (`apple/FileEventMonitors.java:27-31`) | `swoval_apple_file_system.hpp`:87 | `MacOSXWatchService` |
| `NothingSkipped` | `Path <- FarFile`, `Dir <- Far` | a scan (`mustScanSubDirs`) of a directory without a key, nor one of its parent, is dropped, although it is about everything below and a directory down there is registered | MacOSXWatchService.java:92 | `MacOSXWatchService` |
| `LastEventIsTrue` | `User = {u1, u2}` | of two registers of one path, or of nested ones, that share a stream the one that comes last to `removeRedundantStreams` stops it | ApplePathWatcher.java:143 | `ApplePathWatcher` |
| `LastEventIsTrue` | `SameStart <- Siblings`, `Dir <- Apart`, `File <- InBc` | a path whose name starts with that of a sibling has no stream, and its changes are not told | `swoval_apple_file_system.hpp`:87 | `ApplePathWatcher` |
| `LastEventIsAlwaysTrue` | | unregister stops a stream that a register has just been given, or that others share: their changes are not told | ApplePathWatcher.java:162 | `ApplePathWatcher` |
| `StreamsAlwaysMatch` | | createStream returns a stream that is about to be stopped, or the callback for one that was removes the entry of the next: watcher and run loop disagree for good | `swoval_apple_file_system.hpp`:121 | `ApplePathWatcher` |
| `RegistrationsStand` | | register unregisters what is registered below its path, with larger depths as well | ApplePathWatcher.java:143 | `ApplePathWatcher` |
| `AllLoopsAreCut` | | every call of `fillResults` that returns empties the set of visited directories of all the others: beside a second directory or link a loop is followed until the system refuses the path | SimpleFileTreeView.java:142 | `SimpleFileTreeView` |

Clauses of checked properties that are there for the same reason:

* `NothingMissed` of `MacOSXWatchService` says `~thrown`: `addOverflow` throws when the
  queue of a key is full, the overflow is not counted, and the keys after it are not
  told. It says `~skipped` because of the scans of `NothingSkipped`.
* `StreamsCover` says `failures = 0`: a stream that the system does not start is an
  `INVALID` handle that `register` keeps like any other.
* Both say `open`. A register that passed its check before close began adds its key
  after close cleared them, and a consumer that waits in `take` stays there.
* `IsPromised` of `SimpleFileTreeView` leaves out directories in `failed`: a link that
  cannot be resolved ends the listing of its directory, and with `ignoreExceptions` the
  links after it are missing without a sign.
* `CachedUnlessPending` is about what a listing shows (`Visible`); an entry that is
  filed under its full path is not found by its own path.

## Not modelled

* Symbolic links in the tree, `SymlinkFollowingPathWatcher`.
* What a method leaves undone when its lock times out. `Locks` has the timeouts, and
  that every call goes on after them.
* Failing reads other than those of a path that is gone or of another kind; the
  exceptions of `close` (`NioPathWatcherService.java:187`).
* The latency of FSEvents streams, and the start of the run loop.
* `list` with a depth below that of the registry (`FileCacheDirectoryTree.java:576`).
* `ShutdownHooks`: a list of hooks that run once.
* Interfaces and factories without state; logging; `Either` and filters; file and
  platform names (`Platform`, `NativeLoader`); native code behind JNI that lists
  directories.
* `src/files/js/npm/files.js`, which the Scala.js linker writes from the Scala mirror
  of the Java sources together with the Scala library, minified: the Java sources are
  what the definitions are translated from. `install.js` builds and copies a native library.

## Plan

In this order, the most important behaviour first:

1. `NioPathWatcher`, continued: roots that are deleted and climb, two callers of
   register, and the abstract specification that `FileCacheDirectoryTree` and
   `SymlinkWatcher` assume of a watcher, every change of an accepted path is
   reported, with `NioPathWatcher` shown to implement its creations.
2. Theorems about `FileCacheDirectoryTree` where registrations lie above one another, as
   far as the departures leave it.
