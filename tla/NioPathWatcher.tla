----------------------------- MODULE NioPathWatcher -----------------------------
(***************************************************************************)
(* NioPathWatcher.java and NioPathWatcherService.java: a recursive path    *)
(* watcher on top of java.nio.file.WatchService, which watches single      *)
(* directories.  The watcher keeps, per root, the tree of directories that *)
(* it has a watch key for; the loop thread takes events from the keys,     *)
(* brings the trees up to date and tells the observers.                    *)
(*                                                                         *)
(* A directory enters a tree in two steps: its key is registered, then it  *)
(* is listed.  Between these, and between the steps for two directories,   *)
(* the file system changes.  A scan holds the lock of the cached directory *)
(* (and, in the loop thread, of rootDirectories), so there is one scan at a*)
(* time.  Register and unregister are called by one thread.                *)
(*                                                                         *)
(* The watch service is inotify's: a key reports what happens to the       *)
(* entries of its directory, and dies with the directory.  What leaves a   *)
(* tree has its keys closed later, one by one, after the lock of the tree  *)
(* was released; to close one key is one step.  A path is a directory or a *)
(* file for good, links are not modelled, and the roots of the trees, the  *)
(* parents of registered paths, are never deleted.                         *)
(***************************************************************************)
EXTENDS Paths, FiniteSets, SequencesExt

CONSTANTS
    Path,        \* the paths of the file system
    Dir,         \* those that are directories whenever they exist
    Permanent,   \* directories that are never deleted
    Content,     \* what a file may hold
    Depth,       \* the maxDepth arguments of register
    MaxInt,      \* Integer.MAX_VALUE
    MaxEvents,   \* directory -> the events that its key keeps before it overflows
    DeletesWhatIsScanned, \* whether a directory may go while it is being added
    MaxChanges,  \* bound on the changes of the file system
    MaxRegister, \* bound on the calls of register
    MaxUnregister \* bound on the calls of unregister

ASSUME NioAssumption ==
    /\ Permanent \subseteq Dir /\ Dir \subseteq Path
    /\ MaxEvents \in [Dir -> Nat]
    /\ {MaxChanges, MaxRegister, MaxUnregister} \subseteq Nat
    /\ DeletesWhatIsScanned \in BOOLEAN
    /\ "none" \notin Content /\ "dir" \notin Content

\* Depths are ints, and -1, "the path alone", is the least one a caller passes.
ASSUME DepthAssumption == MaxInt \in Nat \ {0} /\ Depth \subseteq -1..MaxInt

\* What is above a path is a directory, and what is above a permanent one is
\* permanent; the topmost directories are.
ASSUME PathAssumption ==
    /\ \A p \in Path : p \in Seq(STRING) /\ p # <<>>
    /\ \A p \in Path : \A n \in 1 .. Len(p) - 1 :
         SubSeq(p, 1, n) \in IF p \in Permanent THEN Permanent ELSE Dir
    /\ \A p \in Path : Len(p) = 1 => p \in Permanent

\* unregister drops roots, and the loop thread makes the parent of the next event
\* one.  Every root is permanent all the same, and a root that register has found
\* does not give way to one that the loop thread adds above it.
ASSUME RootAssumption ==
    MaxUnregister > 0 =>
        /\ \A d \in Dir \ Permanent : Parent(d) \in Permanent
        /\ \A d, e \in Permanent : StrictlyBelow(d, e) => Len(e) = 1

VARIABLES
    fs,            \* what each path is, now
    keys,          \* all watch keys that were ever created
    watchedDirectoriesByPath, \* path -> the number of its key
    rootDirectories, \* root -> its tree: directory -> the number of its key
    registered,    \* directoryRegistry
    scan,          \* the scan of a directory that is under way
    loop,          \* the loop thread
    call,          \* the call of register or unregister that is under way
    closing,       \* thread -> the keys that it has still to close, whose directories
                   \* have left their tree
    closed,
    monitored,     \* paths whose registration has returned
    known,         \* what an observer knows that lists what it registers and
                   \* looks at every path it is told of
    reused,        \* directories that got, with a scan, a key about to be closed
    budget         \* calls and changes left

vars == <<fs, keys, watchedDirectoriesByPath, rootDirectories, registered, scan, loop, call,
          closing, closed, monitored, known, reused, budget>>

Registry == INSTANCE DirectoryRegistry
Accepts(p) == Registry!Accepts(registered, p)
AcceptsPrefix(p) == Registry!AcceptsPrefix(registered, p)

Invalid == 0        \* WatchedDirectories.INVALID
NoMap == [p \in {} |-> Invalid]
NoScan == [stage |-> "none", by |-> "loop", root |-> <<>>, base |-> <<>>, toWatch |-> {},
           toList |-> {}, found |-> NoMap]
Waiting == [stage |-> "waiting", path |-> <<>>, kind |-> "create", exists |-> FALSE, todo |-> {},
            told |-> {}]
NoCall == [stage |-> "none", path |-> <<>>, depth |-> 0, root |-> <<>>, last |-> <<>>, told |-> {}]
NothingToClose == [thread \in {"loop", "call"} |-> {}]

service == <<keys, watchedDirectoriesByPath>>
environment == <<fs, monitored, known, budget>>
-----------------------------------------------------------------------------
(* The file system and the watch service *)

\* A key keeps no second copy of its last event, and overflows when full.
Signal(key, event) ==
    IF ~key.valid \/ ~key.open \/ (key.events # <<>> /\ Last(key.events).kind = "overflow")
       \/ (key.events # <<>> /\ Last(key.events) = event)
    THEN key
    ELSE IF Len(key.events) >= MaxEvents[key.path]
    THEN [key EXCEPT !.events = <<[kind |-> "overflow", path |-> key.path]>>]
    ELSE [key EXCEPT !.events = Append(@, event)]

Change(p, kind, value) ==
    /\ budget.changes > 0
    /\ budget' = [budget EXCEPT !.changes = @ - 1]
    /\ fs' = [fs EXCEPT ![p] = value]
    /\ keys' = [k \in DOMAIN keys |->
                  IF keys[k].path = Parent(p) THEN Signal(keys[k], [kind |-> kind, path |-> p])
                  ELSE IF keys[k].path = p /\ value = "none" THEN [keys[k] EXCEPT !.valid = FALSE]
                  ELSE keys[k]]
    /\ UNCHANGED <<watchedDirectoriesByPath, rootDirectories, registered, scan, loop, call, closing,
                   closed, monitored, known, reused>>

Create(p, value) ==
    /\ fs[p] = "none" /\ p \notin Permanent /\ fs[Parent(p)] = "dir"
    /\ IF p \in Dir THEN value = "dir" ELSE value \in Content
    /\ Change(p, "create", value)

Modify(p, value) ==
    /\ fs[p] \in Content \ {value} /\ value \in Content
    /\ Change(p, "modify", value)

Delete(p) ==
    /\ fs[p] # "none" /\ p \notin Permanent
    /\ \A q \in Path : StrictlyBelow(q, p) => fs[q] = "none"
    /\ DeletesWhatIsScanned \/ p \notin DOMAIN scan.found
    /\ Change(p, "delete", "none")
-----------------------------------------------------------------------------
(* Watch keys and trees *)

\* Mutant: a closed key stays in watchedDirectoriesByPath.
ForgetNone(map, numbers) == map

Forget(map, numbers) == [p \in {q \in DOMAIN map : map[q] \notin numbers} |-> map[p]]

\* CachedWatchDirectory.close, for each of the given numbers.
CloseKeys(numbers) ==
    /\ keys' = [k \in DOMAIN keys |->
                  IF k \in numbers THEN [keys[k] EXCEPT !.open = FALSE] ELSE keys[k]]
    /\ watchedDirectoriesByPath' = Forget(watchedDirectoriesByPath, numbers)

\* The threads close the keys of what they took out of a tree one after the other,
\* in any order, with no lock of the tree (onDelete of updateCacheObserver, remove).
CloseOne(thread) ==
    \E k \in closing[thread] :
        /\ CloseKeys({k})
        /\ closing' = [closing EXCEPT ![thread] = @ \ {k}]
        /\ UNCHANGED <<environment, rootDirectories, registered, scan, loop, call, closed, reused>>

Below(tree, path) == {d \in DOMAIN tree : StartsWith(d, path)}
KeysOf(tree, dirs) == {tree[d] : d \in dirs}
Cut(tree, path) == Restrict(tree, DOMAIN tree \ Below(tree, path))

\* find: a root at or above path (any, in the order of a HashMap).
Find(path) == {r \in DOMAIN rootDirectories : StartsWith(path, r)}

\* service.register: the key that path has, or a new one.
KeyFor(path) ==
    IF path \in DOMAIN watchedDirectoriesByPath THEN watchedDirectoriesByPath[path]
    ELSE IF fs[path] = "dir" THEN Len(keys) + 1
    ELSE Invalid
-----------------------------------------------------------------------------
(* A scan: CachedDirectoryImpl with the converter that registers keys *)

\* The first directory on the way to path that the tree does not hold, or path.
FirstToAdd(tree, path) ==
    CHOOSE q \in {SubSeq(path, 1, n) : n \in 2 .. Len(path)} :
        (q = path \/ q \notin DOMAIN tree) /\ Parent(q) \in DOMAIN tree

\* update(path) with a rescan: the root is listed again, any other directory
\* gets its key again and is then listed.
UpdateScan(thread, root, path) ==
    LET tree == rootDirectories[root]
    IN IF path = root
       THEN [stage |-> "update", by |-> thread, root |-> root, base |-> root,
             toWatch |-> {}, toList |-> {root}, found |-> With(NoMap, root, tree[root])]
       ELSE [stage |-> "update", by |-> thread, root |-> root, base |-> FirstToAdd(tree, path),
             toWatch |-> {FirstToAdd(tree, path)}, toList |-> {}, found |-> NoMap]

\* findOrAddRoot: the parent of path becomes a root.
InitScan(thread, path) ==
    [stage |-> "init", by |-> thread, root |-> Parent(path), base |-> path,
     toWatch |-> {Parent(path)}, toList |-> {}, found |-> NoMap]

\* The scan that is under way, one step later.
ScanWith(toWatch, toList, found) ==
    [stage |-> scan.stage, by |-> scan.by, root |-> scan.root, base |-> scan.base,
     toWatch |-> toWatch, toList |-> toList, found |-> found]

\* The constructor of a directory: its converter registers the key.
ScanWatch(d) ==
    LET k == KeyFor(d)
    IN /\ d \in scan.toWatch
       /\ keys' = IF k > Len(keys)
                  THEN Append(keys, [path |-> d, valid |-> TRUE, open |-> TRUE, events |-> <<>>])
                  ELSE keys
       /\ watchedDirectoriesByPath' =
            IF k = Invalid THEN watchedDirectoriesByPath ELSE With(watchedDirectoriesByPath, d, k)
       /\ scan' = ScanWith(scan.toWatch \ {d}, scan.toList \cup {d}, With(scan.found, d, k))
       /\ reused' = IF k # Invalid /\ k \in closing["loop"] \cup closing["call"]
                  THEN reused \cup {d} ELSE reused
       /\ UNCHANGED <<environment, rootDirectories, registered, loop, call, closing, closed>>

\* The filter takes directories on the way to registered paths.
Listed(d) == {q \in Dir : Len(q) > 1 /\ Parent(q) = d /\ fs[q] = "dir" /\ AcceptsPrefix(q)}

\* init: the listing.  It throws when the directory has gone, and then the
\* directory is not added; its key stays.
ScanList(d) ==
    /\ d \in scan.toList
    /\ scan' =
         IF fs[d] = "dir"
         THEN ScanWith(scan.toWatch \cup Listed(d), scan.toList \ {d}, scan.found)
         ELSE ScanWith(scan.toWatch, scan.toList \ {d}, Restrict(scan.found, DOMAIN scan.found \ {d}))
    /\ UNCHANGED <<environment, service, rootDirectories, registered, loop, call, closing, closed,
                   reused>>

Scanned(thread, stage) ==
    scan.by = thread /\ scan.stage = stage /\ scan.toWatch = {} /\ scan.toList = {}

\* The rest of findOrAddRoot: roots below the path are dropped, unclosed.
AddRoot ==
    /\ scan' = NoScan
    /\ rootDirectories' =
         With(Restrict(rootDirectories,
                       {r \in DOMAIN rootDirectories : ~StrictlyBelow(r, scan.base)}),
              scan.root, scan.found)

Created == DOMAIN scan.found \ Below(rootDirectories[scan.root], scan.base)

\* Mutant: the directory that was updated, and not what was below it.
DeletedBase == (DOMAIN rootDirectories[scan.root] \cap {scan.base}) \ DOMAIN scan.found

\* Mutant: all that is replaced counts as deleted, also what is found again.
DeletedReplaced == Below(rootDirectories[scan.root], scan.base)

Deleted == Below(rootDirectories[scan.root], scan.base) \ DOMAIN scan.found

\* Mutant: the new directories without what is in them.
AnnouncedAlone(created) == created

\* updateCacheObserver.onCreate: the new directories and what is in them by now.
Announced(created) ==
    created \cup {q \in Path : Len(q) > 1 /\ Parent(q) \in created /\ fs[q] # "none" /\ Accepts(q)}

\* The rest of update: the new part of the tree.  The lock of the tree is released,
\* and what is left out of it is then to be closed.
Graft(thread) ==
    LET tree == rootDirectories[scan.root]
    IN /\ scan' = NoScan
       /\ rootDirectories' = [rootDirectories EXCEPT ![scan.root] = WithAll(Cut(tree, scan.base), scan.found)]
       /\ closing' = [closing EXCEPT ![thread] = KeysOf(tree, Deleted)]
-----------------------------------------------------------------------------
(* The loop thread.  From Act to Report it holds the lock of rootDirectories. *)

LoopLocked == loop.stage \in {"acting", "adding"}
CallLocked == scan.by = "call" /\ scan.stage = "init"

\* The handling of the event, one step later.
LoopWith(stage, exists, todo, told) ==
    [stage |-> stage, path |-> loop.path, kind |-> loop.kind, exists |-> exists,
     todo |-> todo, told |-> told]

\* take and pollEvents; the events are handed over one after the other.
Take(k) ==
    LET event == Head(keys[k].events)
    IN /\ loop.stage = "waiting" /\ keys[k].events # <<>> /\ ~closed
       /\ keys' = [keys EXCEPT ![k].events = Tail(@)]
       /\ loop' = [stage |-> "taken", path |-> event.path, kind |-> event.kind, exists |-> FALSE,
                    todo |-> {}, told |-> {}]
       /\ UNCHANGED <<environment, watchedDirectoriesByPath, rootDirectories, registered, scan, call,
                      closing, closed, reused>>

\* handleEvent: the lock, the filter, and the look at the path.
Look ==
    /\ loop.stage = "taken" /\ loop.kind # "overflow" /\ ~CallLocked
    /\ loop' = IF AcceptsPrefix(loop.path)
               THEN LoopWith("acting", fs[loop.path] # "none", {}, {})
               ELSE Waiting
    /\ UNCHANGED <<environment, service, rootDirectories, registered, scan, call, closing, closed,
                   reused>>

\* Mutant: a Delete event is passed on when the path exists again.
RemovesIfGone(kind, exists) == ~exists

\* Whether handleEvent takes the path out of its tree.
Removes(kind, exists) == kind = "delete" \/ ~exists

\* What handleEvent has to do and to tell after that.
Acted(gone) ==
    LoopWith("adding", loop.exists,
             IF loop.exists /\ loop.path \in Dir THEN {loop.path} ELSE {},
             gone \cup (IF loop.exists \/ loop.kind = "delete" THEN {loop.path} ELSE {}))

\* remove: the path and what is below leave the tree, and their keys are to be closed.
Act ==
    /\ loop.stage = "acting" /\ scan = NoScan
    /\ \/ \E r \in Find(loop.path) :
            LET gone == Below(rootDirectories[r], loop.path)
            IN /\ Removes(loop.kind, loop.exists)
               /\ closing' = [closing EXCEPT !["loop"] = KeysOf(rootDirectories[r], gone)]
               /\ rootDirectories' = [rootDirectories EXCEPT ![r] = Cut(@, loop.path)]
               /\ loop' = Acted(gone)
       \/ /\ ~Removes(loop.kind, loop.exists) \/ Find(loop.path) = {}
          /\ loop' = Acted({})
          /\ UNCHANGED <<closing, rootDirectories>>
    /\ UNCHANGED <<environment, service, registered, scan, call, closed, reused>>

\* handleOverflow: the subdirectories are added again.  A directory that has
\* gone is taken out of its tree, and the keys stay.
Overflow ==
    /\ loop.stage = "taken" /\ loop.kind = "overflow" /\ scan = NoScan
    /\ \/ /\ fs[loop.path] = "dir" \/ Find(loop.path) = {}
          /\ loop' = LoopWith("adding", loop.exists,
                              IF Find(loop.path) = {} THEN {} ELSE Listed(loop.path),
                              {loop.path})
          /\ UNCHANGED rootDirectories
       \/ \E r \in Find(loop.path) :
          /\ fs[loop.path] # "dir"
          /\ rootDirectories' = [rootDirectories EXCEPT ![r] = Cut(@, loop.path)]
          /\ loop' = LoopWith("adding", loop.exists, {},
                              {loop.path} \cup Below(rootDirectories[r], loop.path))
    /\ UNCHANGED <<environment, service, registered, scan, call, closing, closed, reused>>

\* add: update the tree of the root, after a new root was found where none was.
Add(p) ==
    /\ loop.stage = "adding" /\ scan = NoScan /\ p \in loop.todo /\ closing["loop"] = {}
    /\ \/ \E r \in Find(p) : /\ AcceptsPrefix(p)
                            /\ scan' = UpdateScan("loop", r, p)
                            /\ loop' = [loop EXCEPT !.todo = @ \ {p}]
       \/ /\ AcceptsPrefix(p) /\ Find(p) = {}
          /\ scan' = InitScan("loop", p)
          /\ UNCHANGED loop
       \/ /\ ~AcceptsPrefix(p)
          /\ loop' = [loop EXCEPT !.todo = @ \ {p}]
          /\ UNCHANGED scan
    /\ UNCHANGED <<environment, service, rootDirectories, registered, call, closing, closed, reused>>

AddInit ==
    /\ Scanned("loop", "init") /\ AddRoot
    /\ UNCHANGED <<environment, service, registered, loop, call, closing, closed, reused>>

AddUpdate ==
    /\ Scanned("loop", "update") /\ Graft("loop")
    /\ loop' = [loop EXCEPT !.told = @ \cup Announced(Created) \cup Deleted]
    /\ UNCHANGED <<environment, service, registered, call, closed, reused>>

\* What an observer knows that looks at the paths it is told of.  A directory
\* that is gone is gone with its entries.
Informed(told) ==
    [p \in Path |-> IF p \in told THEN fs[p]
                    ELSE IF \E q \in told : StartsWith(p, q) /\ fs[q] = "none" THEN "none"
                    ELSE known[p]]

\* runCallbacks.  An Overflow event makes the observer list the directory.
Report ==
    LET told == {p \in loop.told : Accepts(p)}
        overflown == {p \in told : loop.kind = "overflow" /\ p = loop.path}
    IN /\ loop.stage = "adding" /\ loop.todo = {} /\ closing["loop"] = {}
       /\ (scan = NoScan \/ scan.by = "call")
       /\ known' = Informed(told \cup {p \in Path : Len(p) > 1 /\ Parent(p) \in overflown})
       /\ loop' = Waiting
       /\ UNCHANGED <<fs, monitored, budget, service, rootDirectories, registered, scan, call, closing,
                      closed, reused>>
-----------------------------------------------------------------------------
(* register *)

\* The call that is under way, one step later.
CallWith(stage, root, last, told) ==
    [stage |-> stage, path |-> call.path, depth |-> call.depth, root |-> root, last |-> last,
     told |-> told]

\* maxDepthFor and addDirectory
Register(p, maxDepth) ==
    /\ call = NoCall /\ budget.register > 0 /\ Len(p) > 1 /\ Parent(p) \in Permanent
    /\ budget' = [budget EXCEPT !.register = @ - 1]
    /\ registered' = IF Registry!MaxDepthFor(registered, p) < maxDepth
                     THEN Registry!Put(registered, p, maxDepth) ELSE registered
    /\ call' = [stage |-> "added", path |-> p, depth |-> maxDepth, root |-> <<>>, last |-> <<>>,
                 told |-> {}]
    /\ UNCHANGED <<fs, monitored, known, service, rootDirectories, scan, loop, closing, closed,
                   reused>>

\* getOrAdd
GetOrAdd ==
    /\ call.stage = "added" /\ ~LoopLocked /\ scan = NoScan
    /\ \/ \E r \in Find(call.path) : /\ call' = CallWith("rooted", r, <<>>, {})
                                    /\ UNCHANGED scan
       \/ /\ Find(call.path) = {}
          /\ scan' = InitScan("call", call.path)
          /\ UNCHANGED call
    /\ UNCHANGED <<environment, service, rootDirectories, registered, loop, closing, closed, reused>>

RegisterInit ==
    /\ Scanned("call", "init") /\ AddRoot
    /\ call' = CallWith("rooted", scan.root, <<>>, {})
    /\ UNCHANGED <<environment, service, registered, loop, closing, closed, reused>>

\* lastPath: the directory of the tree that is nearest above the path.
LastPath(tree, path) ==
    CHOOSE q \in DOMAIN tree :
        /\ StartsWith(path, q)
        /\ \A d \in DOMAIN tree : StartsWith(path, d) => Len(d) <= Len(q)

RegisterFind ==
    /\ call.stage = "rooted" /\ scan = NoScan
    /\ call' = CallWith("found", call.root, LastPath(rootDirectories[call.root], call.path), {})
    /\ UNCHANGED <<environment, service, rootDirectories, registered, scan, loop, closing, closed,
                   reused>>

\* It is updated, unless it has gone: then the filter of the tree refuses it.
RegisterUpdate ==
    /\ call.stage = "found" /\ scan = NoScan
    /\ \/ /\ fs[call.last] = "dir"
          /\ scan' = UpdateScan("call", call.root, call.last)
          /\ call' = CallWith("updating", call.root, call.last, {})
       \/ /\ fs[call.last] # "dir"
          /\ call' = CallWith("updated", call.root, call.last, {})
          /\ UNCHANGED scan
    /\ UNCHANGED <<environment, service, rootDirectories, registered, loop, closing, closed, reused>>

RegisterGraft ==
    /\ Scanned("call", "update") /\ Graft("call")
    /\ call' = CallWith("updated", call.root, call.last, Deleted)
    /\ UNCHANGED <<environment, service, registered, loop, closed, reused>>

\* register tells of deletions only and returns; the caller lists the path.
Return ==
    LET covered == {p \in Path : Registry!Covers([d \in {call.path} |-> call.depth], call.path, p)}
    IN /\ call.stage = "updated" /\ closing["call"] = {}
       /\ monitored' = monitored \cup covered
       /\ known' = Informed(covered \cup {p \in call.told : Accepts(p)})
       /\ call' = NoCall
       /\ UNCHANGED <<fs, budget, service, rootDirectories, registered, scan, loop, closing, closed,
                      reused>>
-----------------------------------------------------------------------------
(* unregister and close *)

Unregister(p) ==
    /\ call = NoCall /\ budget.unregister > 0 /\ p \in DOMAIN registered
    /\ budget' = [budget EXCEPT !.unregister = @ - 1]
    /\ registered' = Registry!Without(registered, p)
    /\ monitored' = {q \in monitored : Registry!Accepts(registered', q)}
    /\ call' = [stage |-> "unregistering", path |-> p, depth |-> 0, root |-> <<>>, last |-> <<>>,
                 told |-> {}]
    /\ UNCHANGED <<fs, known, service, rootDirectories, scan, loop, closing, closed, reused>>

\* The directories that are not wanted any more are closed, as far down as the
\* path, with all that is below them; and the root is dropped.  The lock of
\* rootDirectories keeps the loop thread out until the last key is closed, and register
\* is called by the same thread: nobody is there to see the tree before.
UnregisterRoot ==
    /\ call.stage = "unregistering" /\ ~LoopLocked /\ scan = NoScan
    /\ call' = NoCall
    /\ \/ \E r \in Find(call.path) :
            LET tree == rootDirectories[r]
                unwanted == {d \in DOMAIN tree \ {r} : /\ Distance(r, d) - 1 <= Distance(r, call.path)
                                                      /\ ~AcceptsPrefix(d)}
            IN /\ CloseKeys(KeysOf(tree, UNION {Below(tree, d) : d \in unwanted}))
               /\ rootDirectories' = Restrict(rootDirectories, DOMAIN rootDirectories \ {r})
       \/ /\ Find(call.path) = {}
          /\ UNCHANGED <<service, rootDirectories>>
    /\ UNCHANGED <<environment, registered, scan, loop, closing, closed, reused>>

\* What threads still do after that has no effect: every key is closed.
Close ==
    /\ ~closed
    /\ closed' = TRUE
    /\ keys' = <<>> /\ watchedDirectoriesByPath' = NoMap /\ rootDirectories' = [r \in {} |-> NoMap]
    /\ scan' = NoScan /\ loop' = Waiting /\ call' = [NoCall EXCEPT !.stage = "closed"]
    /\ closing' = NothingToClose
    /\ UNCHANGED <<environment, registered, reused>>
-----------------------------------------------------------------------------
Init ==
    /\ fs \in {f \in [Path -> {"none", "dir"} \cup Content] : \A p \in Path :
                 /\ p \in Permanent => f[p] = "dir"
                 /\ f[p] # "none" => (f[p] = "dir" <=> p \in Dir)
                 /\ f[p] # "none" /\ Len(p) > 1 => f[Parent(p)] = "dir"}
    /\ keys = <<>> /\ watchedDirectoriesByPath = NoMap
    /\ rootDirectories = [r \in {} |-> NoMap]
    /\ registered = Registry!NoDirectories
    /\ scan = NoScan /\ loop = Waiting /\ call = NoCall
    /\ closing = NothingToClose /\ closed = FALSE
    /\ monitored = {} /\ known = [p \in Path |-> "none"] /\ reused = {}
    /\ budget = [changes |-> MaxChanges, register |-> MaxRegister, unregister |-> MaxUnregister]

Scan == \E d \in Dir : ScanWatch(d) \/ ScanList(d)
Loop ==
    \/ \E k \in DOMAIN keys : Take(k)
    \/ Look \/ Act \/ Overflow \/ AddInit \/ AddUpdate \/ Report \/ CloseOne("loop")
    \/ \E p \in Path : Add(p)
Calling ==
    \/ GetOrAdd \/ RegisterInit \/ RegisterFind \/ RegisterUpdate \/ RegisterGraft
    \/ Return \/ UnregisterRoot \/ CloseOne("call")

Next ==
    \/ \E p \in Path :
         \/ \E value \in {"dir"} \cup Content : Create(p, value) \/ Modify(p, value)
         \/ Delete(p) \/ Unregister(p)
         \/ \E d \in Depth : Register(p, d)
    \/ Scan \/ Loop \/ Calling \/ Close

Spec == Init /\ [][Next]_vars

\* The loop thread is scheduled, and a call that has begun goes on.
Fairness == WF_vars(Scan) /\ WF_vars(Loop) /\ WF_vars(Calling)

FairSpec == Spec /\ Fairness
-----------------------------------------------------------------------------
Quiescent ==
    /\ ~closed /\ loop = Waiting /\ call = NoCall /\ scan = NoScan
    /\ \A k \in DOMAIN keys : keys[k].events = <<>>

(* A path has at most one open key, and watchedDirectoriesByPath holds exactly *)
(* the open ones (NioPathWatcherService.register, CachedWatchDirectory.close).  *)
KeysMatch ==
    /\ \A p \in DOMAIN watchedDirectoriesByPath : LET k == watchedDirectoriesByPath[p] IN
         k \in DOMAIN keys /\ keys[k].path = p /\ keys[k].open
    /\ \A k \in DOMAIN keys :
         keys[k].open => /\ keys[k].path \in DOMAIN watchedDirectoriesByPath
                         /\ watchedDirectoriesByPath[keys[k].path] = k

(* The keys match; a tree holds directories below its root.                    *)
TypeOK ==
    /\ KeysMatch
    /\ \A r \in DOMAIN rootDirectories : \A d \in DOMAIN rootDirectories[r] :
         /\ StartsWith(d, r) /\ d \in Dir
         /\ rootDirectories[r][d] \in {Invalid} \cup DOMAIN keys
    /\ DOMAIN scan.found \subseteq Dir /\ scan.toWatch \cup scan.toList \subseteq Dir
    /\ closing \in [{"loop", "call"} -> SUBSET (DOMAIN keys \cup {Invalid})]
    /\ loop.told \subseteq Path /\ monitored \subseteq Path /\ reused \subseteq Dir
    /\ known \in [Path -> {"none", "dir"} \cup Content]

\* Nothing reports the entries of a directory that got a key about to be closed.
Deaf(p) == \E d \in reused : StrictlyBelow(p, d)

(* No creation and no modification of a monitored path is missed, also not of  *)
(* what appears in a new directory before it has a key (add, and onCreate of   *)
(* updateCacheObserver): once all events are handled, an observer that looks   *)
(* at each path it is told of knows every path that exists.  Deletions in a    *)
(* directory that had no key yet may be missed, and so may be what is below a  *)
(* directory that comes back while the other thread is closing its former key. *)
NothingMissed ==
    Quiescent => \A p \in monitored : fs[p] # "none" /\ ~Deaf(p) => known[p] = fs[p]

(* Watch keys are a limited resource: once all is handled, every open key      *)
(* belongs to a directory of a tree, so that its deletion will close it        *)
(* (remove, and onDelete of updateCacheObserver).                              *)
NoKeyLeaks ==
    Quiescent => \A k \in DOMAIN keys : keys[k].open =>
        \E r \in DOMAIN rootDirectories : k \in KeysOf(rootDirectories[r], DOMAIN rootDirectories[r])

(* The converse, in every state: no tree holds a key that was closed, whatever *)
(* overflows, unregister and failed listings leave behind, except where the one *)
(* thread was given a key that the other is about to close.  Such a directory  *)
(* would never be heard of again, because a rescan does not tell of it.        *)
TreesHoldOpenKeys ==
    \A r \in DOMAIN rootDirectories : \A d \in DOMAIN rootDirectories[r] \ reused :
        rootDirectories[r][d] # Invalid => keys[rootDirectories[r][d]].open

(* The observers come to know every monitored path that stays, however the    *)
(* loop thread and register wait for each other's locks.                       *)
CatchesUp ==
    \A p \in Path : <>[](closed \/ Deaf(p)
                             \/ (p \in monitored /\ fs[p] # "none" => known[p] = fs[p]))

(* The same without the exception, which the code does not keep: register,    *)
(* which does not hold rootDirectories, and the loop thread swap trees and     *)
(* then close keys, and in between the map of the service still has the key.   *)
NothingMissedAtAll == Quiescent => \A p \in monitored : fs[p] # "none" => known[p] = fs[p]

AllTreesHoldOpenKeys ==
    \A r \in DOMAIN rootDirectories : \A k \in KeysOf(rootDirectories[r], DOMAIN rootDirectories[r]) :
        k # Invalid => keys[k].open
=============================================================================
