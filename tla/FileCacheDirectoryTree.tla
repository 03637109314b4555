------------------------- MODULE FileCacheDirectoryTree -------------------------
(***************************************************************************)
(* FileCacheDirectoryTree.java: the cache behind FileTreeRepository.  User *)
(* threads register and unregister paths, the watcher's thread feeds it    *)
(* events, and the file system changes under it at any time.               *)
(*                                                                         *)
(* The file system and the path watcher are the environment.  Every change *)
(* of a monitored path leaves a notification in `changed`; the threads of  *)
(* the watchers take notifications in any order, look at the path (Stat)   *)
(* and hand what they saw to handleEvent, which may run later, when the    *)
(* file system has moved on or another thread has looked at the same path. *)
(* handleEvent, unregister and the part of register that holds the lock of *)
(* `directories` are each one step.                                        *)
(***************************************************************************)
EXTENDS CachedDirectory

CONSTANTS
    Depth,        \* the maxDepth arguments of register
    User,         \* threads that call register and unregister
    RescanOnDirectoryUpdate,
    Watcher,      \* threads that look at paths and call handleEvent: the path
                  \* watcher's own and the symlink watcher's
    MaxChanges,   \* bound on the changes of the file system
    MaxRegister,  \* bound on the calls of register
    MaxUnregister,\* bound on the calls of unregister
    SwapsKinds    \* whether a path that is gone comes back, perhaps as another
                  \* kind, before the event of its removal was handled

ASSUME TreeAssumption ==
    /\ RescanOnDirectoryUpdate \in BOOLEAN
    /\ SwapsKinds \in BOOLEAN
    /\ {MaxChanges, MaxRegister, MaxUnregister} \subseteq Nat
    /\ Depth \subseteq -1..MaxInt

VARIABLES
    fs,          \* the kind of every path, now
    changed,     \* paths with a notification the watcher has not taken
    events,      \* per watcher thread: what it saw and has not handled yet
    overtaken,   \* history: paths of which handleEvent handled a newer event
                 \* while another thread still held an older one
    registered,  \* directoryRegistry
    directories, \* directories: root path -> its CachedDirectory
    pendingFiles,\* registered paths that did not exist
    registering, \* per user: the call of register under way
    watched,     \* the paths the watcher reports changes of
    closed,
    observed,    \* the paths that the callbacks told an observer of
    budget       \* calls and changes left

vars == <<fs, changed, events, overtaken, registered, directories, pendingFiles, registering,
          watched, closed, observed, budget>>

Registry == INSTANCE DirectoryRegistry

MinInt == -MaxInt - 1
NoRoots == [r \in {} |-> [dirs |-> NoFiles, files |-> NoFiles]]

Idle == [stage |-> "idle", path |-> <<>>, depth |-> 0]

\* Whether a call of register holds the lock of `directories`.
Locked == \E u \in User : registering[u].stage = "locked"

Wanted == {p \in Path : Registry!Accepts(registered, p)}

\* The paths that some thread holds an event of.
InFlight == {events[w].path : w \in DOMAIN events}
-----------------------------------------------------------------------------
(* The file system and the watcher.  The watcher keeps its promise: from     *)
(* watcher.register on it reports every change of a registered path.         *)

\* What lies above anything that exists is a directory.
IsFileSystem(f) ==
    \A p, q \in Path : f[q] # "none" /\ StrictlyBelow(q, p) => f[p] = "dir"

HasChildren(p) == \E q \in Path : fs[q] # "none" /\ Len(q) > 1 /\ Parent(q) = p

\* A change of p: the watcher is notified if p is watched.
Change(p, kind) ==
    /\ budget.changes > 0
    /\ budget' = [budget EXCEPT !.changes = @ - 1]
    /\ fs' = [fs EXCEPT ![p] = kind]
    /\ changed' = changed \cup ({p} \cap watched)
    /\ UNCHANGED <<events, overtaken, registered, directories, pendingFiles, registering, watched,
                   closed, observed>>

Appear(p, kind) ==
    /\ fs[p] = "none"
    /\ Len(p) > 1 => fs[Parent(p)] = "dir"
    /\ SwapsKinds \/ p \notin changed \cup InFlight
    /\ Change(p, kind)

Disappear(p) ==
    /\ fs[p] # "none" /\ ~HasChildren(p)
    /\ Change(p, "none")

\* A directory is modified too when an entry of it comes or goes.
Modify(p, kind) ==
    /\ fs[p] # "none"
    /\ IF fs[p] = "dir" THEN kind = "dir" ELSE kind \in Content
    /\ Change(p, kind)

\* runCallbacks of a watcher: a path that is still registered is looked at.
\* What other threads saw of the same path is older from now on.
Stat(w, p) ==
    /\ w \in Watcher \ DOMAIN events /\ p \in changed
    /\ changed' = changed \ {p}
    /\ events' = IF p \notin Wanted THEN events
                 ELSE With([v \in DOMAIN events |->
                              [events[v] EXCEPT !.newest = @ /\ events[v].path # p]],
                           w, [path |-> p, kind |-> fs[p], newest |-> TRUE])
    /\ UNCHANGED <<fs, overtaken, registered, directories, pendingFiles, registering, watched,
                   closed, observed, budget>>
-----------------------------------------------------------------------------
(* What a list of everything returns *)

Entries(dirs, r) == Subtree(dirs[r], r)
Visible(dirs) == UNION {Entries(dirs, r) : r \in DOMAIN dirs}

\* What an observer that replays the callbacks believes.
Replay(updates) == (observed \cup updates.created \cup updates.updated) \ updates.deleted

\* find: the cached directory that is nearest above path and deep enough.
Reaches(dirs, r, path) ==
    LET depth == dirs[r].dirs[r].depth
    IN /\ StartsWith(path, r)
       /\ path = r \/ depth = MaxInt \/ Distance(r, path) - 1 <= depth

Find(dirs, path) ==
    {r \in DOMAIN dirs :
        /\ Reaches(dirs, r, path)
        /\ \A s \in DOMAIN dirs : Reaches(dirs, s, path) => Len(s) <= Len(r)}

\* newCachedDirectory, with the fallback for what is not a directory.
NewCachedDirectory(path, depth) ==
    LET fallback == IF fs[path] \in Content /\ depth >= 0 THEN -1 ELSE depth
    IN Scan(fs, Wanted, path, fallback, fs[path])

\* Mutant: a regular file is taken for a missing one.
NoSuchFileForFiles(path, depth) == fs[path] # "dir" /\ depth >= 0

NoSuchFile(path, depth) == fs[path] = "none" /\ depth >= 0
-----------------------------------------------------------------------------
(* register *)

\* directoryRegistry.addDirectory, before the lock is taken.
Register(u, path, maxDepth) ==
    /\ registering[u] = Idle /\ budget.register > 0
    /\ budget' = [budget EXCEPT !.register = @ - 1]
    /\ Registry!AddDirectory(path, maxDepth)
    /\ registering' = [registering EXCEPT ![u] =
                         [stage |-> "added", path |-> path, depth |-> maxDepth]]
    /\ UNCHANGED <<fs, changed, events, overtaken, directories, pendingFiles, watched, closed,
                   observed>>

\* directories.lock and watcher.register, which asks the registry what to watch.
Watch(u) ==
    /\ registering[u].stage = "added" /\ ~Locked
    /\ registering' = [registering EXCEPT ![u] = [@ EXCEPT !.stage = "locked"]]
    /\ watched' = IF closed THEN watched ELSE Wanted
    /\ UNCHANGED <<fs, changed, events, overtaken, registered, directories, pendingFiles, closed,
                   observed, budget>>

\* The cached directory that already holds the path deep enough.
Existing(path, maxDepth) ==
    {r \in DOMAIN directories :
        LET depth == directories[r].dirs[r].depth
            above == IF path = r THEN 0 ELSE Distance(r, path) - 1
        IN StartsWith(path, r) /\ (depth = MaxInt \/ depth - above > maxDepth)}

\* Mutant: the limit is off by one.
CleanedUpTooMuch(dirs, path, maxDepth) ==
    LET covered == {r \in DOMAIN dirs :
                      /\ StrictlyBelow(r, path)
                      /\ maxDepth = MaxInt \/ maxDepth - Distance(path, r) + 1 >= dirs[r].dirs[r].depth}
    IN Restrict(dirs, DOMAIN dirs \ covered)

\* cleanupDirectories: without the directories below path that path now covers.
CleanedUp(dirs, path, maxDepth) ==
    LET covered == {r \in DOMAIN dirs :
                      /\ StrictlyBelow(r, path)
                      /\ maxDepth = MaxInt \/ maxDepth - Distance(path, r) >= dirs[r].dirs[r].depth}
    IN Restrict(dirs, DOMAIN dirs \ covered)

\* The rest of register, under the lock.
Fill(u) ==
    LET path == registering[u].path
        maxDepth == registering[u].depth
        existing == {r \in Existing(path, maxDepth) :
                       \A s \in Existing(path, maxDepth) : Len(r) <= Len(s)}
    IN /\ registering[u].stage = "locked"
       /\ registering' = [registering EXCEPT ![u] = Idle]
       /\ \/ /\ existing = {} /\ NoSuchFile(path, maxDepth)
             /\ pendingFiles' = pendingFiles \cup {path}
             /\ directories' = CleanedUp(directories, path, maxDepth)
          \/ /\ existing = {} /\ ~NoSuchFile(path, maxDepth)
             /\ directories' = CleanedUp(With(directories, path, NewCachedDirectory(path, maxDepth)),
                                        path, maxDepth)
             /\ UNCHANGED pendingFiles
          \/ \E r \in existing :
             /\ directories' = CleanedUp([directories EXCEPT ![r] =
                                  Update(@, r, path, fs[path], TRUE, fs, Wanted).tree], path, maxDepth)
             /\ UNCHANGED pendingFiles
       /\ observed' = {p \in observed : ~StartsWith(p, path)}
                       \cup {p \in Visible(directories') : StartsWith(p, path)}
       /\ UNCHANGED <<fs, changed, events, overtaken, registered, watched, closed, budget>>
-----------------------------------------------------------------------------
(* unregister *)

\* Mutant: the registry is asked before the path is taken out of it.
CoveredBefore(path) == Registry!Accepts(registered, path)

\* directoryRegistry.accept, after removeDirectory.
StillCovered(path) == Registry!Accepts(Registry!Without(registered, path), path)

\* tree.unregister.
Unregister(u, path) ==
    /\ ~Locked /\ registering[u] = Idle /\ budget.unregister > 0
    /\ budget' = [budget EXCEPT !.unregister = @ - 1]
    /\ registered' = Registry!Without(registered, path)
    /\ directories' =
         LET found == Find(directories, path)
         IN IF StillCovered(path) THEN directories
            ELSE [r \in DOMAIN directories \ (found \cap {path}) |->
                    IF r \in found THEN Remove(directories[r], r, path) ELSE directories[r]]
    /\ registering' = [registering EXCEPT ![u] = [@ EXCEPT !.stage = "unregistered"]]
    /\ observed' = Visible(directories')
    /\ UNCHANGED <<fs, changed, events, overtaken, pendingFiles, watched, closed>>

\* pathWatcher.unregister, which asks the registry what to go on watching.
Unwatch(u) ==
    /\ registering[u].stage = "unregistered"
    /\ registering' = [registering EXCEPT ![u] = Idle]
    /\ watched' = watched \cap Wanted
    /\ UNCHANGED <<fs, changed, events, overtaken, registered, directories, pendingFiles, closed,
                   observed, budget>>
-----------------------------------------------------------------------------
(* handleEvent *)

\* Mutant: only the deepest of the directories above path.
DeepestRootAbove(dirs, path) ==
    {r \in DOMAIN dirs : /\ StartsWith(path, r)
                         /\ \A s \in DOMAIN dirs : StartsWith(path, s) => Len(s) <= Len(r)}

\* handleDelete, on the given directories.
RootsAbove(dirs, path) == {r \in DOMAIN dirs : StartsWith(path, r)}

HandleDelete(dirs, path) ==
    LET roots == RootsAbove(dirs, path)
        deleted == UNION {IF r = path THEN Entries(dirs, r) ELSE RemovedPaths(dirs[r], r, path)
                            : r \in roots}
    IN /\ directories' =
            Restrict([r \in DOMAIN dirs |-> IF r \in roots THEN Remove(dirs[r], r, path) ELSE dirs[r]],
                     DOMAIN dirs \ {path})
       /\ pendingFiles' =
            IF roots # {} /\ path \in DOMAIN registered THEN pendingFiles \cup {path} ELSE pendingFiles
       /\ observed' = Replay([Nothing EXCEPT !.deleted = deleted])

HandleUpdate(r, path, kind) ==
    LET throws == UpdateThrows(directories[r], r, path, kind, RescanOnDirectoryUpdate, fs, Wanted)
        update == Update(directories[r], r, path, kind, RescanOnDirectoryUpdate, fs, Wanted)
    IN IF throws
       THEN HandleDelete([directories EXCEPT ![r] = Cleared(@, r)], path)
       ELSE /\ directories' = [directories EXCEPT ![r] = update.tree]
            /\ observed' = Replay(update.updates)
            /\ UNCHANGED pendingFiles

\* A path that was registered before it existed is there now.
HandlePending(path) ==
    LET depth == Registry!MaxDepthFor(registered, path)
        dir == NewCachedDirectory(path, depth)
    IN IF NoSuchFile(path, depth)
       THEN UNCHANGED <<directories, pendingFiles, observed>>
       ELSE /\ directories' = With(directories, path, dir)
            /\ observed' = Replay([Nothing EXCEPT
                              !.created = {path} \cup Listed(dir, path, dir.dirs[path].depth)])
            /\ UNCHANGED pendingFiles

\* handleEvent, of a path that was seen as kind.
Handle(path, kind) ==
    LET found == Find(directories, path)
    IN \/ /\ closed
          /\ UNCHANGED <<directories, pendingFiles, observed>>
       \/ /\ ~closed /\ kind = "none"
          /\ HandleDelete(directories, path)
       \/ /\ ~closed /\ kind # "none"
          /\ \E r \in found : HandleUpdate(r, path, kind)
       \/ /\ ~closed /\ kind # "none" /\ found = {} /\ path \in pendingFiles
          /\ HandlePending(path)
       \/ /\ ~closed /\ kind # "none" /\ found = {} /\ path \notin pendingFiles
          /\ UNCHANGED <<directories, pendingFiles, observed>>

\* A thread gets the lock of `directories`.  What it saw may not be the newest
\* any more: other threads looked at the path since, or have yet to come.
HandleEvent(w) ==
    /\ w \in DOMAIN events /\ ~Locked
    /\ Handle(events[w].path, events[w].kind)
    /\ events' = Restrict(events, DOMAIN events \ {w})
    /\ overtaken' = IF events[w].newest THEN overtaken \cup ({events[w].path} \cap InFlight')
                    ELSE overtaken
    /\ UNCHANGED <<fs, changed, registered, registering, watched, closed, budget>>

Close ==
    /\ ~closed /\ ~Locked
    /\ closed' = TRUE
    /\ directories' = NoRoots
    /\ registered' = Registry!NoDirectories
    /\ pendingFiles' = {}
    /\ observed' = {}
    /\ watched' = {}
    /\ UNCHANGED <<fs, changed, events, overtaken, registering, budget>>
-----------------------------------------------------------------------------
Init ==
    /\ fs \in {f \in [Path -> Kind] : IsFileSystem(f)}
    /\ changed = {}
    /\ events = NoFiles /\ overtaken = {}
    /\ registered = Registry!NoDirectories
    /\ directories = NoRoots
    /\ pendingFiles = {}
    /\ registering = [u \in User |-> Idle]
    /\ watched = {}
    /\ closed = FALSE
    /\ observed = {}
    /\ budget = [changes |-> MaxChanges, register |-> MaxRegister, unregister |-> MaxUnregister]

Next ==
    \/ \E p \in Path :
         \/ \E kind \in Kind \ {"none"} : Appear(p, kind) \/ Modify(p, kind)
         \/ Disappear(p)
         \/ \E w \in Watcher : Stat(w, p)
    \/ \E w \in Watcher : HandleEvent(w)
    \/ \E u \in User :
         \/ \E p \in Path, d \in Depth : Register(u, p, d)
         \/ Watch(u)
         \/ Fill(u)
         \/ \E p \in Path : Unregister(u, p)
         \/ Unwatch(u)
    \/ Close

Spec == Init /\ [][Next]_vars

\* The watchers' threads and the threads inside a call are scheduled.
Fairness ==
    /\ \A p \in Path : WF_vars(\E w \in Watcher : Stat(w, p))
    /\ \A w \in Watcher : WF_vars(HandleEvent(w))
    /\ \A u \in User : WF_vars(Watch(u)) /\ WF_vars(Fill(u)) /\ WF_vars(Unwatch(u))

FairSpec == Spec /\ Fairness
-----------------------------------------------------------------------------
(* Properties.  Quiescent: there is nothing left to do, no notification, no   *)
(* event and no call under way.                                              *)

Quiescent ==
    /\ ~closed /\ changed = {} /\ DOMAIN events = {}
    /\ \A u \in User : registering[u] = Idle

\* An event that was seen before an unregister may be handled after the next
\* register, and unregister drops more than its own: the mirror is about a
\* repository where nothing was unregistered yet.
NothingUnregistered == budget.unregister = MaxUnregister

\* The entries of a tree that a listing finds when asked for their own path:
\* those filed under their name.
FoundIn(tree) == DirPaths(tree) \cup {p \in FilePaths(tree) : <<p, "name">> \in DOMAIN tree.files}
Found(dirs) == UNION {FoundIn(dirs[r]) : r \in DOMAIN dirs}

EntryKinds(tree, p) ==
    {tree.dirs[q].kind : q \in {p} \cap DirPaths(tree)}
    \cup {tree.files[f] : f \in {<<p, "name">>} \cap DOMAIN tree.files}

\* Types; and in a cached tree every directory keeps the depth that its
\* distance from the root leaves it, or -1 when it is a leaf.
TypeOK ==
    /\ fs \in [Path -> Kind]
    /\ changed \subseteq Path /\ pendingFiles \subseteq Path
    /\ DOMAIN events \subseteq Watcher
    /\ \A w \in DOMAIN events : events[w] \in [path : Path, kind : Kind, newest : BOOLEAN]
    /\ overtaken \subseteq Path
    /\ DOMAIN registered \subseteq Path /\ \A p \in DOMAIN registered : registered[p] \in Depth
    /\ DOMAIN directories \subseteq Path
    /\ \A r \in DOMAIN directories : LET tree == directories[r] IN
         /\ r \in DirPaths(tree)
         /\ \A q \in DirPaths(tree) :
              /\ StartsWith(q, r)
              /\ tree.dirs[q].depth \in {-1, IF tree.dirs[r].depth = MaxInt THEN MaxInt
                                              ELSE tree.dirs[r].depth - Distance(r, q)}

\* FileTreeRepository promises that once the file system settles the cache
\* mirrors it.  One half of that: what exists and is registered is cached,
\* whatever handleEvent saw late, out of order or not at all.
RegisteredIsCached ==
    Quiescent => \A p \in Wanted : fs[p] # "none" => p \in Found(directories)

\* The same with several registrations, except below a registered path that
\* did not exist: register and handleDelete leave such a path to pendingFiles.
\* What counts is what a listing of the cache shows.
CachedUnlessPending ==
    Quiescent /\ NothingUnregistered => \A p \in Wanted :
        fs[p] # "none" /\ (\A r \in pendingFiles : ~StartsWith(p, r)) => p \in Visible(directories)

\* The other half of the mirror: an entry that is found by its path is the
\* entry of a path that exists, whichever of update, rescan and handleDelete
\* saw the deletion, unless an older event of that very path was handled after
\* the one that said so.
FoundExists ==
    Quiescent /\ NothingUnregistered => \A p \in Found(directories) \ overtaken : fs[p] # "none"

\* The same whatever the order in which two threads handle what they saw.
FoundExistsInAnyOrder ==
    Quiescent /\ NothingUnregistered => \A p \in Found(directories) : fs[p] # "none"

\* The same in a repository where paths are unregistered and registered again, for
\* what is registered (an event of the first registration may spoil the second).
RegisteredExists ==
    Quiescent => \A p \in Found(directories) \cap Wanted : fs[p] # "none"

\* The same for all that listing a directory shows.
ListedExists ==
    Quiescent => \A p \in Visible(directories) : fs[p] # "none"

\* The mirror shows each path as what it is: once all is quiet no entry has
\* the kind or the content that updateImpl put there before a later change,
\* unless two threads handled what they saw of the path in the wrong order.
\* Of a path below several roots only the deepest is brought up to date.
EntriesMatch ==
    Quiescent /\ NothingUnregistered =>
        \A r \in DOMAIN directories : \A p \in FoundIn(directories[r]) \ overtaken :
        fs[p] # "none" /\ RootsAbove(directories, p) = {r} => EntryKinds(directories[r], p) = {fs[p]}

\* The same for every root that a path lies below.
EntriesMatchInAllRoots ==
    Quiescent => \A r \in DOMAIN directories : \A p \in FoundIn(directories[r]) :
        fs[p] # "none" => EntryKinds(directories[r], p) = {fs[p]}

\* What unregister promises: once all is quiet the cache shows nothing that no
\* registration covers.
UnregisteredIsForgotten ==
    Quiescent => Visible(directories) \subseteq Wanted

\* unregister drops the cached directory of a path that no other registration
\* covers: every cached root is registered, covered, or was once missing (a
\* late event may bring such a root back).
RootsAreWanted ==
    ~closed => DOMAIN directories \subseteq Wanted \cup pendingFiles

\* Every update of the cache is reported (runCallbacks): an observer that
\* replays the callbacks, and lists what it registers, knows at every moment
\* what a listing would find.
ObserversInStep ==
    ~closed => observed = Found(directories)

\* close clears the directory cache.
ClosedIsEmpty ==
    closed /\ (\A u \in User : registering[u] = Idle) => directories = NoRoots

\* The cache catches up: whatever is registered and exists is cached from some
\* time on, as long as the watcher's thread and the callers keep running.
Settles ==
    \A p \in Path : <>[](closed \/ (p \in Wanted /\ fs[p] # "none" => p \in Found(directories)))
=============================================================================
