--------------------------- MODULE PollingPathWatcher ---------------------------
(***************************************************************************)
(* PollingPathWatcher.java: a path watcher that lists all registered       *)
(* directories again and again (PeriodicTask.java) and reports the         *)
(* differences to the previous listing, oldEntries.  register adds a first *)
(* listing of its own to oldEntries, from the caller's thread.             *)
(*                                                                         *)
(* One listing of a directory is one step; between two of them, and        *)
(* between the steps of a poll, the file system changes and other threads  *)
(* run.  The two `synchronized` blocks use different monitors (the watcher *)
(* and the runnable), so they exclude nothing from each other.             *)
(***************************************************************************)
EXTENDS DirectoryRegistry, Functions

CONSTANTS
    User,          \* threads that call register and unregister
    MaxChanges,    \* bound on the changes of the file system
    MaxRegister,   \* bound on the calls of register
    MaxUnregister  \* bound on the calls of unregister

\* A path has a name, and the directory that it lies in is a path too.
ASSUME PollingAssumption ==
    /\ {MaxChanges, MaxRegister, MaxUnregister} \subseteq Nat
    /\ \A p \in Path : Len(p) >= 1 /\ (Len(p) > 1 => Parent(p) \in Path)

\* Last modified times: every change of the file system is a tick of the clock.
Missing == 0
Stamp == 1 .. MaxChanges + 1

VARIABLES
    fs,           \* the last modified time of every path, or Missing
    oldEntries,   \* path -> last modified time
    poll,         \* the polling thread: its stage, the directories it has
                  \* still to list, and the entries it listed (newEntries)
    registering,  \* per user: the call of register under way
    closing,      \* "open", then "registry", then "closed"
    known,        \* what an observer knows that lists what it registers and
                  \* then replays the events: path -> last modified time
    deleted,      \* the paths of all Delete events
    disappeared,  \* the paths that ever ceased to exist
    budget        \* calls and changes left

vars == <<fs, registered, oldEntries, poll, registering, closing, known, deleted, disappeared,
          budget>>

NoEntries == [p \in {} |-> Missing]
Sleeping == [stage |-> "sleeping", todo |-> NoEntries, newEntries |-> NoEntries]
Idle == [path |-> <<>>, depth |-> 0, entries |-> NoEntries]
-----------------------------------------------------------------------------
(* The file system *)

Change(p, stamp) ==
    /\ budget.changes > 0
    /\ budget' = [budget EXCEPT !.changes = @ - 1]
    /\ fs' = [fs EXCEPT ![p] = stamp]
    /\ disappeared' = disappeared \cup {q \in {p} : stamp = Missing}
    /\ UNCHANGED <<registered, oldEntries, poll, registering, closing, known, deleted>>

\* p is created or modified.
Touch(p) ==
    /\ Len(p) > 1 => fs[Parent(p)] # Missing
    /\ Change(p, MaxChanges - budget.changes + 2)

Disappear(p) ==
    /\ fs[p] # Missing /\ \A q \in Path : StrictlyBelow(q, p) => fs[q] = Missing
    /\ Change(p, Missing)
-----------------------------------------------------------------------------
\* getEntries(path, maxDepth): a path that does not exist has no entries.
GetEntries(path, maxDepth) ==
    LET below == {q \in Path : /\ StrictlyBelow(q, path) /\ fs[q] # Missing
                               /\ maxDepth = MaxInt \/ Distance(path, q) - 1 <= maxDepth}
    IN Restrict(fs, IF fs[path] = Missing THEN {} ELSE {path} \cup below)

AllEntries(reg) == {p \in Path : \E r \in DOMAIN reg : p \in DOMAIN GetEntries(r, reg[r])}

\* register: the listing, outside of every lock.
Register(u, path, maxDepth) ==
    /\ registering[u] = Idle /\ budget.register > 0
    /\ budget' = [budget EXCEPT !.register = @ - 1]
    /\ registering' = [registering EXCEPT ![u] =
                         [path |-> path, depth |-> maxDepth, entries |-> GetEntries(path, maxDepth)]]
    /\ UNCHANGED <<fs, registered, oldEntries, poll, closing, known, deleted, disappeared>>

\* Mutant: what register listed is not remembered.
AddAllForgets(map, entries) == map

AddAll(map, entries) == WithAll(map, entries)

\* The synchronized part of register.  The caller then lists what it registered.
Registered(u) ==
    LET call == registering[u]
    IN /\ call # Idle
       /\ registering' = [registering EXCEPT ![u] = Idle]
       /\ oldEntries' = AddAll(oldEntries, call.entries)
       /\ registered' = IF Extends(registered, call.path, call.depth)
                        THEN Put(registered, call.path, call.depth) ELSE registered
       /\ known' = WithAll(known, GetEntries(call.path, call.depth))
       /\ UNCHANGED <<fs, poll, closing, deleted, disappeared, budget>>

\* unregister; the caller forgets what it does not monitor any more.
Unregister(u, path) ==
    /\ registering[u] = Idle /\ budget.unregister > 0
    /\ budget' = [budget EXCEPT !.unregister = @ - 1]
    /\ registered' = Without(registered, path)
    /\ known' = Restrict(known, {p \in DOMAIN known : Accepts(registered', p)})
    /\ UNCHANGED <<fs, oldEntries, poll, registering, closing, deleted, disappeared>>
-----------------------------------------------------------------------------
(* PollingRunnable.run *)

\* getEntries(): the registered directories, as they are now.
PollStart ==
    /\ poll.stage = "sleeping" /\ closing # "closed"
    /\ poll' = [Sleeping EXCEPT !.stage = "listing", !.todo = registered]
    /\ UNCHANGED <<fs, registered, oldEntries, registering, closing, known, deleted, disappeared,
                   budget>>

\* getEntries(): one of them is listed.
PollList(dir) ==
    /\ poll.stage = "listing" /\ dir \in DOMAIN poll.todo
    /\ poll' = [poll EXCEPT !.todo = Restrict(@, DOMAIN @ \ {dir}),
                            !.newEntries = AddAll(@, GetEntries(dir, poll.todo[dir]))]
    /\ UNCHANGED <<fs, registered, oldEntries, registering, closing, known, deleted, disappeared,
                   budget>>

\* Mutant: a changed last modified time goes unnoticed.
ReportedCreations(old, new) == DOMAIN new \ DOMAIN old

\* The paths of the Create and Modify events of diffDirectoryEntries.
Reported(old, new) == {p \in DOMAIN new : p \in DOMAIN old => old[p] # new[p]}

\* diffDirectoryEntries(oldEntries, newEntries, cacheObserver)
PollDiff ==
    LET gone == DOMAIN oldEntries \ DOMAIN poll.newEntries
    IN /\ poll.stage = "listing" /\ poll.todo = NoEntries
       /\ poll' = [poll EXCEPT !.stage = "diffed"]
       /\ deleted' = deleted \cup gone
       /\ known' = WithAll(Restrict(known, DOMAIN known \ gone),
                            Restrict(poll.newEntries, Reported(oldEntries, poll.newEntries)))
       /\ UNCHANGED <<fs, registered, oldEntries, registering, closing, disappeared, budget>>

\* oldEntries = newEntries
PollSwap ==
    /\ poll.stage = "diffed"
    /\ oldEntries' = poll.newEntries
    /\ poll' = Sleeping
    /\ UNCHANGED <<fs, registered, registering, closing, known, deleted, disappeared, budget>>
-----------------------------------------------------------------------------
(* close: the registry first, then the periodic task, whose thread ends      *)
(* after the poll under way.                                                 *)

CloseRegistry ==
    /\ closing = "open"
    /\ closing' = "registry"
    /\ registered' = NoDirectories
    /\ UNCHANGED <<fs, oldEntries, poll, registering, known, deleted, disappeared, budget>>

CloseTask ==
    /\ closing = "registry"
    /\ closing' = "closed"
    /\ UNCHANGED <<fs, registered, oldEntries, poll, registering, known, deleted, disappeared,
                   budget>>
-----------------------------------------------------------------------------
PollingInit ==
    /\ fs \in {f \in [Path -> {Missing, 1}] :
                 \A p, q \in Path : StartsWith(p, q) /\ f[p] # Missing => f[q] # Missing}
    /\ registered = NoDirectories
    /\ oldEntries = NoEntries
    /\ poll = Sleeping
    /\ registering = [u \in User |-> Idle]
    /\ closing = "open"
    /\ known = NoEntries
    /\ deleted = {}
    /\ disappeared = {}
    /\ budget = [changes |-> MaxChanges, register |-> MaxRegister, unregister |-> MaxUnregister]

PollingNext ==
    \/ \E p \in Path : Disappear(p) \/ PollList(p) \/ Touch(p)
    \/ \E u \in User :
         \/ \E p \in Path : Unregister(u, p) \/ \E d \in Depth : Register(u, p, d)
         \/ Registered(u)
    \/ PollStart \/ PollDiff \/ PollSwap
    \/ CloseRegistry \/ CloseTask

PollingSpec == PollingInit /\ [][PollingNext]_vars

\* The polling thread and the threads inside register are scheduled.
Fairness ==
    /\ WF_vars(PollStart) /\ WF_vars(PollDiff) /\ WF_vars(PollSwap)
    /\ \A p \in Path : WF_vars(PollList(p))
    /\ \A u \in User : WF_vars(Registered(u))

FairSpec == PollingSpec /\ Fairness
-----------------------------------------------------------------------------
\* A poll has gone by that listed what is there now.
UpToDate == closing = "open" /\ poll = Sleeping /\ (\A u \in User : registering[u] = Idle)
            /\ oldEntries = Restrict(fs, AllEntries(registered))

\* Nothing that was created or modified goes unreported, even when register and
\* a poll run at the same time: once a poll has listed what is there, the
\* observer knows the last modified time of every registered path that exists.
NothingMissed ==
    UpToDate => \A p \in AllEntries(registered) : p \in DOMAIN known /\ known[p] = fs[p]

\* Nothing that was deleted goes unreported.
NoDeletionMissed ==
    UpToDate => \A p \in DOMAIN known : fs[p] # Missing

\* A Delete event is about a path that did cease to exist.
DeletionsHappened == deleted \subseteq disappeared

\* Polling catches up with the file system.
CatchesUp ==
    \A p \in Path : <>[](closing # "open"
                         \/ (p \in AllEntries(registered) => p \in DOMAIN known /\ known[p] = fs[p]))
=============================================================================
