--------------------------- MODULE SimpleFileTreeView ---------------------------
(***************************************************************************)
(* SimpleFileTreeView.java: one recursive listing of a directory, while    *)
(* directories may be deleted under it.  The recursion of Lister is a stack*)
(* of frames, one per call of fillResults, that share `visited`.           *)
(*                                                                         *)
(* A path is the sequence of names below the directory that is listed.     *)
(* Nodes are the real directories; an entry of a node is a directory, a    *)
(* file or a link: to a node, to nothing ("broken") or to itself           *)
(* ("cyclic").  The filter accepts everything.                             *)
(***************************************************************************)
EXTENDS Integers, SequencesExt

CONSTANTS
    Node,         \* the real directories
    Root,         \* the one that is listed
    FileSystems,  \* node -> name -> its entry: the possible file systems
    MaxDepths,    \* the maxDepth arguments of list
    MaxInt,       \* Integer.MAX_VALUE
    MaxLinks,     \* the links that a path may pass before the system refuses it
    MaxDeletions  \* bound on the directories that are deleted meanwhile

ASSUME ListingAssumption ==
    /\ Root \in Node /\ MaxLinks \in Nat /\ MaxDeletions \in Nat
    /\ MaxDepths \subseteq -1 .. MaxInt

VARIABLES
    entries,    \* the file system at first
    gone,       \* nodes that were deleted
    arguments,  \* of list and of the constructor; whether the path is a real one
    stack,      \* the calls of fillResults, the last one first
    visited,    \* the nodes that Lister.visited holds the real path of
    result,
    outcome,    \* "running", "returned" or "threw"
    failed      \* directories whose listing was broken off

vars == <<entries, gone, arguments, stack, visited, result, outcome, failed>>
-----------------------------------------------------------------------------
(* Paths *)

EntryOf(node, name) == entries[node][name]
Names(node) == DOMAIN entries[node]

IsDirectory(entry) == entry.kind \in {"dir", "link"} /\ entry.to \in Node

\* The nodes that a path passes, its own last; fewer when there is no such path.
NodesOn(path) ==
    FoldLeft(LAMBDA nodes, name :
                IF name \in Names(Last(nodes)) /\ IsDirectory(EntryOf(Last(nodes), name))
                THEN Append(nodes, EntryOf(Last(nodes), name).to)
                ELSE nodes,
             <<Root>>, path)

NodeAt(path) == Last(NodesOn(path))
Links(path) ==
    {i \in DOMAIN path : EntryOf(NodesOn(path)[i], path[i]).kind = "link"}
EntryAt(path) == EntryOf(NodeAt(Front(path)), Last(path))

\* The system resolves the path of a directory.
Resolves(path) ==
    Range(NodesOn(path)) \cap gone = {} /\ Cardinality(Links(path)) <= MaxLinks
-----------------------------------------------------------------------------
(* list *)

Frame(dir, depth) == [dir |-> dir, depth |-> depth, listed |-> FALSE, dirs |-> {}, files |-> {},
                      links |-> {}]
Top == Head(stack)
Child(name) == Append(Top.dir, name)
Running == outcome = "running" /\ stack # <<>>

Decrement(depth) == IF depth = MaxInt THEN depth ELSE depth - 1

\* Mutant: what was visited stays.
VisitedKept == visited

\* The finally clause of fillResults.
VisitedAfter == {}

\* Mutant: only links are recorded.
VisitedNothing(path) == {}

\* visited.add(dir): a path through a link is no real path, and so of no use.
VisitedDir(path) == IF Links(path) = {} /\ arguments.isReal THEN {NodeAt(path)} ELSE {}

\* An IOException in impl.
Throw ==
    /\ visited' = VisitedAfter
    /\ IF arguments.ignoreExceptions
       THEN /\ stack' = Tail(stack) /\ failed' = failed \cup {Top.dir}
            /\ outcome' = IF Len(stack) = 1 THEN "returned" ELSE outcome
       ELSE stack' = <<>> /\ outcome' = "threw" /\ UNCHANGED failed

\* A negative depth: the path itself.
ListItself ==
    /\ Running /\ Top.depth < 0
    /\ result' = {Top.dir}
    /\ stack' = <<>>
    /\ outcome' = "returned"
    /\ UNCHANGED <<entries, gone, arguments, visited, failed>>

OfKind(node, kind) == {n \in Names(node) : EntryOf(node, n).kind = kind}
Present(node) == {n \in Names(node) : EntryOf(node, n).kind # "dir" \/ EntryOf(node, n).to \notin gone}

\* directoryLister.apply
ListDirectory ==
    LET node == NodeAt(Top.dir)
    IN /\ Running /\ Top.depth >= 0 /\ ~Top.listed
       /\ IF Resolves(Top.dir)
          THEN /\ stack' = <<[Top EXCEPT !.listed = TRUE,
                                         !.dirs = OfKind(node, "dir") \cap Present(node),
                                         !.files = OfKind(node, "file"),
                                         !.links = OfKind(node, "link")]>> \o Tail(stack)
               /\ visited' = visited \cup VisitedDir(Top.dir)
               /\ UNCHANGED <<outcome, failed>>
          ELSE Throw
       /\ UNCHANGED <<entries, gone, arguments, result>>

\* The next subdirectory.
NextDirectory(name) ==
    LET rest == <<[Top EXCEPT !.dirs = @ \ {name}]>> \o Tail(stack)
    IN /\ Running /\ Top.listed /\ name \in Top.dirs
       /\ result' = result \cup {Child(name)}
       /\ stack' = IF Top.depth > 0 THEN <<Frame(Child(name), Decrement(Top.depth))>> \o rest
                   ELSE rest
       /\ UNCHANGED <<entries, gone, arguments, visited, outcome, failed>>

Files ==
    /\ Running /\ Top.listed /\ Top.dirs = {} /\ Top.files # {}
    /\ result' = result \cup {Child(n) : n \in Top.files}
    /\ stack' = <<[Top EXCEPT !.files = {}]>> \o Tail(stack)
    /\ UNCHANGED <<entries, gone, arguments, visited, outcome, failed>>

\* getSymbolicLinkTargetKind: it throws when the path cannot be resolved, but not
\* when there is nothing at its end.
KindOf(path) ==
    LET to == EntryAt(path).to
    IN IF ~arguments.followLinks THEN "link"
       ELSE IF Range(NodesOn(Front(path))) \cap gone # {} \/ to \in {"broken"} \cup gone
       THEN "nonexistent"
       ELSE IF to = "cyclic" \/ ~Resolves(path) THEN "throws"
       ELSE "directory"

\* The next link, after the files.
NextLink(name) ==
    LET path == Child(name)
        kind == KindOf(path)
        rest == <<[Top EXCEPT !.links = @ \ {name}]>> \o Tail(stack)
        node == NodeAt(path)
    IN /\ Running /\ Top.listed /\ Top.dirs = {} /\ Top.files = {} /\ name \in Top.links
       /\ IF kind = "throws"
          THEN Throw /\ UNCHANGED result
          ELSE /\ result' = result \cup {path}
               /\ IF kind = "directory" /\ Top.depth > 0 /\ node \notin visited
                  THEN /\ stack' = <<Frame(path, Decrement(Top.depth))>> \o rest
                       /\ visited' = visited \cup {node}
                  ELSE stack' = rest /\ UNCHANGED visited
               /\ UNCHANGED <<outcome, failed>>
       /\ UNCHANGED <<entries, gone, arguments>>

\* fillResults returns.
Return ==
    /\ Running /\ Top.listed /\ Top.dirs = {} /\ Top.files = {} /\ Top.links = {}
    /\ stack' = Tail(stack)
    /\ visited' = VisitedAfter
    /\ outcome' = IF Len(stack) = 1 THEN "returned" ELSE outcome
    /\ UNCHANGED <<entries, gone, arguments, result, failed>>

\* A directory is deleted, with what is in it.
Delete(node) ==
    /\ Running /\ node \notin gone \cup {Root} /\ Cardinality(gone) < MaxDeletions
    /\ gone' = gone \cup {node}
    /\ UNCHANGED <<entries, arguments, stack, visited, result, outcome, failed>>
-----------------------------------------------------------------------------
Init ==
    /\ entries \in FileSystems
    /\ gone = {}
    /\ arguments \in [depth : MaxDepths, followLinks : BOOLEAN, ignoreExceptions : BOOLEAN,
                      isReal : BOOLEAN]
    /\ stack = <<Frame(<<>>, arguments.depth)>>
    /\ visited = {}
    /\ result = {}
    /\ outcome = "running"
    /\ failed = {}

Listing ==
    \/ ListItself \/ ListDirectory \/ Files \/ Return
    \/ \E name \in Top.dirs : NextDirectory(name)
    \/ \E name \in Top.links : NextLink(name)

Next == (Running /\ Listing) \/ \E node \in Node : Delete(node)

Spec == Init /\ [][Next]_vars
-----------------------------------------------------------------------------
\* Its path passes no directory twice.
IsLoopFree(path) == IsInjective(NodesOn(path))

\* The paths below Root that pass no directory twice but at their end.
RECURSIVE PathsBelow(_)
PathsBelow(dir) ==
    LET children == {Append(dir, n) : n \in Names(NodeAt(dir))}
    IN children \cup UNION {PathsBelow(c) : c \in {d \in children :
                                IsDirectory(EntryAt(d)) /\ IsLoopFree(d)}}

\* What list promises for path: the directories up to it are within the depth, are
\* there to the end, and were not broken off.
IsPromised(path) ==
    /\ arguments.depth >= 0 /\ Len(path) - 1 <= arguments.depth
    /\ Range(NodesOn(path)) \cap gone = {}
    /\ Cardinality(Links(Front(path))) <= MaxLinks
    /\ arguments.followLinks \/ Links(Front(path)) = {}
    /\ \A n \in 0 .. Len(path) - 1 : SubSeq(path, 1, n) \notin failed

\* A listing that returns holds every path it should, though directories go while
\* it runs and `visited` is shared by all its calls; and nothing beyond the depth.
Complete ==
    outcome = "returned" =>
        /\ \A p \in PathsBelow(<<>>) : IsPromised(p) => p \in result
        /\ \A p \in result : Len(p) <= arguments.depth + 1

\* The other directories and links that a directory has.
IsChain == \A node \in Node : Cardinality(OfKind(node, "dir") \cup OfKind(node, "link")) <= 1

\* As in the loop of FileTreeViewTest: a link that closes a loop is listed, and is
\* not followed - where no directory has two directories or links, and the path
\* that is listed is a real one.
LoopsAreCut ==
    IsChain /\ arguments.isReal => \A p \in result : p # <<>> => IsLoopFree(Front(p))

\* That loops are cut in every file system does not hold: the return of any call
\* makes the others forget where they are.
AllLoopsAreCut == arguments.isReal => \A p \in result : p # <<>> => IsLoopFree(Front(p))
=============================================================================
