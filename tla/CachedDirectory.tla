---------------------------- MODULE CachedDirectory ----------------------------
(***************************************************************************)
(* CachedDirectoryImpl.java: the tree of entries below one cached          *)
(* directory, and how it is brought up to date from the file system.       *)
(*                                                                         *)
(* A CachedDirectoryImpl holds a map of subdirectories (CachedDirectoryImpl*)
(* again) and a map of files.  Here the whole tree is one record:          *)
(*   dirs   a function from the path of every CachedDirectoryImpl of the   *)
(*          tree, the root included, to its depth and the kind of its      *)
(*          entry;                                                         *)
(*   files  a function from <<path, key>> to the kind of an entry of the   *)
(*          files map of Parent(path).  The code files an entry under its  *)
(*          file name (key "name"), except in addDirectory, which files it *)
(*          under its full path (key "path").                              *)
(* Every operation runs under the lock of the root: it is one function     *)
(* from tree to tree.  What an operation tells its Updates is the sets of  *)
(* created, updated and deleted paths.                                     *)
(*                                                                         *)
(* Listing a directory of the file system is atomic here, symbolic links   *)
(* are not modelled, and the user's filter accepts everything.             *)
(***************************************************************************)
EXTENDS Paths, FiniteSets, Functions

CONSTANTS
    Path,      \* the paths of the file system
    MaxInt,    \* Integer.MAX_VALUE: as a depth it means "no limit"
    Content    \* what a regular file may hold

\* A path has a name, and fewer names than an int can count; the directories
\* that it lies in have paths too.
ASSUME PathAssumption ==
    /\ MaxInt \in Nat \ {0}
    /\ \A p \in Path : p \in Seq(STRING) /\ p # <<>> /\ Len(p) <= MaxInt
    /\ \A p \in Path : \A n \in 1 .. Len(p) : SubSeq(p, 1, n) \in Path
    /\ "none" \notin Content /\ "dir" \notin Content

\* What stat says of a path, with what the converter makes of a file's content.
Kind == {"none", "dir"} \cup Content

NoFiles == [f \in {} |-> "none"]

\* Mutant: the last level is left out.
WithinStrictly(depth, distance) == depth = MaxInt \/ distance < depth

Within(depth, distance) == depth = MaxInt \/ distance <= depth

\* Mutant: "no limit" is counted down like any other depth.
SubdirectoryDepthCounted(depth, levels) == depth - levels

\* subdirectoryDepth, `levels` times.
SubdirectoryDepth(depth, levels) == IF depth = MaxInt THEN depth ELSE depth - levels

DirPaths(tree) == DOMAIN tree.dirs
FilePaths(tree) == {f[1] : f \in DOMAIN tree.files}

\* An Updates object.
Nothing == [created |-> {}, updated |-> {}, deleted |-> {}]
-----------------------------------------------------------------------------
(* init: list the file system.  fs is its state, wanted what pathFilter      *)
(* accepts.  Reading a path that is not a directory throws.                  *)

CanInit(fs, path, depth) == depth < 0 \/ fs[path] = "dir"

ScannedDirs(fs, wanted, base, depth) ==
    {q \in Path :
        /\ StrictlyBelow(q, base)
        /\ fs[q] = "dir"
        /\ Within(depth, Distance(base, q))
        /\ \A r \in Path : StrictlyBelow(r, base) /\ StartsWith(q, r) => r \in wanted}

\* A fresh CachedDirectoryImpl, after its init.  A directory below the last
\* level is filed like a file.
Scan(fs, wanted, base, depth, kind) ==
    LET reads  == depth >= 0 /\ fs[base] = "dir"
        inner  == IF reads THEN ScannedDirs(fs, wanted, base, depth) ELSE {}
        listed == IF reads THEN inner \cup {base} ELSE {}
        leaves == {q \in wanted \ inner :
                    Len(q) > 1 /\ Parent(q) \in listed /\ fs[q] # "none"}
    IN [dirs  |-> [q \in inner \cup {base} |->
                    [depth |-> SubdirectoryDepth(depth, Distance(base, q)),
                     kind  |-> IF q = base THEN kind ELSE "dir"]],
        files |-> [f \in leaves \X {"name"} |-> fs[f[1]]]]
-----------------------------------------------------------------------------
(* listEntries: the paths that a listing of dir to maxDepth returns          *)

Listed(tree, dir, maxDepth) ==
    IF tree.dirs[dir].depth < 0 \/ maxDepth < 0
    THEN {dir}
    ELSE {q \in DirPaths(tree) \cup FilePaths(tree) :
            StrictlyBelow(q, dir) /\ Within(maxDepth, Distance(dir, q) - 1)}

\* A directory with everything below it.
Subtree(tree, dir) == {dir} \cup Listed(tree, dir, MaxInt)
-----------------------------------------------------------------------------
(* Taking parts of the tree away, and putting a subtree in their place       *)

\* Without the CachedDirectoryImpl of path (a file entry for path stays).
WithoutDir(tree, path) ==
    [dirs  |-> Restrict(tree.dirs, {q \in DirPaths(tree) : ~StartsWith(q, path)}),
     files |-> Restrict(tree.files, {f \in DOMAIN tree.files : ~StrictlyBelow(f[1], path)})]

WithoutFile(tree, path) ==
    [dirs |-> tree.dirs, files |-> Restrict(tree.files, DOMAIN tree.files \ {<<path, "name">>})]

WithDir(tree, path, subtree) ==
    LET rest == WithoutDir(tree, path)
    IN [dirs  |-> WithAll(rest.dirs, subtree.dirs),
        files |-> WithAll(rest.files, subtree.files)]

WithFile(tree, path, key, kind) ==
    [dirs |-> tree.dirs, files |-> With(tree.files, <<path, key>>, kind)]

\* A new entry for a directory of the tree.
WithKind(tree, path, kind) ==
    [dirs |-> With(tree.dirs, path, [depth |-> tree.dirs[path].depth, kind |-> kind]),
     files |-> tree.files]

\* Mutant: what was below a removed directory is not reported.
RemovedPathsShallow(tree, root, path) ==
    IF path = root \/ Parent(path) \notin DirPaths(tree) THEN {}
    ELSE {p \in {path} : p \in DirPaths(tree) \/ <<p, "name">> \in DOMAIN tree.files}

\* remove, removeImpl: the tree and the removed paths.  For the root itself the
\* relative path is the empty name, which no map holds: nothing happens.
RemovedPaths(tree, root, path) ==
    IF path = root \/ Parent(path) \notin DirPaths(tree) THEN {}
    ELSE {p \in {path} : <<p, "name">> \in DOMAIN tree.files}
         \cup UNION {Subtree(tree, p) : p \in {path} \cap DirPaths(tree)}

Remove(tree, root, path) ==
    IF path = root \/ Parent(path) \notin DirPaths(tree) THEN tree
    ELSE WithoutDir(WithoutFile(tree, path), path)
-----------------------------------------------------------------------------
(* update *)

\* MapOps.diffDirectoryEntries, on the paths of both listings.
Diff(old, new) == [created |-> new \ old, updated |-> new \cap old, deleted |-> old \ new]

\* addDirectory: scan path and put it into the subdirectories of its parent.  A
\* directory that vanished meanwhile is removed.  A path that turns out not to
\* be a directory is filed under its full path, and then removed by its name.
AddDirectory(tree, root, path, kind, fs, wanted) ==
    LET depth == SubdirectoryDepth(tree.dirs[Parent(path)].depth, 1)
        fresh == Scan(fs, wanted, path, depth, kind)
        filed == IF kind = "dir" THEN tree ELSE WithFile(tree, path, "path", kind)
        old   == IF path \in DirPaths(tree) THEN Subtree(tree, path) ELSE {}
    IN IF kind = "dir" /\ fs[path] # "none"
       THEN [tree |-> WithDir(tree, path, fresh),
             updates |-> Diff(old, Subtree(fresh, path))]
       ELSE [tree |-> Remove(filed, root, path),
             updates |-> [Nothing EXCEPT !.deleted = RemovedPaths(filed, root, path)]]

\* updateImpl, last name of the path, in a directory that holds it as a leaf.
UpdateLeaf(tree, path, kind, rescan) ==
    LET isDirectory == kind = "dir"
        hasDir  == path \in DirPaths(tree)
        known   == <<path, "name">> \in DOMAIN tree.files \/ (isDirectory /\ hasDir)
        unfiled == WithoutFile(tree, path)
        leaf    == [dirs |-> [p \in {path} |-> [depth |-> -1, kind |-> kind]], files |-> NoFiles]
    IN [tree |-> IF ~isDirectory THEN WithFile(unfiled, path, "name", kind)
                 ELSE IF hasDir /\ ~rescan THEN WithKind(unfiled, path, kind)
                 ELSE WithDir(unfiled, path, leaf),
        updates |-> IF known THEN [Nothing EXCEPT !.updated = {path}]
                    ELSE [Nothing EXCEPT !.created = {path}]]

\* Mutant: the new entry of the root is reported but not kept.
UpdateRootForgotten(tree, root, kind, rescan, fs, wanted) ==
    [tree |-> tree, updates |-> [Nothing EXCEPT !.updated = {root}]]

\* updateImpl for the root.  A rescan leaves the entry of the root as it is.
UpdateRoot(tree, root, kind, rescan, fs, wanted) ==
    LET depth == tree.dirs[root].depth
        fresh == Scan(fs, wanted, root, depth, tree.dirs[root].kind)
    IN IF kind = "dir" /\ rescan
       THEN [tree |-> fresh,
             updates |-> Diff(Listed(tree, root, depth), Listed(fresh, root, depth))]
       ELSE [tree |-> WithKind(tree, root, kind),
             updates |-> [Nothing EXCEPT !.updated = {root}]]

\* The first name on the way from root to path that is not in the tree.
FirstMissing(tree, root, path) ==
    CHOOSE q \in {SubSeq(path, 1, n) : n \in Len(root) + 1 .. Len(path) - 1} :
        q \notin DirPaths(tree) /\ Parent(q) \in DirPaths(tree)

\* updateImpl for a path below the root.
UpdateBelow(tree, root, path, kind, rescan, fs, wanted) ==
    LET parent  == Parent(path)
        missing == FirstMissing(tree, root, path)
        same    == [tree |-> tree, updates |-> Nothing]
    IN IF parent \in DirPaths(tree)
       THEN IF tree.dirs[parent].depth < 0 THEN same
            ELSE IF kind # "dir" \/ tree.dirs[parent].depth = 0
            THEN UpdateLeaf(tree, path, kind, rescan)
            ELSE IF path \in DirPaths(tree) /\ ~rescan
            THEN [tree |-> WithKind(tree, path, kind),
                  updates |-> [Nothing EXCEPT !.updated = {path}]]
            ELSE AddDirectory(tree, root, path, kind, fs, wanted)
       ELSE IF tree.dirs[Parent(missing)].depth <= 0 THEN same
            ELSE AddDirectory(tree, root, missing, fs[missing], fs, wanted)

\* update(typedPath, rescan): kind is what typedPath says of path.
Update(tree, root, path, kind, rescan, fs, wanted) ==
    IF path \notin wanted THEN [tree |-> tree, updates |-> Nothing]
    ELSE IF kind = "none"
    THEN [tree |-> Remove(tree, root, path),
          updates |-> [Nothing EXCEPT !.deleted = RemovedPaths(tree, root, path)]]
    ELSE IF path = root THEN UpdateRoot(tree, root, kind, rescan, fs, wanted)
    ELSE UpdateBelow(tree, root, path, kind, rescan, fs, wanted)

\* The rescan of the root throws when the root is no directory any more, with
\* both of its maps already cleared.
UpdateThrows(tree, root, path, kind, rescan, fs, wanted) ==
    /\ path \in wanted /\ path = root /\ kind = "dir" /\ rescan
    /\ ~CanInit(fs, root, tree.dirs[root].depth)

Cleared(tree, root) == [dirs |-> [p \in {root} |-> tree.dirs[root]], files |-> NoFiles]
=============================================================================
