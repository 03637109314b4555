------------------------------- MODULE Paths -------------------------------
(***************************************************************************)
(* Absolute paths, as java.nio.file.Path presents them to this code: a     *)
(* sequence of names, <<>> being the file system root; and two of Map's     *)
(* methods.                                                                *)
(***************************************************************************)
EXTENDS Integers, Sequences

\* path.startsWith(prefix)
StartsWith(path, prefix) ==
    /\ Len(prefix) <= Len(path)
    /\ \A i \in 1..Len(prefix) : path[i] = prefix[i]

\* base.relativize(path).getNameCount() for a path strictly below base.  (For
\* path = base Java answers 1, the name count of the empty path: the callers
\* of this operator in the code all treat that case apart.)
Distance(base, path) == Len(path) - Len(base)

\* path.getParent()
Parent(path) == SubSeq(path, 1, Len(path) - 1)

StrictlyBelow(path, base) == StartsWith(path, base) /\ path # base

\* map.put(key, value)
With(map, key, value) ==
    [k \in DOMAIN map \cup {key} |-> IF k = key THEN value ELSE map[k]]

\* map.putAll(other)
WithAll(map, other) ==
    [k \in DOMAIN map \cup DOMAIN other |-> IF k \in DOMAIN other THEN other[k] ELSE map[k]]
=============================================================================
