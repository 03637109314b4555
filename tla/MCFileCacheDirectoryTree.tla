------------------------ MODULE MCFileCacheDirectoryTree ------------------------
(* A chain of three paths: the shortest on which a path, its parent and its    *)
(* grandparent come and go independently.  Depths: 0 stops at the entries of   *)
(* a directory, 1 one level below, MCMaxInt nowhere; 5 is larger than any      *)
(* distance on the chain.                                                      *)
EXTENDS FileCacheDirectoryTree, TLC

Chain == {<<"a">>, <<"a", "b">>, <<"a", "b", "c">>}
MCMaxInt == 5
OneContent == {"file"}
TwoContents == {"file", "edited"}
DirDepth == {0, 1, MCMaxInt}
AnyDepth == DirDepth \cup {-1}
Unlimited == {MCMaxInt}
\* The threads of the watchers behave alike.
Watchers == Permutations(Watcher)
=============================================================================
