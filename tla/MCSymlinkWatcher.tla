---------------------------- MODULE MCSymlinkWatcher ----------------------------
(* Two targets, one of them a directory d with an entry d/e, and three links.  *)
(* Disjoint: two links point to d and one to f.  Nested: one link points to    *)
(* d, one to its entry d/e.                                                    *)
EXTENDS SymlinkWatcher, TLC

CONSTANTS k, l, m

MCPath == {<<"d">>, <<"d", "e">>, <<"f">>}
Disjoint == k :> <<"d">> @@ l :> <<"d">> @@ m :> <<"f">>
Nested == k :> <<"d">> @@ l :> <<"d", "e">>
MCDepthOf == k :> 1 @@ l :> 1 @@ m :> 0
TwoDepths == k :> 1 @@ l :> 1
MixedDepths == k :> -1 @@ l :> 1 @@ m :> 0
MCMaxInt == 5
Entries == {<<"d", "e">>}
=============================================================================
