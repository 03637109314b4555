-------------------------- MODULE MCPollingPathWatcher --------------------------
(* A directory d with a file d/f.  Depth 0 is d with its entries, -1 is the    *)
(* path alone.                                                                 *)
EXTENDS PollingPathWatcher

MCPath == {<<"d">>, <<"d", "f">>}
MCDepth == {-1, 0}
MCMaxInt == 5
=============================================================================
