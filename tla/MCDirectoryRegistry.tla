-------------------------- MODULE MCDirectoryRegistry --------------------------
(* A chain of three directories and a sibling, every depth from "itself" to   *)
(* "no limit" that the chain can tell apart, and a 3 bit int.                 *)
EXTENDS DirectoryRegistry

MCPath == {<<"a">>, <<"a", "b">>, <<"a", "b", "c">>, <<"a", "d">>}
MCMaxInt == 3
MCDepth == {-1, 0, 1, MCMaxInt}
================================================================================
