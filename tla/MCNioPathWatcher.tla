---------------------------- MODULE MCNioPathWatcher ----------------------------
(* A permanent directory r, and below it a directory r/b that comes and goes,  *)
(* with a directory r/b/c and a file in it, or with a file of its own beside a  *)
(* file r/d.                                                                   *)
EXTENDS NioPathWatcher

Top == {<<"r">>}
Deep == {<<"r">>, <<"r", "b">>, <<"r", "b", "c">>, <<"r", "b", "c", "f">>}
DeepDir == {<<"r">>, <<"r", "b">>, <<"r", "b", "c">>}
Flat == {<<"r">>, <<"r", "b">>, <<"r", "b", "f">>, <<"r", "d">>}
FlatDir == {<<"r">>, <<"r", "b">>}
\* Two permanent directories above one another, which can both be roots.
Nested == {<<"r">>, <<"r", "a">>, <<"r", "a", "x">>, <<"r", "b">>}
NestedDir == {<<"r">>, <<"r", "a">>}
MCMaxInt == 5
\* The depths of two registrations.
MCDepth == {0, MCMaxInt}

\* No key overflows; or those of the directories below r do, at the second event.
Roomy == [d \in Dir |-> 9]
Tight == [d \in Dir |-> IF d \in Permanent THEN 9 ELSE 1]
=============================================================================
