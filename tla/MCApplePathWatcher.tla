--------------------------- MODULE MCApplePathWatcher ---------------------------
EXTENDS ApplePathWatcher

a == <<"a">>
b == <<"a", "b">>
c == <<"a", "c">>
bc == <<"a", "bc">>
Nested == {a, b, c}
Apart == {b, bc}
InB == {Append(b, "f")}
InBc == {Append(bc, "f")}
MCDepth == {0, 5}
MCMaxInt == 5
NoPairs == {}
Siblings == {<<b, bc>>}
=============================================================================
