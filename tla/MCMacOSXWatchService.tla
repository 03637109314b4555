-------------------------- MODULE MCMacOSXWatchService --------------------------
EXTENDS MacOSXWatchService

a == <<"a">>
b == <<"a", "b">>
bc == <<"a", "bc">>
Changing == {b, Append(b, "f")}
Dirs3 == {a, b, bc}
Siblings == {<<b, bc>>}

\* A registered directory, and one far below it.
FarFile == {<<"a", "b", "c", "d">>}
Far == {a, <<"a", "b", "c">>} \cup FarFile
=============================================================================
