-------------------------- MODULE MCSimpleFileTreeView --------------------------
EXTENDS SimpleFileTreeView

\* r holds up to two entries beside the directory s; t is elsewhere.
Nodes == {"r", "s", "t"}

File == [kind |-> "file", to |-> "none"]
Dir(node) == [kind |-> "dir", to |-> node]
Link(to) == [kind |-> "link", to |-> to]
None == [kind |-> "none", to |-> "none"]

Entry == {File, Link("r"), Link("s"), Link("t"), Link("cyclic"), None}
Without(names) == [n \in {m \in DOMAIN names : names[m] # None} |-> names[n]]

Systems ==
    {[r |-> Without([d |-> d, x |-> x, y |-> y]), s |-> Without([x |-> sx]), t |-> Without([x |-> tx])] :
        d \in {Dir("s"), None}, x \in Entry \cup {Link("broken")}, y \in Entry, sx \in Entry \ {Link("cyclic")},
        tx \in {Link("r"), Link("s"), File}}

Depths == {-1, 0, 1, 2, 9}
=============================================================================
