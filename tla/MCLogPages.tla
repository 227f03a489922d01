----------------------------- MODULE MCLogPages -----------------------------
(* Two instances, one of them with a longer frontmatter, and two policies    *)
(* for module LogPages.                                                      *)
EXTENDS LogPages

MCHeader == [i \in Ids |-> i]

Wide   == [days |-> 1, file |-> 4, total |-> 9]
Narrow == [days |-> 1, file |-> 2, total |-> 4]

\* A total below two pages.
Tight  == [days |-> 1, file |-> 4, total |-> 6]

MCPolicies     == {Wide, Narrow}
NarrowPolicies == {Narrow}
TightPolicies  == {Tight}
=============================================================================
