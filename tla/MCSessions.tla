----------------------------- MODULE MCSessions -----------------------------
EXTENDS Sessions, TLC

CONSTANTS ann, bob, acme, c1, c2

\* Nobody has an account yet.
Empty == (ann :> Nobody) @@ (bob :> Nobody)

Symmetry == Permutations({c1, c2}) \cup Permutations({ann, bob})
=============================================================================
