------------------------------- MODULE MCMail -------------------------------
EXTENDS Mail, TLC

CONSTANTS none, one, c1, c2

\* The plan of one customer has a mailbox, that of the other has none.
MCLimit == (none :> 0) @@ (one :> 1)

\* An alias leads to one address, or branches into two, of which one nobody has.
\* From "e" by way of "b" and the catch-all for "z" the branches meet again in "a".
MCTargets ==
  {{<<"d", "a">>, <<"x", "out">>}, {<<"d", "b">>, <<"d", "z">>}}

Symmetry == Permutations({c1, c2})
=============================================================================
