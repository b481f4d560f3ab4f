--------------------------- MODULE MCJobSubmission ---------------------------
\* A small instance of JobSubmission for TLC: three requests without a key, or
\* one of them sent a second time with the key it had.
EXTENDS JobSubmission

CONSTANTS w1, k1

MCWorkspaces == {w1}
MCKeys       == {k1}

Ask(keys) == [s \in 1..3 |-> [workspace |-> w1, key |-> keys[s]]]

MCRequests == {Ask(<<NoKey, NoKey, NoKey>>), Ask(<<k1, k1, NoKey>>),
               Ask(<<k1, NoKey, k1>>)}
=============================================================================
