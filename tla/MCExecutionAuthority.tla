----------------------- MODULE MCExecutionAuthority -----------------------
EXTENDS ExecutionAuthority, TLC

CONSTANTS s1, s2, p1, p2

MCContents == {{s1}, {s2}}

\* People are interchangeable.
Symmetry == Permutations({p1, p2})
===========================================================================
