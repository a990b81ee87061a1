-------------------------- MODULE MCPlaneLifecycle --------------------------
EXTENDS PlaneLifecycle, TLC
CONSTANTS a1, a2, b1, A, B
MCSessions == {a1, a2, b1}
MCNpubOf == [s \in Sessions |-> IF s = b1 THEN B ELSE A]

\* Endpoints are interchangeable as well, but few states differ in nothing else: on the sum
\* of modules in MCSafety their permutations cost more than they save.
Symm == Permutations(Callers) \cup Permutations(Commands)

=============================================================================
