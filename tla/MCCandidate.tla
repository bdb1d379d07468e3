---------------------------- MODULE MCCandidate ----------------------------
EXTENDS Candidate, TLC
CONSTANTS p1, p2, h1, h2, m1, m2, m3, c1, c2, v0, v1, v2
(* The members, the hunks, the changed versions and the contexts are interchangeable.            *)
Symmetry == Permutations(Members) \cup Permutations(Hunks) \cup Permutations(Contexts)
            \cup Permutations(Versions \ {Original})
=============================================================================
