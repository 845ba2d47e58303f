------------------------------ MODULE MCUserData ------------------------------
(* A small instance of module UserData.                                    *)
EXTENDS UserData, TLC

CONSTANTS h1, h2, i1, i2, i3, e1, n1, n2, s1, s2

Symmetry == Permutations(Handlers) \cup Permutations(Ids) \cup Permutations(Contents)
              \cup Permutations(Names)
=============================================================================
