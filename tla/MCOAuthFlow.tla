----------------------------- MODULE MCOAuthFlow -----------------------------
(* Small instances of module OAuthFlow.                                    *)
EXTENDS OAuthFlow, TLC

CONSTANTS s1, s2, h1, h2, a1, a2

Symmetry == Permutations(States) \cup Permutations(Handlers)
              \cup Permutations(People)
=============================================================================
