---------------------------- MODULE MCSymbolsCache ----------------------------
(* A small instance of module SymbolsCache.                                *)
EXTENDS SymbolsCache, TLC

CONSTANTS h1, h2, all, stock, crypto, x, y

Classes == [s \in Symbols |-> IF s = x THEN stock ELSE crypto]

\* A job leaves the stock, or the stock and the coin.
Loads == {{x}, {x, y}}

Symmetry == Permutations(Handlers)
=============================================================================
