----------------------------- MODULE MCAccounts -----------------------------
(* Small instances of module Accounts.                                     *)
EXTENDS Accounts, TLC

CONSTANTS h1, h2, h3, u1, u2, u3, e1, e2, p1, p2, long, i1, i2

Symmetry == Permutations(Handlers) \cup Permutations(UserIds)

\* Both identities report the same, unchanging e-mail.
SharedEmail == [i \in Identities |-> {e1}]

\* Each identity has an unchanging e-mail of its own.
OwnEmails == [i \in Identities |-> IF i = i1 THEN {e1} ELSE {e2}]

\* An identity whose e-mail was changed at the provider.
ChangedEmail == [i \in Identities |-> {e1, e2}]
=============================================================================
