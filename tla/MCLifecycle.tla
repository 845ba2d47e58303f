----------------------------- MODULE MCLifecycle -----------------------------
(* A small instance of module Lifecycle.                                   *)
EXTENDS Lifecycle

CONSTANTS s1, s2, h1, h2

\* The requests are those of one of the two processes.
OnFirst == [h \in Handlers |-> s1]

\* A pool of one; sizes that wrap, to two and to none; a TTL of zero; a text.
SomeConfigs ==
  {[maxConns |-> 1, ttl |-> 1], [maxConns |-> 10, ttl |-> 1], [maxConns |-> 8, ttl |-> 1],
   [maxConns |-> 1, ttl |-> 0], [maxConns |-> Null, ttl |-> 1]}
=============================================================================
