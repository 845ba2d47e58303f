--------------------------- MODULE OneTimeTickets ---------------------------
(***************************************************************************)
(* What the OAuth handlers need of their state store: a state is a ticket  *)
(* that can be redeemed once, until Life after it was issued, and is       *)
(* refused otherwise.  A ticket that has run out is gone at that instant,  *)
(* whenever its memory is reclaimed.                                       *)
(***************************************************************************)
EXTENDS Naturals, Functions

CONSTANTS Tickets, Life, MaxTime

VARIABLES
  now,
  issued,   \* the tickets ever issued
  open,     \* [open ticket -> when it runs out]
  verdict   \* the last ticket presented, and whether it was redeemed

vars == <<now, issued, open, verdict>>

NoVerdict == <<>>

Init ==
  /\ now = 0
  /\ issued = {}
  /\ open = [t \in {} |-> 0]
  /\ verdict = NoVerdict

Issue(t) ==
  /\ t \notin issued
  /\ issued' = issued \cup {t}
  /\ open' = [k \in DOMAIN open \cup {t} |-> IF k = t THEN now + Life ELSE open[k]]
  /\ UNCHANGED <<now, verdict>>

Redeem(t) ==
  /\ t \in DOMAIN open
  /\ open' = Restrict(open, DOMAIN open \ {t})
  /\ verdict' = <<t, TRUE>>
  /\ UNCHANGED <<now, issued>>

Refuse(t) ==
  /\ t \notin DOMAIN open
  /\ verdict' = <<t, FALSE>>
  /\ UNCHANGED <<now, issued, open>>

Tick ==
  /\ now < MaxTime
  /\ now' = now + 1
  /\ open' = Restrict(open, {t \in DOMAIN open : now' < open[t]})
  /\ UNCHANGED <<issued, verdict>>

\* The issuer may forget every ticket at once.
Reset ==
  /\ open' = [t \in {} |-> 0]
  /\ UNCHANGED <<now, issued, verdict>>

Next ==
  \/ Tick
  \/ Reset
  \/ \E t \in Tickets : Issue(t) \/ Redeem(t) \/ Refuse(t)

Spec == Init /\ [][Next]_vars
=============================================================================
