----------------------------- MODULE OAuthStates -----------------------------
(***************************************************************************)
(* The store of OAuth states (internal/app/app.go): a map from a random    *)
(* state to when it expires, shared by the login and callback handlers of  *)
(* both providers under one mutex, so that set and validate are steps.     *)
(* The map is in memory only: a restart loses it.                          *)
(*                                                                         *)
(* Time is the process's monotonic clock, in ticks of which a state lives  *)
(* TTL (10 minutes in the code); MaxTime bounds a run.                     *)
(***************************************************************************)
EXTENDS Naturals, Functions

CONSTANTS
  States,   \* the values oauthState() draws, each once
  TTL,
  MaxTime

ASSUME TTLAssumption == TTL \in Nat \ {0}
ASSUME MaxTimeAssumption == MaxTime \in Nat

VARIABLES
  now,      \* the clock
  states,   \* the map: [state -> expiry]
  issued,   \* history: [state ever issued -> when]
  verdict   \* history: the last state validated, and what validate returned

storeVars == <<now, states, issued, verdict>>

TypeOK ==
  /\ now \in 0 .. MaxTime
  /\ DOMAIN states \subseteq States
  /\ states \in [DOMAIN states -> Nat]
  /\ DOMAIN issued \subseteq States
  /\ issued \in [DOMAIN issued -> 0 .. MaxTime]
  /\ verdict \in {<<>>} \cup (States \X BOOLEAN)

EmptyMap == [s \in {} |-> 0]

Init ==
  /\ now = 0
  /\ states = EmptyMap
  /\ issued = EmptyMap
  /\ verdict = <<>>

\* Mutant: a state is not random, and stored again under the same name.
SetReused(s) ==
  /\ states' = [k \in {j \in DOMAIN states : ~(now > states[j])} \cup {s} |->
                  IF k = s THEN now + TTL ELSE states[k]]
  /\ issued' = [k \in DOMAIN issued \cup {s} |->
                  IF k = s THEN now ELSE issued[k]]
  /\ UNCHANGED <<now, verdict>>

\* Mutant: set prunes nothing.
NothingPruned == DOMAIN states

\* set: prune what has expired, then store the state.
Unexpired == {k \in DOMAIN states : ~(now > states[k])}

Set(s) ==
  /\ s \notin DOMAIN issued
  /\ states' = [k \in Unexpired \cup {s} |->
                  IF k = s THEN now + TTL ELSE states[k]]
  /\ issued' = [k \in DOMAIN issued \cup {s} |->
                  IF k = s THEN now ELSE issued[k]]
  /\ UNCHANGED <<now, verdict>>

\* Mutant: validate trusts set to have pruned what expired.
ValidIfKept(s) == s \in DOMAIN states

\* validate: delete the state, whether or not it is still in time.
Valid(s) == s \in DOMAIN states /\ now < states[s]

\* Mutant: validate leaves the state for set to prune.
ValidateWithoutDelete(s) ==
  /\ verdict' = <<s, Valid(s)>>
  /\ UNCHANGED <<now, states, issued>>

Validate(s) ==
  /\ verdict' = <<s, Valid(s)>>
  /\ states' = Restrict(states, DOMAIN states \ {s})
  /\ UNCHANGED <<now, issued>>

Tick ==
  /\ now < MaxTime
  /\ now' = now + 1
  /\ UNCHANGED <<states, issued, verdict>>

Restart ==
  /\ states' = EmptyMap
  /\ UNCHANGED <<now, issued, verdict>>

Next ==
  \/ Tick
  \/ Restart
  \/ \E s \in States : Set(s) \/ Validate(s)

Spec == Init /\ [][Next]_storeVars

-----------------------------------------------------------------------------
(* Properties.                                                             *)

\* "Prune expired entries on every write" (app.go:28): no entry had expired
\* when any later state was issued, so abandoned logins do not pile up.
PrunedOnWrite ==
  \A s \in DOMAIN states : \A t \in DOMAIN issued : issued[t] <= states[s]

\* Every callback is judged as a one-time ticket is: a live state is accepted
\* once, an expired, spent, lost or unknown one is refused, and pruning never
\* takes a live one away.
Tickets == INSTANCE OneTimeTickets
  WITH Tickets <- States, Life <- TTL,
       issued <- DOMAIN issued,
       open <- Restrict(states, {s \in DOMAIN states : now < states[s]})

TicketsSpec == Tickets!Spec
=============================================================================
