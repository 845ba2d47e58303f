----------------------------- MODULE OAuthProofs -----------------------------
(***************************************************************************)
(* What modules OAuthStates and OAuthFlow keep true for every number of    *)
(* states, handlers, providers and people, and any life of a state.        *)
(***************************************************************************)
EXTENDS OAuthFlow, TLAPS

-----------------------------------------------------------------------------
(* The store.                                                              *)

\* Each entry of the map is an issued state, with TTL to live from its issue.
EntriesIssued ==
  \A s \in DOMAIN states : s \in DOMAIN issued /\ states[s] = issued[s] + TTL

\* No state was issued in the future.
IssuedByNow == \A s \in DOMAIN issued : issued[s] <= now

StoreInv == TypeOK /\ EntriesIssued /\ IssuedByNow /\ PrunedOnWrite

\* What set and validate do to the map.
LEMMA SetFacts ==
  ASSUME StoreInv, NEW s \in States, Set(s)
  PROVE  /\ s \notin DOMAIN issued /\ s \notin DOMAIN states
         /\ DOMAIN states' = {k \in DOMAIN states : now <= states[k]} \cup {s}
         /\ states'[s] = now + TTL
         /\ \A k \in DOMAIN states' \ {s} : states'[k] = states[k]
         /\ DOMAIN issued' = DOMAIN issued \cup {s}
         /\ issued'[s] = now
         /\ \A k \in DOMAIN issued : issued'[k] = issued[k]
         /\ UNCHANGED <<now, verdict>>
<1>1. \A k \in DOMAIN states : states[k] \in Nat
  BY DEF StoreInv, TypeOK
<1>2. now \in Nat
  BY MaxTimeAssumption DEF StoreInv, TypeOK
<1>3. Unexpired = {k \in DOMAIN states : now <= states[k]}
  BY <1>1, <1>2 DEF Unexpired
<1> QED BY <1>3 DEF Set, StoreInv, EntriesIssued

LEMMA ValidateFacts ==
  ASSUME NEW s \in States, Validate(s)
  PROVE  /\ verdict' = <<s, Valid(s)>>
         /\ DOMAIN states' = DOMAIN states \ {s}
         /\ \A k \in DOMAIN states' : states'[k] = states[k]
         /\ UNCHANGED <<now, issued>>
BY DEF Validate, Restrict

LEMMA StoreInvInit == Init => StoreInv
BY MaxTimeAssumption
   DEF Init, EmptyMap, StoreInv, TypeOK, EntriesIssued, IssuedByNow, PrunedOnWrite

LEMMA StoreInvStep == StoreInv /\ [Next]_storeVars => StoreInv'
<1> SUFFICES ASSUME StoreInv, [Next]_storeVars
             PROVE  StoreInv'
  OBVIOUS
<1>a. /\ now \in Nat /\ now <= MaxTime
      /\ \A k \in DOMAIN states : states[k] \in Nat
      /\ \A k \in DOMAIN issued : issued[k] \in Nat
  BY MaxTimeAssumption DEF StoreInv, TypeOK
<1>1. CASE UNCHANGED storeVars
  BY <1>1 DEF storeVars, StoreInv, TypeOK, EntriesIssued, IssuedByNow,
              PrunedOnWrite
<1>2. CASE Tick
  BY <1>2, <1>a, MaxTimeAssumption
     DEF Tick, StoreInv, TypeOK, EntriesIssued, IssuedByNow, PrunedOnWrite
<1>3. CASE Restart
  BY <1>3 DEF Restart, EmptyMap, StoreInv, TypeOK, EntriesIssued, IssuedByNow,
              PrunedOnWrite
<1>4. CASE \E s \in States : Set(s)
  <2> PICK s \in States : Set(s)
    BY <1>4
  <2>0. /\ s \notin DOMAIN issued /\ s \notin DOMAIN states
        /\ DOMAIN states' = {k \in DOMAIN states : now <= states[k]} \cup {s}
        /\ states'[s] = now + TTL
        /\ \A k \in DOMAIN states' \ {s} : states'[k] = states[k]
        /\ DOMAIN issued' = DOMAIN issued \cup {s}
        /\ issued'[s] = now
        /\ \A k \in DOMAIN issued : issued'[k] = issued[k]
        /\ now' = now /\ verdict' = verdict
    BY SetFacts
  <2>a. \A k \in DOMAIN states' : states'[k] \in Nat /\ now <= states'[k]
    <3> TAKE k \in DOMAIN states'
    <3>1. CASE k = s
      BY <1>a, <2>0, <3>1, TTLAssumption
    <3>2. CASE k # s
      BY <1>a, <2>0, <3>2
    <3> QED BY <3>1, <3>2
  <2>b. \A k \in DOMAIN issued' : issued'[k] \in Nat /\ issued'[k] <= now
    <3> TAKE k \in DOMAIN issued'
    <3>1. CASE k = s
      BY <1>a, <2>0, <3>1
    <3>2. CASE k # s
      BY <1>a, <2>0, <3>2 DEF StoreInv, IssuedByNow
    <3> QED BY <3>1, <3>2
  <2>1. TypeOK'
    <3>1. /\ states' = [k \in DOMAIN states' |-> states'[k]]
          /\ issued' = [k \in DOMAIN issued' |-> issued'[k]]
      BY DEF Set
    <3>2. \A k \in DOMAIN issued' : issued'[k] \in 0 .. MaxTime
      BY <1>a, <2>b, MaxTimeAssumption
    <3>3. states' \in [DOMAIN states' -> Nat]
      BY <2>a, <3>1
    <3>4. issued' \in [DOMAIN issued' -> 0 .. MaxTime]
      BY <3>1, <3>2
    <3>5. DOMAIN states' \subseteq States /\ DOMAIN issued' \subseteq States
      BY <2>0 DEF StoreInv, TypeOK
    <3> QED BY <2>0, <3>3, <3>4, <3>5 DEF StoreInv, TypeOK
  <2>2. EntriesIssued'
    BY <2>0 DEF StoreInv, EntriesIssued
  <2>3. IssuedByNow'
    BY <2>0, <2>b DEF IssuedByNow
  <2>4. PrunedOnWrite'
    <3> SUFFICES ASSUME NEW k \in DOMAIN states', NEW t \in DOMAIN issued'
                 PROVE  issued'[t] <= states'[k]
      BY DEF PrunedOnWrite
    <3>1. /\ issued'[t] \in Nat /\ issued'[t] <= now
          /\ states'[k] \in Nat /\ now <= states'[k]
      BY <2>a, <2>b
    <3> QED BY <1>a, <3>1
  <2> QED BY <2>1, <2>2, <2>3, <2>4 DEF StoreInv
<1>5. CASE \E s \in States : Validate(s)
  <2> PICK s \in States : Validate(s)
    BY <1>5
  <2>1. TypeOK'
    <3>1. states' = [k \in DOMAIN states' |-> states'[k]]
      BY DEF Validate, Restrict
    <3>2. Valid(s) \in BOOLEAN
      BY DEF Valid
    <3>3. <<s, Valid(s)>> \in States \X BOOLEAN
      BY <3>2, Zenon
    <3>4. verdict' \in States \X BOOLEAN
      BY <3>3, ValidateFacts, Zenon
    <3> QED BY <3>1, <3>4, ValidateFacts DEF StoreInv, TypeOK
  <2> QED BY <2>1, ValidateFacts
          DEF StoreInv, EntriesIssued, IssuedByNow, PrunedOnWrite
<1> QED BY <1>1, <1>2, <1>3, <1>4, <1>5 DEF Next

\* The live part of the map: what the store implements one-time tickets with.
Live == {s \in DOMAIN states : now < states[s]}

LEMMA LiveFacts ==
  /\ DOMAIN Restrict(states, Live) = Live
  /\ \A s \in Live : Restrict(states, Live)[s] = states[s]
BY DEF Restrict

\* Storing a state issues a ticket: pruning leaves every live one.
LEMMA SetMaps ==
  ASSUME StoreInv, NEW s \in States, Set(s)
  PROVE  Tickets!Issue(s)
<1>0. /\ s \notin DOMAIN issued /\ s \notin DOMAIN states
      /\ DOMAIN states' = {k \in DOMAIN states : now <= states[k]} \cup {s}
      /\ states'[s] = now + TTL
      /\ \A k \in DOMAIN states' \ {s} : states'[k] = states[k]
      /\ DOMAIN issued' = DOMAIN issued \cup {s}
      /\ now' = now /\ verdict' = verdict
  BY SetFacts
<1>1. /\ now \in Nat
      /\ \A k \in DOMAIN states : states[k] \in Nat
  BY MaxTimeAssumption DEF StoreInv, TypeOK
<1>2. Live' = Live \cup {s}
  <2>1. \A k \in DOMAIN states' \ {s} : now' < states'[k] <=> k \in Live
    BY <1>0 DEF Live
  <2>2. now' < states'[s]
    BY <1>0, <1>1, TTLAssumption
  <2>3. Live \subseteq DOMAIN states'
    BY <1>0, <1>1 DEF Live
  <2>4. s \in DOMAIN states'
    BY <1>0
  <2> QED BY <2>1, <2>2, <2>3, <2>4 DEF Live
<1>3. Restrict(states', Live') =
        [k \in Live \cup {s} |-> IF k = s THEN now + TTL ELSE states[k]]
  BY <1>0, <1>2 DEF Restrict, Live
<1>4. Restrict(states', Live') =
        [k \in DOMAIN Restrict(states, Live) \cup {s} |->
           IF k = s THEN now + TTL ELSE Restrict(states, Live)[k]]
  BY <1>0, <1>3, LiveFacts DEF Live
<1> QED BY <1>0, <1>4 DEF Tickets!Issue, Live

\* Validating a state redeems its ticket if it is live, and refuses it if not.
LEMMA ValidateMaps ==
  ASSUME StoreInv, NEW s \in States, Validate(s)
  PROVE  Tickets!Redeem(s) \/ Tickets!Refuse(s)
<1>1. Live' = Live \ {s}
  BY ValidateFacts DEF Live
<1>2. Restrict(states', Live') = Restrict(Restrict(states, Live), Live \ {s})
  BY <1>1, ValidateFacts DEF Restrict, Live
<1>3. Valid(s) <=> s \in Live
  BY DEF Valid, Live
<1>4. CASE s \in Live
  <2>1. verdict' = <<s, TRUE>>
    <3>1. Valid(s) = TRUE
      BY <1>3, <1>4 DEF Valid
    <3> QED BY <3>1, ValidateFacts, Zenon
  <2> QED BY <1>2, <1>4, <2>1, LiveFacts, ValidateFacts
          DEF Tickets!Redeem, Tickets!Restrict, Restrict, Live
<1>5. CASE s \notin Live
  <2>1. verdict' = <<s, FALSE>>
    <3>1. Valid(s) = FALSE
      BY <1>3, <1>5 DEF Valid
    <3> QED BY <3>1, ValidateFacts, Zenon
  <2>2. Restrict(Restrict(states, Live), Live \ {s}) = Restrict(states, Live)
    BY <1>5 DEF Restrict
  <2> QED BY <1>2, <1>5, <2>1, <2>2, LiveFacts, ValidateFacts
          DEF Tickets!Refuse, Live
<1> QED BY <1>4, <1>5

LEMMA TickMaps ==
  ASSUME StoreInv, Tick
  PROVE  Tickets!Tick
<1>1. /\ now \in Nat /\ now' = now + 1 /\ now < MaxTime
      /\ states' = states /\ issued' = issued /\ verdict' = verdict
      /\ \A k \in DOMAIN states : states[k] \in Nat
  BY MaxTimeAssumption DEF Tick, StoreInv, TypeOK
<1>2. Live' = {s \in Live : now' < states[s]}
  BY <1>1 DEF Live
<1>3. Restrict(states', Live') =
        Restrict(Restrict(states, Live),
                 {t \in DOMAIN Restrict(states, Live) :
                    now' < Restrict(states, Live)[t]})
  BY <1>1, <1>2 DEF Restrict
<1> QED BY <1>1, <1>3 DEF Tickets!Tick, Tickets!Restrict, Restrict, Live

LEMMA StoreMaps ==
  ASSUME StoreInv, [Next]_storeVars
  PROVE  [Tickets!Next]_(Tickets!vars)
<1>1. CASE UNCHANGED storeVars
  BY <1>1 DEF storeVars, Tickets!vars
<1>2. CASE Restart
  <2>1. Restrict(states', Live') = [t \in {} |-> 0]
    BY <1>2 DEF Restart, EmptyMap, Live, Restrict
  <2>2. Tickets!Reset
    BY <1>2, <2>1 DEF Restart, Tickets!Reset, Live
  <2> QED BY <2>2 DEF Tickets!Next
<1>3. CASE Tick
  BY <1>3, TickMaps DEF Tickets!Next
<1>4. CASE \E s \in States : Set(s) \/ Validate(s)
  BY <1>4, SetMaps, ValidateMaps DEF Tickets!Next
<1> QED BY <1>1, <1>2, <1>3, <1>4 DEF Next

LEMMA StoreInitMaps == Init => Tickets!Init
BY DEF Init, EmptyMap, Tickets!Init, Tickets!NoVerdict, Restrict

\* The store of states, however it is used, implements one-time tickets.
THEOREM StoreImplementsTickets == Spec => TicketsSpec
BY StoreInvInit, StoreInvStep, StoreMaps, StoreInitMaps, PTL
   DEF Spec, Tickets!Spec, TicketsSpec

\* No entry of the map had expired when a later state was issued.
THEOREM StorePruned == Spec => []PrunedOnWrite
<1>1. StoreInv => PrunedOnWrite
  BY DEF StoreInv
<1> QED BY <1>1, StoreInvInit, StoreInvStep, PTL DEF Spec

-----------------------------------------------------------------------------
(* The login flow.                                                         *)

Serving(h) == pc[h] # "idle"

\* What a handler serves was issued.
ServedIssued == \A h \in Handlers : Serving(h) => url[h].state \in DOMAIN issued

\* Nothing was logged in yet for a state that was not presented.
FreshUnspent ==
  \A s \in States : s \in DOMAIN states \/ s \notin DOMAIN issued => tokens[s] = 0

FlowInv ==
  /\ StoreInv
  /\ FlowTypeOK
  /\ ServedIssued
  /\ FreshUnspent
  /\ StateInOnePlace
  /\ OneTokenPerLogin

LEMMA FlowInvInit == FlowInit => FlowInv
<1> SUFFICES ASSUME FlowInit
             PROVE  FlowInv
  OBVIOUS
<1>1. StoreInv
  BY StoreInvInit DEF FlowInit
<1>2. FlowTypeOK
  BY <1>1 DEF FlowInit, FlowTypeOK, StoreInv, Statuses
<1> QED BY <1>1, <1>2
        DEF FlowInit, FlowInv, Serving, ServedIssued, FreshUnspent,
            StateInOnePlace, OneTokenPerLogin

\* Every step of the flow is a step of the store, or leaves it alone.
LEMMA FlowStepsStore ==
  ASSUME FlowTypeOK, [FlowNext]_vars
  PROVE  [Next]_storeVars
<1>1. CASE UNCHANGED vars
  BY <1>1 DEF vars
<1>2. CASE \E s \in States, p \in Providers : SocialLogin(s, p)
  BY <1>2 DEF SocialLogin, Next
<1>3. CASE \E page \in pages, a \in People : Consent(page, a)
  BY <1>3 DEF Consent
<1>4. CASE \E h \in Handlers : \E u \in urls : Callback(h, u)
  <2> PICK h \in Handlers, u \in urls : Callback(h, u)
    BY <1>4
  <2>1. u.state \in States
    BY DEF FlowTypeOK, Urls
  <2> QED BY <2>1 DEF Callback, Next
<1>5. CASE \E h \in Handlers : Exchange(h) \/ FetchProfile(h) \/ FindOrCreateUser(h)
  BY <1>5 DEF Exchange, FetchProfile, FindOrCreateUser
<1>6. CASE TimePasses \/ ServerRestart
  BY <1>6 DEF TimePasses, ServerRestart, Next
<1> QED BY <1>1, <1>2, <1>3, <1>4, <1>5, <1>6 DEF FlowNext

\* The flow's own variables have their types after every step.
LEMMA FlowTypesKept ==
  ASSUME FlowTypeOK, StoreInv', [FlowNext]_vars
  PROVE  FlowTypeOK'
<1>0. TypeOK'
  BY DEF StoreInv
<1>1. CASE UNCHANGED vars
  BY <1>0, <1>1 DEF vars, flowVars, FlowTypeOK
<1>2. CASE \E s \in States, p \in Providers : SocialLogin(s, p)
  BY <1>0, <1>2 DEF SocialLogin, FlowTypeOK
<1>3. CASE \E page \in pages, a \in People : Consent(page, a)
  BY <1>0, <1>3 DEF Consent, FlowTypeOK, Urls
<1>4. CASE \E h \in Handlers : \E u \in urls : Callback(h, u)
  <2> PICK h \in Handlers, u \in urls : Callback(h, u)
    BY <1>4
  <2>1. pc' \in [Handlers -> {"idle", "exchange", "profile", "user"}]
    BY DEF Callback, Answer, FlowTypeOK
  <2>2. status' \in [Handlers -> Statuses]
    BY DEF Callback, Answer, FlowTypeOK, Statuses
  <2>3. /\ url' \in [Handlers -> Urls \cup {Nothing}]
        /\ ident' \in [Handlers -> Identities \cup {Nothing}]
        /\ pages' = pages /\ urls' = urls /\ tokens' = tokens
    BY DEF Callback, FlowTypeOK
  <2>4. ASSUME NEW g \in Handlers
        PROVE  /\ pc'[g] # "idle" => url'[g] \in Urls
               /\ pc'[g] = "user" => ident'[g] \in Identities
    BY DEF Callback, Answer, FlowTypeOK
  <2> QED BY <1>0, <2>1, <2>2, <2>3, <2>4 DEF FlowTypeOK
<1>5. CASE \E h \in Handlers : Exchange(h)
  BY <1>0, <1>5 DEF Exchange, Goto, Answer, FlowTypeOK, Statuses
<1>6. CASE \E h \in Handlers : FetchProfile(h)
  <2> PICK h \in Handlers : FetchProfile(h)
    BY <1>6
  <2>1. url[h] \in Urls
    BY DEF FetchProfile, FlowTypeOK
  <2>2. [provider |-> url[h].provider, id |-> url[h].person] \in Identities
    BY <2>1 DEF Urls, Identities
  <2>3. url[h].provider = "github" =>
          [provider |-> "github", id |-> NilId] \in Identities
    BY <2>1 DEF Urls, Identities
  <2>4. /\ pc' \in [Handlers -> {"idle", "exchange", "profile", "user"}]
        /\ status' \in [Handlers -> Statuses]
    BY DEF FetchProfile, Goto, Answer, FlowTypeOK, Statuses
  <2>5. ident' \in [Handlers -> Identities \cup {Nothing}]
    BY <2>2, <2>3 DEF FetchProfile, FlowTypeOK
  <2>6. ASSUME NEW g \in Handlers
        PROVE  /\ pc'[g] # "idle" => url'[g] \in Urls
               /\ pc'[g] = "user" => ident'[g] \in Identities
    BY <2>1, <2>2, <2>3 DEF FetchProfile, Goto, Answer, FlowTypeOK
  <2> QED BY <1>0, <2>4, <2>5, <2>6 DEF FetchProfile, FlowTypeOK
<1>7. CASE \E h \in Handlers : FindOrCreateUser(h)
  <2> PICK h \in Handlers : FindOrCreateUser(h)
    BY <1>7
  <2>1. url[h].state \in States
    BY DEF FindOrCreateUser, FlowTypeOK, Urls
  <2>2. tokens' \in [States -> Nat]
    BY <2>1 DEF FindOrCreateUser, FlowTypeOK
  <2> QED BY <1>0, <2>2 DEF FindOrCreateUser, Answer, FlowTypeOK, Statuses
<1>8. CASE TimePasses
  BY <1>0, <1>8 DEF TimePasses, flowVars, FlowTypeOK
<1>9. CASE ServerRestart
  BY <1>0, <1>9 DEF ServerRestart, FlowTypeOK
<1> QED BY <1>1, <1>2, <1>3, <1>4, <1>5, <1>6, <1>7, <1>8, <1>9 DEF FlowNext

\* Steps that only advance one handler past the state check, or end it.
LEMMA HandlerAdvances ==
  ASSUME FlowInv, NEW h \in Handlers, Serving(h),
         UNCHANGED <<storeVars, url>>,
         \A g \in Handlers \ {h} : pc'[g] = pc[g],
         \/ tokens' = tokens
         \/ pc'[h] = "idle" /\ tokens' = [tokens EXCEPT ![url[h].state] = @ + 1]
  PROVE  (ServedIssued /\ FreshUnspent /\ StateInOnePlace /\ OneTokenPerLogin)'
<1>1. /\ url[h].state \in States
      /\ url[h].state \notin DOMAIN states
      /\ url[h].state \in DOMAIN issued
      /\ tokens[url[h].state] = 0
      /\ tokens \in [States -> Nat]
  BY DEF FlowInv, FlowTypeOK, StateInOnePlace, ServedIssued, Serving, Urls
<1>2. ASSUME NEW s \in States, s # url[h].state
      PROVE  tokens'[s] = tokens[s]
  BY <1>1, <1>2
<1>3. tokens'[url[h].state] <= 1
  BY <1>1
<1>4. \A g \in Handlers : Serving(g)' => Serving(g)
  BY DEF Serving
<1>5. ServedIssued'
  BY <1>4 DEF FlowInv, ServedIssued, storeVars
<1>6. FreshUnspent'
  BY <1>1, <1>2 DEF FlowInv, FreshUnspent, storeVars
<1>7. OneTokenPerLogin'
  BY <1>2, <1>3 DEF FlowInv, OneTokenPerLogin
<1>8. StateInOnePlace'
  <2> SUFFICES ASSUME NEW g \in Handlers, pc'[g] # "idle"
               PROVE  /\ url[g].state \notin DOMAIN states
                      /\ tokens'[url[g].state] = 0
                      /\ \A f \in Handlers \ {g} :
                           pc'[f] # "idle" => url[f].state # url[g].state
    BY DEF StateInOnePlace, storeVars
  <2>1. /\ pc[g] # "idle" /\ url[g].state \in States
        /\ url[g].state \notin DOMAIN states /\ tokens[url[g].state] = 0
        /\ \A f \in Handlers \ {g} : pc[f] # "idle" => url[f].state # url[g].state
    BY <1>4 DEF Serving, FlowInv, FlowTypeOK, StateInOnePlace, Urls
  <2>2. tokens'[url[g].state] = 0
    <3>1. CASE g = h
      BY <2>1, <3>1
    <3>2. CASE g # h
      BY <1>2, <2>1, <3>2 DEF Serving
    <3> QED BY <3>1, <3>2
  <2> QED BY <1>4, <2>1, <2>2 DEF Serving
<1> QED BY <1>5, <1>6, <1>7, <1>8

LEMMA FlowInvStep == FlowInv /\ [FlowNext]_vars => FlowInv'
<1> SUFFICES ASSUME FlowInv, [FlowNext]_vars
             PROVE  FlowInv'
  OBVIOUS
<1>1. StoreInv'
  BY FlowStepsStore, StoreInvStep DEF FlowInv
<1>2. FlowTypeOK'
  BY <1>1, FlowTypesKept DEF FlowInv
<1>3. (ServedIssued /\ FreshUnspent /\ StateInOnePlace /\ OneTokenPerLogin)'
  <2>1. CASE UNCHANGED vars
    BY <2>1 DEF vars, storeVars, flowVars, FlowInv, Serving, ServedIssued,
                FreshUnspent, StateInOnePlace, OneTokenPerLogin
  <2>2. CASE \E s \in States, p \in Providers : SocialLogin(s, p)
    <3> PICK s \in States, p \in Providers : SocialLogin(s, p)
      BY <2>2
    <3>1. /\ s \notin DOMAIN issued
          /\ DOMAIN states' \subseteq DOMAIN states \cup {s}
          /\ DOMAIN issued' = DOMAIN issued \cup {s}
          /\ pc' = pc /\ url' = url /\ tokens' = tokens
      BY SetFacts DEF SocialLogin, FlowInv
    <3>2. \A h \in Handlers : pc[h] # "idle" => url[h].state # s
      BY <3>1 DEF FlowInv, ServedIssued, Serving
    <3> QED BY <3>1, <3>2
            DEF FlowInv, Serving, ServedIssued, FreshUnspent, StateInOnePlace,
                OneTokenPerLogin
  <2>3. CASE \E page \in pages, a \in People : Consent(page, a)
    BY <2>3 DEF Consent, storeVars, FlowInv, Serving, ServedIssued,
                FreshUnspent, StateInOnePlace, OneTokenPerLogin
  <2>4. CASE \E h \in Handlers : \E u \in urls : Callback(h, u)
    <3> PICK h \in Handlers, u \in urls : Callback(h, u)
      BY <2>4
    <3>1. /\ u.state \in States
          /\ url' = [url EXCEPT ![h] = u]
          /\ \A g \in Handlers \ {h} : pc'[g] = pc[g] /\ url'[g] = url[g]
          /\ url'[h] = u
          /\ pc'[h] # "idle" => u.state \in DOMAIN states
          /\ tokens' = tokens
      BY DEF Callback, Answer, Valid, FlowInv, FlowTypeOK, Urls
    <3>2. DOMAIN states' = DOMAIN states \ {u.state} /\ issued' = issued
      BY <3>1, ValidateFacts DEF Callback
    <3>3. /\ DOMAIN states \subseteq DOMAIN issued
          /\ u.state \in DOMAIN states => tokens[u.state] = 0
          /\ \A g \in Handlers : pc[g] # "idle" => url[g].state \notin DOMAIN states
      BY <3>1 DEF FlowInv, StoreInv, EntriesIssued, FreshUnspent, StateInOnePlace
    <3>4. ServedIssued'
      BY <3>1, <3>2, <3>3 DEF FlowInv, ServedIssued, Serving
    <3>5. FreshUnspent' /\ OneTokenPerLogin'
      BY <3>1, <3>2 DEF FlowInv, FreshUnspent, OneTokenPerLogin
    <3>6. StateInOnePlace'
      BY <3>1, <3>2, <3>3 DEF FlowInv, StateInOnePlace
    <3> QED BY <3>4, <3>5, <3>6
  <2>5. CASE \E h \in Handlers : Exchange(h) \/ FetchProfile(h)
    <3> PICK h \in Handlers : Exchange(h) \/ FetchProfile(h)
      BY <2>5
    <3>1. /\ Serving(h) /\ UNCHANGED <<storeVars, url>> /\ tokens' = tokens
          /\ \A g \in Handlers \ {h} : pc'[g] = pc[g]
      BY DEF Exchange, FetchProfile, Goto, Answer, Serving, FlowInv, FlowTypeOK
    <3> QED BY <3>1, HandlerAdvances
  <2>6. CASE \E h \in Handlers : FindOrCreateUser(h)
    <3> PICK h \in Handlers : FindOrCreateUser(h)
      BY <2>6
    <3>1. /\ Serving(h) /\ UNCHANGED <<storeVars, url>> /\ pc'[h] = "idle"
          /\ \A g \in Handlers \ {h} : pc'[g] = pc[g]
      BY DEF FindOrCreateUser, Answer, Serving, FlowInv, FlowTypeOK
    <3>2. \/ tokens' = tokens
          \/ tokens' = [tokens EXCEPT ![url[h].state] = @ + 1]
      BY DEF FindOrCreateUser
    <3> QED BY <3>1, <3>2, HandlerAdvances
  <2>7. CASE TimePasses
    BY <2>7 DEF TimePasses, Tick, flowVars, FlowInv, Serving, ServedIssued,
                FreshUnspent, StateInOnePlace, OneTokenPerLogin
  <2>8. CASE ServerRestart
    BY <2>8 DEF ServerRestart, Restart, EmptyMap, FlowInv, Serving,
                ServedIssued, FreshUnspent, StateInOnePlace, OneTokenPerLogin
  <2> QED BY <2>1, <2>2, <2>3, <2>4, <2>5, <2>6, <2>7, <2>8 DEF FlowNext
<1> QED BY <1>1, <1>2, <1>3 DEF FlowInv

\* The flow and its store have their types.
THEOREM FlowTypeCorrect == FlowSpec => []FlowTypeOK
<1>1. FlowInv => FlowTypeOK
  BY DEF FlowInv
<1> QED BY <1>1, FlowInvInit, FlowInvStep, PTL DEF FlowSpec

\* However callbacks, retries, handlers and restarts interleave, a login yields
\* at most one token.
THEOREM OneToken == FlowSpec => []OneTokenPerLogin
<1>1. FlowInv => OneTokenPerLogin
  BY DEF FlowInv
<1> QED BY <1>1, FlowInvInit, FlowInvStep, PTL DEF FlowSpec

\* A state being served is in one handler, and in the map no more.
THEOREM StatesInOnePlace == FlowSpec => []StateInOnePlace
<1>1. FlowInv => StateInOnePlace
  BY DEF FlowInv
<1> QED BY <1>1, FlowInvInit, FlowInvStep, PTL DEF FlowSpec

\* The flow uses the store as a store: what holds of it holds in the flow.
THEOREM FlowUsesStore == FlowSpec => Spec
<1>1. FlowInit => Init
  BY DEF FlowInit
<1>2. FlowInv /\ [FlowNext]_vars => [Next]_storeVars
  BY FlowStepsStore DEF FlowInv
<1> QED BY <1>1, <1>2, FlowInvInit, FlowInvStep, PTL DEF FlowSpec, Spec

\* The states of the flow are one-time tickets, pruned on every write.
COROLLARY FlowImplementsTickets == FlowSpec => TicketsSpec /\ []PrunedOnWrite
BY FlowUsesStore, StoreImplementsTickets, StorePruned, PTL

\* A handler past the fetch of the profile, or that answered with a token, has
\* the identity of the account that consented.
ConsentKept ==
  \A h \in Handlers : pc[h] = "user" \/ status[h] = "token" =>
    ident[h] = [provider |-> url[h].provider, id |-> url[h].person]

LEMMA ConsentKeptStep ==
  ASSUME "github" \notin ErrorBodies, FlowTypeOK, ConsentKept, [FlowNext]_vars
  PROVE  ConsentKept'
<1>1. CASE UNCHANGED vars
  BY <1>1 DEF vars, flowVars, ConsentKept
<1>2. CASE \E s \in States, p \in Providers : SocialLogin(s, p)
  BY <1>2 DEF SocialLogin, ConsentKept
<1>3. CASE \E page \in pages, a \in People : Consent(page, a)
  BY <1>3 DEF Consent, ConsentKept
<1>4. CASE \E h \in Handlers : \E u \in urls : Callback(h, u)
  BY <1>4 DEF Callback, Answer, FlowTypeOK, ConsentKept
<1>5. CASE \E h \in Handlers : Exchange(h)
  BY <1>5 DEF Exchange, Goto, Answer, FlowTypeOK, ConsentKept
<1>6. CASE \E h \in Handlers : FetchProfile(h)
  BY <1>6 DEF FetchProfile, Goto, Answer, FlowTypeOK, ConsentKept
<1>7. CASE \E h \in Handlers : FindOrCreateUser(h)
  BY <1>7 DEF FindOrCreateUser, Answer, FlowTypeOK, ConsentKept
<1>8. CASE TimePasses
  BY <1>8 DEF TimePasses, flowVars, ConsentKept
<1>9. CASE ServerRestart
  BY <1>9 DEF ServerRestart, FlowTypeOK, ConsentKept
<1> QED BY <1>1, <1>2, <1>3, <1>4, <1>5, <1>6, <1>7, <1>8, <1>9 DEF FlowNext

\* While GitHub answers the profile request with a profile, and never with an
\* error body, every token is for the account that consented.
THEOREM TokensForConsentingPerson ==
  "github" \notin ErrorBodies => (FlowSpec => []TokenForConsentingPerson)
<1> SUFFICES ASSUME "github" \notin ErrorBodies
             PROVE  FlowSpec => []TokenForConsentingPerson
  OBVIOUS
<1>1. FlowInit => ConsentKept
  BY DEF FlowInit, ConsentKept
<1>2. FlowTypeOK /\ ConsentKept /\ [FlowNext]_vars => ConsentKept'
  BY ConsentKeptStep
<1>3. ConsentKept => TokenForConsentingPerson
  BY DEF ConsentKept, TokenForConsentingPerson
<1> QED BY <1>1, <1>2, <1>3, FlowTypeCorrect, PTL DEF FlowSpec

=============================================================================
