------------------------------ MODULE OAuthFlow ------------------------------
(***************************************************************************)
(* A social login from end to end (internal/app/oauth.go): the login       *)
(* handler stores a state and redirects to the provider; the user consents *)
(* there and the browser is sent to the callback URL, which it may visit   *)
(* any number of times, at once or after a restart; a callback validates   *)
(* the state, exchanges the code, fetches the profile, finds or creates    *)
(* the user and answers with a token.                                      *)
(*                                                                         *)
(* The store of states is module OAuthStates, extended here; finding or    *)
(* creating the user is one step, as module Accounts is shown to allow.    *)
(***************************************************************************)
EXTENDS OAuthStates

CONSTANTS
  Handlers,     \* goroutines serving a callback
  Providers,    \* {"google", "github"}, those configured
  People,       \* the accounts the users have at the providers
  ErrorBodies,  \* the providers that may answer the profile request with an
                \* error status, which neither fetch function looks at
  NilId         \* "<nil>", what Sprintf("%v") makes of a missing id

ASSUME ErrorBodiesAssumption == ErrorBodies \subseteq Providers
ASSUME NilIdAssumption == NilId \notin People

VARIABLES
  pages,   \* the consent pages open in browsers: [state, provider]
  urls,    \* the callback URLs browsers were sent to: [state, provider, person]
  pc,      \* pc[h]: the call h is about to make
  url,     \* url[h]: the callback h serves, or served last
  ident,   \* ident[h]: the identity h will log in
  status,  \* status[h]: what h answered
  tokens   \* history: how many tokens were issued for each state

flowVars == <<pages, urls, pc, url, ident, status, tokens>>
vars == <<storeVars, flowVars>>

Urls == [state : States, provider : Providers, person : People]
Identities == [provider : Providers, id : People \cup {NilId}]
Statuses == {"none", "invalid_state", "oauth_error", "internal_error", "token"}
Nothing == <<>>

FlowTypeOK ==
  /\ TypeOK
  /\ pages \subseteq [state : States, provider : Providers]
  /\ urls \subseteq Urls
  /\ pc \in [Handlers -> {"idle", "exchange", "profile", "user"}]
  /\ url \in [Handlers -> Urls \cup {Nothing}]
  /\ ident \in [Handlers -> Identities \cup {Nothing}]
  /\ status \in [Handlers -> Statuses]
  /\ tokens \in [States -> Nat]
  /\ \A h \in Handlers :
       /\ pc[h] # "idle" => url[h] \in Urls
       /\ pc[h] = "user" => ident[h] \in Identities

FlowInit ==
  /\ Init
  /\ pages = {}
  /\ urls = {}
  /\ pc = [h \in Handlers |-> "idle"]
  /\ url = [h \in Handlers |-> Nothing]
  /\ ident = [h \in Handlers |-> Nothing]
  /\ status = [h \in Handlers |-> "none"]
  /\ tokens = [s \in States |-> 0]

\* GoogleLogin and GitHubLogin: store a new state, redirect with it.
SocialLogin(s, p) ==
  /\ Set(s)
  /\ pages' = pages \cup {[state |-> s, provider |-> p]}
  /\ UNCHANGED <<urls, pc, url, ident, status, tokens>>

\* The user consents at the provider, which sends the browser back.
Consent(page, a) ==
  /\ page \in pages
  /\ urls' = urls \cup
       {[state |-> page.state, provider |-> page.provider, person |-> a]}
  /\ UNCHANGED <<storeVars, pages, pc, url, ident, status, tokens>>

Goto(h, l) ==
  /\ pc' = [pc EXCEPT ![h] = l]
  /\ UNCHANGED status

Answer(h, st) ==
  /\ pc' = [pc EXCEPT ![h] = "idle"]
  /\ status' = [status EXCEPT ![h] = st]

\* A callback URL is visited: the state is spent, whatever follows.
Callback(h, u) ==
  /\ pc[h] = "idle"
  /\ u \in urls
  /\ Validate(u.state)
  /\ url' = [url EXCEPT ![h] = u]
  /\ ident' = [ident EXCEPT ![h] = Nothing]
  /\ IF Valid(u.state)
       THEN pc' = [pc EXCEPT ![h] = "exchange"]
            /\ status' = [status EXCEPT ![h] = "none"]
       ELSE Answer(h, "invalid_state")
  /\ UNCHANGED <<pages, urls, tokens>>

\* The code is exchanged for an access token; the code's own single use is the
\* provider's business, and is not counted on.
Exchange(h) ==
  /\ pc[h] = "exchange"
  /\ Goto(h, "profile") \/ Answer(h, "oauth_error")
  /\ UNCHANGED <<storeVars, pages, urls, url, ident, tokens>>

\* Mutant: the error of the fetch is ignored.
FetchErrorIgnored(h) ==
  /\ pc[h] = "profile"
  /\ \/ ident' = [ident EXCEPT ![h] =
                    [provider |-> url[h].provider, id |-> url[h].person]]
     \/ UNCHANGED ident
  /\ Goto(h, "user")
  /\ UNCHANGED <<storeVars, pages, urls, url, tokens>>

\* Mutant: the profile is decoded into a variable the handlers share.
FetchIntoShared(h) ==
  /\ pc[h] = "profile"
  /\ ident' = [g \in Handlers |->
                 [provider |-> url[h].provider, id |-> url[h].person]]
  /\ Goto(h, "user")
  /\ UNCHANGED <<storeVars, pages, urls, url, tokens>>

\* The profile is fetched.  The fields of an error body are missing: Google's
\* callback panics on them, and gin answers 500; GitHub's goes on with "<nil>".
FetchProfile(h) ==
  /\ pc[h] = "profile"
  /\ \/ /\ ident' = [ident EXCEPT ![h] =
                       [provider |-> url[h].provider, id |-> url[h].person]]
        /\ Goto(h, "user")
     \/ /\ Answer(h, "oauth_error")
        /\ UNCHANGED ident
     \/ /\ url[h].provider \in ErrorBodies
        /\ url[h].provider = "google"
        /\ Answer(h, "internal_error")
        /\ UNCHANGED ident
     \/ /\ url[h].provider \in ErrorBodies
        /\ url[h].provider = "github"
        /\ ident' = [ident EXCEPT ![h] = [provider |-> "github", id |-> NilId]]
        /\ Goto(h, "user")
  /\ UNCHANGED <<storeVars, pages, urls, url, tokens>>

\* FindOrCreateSocialUser, then issueJWT for the user of the identity.
FindOrCreateUser(h) ==
  /\ pc[h] = "user"
  /\ \/ /\ Answer(h, "token")
        /\ tokens' = [tokens EXCEPT ![url[h].state] = @ + 1]
     \/ /\ Answer(h, "internal_error")
        /\ UNCHANGED tokens
  /\ UNCHANGED <<storeVars, pages, urls, url, ident>>

TimePasses == Tick /\ UNCHANGED flowVars

\* The process ends and starts again: the states are lost, and the callbacks
\* being served; the browsers keep their pages and URLs.
ServerRestart ==
  /\ Restart
  /\ pc' = [h \in Handlers |-> "idle"]
  /\ UNCHANGED <<pages, urls, url, ident, status, tokens>>

FlowNext ==
  \/ \E s \in States, p \in Providers : SocialLogin(s, p)
  \/ \E page \in pages, a \in People : Consent(page, a)
  \/ \E h \in Handlers :
       \/ \E u \in urls : Callback(h, u)
       \/ Exchange(h)
       \/ FetchProfile(h)
       \/ FindOrCreateUser(h)
  \/ TimePasses
  \/ ServerRestart

FlowSpec == FlowInit /\ [][FlowNext]_vars

-----------------------------------------------------------------------------
(* Properties.                                                             *)

\* One login yields at most one token, however often its callback is visited,
\* by however many handlers at a time, and across restarts.
OneTokenPerLogin == \A s \in States : tokens[s] <= 1

\* The token is for the account that consented.
TokenForConsentingPerson ==
  \A h \in Handlers : status[h] = "token" =>
    ident[h] = [provider |-> url[h].provider, id |-> url[h].person]

\* A callback past the state check is the only one that can be: a state being
\* served is in the map no more, and in no other handler.
StateInOnePlace ==
  \A h \in Handlers : pc[h] # "idle" =>
    /\ url[h].state \notin DOMAIN states
    /\ tokens[url[h].state] = 0
    /\ \A g \in Handlers \ {h} : pc[g] # "idle" => url[g].state # url[h].state
=============================================================================
