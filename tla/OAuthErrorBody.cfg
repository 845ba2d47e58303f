\* GitHub answers the profile request with an error status and a JSON body.
SPECIFICATION FlowSpec
CONSTANTS
  s1 = s1
  s2 = s2
  h1 = h1
  h2 = h2
  a1 = a1
  a2 = a2
  NilId = NilId
  States = {s1, s2}
  TTL = 1
  MaxTime = 2
  Handlers = {h1, h2}
  Providers = {"google", "github"}
  People = {a1, a2}
  ErrorBodies = {"github"}
SYMMETRY Symmetry
INVARIANT
  TokenForConsentingPerson
