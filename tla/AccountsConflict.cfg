\* A registration with a password bcrypt refuses.
SPECIFICATION Spec
CONSTANTS
  h1 = h1
  h2 = h2
  h3 = h3
  u1 = u1
  u2 = u2
  u3 = u3
  e1 = e1
  e2 = e2
  p1 = p1
  p2 = p2
  long = long
  i1 = i1
  i2 = i2
  Null = Null
  Handlers = {h1, h2}
  UserIds = {u1, u2}
  Emails = {e1, e2}
  Passwords = {p1}
  LongPasswords = {long}
  Identities = {i1}
  EmailsOf <- SharedEmail
  Faults = FALSE
  MaxConns = 2
INVARIANT
  ConflictMeansTaken
