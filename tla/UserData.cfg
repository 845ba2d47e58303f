\* Two handlers, and identifiers for two accounts and a list, an account and
\* two lists, or an account and a key; one e-mail, so that the second account
\* comes after the first.
SPECIFICATION Spec
CONSTANTS
  h1 = h1
  h2 = h2
  i1 = i1
  i2 = i2
  i3 = i3
  e1 = e1
  n1 = n1
  n2 = n2
  s1 = s1
  s2 = s2
  Null = Null
  Handlers = {h1, h2}
  Ids = {i1, i2, i3}
  Emails = {e1}
  Names = {n1, n2}
  Contents = {s1, s2}
SYMMETRY Symmetry
INVARIANTS
  TypeOK
  RowsConsistent
  AnswersAreOwn
  DeletedForGood
PROPERTY
  OnlyOwnersChange
