\* Two handlers, two classes, entries that live two ticks.
SPECIFICATION Spec
CONSTANTS
  h1 = h1
  h2 = h2
  all = all
  stock = stock
  crypto = crypto
  x = x
  y = y
  Keys = {all, crypto}
  TTL = 2
  MaxLag = 1
  MaxTime = 6
  Handlers = {h1, h2}
  Symbols = {x, y}
  Tables <- Loads
  ClassOf <- Classes
  AllClasses = all
  MaxLatency = 1
SYMMETRY Symmetry
INVARIANTS
  TypeOK
  ServedIsRecent
  NotFoundIsCurrent
  EvictedInTime
PROPERTY
  SweepKeepsLive
