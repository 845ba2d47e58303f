\* A request for the screener with a year and no week.
SPECIFICATION Spec
CONSTANTS
  None = None
  Dates = {1, 2}
  Editions <- SomeEditions
  Weeks <- SomeWeeks
  Results = {{}, {"VCB"}}
  Days = {1, 2, 3}
  Today = 3
  Span = 1
  Histories <- SomeHistories
  Limits = {1, 2}
  Snapshots = {}
  MaxLoads = 0
INVARIANT
  YearIsKept
