\* One request at a time, against two writes of the batch jobs.
SPECIFICATION Spec
CONSTANTS
  None = None
  Dates = {1, 2}
  Editions <- SomeEditions
  Weeks <- SomeWeeks
  Results = {{}, {"VCB"}}
  Days = {1, 2, 3}
  Today = 3
  Span = 1
  Histories <- SomeHistories
  Limits = {1, 2}
  Snapshots <- SomeSnapshots
  MaxLoads = 2
INVARIANTS
  TypeOK
  FoundWasPublished
  NotFoundJustified
  SeriesComplete
  CategoryLimitedByRank
  LiveIsTopN
