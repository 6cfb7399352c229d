SPECIFICATION Spec
CONSTANTS
  Threads = {1, 2}
  ThreadCounts = {1, 2, 3, 4}
  JobsOf <- MCJobsOf
  MaxCalls = 2
INVARIANTS
  TypeOK
  SlotsArePrivate
  LevelsReadTheirInput
  ReturnedComplete
  RequestInRange
PROPERTY
  PoolShrinksOnlyByLostUpdate
