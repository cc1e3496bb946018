CONSTANTS
  Tasks = {t1, t2}
  Responses <- MCResponses
SPECIFICATION FairSpec
INVARIANTS RecordsTruthful ActionsRunOnce UsageExplained
PROPERTIES CallersAnswered
CHECK_DEADLOCK FALSE
