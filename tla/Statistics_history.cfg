\* a third snapshot or a second topic would show nothing more
SPECIFICATION Spec
CONSTANTS
  Tasks = {t1, t2}
  VideoIds = {1, 2}
  TopicIds = {1}
  Day <- MCDay
  Heat <- MCHeat
  Metrics <- MCMetrics
  Weights <- MCWeights
  Defaults <- MCWeights
  Spread <- MCSpread
  Today = 2
  One = 2
  Crawls = 1
INVARIANT HistoryAcrossTasks
CHECK_DEADLOCK FALSE
