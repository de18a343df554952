\* bounds: see MCServices.tla; every module bounds its runs, so it may stop
SPECIFICATION Spec
CONSTANTS
  v1 = v1  v2 = v2  v3 = v3
  Videos = {v1, v2, v3}
  Names = {1, 2, 3, 4, 5, 9}  Unnamed = 9  Reserved = {9}  StopTopics = {4}
  Alias <- MCAlias  Spare <- MCSpare
  MinSize = 2  MaxCount = 2
  Source = "rust"  Casefold <- MCCasefold  SynonymCount = 2
  Recent = {"a", "b"}  Limit = 2
  Topics <- MCTopics  TotalCount = 1  PerTopic = 1  VideoLimit = 2  Unknown = ""
  VideoIds = {1, 2}  TopicIds = {1, 2}  Today = 6  One = 100
  Day <- MCDay  Heat <- MCHeat  Weights <- MCWeights  Defaults <- MCDefaults
  Senders = {s1, s2}  Keys = {k1}
  p1 = p1  p2 = p2  Expected = 1
  r1 = r1  r2 = r2
  t1 = t1
  Nobody = Nobody
  None = None
  Accounts = {"env", "a", "b"}
  Login = {"SESSDATA", "bili_jct"}  Session = "SESSDATA"  Device = {}
  Environment <- MCEnvironment
  Workers = {"w1", "w2"}  Editors = {"e1", "e2"}  Default = 0
INVARIANTS
  TypeOK
  OnePrimaryEach ClustersWithinLimits
  KeywordsWellFormed CandidatesMerged SelectionIsBest
  EveryCandidateAccounted RowsFollowRanks
  FinalStatusTruthful AnalyzedMatchesSummaries
  OneAlertPerWindow SilenceHasReason
  SteadyWorkersCounted AiRatioAtMostOne
  ProfileIsOfLogin
  ScoresWithinScale
  AuthorsProfiledOnce
PROPERTIES
  AiSummaryKept FinishedWithOwnOutputs EditLeavesOwnOutputs RunEnds
CHECK_DEADLOCK FALSE
