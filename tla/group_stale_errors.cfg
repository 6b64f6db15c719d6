CONSTANTS
  None = None
  Images <- MCImages
  Metrics <- MCMetrics
  Photo <- MCPhoto
  Match <- MCMatch
  Configs <- MCConfigs
  Offered <- MCOffered
  Sets <- MCSets
  Keys = {1, 2}
  ChunkSize = 1
  SystemErrors = {"FILE_NOT_FOUND"}
  Scenarios = {{"storage_fails"}}
SPECIFICATION Spec
CHECK_DEADLOCK FALSE
INVARIANT
  ErrorsAreCurrent
