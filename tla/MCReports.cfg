SPECIFICATION PageFairSpec
CONSTANTS
  Jobs = {r1, r2}
  NoJob = NoJob
  MaxCrashes = 1
INVARIANTS
  PageTypeOK
  SentIffAudited
  DownloadedNotFailed
  RecordedListed
  FailedHasNoPdf
PROPERTIES
  CompletionShown
  KeepsReports
CHECK_DEADLOCK FALSE
