SPECIFICATION FairSpec

CONSTANTS
  UrlRuns = {u1}
  UploadRuns = {p1}
  Contents = {c1}
  NoContent = NoContent
  Patches = {q1}
  MaxAttempts = 2
  MaxFaults = 1
  MaxCrashes = 1

PROPERTIES
  EveryRunEnds

CHECK_DEADLOCK FALSE
