SPECIFICATION Spec

CONSTANTS
  UrlRuns = {u1, u2}
  UploadRuns = {p1}
  Contents = {c1, c2}
  NoContent = NoContent
  Patches = {}
  MaxAttempts = 2
  MaxFaults = 1
  MaxCrashes = 1

SYMMETRY Symmetry

INVARIANTS
  OneRunPerDocument
  CompletedIsProcessed
  AnswerSurvivesRestart

CHECK_DEADLOCK FALSE
