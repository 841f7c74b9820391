\* A sidecar crashes; during the backoff the user changes a setting.
CONSTANTS
  Process = {p1, p2, p3}
  Handler = {h1, h2}
  Main = Main
  NoProcess = NoProcess
  MAX_RESTARTS = 1
  FileFaults = FALSE
  MaxCalls = 2
SPECIFICATION Spec
CHECK_DEADLOCK FALSE
PROPERTY
  NobodyStoppedMeanwhile
