\* Two changes of the settings page, sidecars that crash, one restart.
CONSTANTS
  Process = {p1, p2, p3}
  Handler = {h1, h2}
  Main = Main
  NoProcess = NoProcess
  MAX_RESTARTS = 1
  FileFaults = TRUE
  MaxCalls = 2
SPECIFICATION FairSpec
CHECK_DEADLOCK FALSE
INVARIANTS
  OneSidecar
  ServingIsWatched
PROPERTIES
  CrashIsAnswered
  SettlesDown
