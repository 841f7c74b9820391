\* Four texts, two embedding spaces, two calls; four places for a configuration file
\* and one change of one, two candidates, two searches.
CONSTANTS
  Texts = 4
  Size <- MCSize
  Model = {"m1", "m2"}
  NoModel = NoModel
  NoVector = NoVector
  MaxItems = 2
  MaxBytes = 3
  MaxCalls = 2
  ConfigFile <- MCConfigFile
  Here <- Root
  File <- MCFile
  NoFile = NoFile
  NoPath = NoPath
  NoSection = NoSection
  NoConfig = NoConfig
  Unset = Unset
  MaxTimeout = 5
  Worlds <- MCWorlds
  MaxChanges = 1
  Adapters = {"openai_compatible", "mcp"}
  Secrets = {"key"}
  NoVariable = NoVariable
  NoProvider = NoProvider
  NoAnswer = NoAnswer
  DefaultTimeout = 3
  Query = {"q", "p"}
  Ranking <- MCRanking
  MaxSearches = 2
SPECIFICATION ProvidersSpec
CHECK_DEADLOCK FALSE
INVARIANTS
  VectorsAreOwn
  NothingSkipped
  RoutesAreChosen
  ScoresAreOwn
PROPERTIES
  OnlyNewIsSent
  CallsEnd
