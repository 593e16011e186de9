SPECIFICATION FairSpec
CONSTANTS
  Sources <- MCSources
  Builds = {"debug", "release"}
  Targets = {"supported", "unknown", "no assembly"}
  MaxRuns = 3
INVARIANTS TypeOK GeneratedInFileOrder ZeroExitMeansFresh SyntaxErrorsShow
PROPERTIES OldOutputStays EveryRunEnds
