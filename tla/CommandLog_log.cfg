SPECIFICATION FairSpec
CONSTANTS
  api = api
  cli = cli
  Operators <- TwoOperators
  MaxCommands = 3
  MaxCrashes = 1
INVARIANTS
  ResumeFollowsOutcome
  OnlyOvertakenIsVoid
  ArmedOnlyAfterOutcomes
PROPERTIES
  ResultsAreFinal
  KillStateNeverOlder
  ViewsConverge
