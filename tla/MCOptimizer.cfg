CONSTANTS
  Process = {"o1", "o2"}
  Trader = "trader"
  ListContent = {"some"}
  UseUniverse = TRUE
  MayOverrun = TRUE
  MaxFaults = 1
SPECIFICATION FairSpec
INVARIANTS
  TypeOK
  OneAtATime
  ReportIsWhole
  ListIsWhole
PROPERTY ResearchGoesOn
