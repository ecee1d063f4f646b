SPECIFICATION BackgroundSpec
CONSTANTS
  Totals = {0, 1, 7, 8, 20}
  RangeBytes = 2
  Flavors = {"Sterile", "Meme", "Didactic"}
  TOTAL_MIN_ANIMATION_TICKS = 3
  MaxEntries = 3
  MaxWorkers = 2
INVARIANTS
  BarIsHonest
  FinalReport
  NothingLeaks
  OnlyOwnMapping
  SweepIsComplete
PROPERTIES
  BarNeverRetreats
  CommandReturns
