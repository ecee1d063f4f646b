SPECIFICATION Spec
CONSTANTS
  Totals = {0, 1, 7, 8, 20}
  RangeBytes = 2
  Flavors = {"Sterile", "Meme", "Didactic"}
  TOTAL_MIN_ANIMATION_TICKS = 3
PROPERTIES
  FinishReturns
