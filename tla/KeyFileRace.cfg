SPECIFICATION Spec
CONSTANTS
  Runs = {1, 2, 3}
  MaxUnits = 2
INVARIANTS
  NoOverwriteWithoutForce
