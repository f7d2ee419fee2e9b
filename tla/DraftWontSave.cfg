SPECIFICATION Spec
CONSTANTS
  i1 = i1
  i2 = i2
  i3 = i3
  Items <- MCItems
  FirstItems <- MCFirstItems
  Writers = {w1, w2}
  Shift = 10
  MaxSteps = 4
INVARIANT PlacesNeverCollide
CHECK_DEADLOCK FALSE
