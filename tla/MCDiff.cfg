\* All pairs of containers on three keys; Exact is small so that rounding happens.
SPECIFICATION Spec
CONSTANTS
  a = a  b = b  c = c  w = w
  Keys <- MCKeys
  Place <- MCPlace
  Exact = 4
  Containers <- MCContainers
INVARIANTS TypeOK RebuiltIsLeast OldIsAccountedFor ReusedStandsOnReused ReusesTheUnchanged
