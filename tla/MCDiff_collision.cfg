\* Specs that the hash cannot tell apart.
SPECIFICATION Spec
CONSTANTS
  a = a  b = b  c = c  w = w
  Keys <- MCKeys
  Place <- MCPlace
  Exact = 4
  Containers <- MCCollisions
INVARIANTS ReusedIsUnchanged
