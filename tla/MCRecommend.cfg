\* Two requests and two edits; the limit leaves out one of three articles.
SPECIFICATION Spec
CONSTANTS
  q1 = q1  q2 = q2
  Absent = Absent
  Requests = {q1, q2}
  Articles = {1, 2, 3}
  Categories = {"engineering", "operations", "premium"}
  Scores = {8, 9}
  Seed <- MCSeed
  Limit = 2
  MaxEdits = 2
INVARIANTS TypeOK PolicyHolds RankedAsShown
SYMMETRY RequestSymmetry
