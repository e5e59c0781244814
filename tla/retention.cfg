\* Constants are model values; README.md explains the bounds.
CONSTANTS
  p1 = p1
  p2 = p2
  a = a
  b = b
  d1 = d1
  f1 = f1
  f2 = f2
  e1 = e1
  e2 = e2
  None = None
  Empty = Empty
  Proc = {p1, p2}
  Path = {a, b}
  Obj = {d1, f1}
  Dirs = {d1}
  Entry = {e1, e2}
  Commands = {"add", "empty", "purge"}
  MaxClock = 1
  MaxCrashes = 1
  MaxFaults = 0
  MaxEdits = 0
SYMMETRY Symmetry
SPECIFICATION Spec
PROPERTIES EmptyPurgesOnlyShown LaterTrashSurvives
