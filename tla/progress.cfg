\* Constants are model values; README.md explains the bounds.
CONSTANTS
  p1 = p1
  p2 = p2
  a = a
  b = b
  d1 = d1
  f1 = f1
  f2 = f2
  e1 = e1
  e2 = e2
  None = None
  Empty = Empty
  Proc = {p1, p2}
  Path = {a}
  Obj = {d1, f1}
  Dirs = {d1}
  Entry = {e1, e2}
  Commands = {"add", "restore", "purge"}
  MaxClock = 0
  MaxCrashes = 0
  MaxFaults = 1
  MaxEdits = 0
SPECIFICATION FairSpec
PROPERTY LockIsReleased
