\* A restore below up to two missing directories; README.md explains the bounds.
CONSTANTS
  f1 = f1
  d1 = d1
  MaxDepth = 2
  UserFiles = {f1}
  UserDirs = {d1}
  Payload = payload
  Root = root
  Elsewhere = elsewhere
  Staging = staging
  Box = box
  Leaf = leaf
  Extra = extra
  Gone = Gone
  Unborn = Unborn
  MaxMoves = 4
  MaxKills = 1
  MaxFaults = 2
SPECIFICATION Spec
CHECK_DEADLOCK FALSE
INVARIANTS TypeOK CleanMeansClean CaptureIsReported
PROPERTIES NothingIsReplaced NoBareParent
