\* Two commands at once, on any of three integrations; README.md explains the bounds.
CONSTANTS
  p1 = p1
  p2 = p2
  claude = claude
  cursor = cursor
  settings = settings
  hooks = hooks
  Procs = {p1, p2}
  Hosts = {claude, cursor}
  PathShim = path_shim
  Configs = {settings, hooks}
  Shims = {rm, unlink}
  Adapter = adapter
  Registry = registry
  EventKeys = {"PreToolUse", "preToolUse"}
  EventKey <- MCEventKey
  Home <- MCHome
  None = None
  Broken = Broken
  Old = Old
  New = New
  Foreign = Foreign
  MaxJobs = 2
  MaxKills = 1
  MaxFaults = 1
  MaxEdits = 1
  MaxUpsets = 2
SYMMETRY Symmetry
SPECIFICATION Spec
CHECK_DEADLOCK FALSE
INVARIANTS OkIsTrue
PROPERTIES FailedIsUndone OthersAreKept AdapterOutlivesRegistration
