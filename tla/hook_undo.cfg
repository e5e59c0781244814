\* One command on an installed store; one failing system call.
CONSTANTS
  p1 = p1
  p2 = p2
  claude = claude
  cursor = cursor
  settings = settings
  hooks = hooks
  Procs = {p1}
  Hosts = {claude, cursor}
  PathShim = path_shim
  Configs = {settings, hooks}
  Shims = {rm, unlink}
  Adapter = adapter
  Registry = registry
  EventKeys = {"PreToolUse", "preToolUse"}
  EventKey <- MCEventKey
  Home <- MCHome
  None = None
  Broken = Broken
  Old = Old
  New = New
  Foreign = Foreign
  MaxJobs = 1
  MaxKills = 0
  MaxFaults = 1
  MaxEdits = 0
  MaxUpsets = 2
SPECIFICATION Spec
CHECK_DEADLOCK FALSE
PROPERTIES FilesAreRestored
