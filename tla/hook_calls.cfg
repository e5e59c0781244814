\* One command after another and one call at any time of them; README.md explains the bounds.
CONSTANTS
  p1 = p1
  c1 = c1
  claude = claude
  cursor = cursor
  settings = settings
  hooks = hooks
  Procs = {p1}
  Calls = {c1}
  MaxTokens = 4
  Hosts = {claude, cursor}
  PathShim = path_shim
  Configs = {settings, hooks}
  Shims = {rm, unlink}
  Adapter = adapter
  Registry = registry
  EventKeys = {"PreToolUse", "preToolUse"}
  EventKey <- MCEventKey
  Home <- MCHome
  None = None
  Broken = Broken
  Old = Old
  New = New
  Foreign = Foreign
  MaxJobs = 2
  MaxKills = 1
  MaxFaults = 1
  MaxEdits = 1
  MaxUpsets = 1
SPECIFICATION HookSpec
CHECK_DEADLOCK FALSE
INVARIANTS HookTypeOK ClassifyIsGetopt OffMeansDenied
PROPERTIES SteadyIsServed
