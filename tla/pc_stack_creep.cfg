SPECIFICATION Spec
CONSTANTS
  NPROC = 4
  NTERM = 2
  StackDepth = 4
  Shell = shell
  cat = cat
  none = none
  bad = bad
  NULL = NULL
  Commands = {cat}
  Loadable = {shell, cat, bad}
  Broken = {bad}
  DebugKeys = {}
  QuietLaunch = TRUE
  TerminalsFirst = TRUE
INVARIANT StackUnwound
CHECK_DEADLOCK FALSE
