SPECIFICATION FairSpec
CONSTANTS
  NPROC = 3
  NTERM = 2
  StackDepth = 3
  Shell = shell
  cat = cat
  none = none
  bad = bad
  NULL = NULL
  Commands = {cat, none, bad, shell}
  Loadable = {shell, cat, bad}
  Broken = {bad}
  DebugKeys = {0, 1}
  QuietLaunch = TRUE
  TerminalsFirst = FALSE
INVARIANTS LiveSlotsOpen ImagesIntact
 
CHECK_DEADLOCK FALSE
