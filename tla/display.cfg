SPECIFICATION Spec
CONSTANTS
  COLS = 4
  ROWS = 2
  EDGE <- MCEdge
  None = None
  TICKS = 2
  UNIT = 2
  TEN = 1
  Rules <- MCRules
INVARIANTS ScreenTrue CursorsKept PacketsInStep
