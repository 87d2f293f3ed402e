SPECIFICATION Spec
CONSTANTS
  NTERM = 2
  COLS = 3
  ROWS = 2
  MAXLINE = 5
  MAXREAD = 1
  a = a
  Chars <- MCChars
  Texts <- MCPrompts
  Blank = Blank
  NL = NL
  Nul = Nul
  Discipline = {"short", "erase", "clear", "ahead", "idle", "look", "switch", "count", "few"}
INVARIANTS CountersTrackCursor 
 
