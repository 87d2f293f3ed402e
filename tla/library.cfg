SPECIFICATION Spec
CONSTANTS
  MEM = 10
  NUM_COLS = 7
  NUM_ROWS = 2
  VIDEO_ROWS = 4
  Memories <- MCMemories
  Values <- MCValues
  Texts <- MCTexts
  Lines <- MCLines
PROPERTIES  StringsTrue PrintfTrue  SplitTrue
CHECK_DEADLOCK FALSE
