SPECIFICATION Spec
CONSTANTS
  BLOCKSIZE = 3
  MAX_NAME_LENGTH = 5
  MAX_BLOCKS = 3
  dot = dot
  a = a
  b = b
  x = x
  y = y
  CHAR = {dot, a, b, x, y}
  num_inodes = 2
  num_data_blocks = 4
  dir_entries <- MCEntries
  index_nodes <- MCInodes
  Pid = {0}
  NFD = 8
  Screens = {0}
  Names = {}
  Numbers = {}
  Requests = {}
  Overrun = {0, 1}
  WORD = 4096
  NULL = NULL
  BUFSIZE = 5
  NL = NL
  Nul = Nul
  Junk = Junk
  Contents <- MCContents
  Dot <- MCDot
  Launches <- MCLaunches
  Rules = {"clean", "lines"}
INVARIANTS TypeOK CatPrintsFile  GrepFinds SyserrPasses
PROPERTY Ends
CHECK_DEADLOCK FALSE
