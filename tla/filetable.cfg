SPECIFICATION Spec
CONSTANTS
  BLOCKSIZE = 2
  MAX_NAME_LENGTH = 4
  MAX_BLOCKS = 2
  a = a
  b = b
  c = c
  CHAR = {a, b, c}
  num_inodes = 3
  num_data_blocks = 4
  dir_entries <- MCEntries
  index_nodes <- MCInodes
  Pid = {0}
  NFD = 4
  Screens = {1}
  Names <- MCNames
  Numbers <- MCNumbers
  Requests <- MCRequests
  Overrun = {2}
  WORD = 16
  NULL = NULL
INVARIANTS DriverPresent PositionInside
PROPERTY OpenFilesSpec
