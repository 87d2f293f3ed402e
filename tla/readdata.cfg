SPECIFICATION FairSpec
CONSTANTS
  BLOCKSIZE = 3
  MAX_NAME_LENGTH = 3
  MAX_BLOCKS = 4
  CHAR = {}
  num_inodes = 6
  num_data_blocks = 11
  dir_entries <- NoEntries
  index_nodes <- MCDamaged
  MaxRequest = 13
INVARIANTS ReturnsFileBytes BlockIndexInInode
PROPERTY Returns
CHECK_DEADLOCK FALSE
