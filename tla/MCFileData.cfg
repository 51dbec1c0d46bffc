SPECIFICATION Spec
CONSTANTS
  Procs = {p1, p2}
  Inodes = {"i1", "i2", "root"}
  Root = "root"
  HostFiles <- OneHostFile
  DirentSize = 1
  Files = {"f1", "f2", "d"}
  InodeOf <- TwoFiles
  NBlocks = 10
  BSIZE = 2
  NDIRECT = 2
  NINDIRECT = 1
  MAXOPBLOCKS = 6
  BPB = 8
  Lengths = {1, 4}
  Truncate = TRUE
  PowerFails = TRUE
  MaxCalls = 3
INVARIANTS DiskConsistent OpFits
PROPERTY IsByteFiles
SYMMETRY Symm
