SPECIFICATION MediaSpec
CONSTANTS
  d1 = d1  d2 = d2  p1 = p1  p2 = p2
  Downloads <- MCDownloads
  Paths <- MCPaths
  Inodes = {1, 2, 3, 4, 5, 6}
  Chunks = 2
  Cap = 3
INVARIANTS
  WholeFiles
