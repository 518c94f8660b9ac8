SPECIFICATION Spec
CONSTANTS
  Threads = {t1, t2}
  Directories <- MCDirectories
  Requests <- MCRequests
  Paths <- MCPaths
  BufferNames <- MCBufferNames
  Canonical <- MCCanonical
  MaxFiles = 3
INVARIANT
  IdsAnswerAlways
