SPECIFICATION SerialSpec
CONSTANTS
  Threads = {t1, t2}
  Directories <- MCDirectories
  Requests <- MCRequests
  Paths <- MCPaths
  BufferNames <- MCBufferNames
  Canonical <- MCCanonical
  MaxFiles = 3
PROPERTY
  ImplementsRegistry
