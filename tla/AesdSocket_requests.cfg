\* Two clients, every kind of request and fault, and descriptors that may run out.
CONSTANTS
  NULL = NULL
  NL = NL
  SEEK = SEEK
  x = x
  SeekArgs <- MCSeekArgs
  BufferSize = 2
  Clients = {c1, c2}
  N = 2
  Chunks <- PiecesOfRequests
  MaxChunks = 2
  MaxSignals = 0
  MaxFds = 7
  Faults = {"malloc", "accept", "create", "open", "write", "send", "sigpipe"}
CHECK_DEADLOCK FALSE
SYMMETRY Symmetry
SPECIFICATION Spec
INVARIANTS EntriesOutliveThreads AllJoined LongPacketsFit
PROPERTY AnswerIsContents
