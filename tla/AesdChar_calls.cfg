\* Two threads that share a file make every call; allocations and copies fail; two loads.
CONSTANTS
  NULL = NULL
  NL = NL
  UNINIT = UNINIT
  a = a
  b = b
  Bytes = {a, b}
  N = 2
  Threads = {t1, t2}
  Files = {f1}
  Blocks = {k1, k2, k3, k4}
  Packets <- AllPackets
  Counts = {2}
  SeekArgs <- MCSeekArgs
  Offsets <- MCOffsets
  MaxWrites = 2
  MaxLoads = 2
SYMMETRY Symmetry
CHECK_DEADLOCK FALSE
SPECIFICATION Spec
INVARIANTS TypeOK LockDiscipline HeapExact Framing StreamConserved WritesAreAtomic
PROPERTIES ReadReturnsContents SeekLands LlseekSizeIsContents ImplementsLineDevice
