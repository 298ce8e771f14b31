\* Two threads, one with every kind of call, scheduled fairly.
CONSTANTS
  NULL = NULL
  NL = NL
  UNINIT = UNINIT
  a = a
  b = b
  Bytes = {a, b}
  N = 1
  Threads = {t1, t2}
  Files = {f1}
  Blocks = {k1, k2, k3}
  Packets <- SmallPackets
  Counts = {1}
  SeekArgs <- OneSeek
  Offsets = {0}
  MaxWrites = 2
  MaxLoads = 1
CHECK_DEADLOCK FALSE
SPECIFICATION FairSpec
PROPERTY CallsReturn
