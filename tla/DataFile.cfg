\* Two clients, two expirations of the timer on any thread, a signal, and every fault.
CONSTANTS
  Clients = {c1, c2}
  MAIN = MAIN
  NULL = NULL
  STAMP = S
  x = x
  NL = NL
  Bytes = {x, NL}
  packet <- MCPacket
  Leftovers <- MCLeftovers
  BufferSize = 3
  MaxAlarms = 2
  Faults = {"timer", "open", "write", "send", "sigpipe"}
CHECK_DEADLOCK FALSE
SPECIFICATION FairSpec
INVARIANT FileRemoved
PROPERTIES HandlersReturn AnswerIsFile
