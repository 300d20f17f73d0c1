CONSTANTS
  Events = {e1, e2}
  Commands = {c1}
  Flushes = {f1, f2}
  MaxConns = 2
  NoConn = NoConn
  NoTask = NoTask
SPECIFICATION LiveSpec
INVARIANTS
  WSTypeOK
  NoOrphanCaller
  OpenIsClient
  QueueSentOnce
PROPERTIES
  MessagesEnd
CHECK_DEADLOCK FALSE
