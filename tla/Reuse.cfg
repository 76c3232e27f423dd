CONSTANTS
  Fd = {6, 7, 8, 9}
  ListenFd = 4
  MaxEvents = 2
  MaxClients = 2
  ClientStreams <- ClientStreams2
  ServerStreams <- ServerStreams1
  Faults = {"reset", "connect"}
SPECIFICATION Spec
CHECK_DEADLOCK FALSE
INVARIANTS OutputArmed TunnelsGenuine
PROPERTIES EventsFresh TunnelsAreFifo
