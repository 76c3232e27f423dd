CONSTANTS
  Fd = {6, 7}
  ListenFd = 4
  MaxEvents = 2
  MaxClients = 1
  ClientStreams <- ClientStreams1
  ServerStreams <- ServerStreams1
  Faults = {"fin", "reset", "connect", "accept", "fcntl", "epoll_add", "listener", "signal", "epoll_wait"}
SPECIFICATION Spec
CHECK_DEADLOCK FALSE
INVARIANTS TypeOK TablesAgree OutputArmed UpstreamAfterGrant
PROPERTIES EventsFresh VerdictFinal RelayedWhole TunnelsAreFifo
