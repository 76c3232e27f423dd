CONSTANTS
  Fd = {6, 7, 8}
  ListenFd = 4
  MaxEvents = 2
  MaxClients = 2
  ClientStreams <- ClientStreams2
  ServerStreams <- ServerStreams1
  Faults = {"fin"}
SPECIFICATION Spec
CHECK_DEADLOCK FALSE
INVARIANT OwnPeerBytes
