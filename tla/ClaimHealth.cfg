CONSTANTS
  Fd = {6, 7}
  ListenFd = 4
  MaxEvents = 2
  MaxClients = 1
  ClientStreams <- ClientStreams1
  ServerStreams <- ServerStreams1
  Faults = {}
SPECIFICATION Spec
CHECK_DEADLOCK FALSE
PROPERTY NoHealthTooEarly
