CONSTANTS
  Fd = {6, 7}
  ListenFd = 4
  MaxEvents = 1
  MaxClients = 2
  ClientStreams <- ClientStreams3
  ServerStreams <- ServerStreams2
  Faults = {"reset"}
SPECIFICATION FairSpec
CHECK_DEADLOCK FALSE
PROPERTIES BatchHandled InputRead OutputWritten FailedSocketClosed
