SPECIFICATION SessionSpec
CONSTANTS
  cli = cli
  host = host
  yubi1 = yubi1
  yubi2 = yubi2
  None = None
  Scdaemon = Scdaemon
  Prompt = Prompt
  Procs = {host}
  Cards = {yubi1}
  Keys <- MCKeys
  CurveOf <- MCCurveOf
  Pins <- SessionPins
  PinLen <- SessionPinLen
  PinOf <- MCPinOf
  Msgs <- MCMsgs
  MsgLen <- MCMsgLen
  KeyIn <- MCKeyIn
  CertIn <- MCCertIn
  NoPinKeys <- MCNoPinKeys
  PivSlots <- OneSlot
  MaxTries = 1
  Daemon = host
  MaxCalls = 2
  Requests <- SessionCalls
  Faults = {"refuse", "lose", "pull", "kill"}
  Hosts = {host}
  HostRequests <- SessionRequests
  Unknown = Unknown
  EnvPin = Prompt
INVARIANTS
  SettledWithOwnReply
PROPERTIES
  ImplementsPort
  RequestAnswered
CHECK_DEADLOCK FALSE
