SPECIFICATION HostSafetySpec
CONSTANTS
  cli = cli
  host = host
  yubi1 = yubi1
  yubi2 = yubi2
  None = None
  Scdaemon = Scdaemon
  Prompt = Prompt
  Procs = {host}
  Cards = {yubi1, yubi2}
  Keys <- MCKeys
  CurveOf <- MCCurveOf
  Pins <- MCPins
  PinLen <- MCPinLen
  PinOf <- MCPinOf
  Msgs <- MCMsgs
  MsgLen <- MCMsgLen
  KeyIn <- MCKeyIn
  CertIn <- MCCertIn
  NoPinKeys <- MCNoPinKeys
  PivSlots <- MCPivSlots
  MaxTries = 1
  Requests <- MCRequests
  Faults = {"pull"}
  Hosts = {host}
  HostRequests <- MCListRequests
  Unknown = Unknown
  EnvPin = Prompt
INVARIANTS
  ListsOneCard
