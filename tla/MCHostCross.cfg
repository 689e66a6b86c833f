SPECIFICATION HostSafetySpec
CONSTANTS
  cli = cli
  host = host
  yubi1 = yubi1
  yubi2 = yubi2
  None = None
  Scdaemon = Scdaemon
  Prompt = Prompt
  Procs = {host}
  Cards = {yubi1}
  Keys <- MCKeys
  CurveOf <- MCCurveOf
  Pins <- MCPins
  PinLen <- MCPinLen
  PinOf <- MCPinOf
  Msgs <- MCMsgs
  MsgLen <- MCMsgLen
  KeyIn <- MCKeyIn
  CertIn <- MCCertIn
  NoPinKeys <- MCNoPinKeys
  PivSlots <- MCPivSlots
  MaxTries = 1
  Requests <- MCRequests
  Faults = {}
  Hosts = {host}
  HostRequests <- MCCrossRequests
  Unknown = Unknown
  EnvPin = Prompt
INVARIANTS
  Ed25519Result
