SPECIFICATION HostSafetySpec
CONSTANTS
  cli = cli
  host = host
  yubi1 = yubi1
  yubi2 = yubi2
  None = None
  Scdaemon = Scdaemon
  Prompt = Prompt
  Procs = {host}
  Cards = {yubi1, yubi2}
  Keys <- MCKeys
  CurveOf <- MCCurveOf
  Pins <- MCPins
  PinLen <- MCPinLen
  PinOf <- MCPinOf
  Msgs <- MCMsgs
  MsgLen <- MCMsgLen
  KeyIn <- MCKeyIn
  CertIn <- MCCertIn
  NoPinKeys <- MCNoPinKeys
  PivSlots <- TwoSlots
  MaxTries = 2
  Requests <- MCRequests
  Faults = {"lose", "pull", "kill"}
  Hosts = {host}
  HostRequests <- MCHostRequests
  Unknown = Unknown
  EnvPin = "pin1"
INVARIANTS
  HostTypeOK
  SignsWithFetchedKey
  OneTryPerRequest
  ListsWhatIsThere
PROPERTIES
  UsesLibrary
