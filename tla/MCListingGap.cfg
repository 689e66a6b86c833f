SPECIFICATION Spec
CONSTANTS
  cli = cli
  host = host
  yubi1 = yubi1
  yubi2 = yubi2
  None = None
  Scdaemon = Scdaemon
  Prompt = Prompt
  Procs = {cli, host}
  Cards = {yubi1}
  Keys <- MCKeys
  CurveOf <- MCCurveOf
  Pins <- MCPins
  PinLen <- MCPinLen
  PinOf <- MCPinOf
  Msgs <- MCMsgs
  MsgLen <- MCMsgLen
  KeyIn <- MCKeyIn
  CertIn <- MCCertIn
  NoPinKeys <- MCNoPinKeys
  PivSlots <- MCPivSlots
  MaxTries = 2
  Requests <- ListRequests
  Faults = {}
INVARIANTS
  ListingReportsReadableSlots
