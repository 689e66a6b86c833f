SPECIFICATION ToolSpec
CONSTANTS
  cli = cli
  host = host
  yubi1 = yubi1
  yubi2 = yubi2
  None = None
  Scdaemon = Scdaemon
  Prompt = Prompt
  Procs = {cli}
  Cards = {yubi1, yubi2}
  Keys <- MCKeys
  CurveOf <- MCCurveOf
  Pins <- ToolPins
  PinLen <- ToolPinLen
  PinOf <- ToolPinOf
  Msgs <- MCMsgs
  MsgLen <- MCMsgLen
  KeyIn <- MCKeyIn
  CertIn <- MCCertIn
  NoPinKeys <- MCNoPinKeys
  PivSlots <- MCPivSlots
  MaxTries = 1
  Requests <- MCToolRequests
  Faults = {"pull", "kill"}
  Tools = {cli}
  Commands <- MCCommands
INVARIANTS
  ToolTypeOK
  PrintsWhatIsThere
  TransactionsAgree
  FoundOnOwnCard
PROPERTIES
  ToolsUseLibrary
