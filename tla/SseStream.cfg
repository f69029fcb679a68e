SPECIFICATION SseSpec
CONSTANTS
  Null = Null
  Bodies <- MCBodies
  JsonBodies <- MCJsonBodies
  Documents <- MCDocuments
  Json <- MCJson
  Braces <- MCBraces
  Digits <- MCDigits
  Continuation <- MCContinuation
  Prices <- MCPrices
  MaxEventBytes = 6
  MaxDataLines = 2
  MaxFragment = 8
  MaxShort = 6
CHECK_DEADLOCK FALSE
INVARIANTS
  EventsAreTheStreams LimitsEnforced VerdictSound UsageSound
