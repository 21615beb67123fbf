SPECIFICATION AdaptersSpec
CONSTANTS
  s1 = s1
  s2 = s2
  r1 = r1
  r2 = r2
  r3 = r3
  c1 = c1
  c2 = c2
  None = None
  Truncated = Truncated
  Corrupt = Corrupt
  RequiredFields <- MCRequired
  OptionalFields <- MCOptional
  FallbackFields <- MCFallback
  Unasked = {}
  Sessions <- MCSessions
  Requests <- MCOneRequest
  FileBacked = TRUE
  Faults <- MCModelFaults
  Calls <- MCCalls
  Providers <- MCProviders
  Context <- MCContext
  MaxRetries = 2
  Threshold = 3
  Recovery = 2
INVARIANTS
  CallsTypeOK
  WholePrompt
  UsageIsOwn
PROPERTIES
  
  BreakerDecides
  EveryCallReturns
