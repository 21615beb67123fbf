SPECIFICATION CallsSpec
CONSTANTS
  c1 = c1
  c2 = c2
  Calls <- MCCalls
  Providers <- MCProviders
  Context <- MCContext
  MaxRetries = 2
  Threshold = 3
  Recovery = 2
  None = None
INVARIANTS
  OwnSystem
