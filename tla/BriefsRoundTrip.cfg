SPECIFICATION Spec
CONSTANTS
  s1 = s1
  s2 = s2
  r1 = r1
  r2 = r2
  r3 = r3
  None = None
  Truncated = Truncated
  Corrupt = Corrupt
  RequiredFields <- MCRequired
  OptionalFields <- MCNoOptional
  FallbackFields <- MCFallback
  Unasked = {}
  Sessions <- MCOneSession
  Requests <- MCOneRequest
  FileBacked = TRUE
  Faults <- MCNoFaults
INVARIANTS
  BriefsRoundTrip
