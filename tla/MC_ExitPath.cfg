CONSTANTS
  r1 = r1
  r2 = r2
  r3 = r3
  r4 = r4
  p1 = p1
  p2 = p2
  fallbacks = fallbacks
  Relays <- MCRelays
  Ports <- MCPorts
  Policies <- MCPolicies
  Fallbacks <- fallbacks
SPECIFICATION Spec
CHECK_DEADLOCK FALSE
INVARIANT
  PathValid
