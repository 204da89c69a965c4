\* Two valid policies, each of which forbids "*.b.c", loaded while one
\* caller asks for "*.b.c".
CONSTANTS
  Readers = {r1}
  Requests <- TornRequests
  Policies <- TornPolicies
  EnabledTypes = {"dns", "ip"}
  CanonicalIPs <- MCCanonicalIPs
  ReservedIPs <- MCReservedIPs
  MaxLoads = 2
  Unloaded = Unloaded
  PublicSuffixes <- MCPublicSuffixes
  PunycodeLabels <- MCPunycodeLabels
  MaxLabels = 4
  MaxLabelLength = 3
  MaxNameLength = 12
SPECIFICATION Spec
INVARIANT VerdictFromOnePolicy
