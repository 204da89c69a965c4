\* Blocklist semantics and load validation: one valid policy and three
\* malformed ones, loaded in any order while two callers check names that
\* laws 3 and 4 of the specification talk about.
CONSTANTS
  Readers = {r1, r2}
  Requests <- LawRequests
  Policies <- LawPolicies
  EnabledTypes = {"dns", "ip"}
  CanonicalIPs <- MCCanonicalIPs
  ReservedIPs <- MCReservedIPs
  MaxLoads = 3
  Unloaded = Unloaded
  PublicSuffixes <- MCPublicSuffixes
  PunycodeLabels <- MCPunycodeLabels
  MaxLabels = 4
  MaxLabelLength = 3
  MaxNameLength = 12
SPECIFICATION Spec
SYMMETRY Symmetry
INVARIANTS
  TypeOK
  VerdictFromOnePolicy
