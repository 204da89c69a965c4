\* The specification's law 1, that lower-casing a name never changes what
\* ValidDomain returns, over the same names and limits as the
\* well-formedness run.
CONSTANTS
  PublicSuffixes <- MCPublicSuffixes
  PunycodeLabels <- MCPunycodeLabels
  MaxLabels = 3
  MaxLabelLength = 5
  MaxNameLength = 12
SPECIFICATION Spec
INVARIANT LowercaseInvariance
