\* ValidDomain against the specification's grammar, over every name of up
\* to four labels from Tokens.  Limits are scaled down so that each is hit:
\* "aaaaaa" is one over MaxLabelLength, four labels are one over MaxLabels,
\* and "xn--a.xn--b.a" is over MaxNameLength.
CONSTANTS
  PublicSuffixes <- MCPublicSuffixes
  PunycodeLabels <- MCPunycodeLabels
  forbiddenMailDomains <- MCForbiddenMailDomains
  MaxLabels = 3
  MaxLabelLength = 5
  MaxNameLength = 12
SPECIFICATION Spec
INVARIANT
  WellFormedMatchesSpec
  IssuedNamesSuffixQuery
  EmailDomainMatchesGrammar
