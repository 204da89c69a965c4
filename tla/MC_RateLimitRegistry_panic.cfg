\* Registry construction as in the laws run, checking LoadNeverPanics alone.
\* A failed newLimitRegistry ends the process.
CONSTANTS
  LimitNames <- MCLimitNames
  StringToName <- MCStringToName
  NameOrder <- MCNameOrder
  CertificatesPerDomain <- MCCertificatesPerDomain
  CertificatesPerFQDNSet <- MCCertificatesPerFQDNSet
  BadIds <- MCBadIds
  IPPrefix <- MCIPPrefix
  FQDNSetHash <- MCFQDNSetHash
  DefaultConfigs <- MCDefaultConfigs
  OverrideConfigs <- MCOverrideConfigs
  QueryNames <- MCQueryNames
  QueryKeys <- MCQueryKeys
  Width = 8
SPECIFICATION Spec
CHECK_DEADLOCK FALSE
INVARIANT LoadNeverPanics
