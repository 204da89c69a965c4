\* Three RA tasks batch-check-and-spend the account and domain buckets
\* under the default limits (domain burst 1): the spec's claim that
\* read-skew overspend is bounded by the burst.
CONSTANTS
  LimitNames <- MCLimitNames
  StringToName <- MCStringToName
  NameOrder <- MCNameOrder
  CertificatesPerDomain <- MCCertificatesPerDomain
  CertificatesPerFQDNSet <- MCCertificatesPerFQDNSet
  BadIds <- MCBadIds
  IPPrefix <- MCIPPrefix
  FQDNSetHash <- MCFQDNSetHash
  DefaultConfigs <- MCDefaultConfigs
  OverrideConfigs <- MCOverrideConfigs
  QueryNames <- MCQueryNames
  QueryKeys <- MCQueryKeys
  Width = 8
  Tasks = {t1, t2, t3}
  Buckets <- MCBuckets
  Batches <- MCBatches
  EngineFiles <- MCEngineFiles
  MaxNow = 5
  MaxRequests = 6
SPECIFICATION EngineSpec
CHECK_DEADLOCK FALSE
INVARIANT
  AdmissionsWithinRate
