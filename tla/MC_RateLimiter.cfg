\* Registry construction from every pair of files, every getLimit and the dump;
\* then two RA tasks spending on the registry's limits in every interleaving.
\* A failed newLimitRegistry ends the process, so those states have no successor.
CONSTANTS
  LimitNames <- MCLimitNames
  StringToName <- MCStringToName
  NameOrder <- MCNameOrder
  CertificatesPerDomain <- MCCertificatesPerDomain
  CertificatesPerFQDNSet <- MCCertificatesPerFQDNSet
  BadIds <- MCBadIds
  IPPrefix <- MCIPPrefix
  FQDNSetHash <- MCFQDNSetHash
  DefaultConfigs <- MCDefaultConfigs
  OverrideConfigs <- MCOverrideConfigs
  QueryNames <- MCQueryNames
  QueryKeys <- MCQueryKeys
  Width = 8
  Tasks = {t1, t2}
  Buckets <- MCBuckets
  Batches <- MCBatches
  EngineFiles <- MCEngineFiles
  MaxNow = 5
  MaxRequests = 6
SPECIFICATION EngineSpec
CHECK_DEADLOCK FALSE
INVARIANTS
  TypeOK
  RegistryMatchesConfig
  DumpRowsMatchOverrides
  AdmissionsWithinConcurrency
  GcraBurstLaw
