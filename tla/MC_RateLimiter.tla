---------------------------- MODULE MC_RateLimiter ----------------------------
(***************************************************************************)
(* Model values for RateLimiter: the registry's files and queries of      *)
(* MC_RateLimitRegistry, and an engine serving two RA tasks under two of   *)
(* those start-ups.  Its buckets are an account's NewOrdersPerAccount and  *)
(* a domain's CertificatesPerDomain.  Under the defaults alone both have   *)
(* an emission interval of 5 ticks, with bursts 2 and 1.  An override      *)
(* gives the domain's bucket burst 2, count 2 and period 5, so its         *)
(* interval truncates to 2.                                                 *)
(***************************************************************************)
EXTENDS MC_RateLimitRegistry, RateLimiter

AcctBucket == [name |-> NewOrdersPerAccount, key |-> joinWithColon(<<"3">>, Acct)]
DomBucket == [name |-> MCCertificatesPerDomain, key |-> joinWithColon(<<"5">>, Dom)]
MCBuckets == {AcctBucket, DomBucket}
\* NewOrder's probe covers both; single buckets go through Spend.
MCBatches == {{AcctBucket, DomBucket}}
MCEngineFiles == {<<DGood, <<>>>>,
                  <<DGood, <<Ov("CertificatesPerDomain", 2, 2, 5, <<Id(Dom, 0)>>)>>>>}
=============================================================================
