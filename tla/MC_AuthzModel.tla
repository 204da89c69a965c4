---------------------------- MODULE MC_AuthzModel ----------------------------
(***************************************************************************)
(* Model values for AuthzModel: three identifiers (a name, a wildcard and *)
(* an IP address), two concurrent validations, and PA configurations with *)
(* every offered challenge type enabled, with dns-01 disabled, and with   *)
(* http-01 only.                                                          *)
(***************************************************************************)
EXTENDS AuthzModel, TLC

\* A wildcard's authorization keeps "*." in its identifier value, which is
\* what ChallengeTypesFor tests.
MCIdents == {[type |-> "dns", value |-> "example.com"],
             [type |-> "dns", value |-> "*.example.com"],
             [type |-> "ip", value |-> "192.0.2.1"]}
\* Issuances naming nothing, each identifier alone, another name, the
\* value under the other type, and mixed lists of two types.
Dns(v) == [type |-> "dns", value |-> v]
Ip(v) == [type |-> "ip", value |-> v]
MCQueryIdents == {<<>>, <<Dns("example.com")>>, <<Dns("*.example.com")>>, <<Ip("192.0.2.1")>>, <<Ip("example.com")>>,
                  <<Dns("other.org"), Ip("192.0.2.1"), Dns("example.com")>>,
                  <<Ip("192.0.2.9"), Dns("other.org"), Dns("example.com")>>,
                  <<Ip("192.0.2.1"), Dns("other.org")>>}
MCEnabledSets == {{"http-01", "dns-01", "tls-alpn-01"}, {"http-01", "tls-alpn-01"}, {"http-01"}}
Symmetry == Permutations(Workers)
=============================================================================
