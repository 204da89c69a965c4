------------------------ MODULE MC_RateLimitRegistry ------------------------
(***************************************************************************)
(* Model values for RateLimitRegistry: three limit names, five ids, and  *)
(* ten override entries that between them reach every branch of the       *)
(* parsers, an IPv6 prefix shared by two ids, and two overrides that      *)
(* differ only in their period.                                           *)
(***************************************************************************)
EXTENDS RateLimitRegistry

NewOrdersPerAccount == 3
MCCertificatesPerDomain == 5
MCCertificatesPerFQDNSet == 7
MCLimitNames == {NewOrdersPerAccount, MCCertificatesPerDomain, MCCertificatesPerFQDNSet}
MCStringToName ==
  ("NewOrdersPerAccount" :> 3) @@ ("CertificatesPerDomain" :> 5) @@
  ("CertificatesPerFQDNSet" :> 7)
\* "CertificatesPerDomain" < "CertificatesPerFQDNSet" < "NewOrdersPerAccount"
MCNameOrder == (5 :> 1) @@ (7 :> 2) @@ (3 :> 3)

Acct == <<"1", "2">>              \* an account id
Dom  == <<"e">>                   \* a domain name
V6a  == <<"f", ":", ":", "1">>    \* two IPv6 addresses in one /64
V6b  == <<"f", ":", ":", "2">>
Pfx  == <<"f", ":", ":", "/", "6", "4">>
MCIPPrefix == (V6a :> Pfx) @@ (V6b :> Pfx)
MCFQDNSetHash == (Dom :> <<"a", "b">>) @@ (Acct :> <<"c", "d">>) @@
                 (V6a :> <<"a", "c">>) @@ (V6b :> <<"a", "d">>)
\* account-keyed limits take numeric ids only
MCBadIds == {<<3, Dom>>, <<3, V6a>>, <<3, V6b>>}

C(b, c, p) == [burst |-> b, count |-> c, period |-> p]
Id(i, cm) == [id |-> i, comment |-> cm]
Ov(k, b, c, p, ids) == [key |-> k, burst |-> b, count |-> c, period |-> p, ids |-> ids]

DGood  == ("NewOrdersPerAccount" :> C(2, 2, 10)) @@ ("CertificatesPerDomain" :> C(1, 1, 5))
DBogus == ("Bogus" :> C(1, 1, 1))
DZero  == ("CertificatesPerDomain" :> C(0, 1, 5))
MCDefaultConfigs == {DGood, DBogus, DZero}

Entries == {
  Ov("CertificatesPerDomain", 2, 2, 10, <<Id(V6a, 1)>>),
  Ov("CertificatesPerDomain", 1, 1, 5, <<Id(V6b, 2), Id(Dom, 0)>>),
  Ov("CertificatesPerDomain", 2, 2, 5, <<Id(Dom, 0)>>),
  Ov("NewOrdersPerAccount", 3, 1, 60, <<Id(Acct, 0)>>),
  Ov("NewOrdersPerAccount", 1, 1, 10, <<Id(Dom, 0)>>),
  Ov("NewOrdersPerAccount", 1, 1, -5, <<Id(Acct, 0)>>),
  Ov("Bogus", 1, 1, 10, <<>>),
  Ov("CertificatesPerFQDNSet", 2, 0, 10, <<Id(Dom, 0)>>),
  Ov("CertificatesPerFQDNSet", 1, 2, 5, <<Id(Dom, 1)>>),
  Ov("CertificatesPerFQDNSet", 0, 1, 5, <<>>)}
MCOverrideConfigs == BoundedSeq(Entries, 2)

MCQueryNames == {0} \cup MCLimitNames
MCQueryKeys == {<<>>, joinWithColon(<<"5">>, Pfx), joinWithColon(<<"5">>, Dom),
                joinWithColon(<<"5">>, V6a), joinWithColon(<<"3">>, Acct),
                joinWithColon(<<"7">>, <<"a", "b">>)}
=============================================================================
