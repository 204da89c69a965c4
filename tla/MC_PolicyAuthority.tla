------------------------ MODULE MC_PolicyAuthority ------------------------
(***************************************************************************)
(* Names, identifiers and policy files for checking PolicyAuthority.      *)
(* Labels are single letters; "c" and "cd" are the public suffixes, so    *)
(* "b.c" and "b.cd" differ only in a label the suffix rule must respect.  *)
(***************************************************************************)
EXTENDS PolicyAuthority, TLC

MCPublicSuffixes == {<<"c">>, <<"c", "d">>}
MCPunycodeLabels == {}

\* Names, spelt out character by character.
AC      == <<"a", ".", "c">>
BC      == <<"b", ".", "c">>
BCD     == <<"b", ".", "c", "d">>
DC      == <<"d", ".", "c">>
ABC     == <<"a", ".", "b", ".", "c">>
DBC     == <<"d", ".", "b", ".", "c">>
QDC     == <<"q", ".", "d", ".", "c">>
ZABC    == <<"z", ".", "a", ".", "b", ".", "c">>
StarBC  == <<"*", ".", "b", ".", "c">>
StarDC  == <<"*", ".", "d", ".", "c">>
StarABC == <<"*", ".", "a", ".", "b", ".", "c">>
OneLabel == <<"c">>

IP1 == <<"ip1">>
IP2 == <<"ip2">>
IP3 == <<"ip3">>
MCCanonicalIPs == {IP1, IP2, IP3}
MCReservedIPs == {IP3}

Dns(v) == [type |-> "dns", value |-> v]
Ip(v)  == [type |-> "ip", value |-> v]

Policy(high, admin, exact, prefixes) ==
  [highRisk |-> high, admin |-> admin, exact |-> exact, prefixes |-> prefixes]
Prefix(ips) == [parses |-> TRUE, contains |-> ips]
BadPrefix   == [parses |-> FALSE, contains |-> {}]

\* One valid policy exercising every list, and three files the loader
\* must refuse.
PGood      == Policy({DC}, {ZABC}, {ABC}, {Prefix({IP1})})
PEmptyHigh == Policy({}, {}, {ABC}, {})
POneLabel  == Policy({DC}, {}, {OneLabel}, {})
PBadPrefix == Policy({DC}, {}, {QDC}, {BadPrefix})

\* Two valid policies that each forbid "*.b.c", P1 through its high-risk
\* suffix list and P2 through its wildcard-exact list.
P1 == Policy({BC}, {}, {QDC}, {})
P2 == Policy({DC}, {}, {ABC}, {})

LawRequests ==
  { <<Dns(ABC)>>, <<Dns(StarBC)>>, <<Dns(BC)>>, <<Dns(ZABC)>>, <<Dns(DBC)>>,
    <<Dns(StarDC)>>, <<Dns(BCD)>>, <<Dns(StarABC)>>, <<Ip(IP1)>>,
    <<Dns(AC), Ip(IP2)>>, <<Ip(IP3)>> }
TornRequests == { <<Dns(StarBC)>> }
LawPolicies  == {PGood, PEmptyHigh, POneLabel, PBadPrefix}
TornPolicies == {P1, P2}

Symmetry == Permutations(Readers)
=============================================================================
