-------------------------- MODULE MC_DomainSyntax --------------------------
(***************************************************************************)
(* Every name made of up to four labels drawn from Tokens, each label     *)
(* chosen to hit one branch of validNonWildcardDomain or ValidDomain:     *)
(* upper case, leading and trailing hyphens, reserved "??--" labels       *)
(* (valid and invalid punycode), a wildcard in and out of place, empty    *)
(* labels, an over-long label, digits that form a dotted-quad IPv4        *)
(* address and digits with a leading zero.  The name is the state; the    *)
(* checks are invariants over it.                                          *)
(***************************************************************************)
EXTENDS DomainSyntax

Tokens == { <<"a">>, <<"b">>, <<"A">>, <<"-", "a">>, <<"a", "-">>,
            <<"x", "n", "-", "-", "a">>, <<"x", "n", "-", "-", "b">>,
            <<"a", "b", "-", "-", "a">>, <<"*">>, <<"a", "*">>, <<>>,
            <<"1">>, <<"0", "1">>, <<"a", "a", "a", "a", "a", "a">> }

Names == {Join(ls) : ls \in BoundedSeq(Tokens, 4) \ {<<>>}}

\* "b.a" is a two-label suffix; "xn--b" decodes, "xn--a" does not.
MCPublicSuffixes == {<<"a">>, <<"b", ".", "a">>}
MCPunycodeLabels == {<<"x", "n", "-", "-", "b">>}
\* "a.b.a" stands for example.com, a well-formed name refused for mail.
MCForbiddenMailDomains == {<<"a", ".", "b", ".", "a">>}

VARIABLE domain

Init == domain \in Names
Next == UNCHANGED domain
Spec == Init /\ [][Next]_domain

(* ValidDomain, the sequence of early returns in validNonWildcardDomain   *)
(* and ValidDomain, accepts exactly the names the specification calls     *)
(* well-formed: the code's checks (isDNSCharacter admitting upper case,   *)
(* the per-label regexp, the "*." prefix tests, the suffix extracted from *)
(* the base of a wildcard) add up to the documented grammar.              *)
WellFormedMatchesSpec == (ValidDomain(domain) = "ok") <=> SpecWellFormed(domain)

(* Law 1 of the specification: ValidDomain(lower(d)) == ValidDomain(d).   *)
LowercaseInvariance == ValidDomain(ToLower(domain)) = ValidDomain(domain)

\* The label-aligned tails of a name: the name, its parent, and so on up
\* to its last label.
Ancestors(d) ==
  LET ls == Split(d) IN {Join(SubSeq(ls, k, Len(ls))) : k \in 1..Len(ls)}

(* Specification 5: issuedNames keeps DNS names reversed so that a query  *)
(* for every name under a domain is a prefix query.  For each name the PA *)
(* accepts, and each of its ancestors, the key a lookup builds with       *)
(* EncodeIssuedName is the row addIssuedNames stores for a certificate    *)
(* naming it, or a prefix of that row ending at a label boundary: the     *)
(* lookup of the name itself hits its own row (the PA has refused every   *)
(* name ParseAddr would read as an IP), and a lookup of a parent finds    *)
(* every child.                                                            *)
IssuedNamesSuffixQuery ==
  ValidDomain(domain) = "ok" =>
    \A anc \in Ancestors(domain) :
      LET key == EncodeIssuedName(anc)
          stored == addIssuedNames(<<domain>>, <<>>).rows[1]
      IN  stored = key \/ IsPrefix(key \o <<".">>, stored)


(* ValidEmail, the check of a contact address's domain, accepts exactly   *)
(* the domains that, in lower case, the specification's grammar calls a  *)
(* well-formed non-wildcard name and that are not forbidden for mail: the *)
(* address parser, the lower-casing and validNonWildcardDomain together   *)
(* refuse nothing else and let nothing else through.                      *)
EmailDomainMatchesGrammar ==
  (ValidEmail(domain) = "ok")
    <=> SpecNonWildcard(ToLower(domain)) /\ ToLower(domain) \notin forbiddenMailDomains

=============================================================================
