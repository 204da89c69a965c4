---------------------------- MODULE DomainSyntax ----------------------------
(***************************************************************************)
(* DNS identifier syntax of the Policy Authority (src/policy/pa.go):       *)
(* validNonWildcardDomain and ValidDomain, evaluated on the characters of *)
(* a name.  A name is a sequence of one-character strings; "." splits it  *)
(* into labels exactly as strings.Split does.  Each function returns the  *)
(* name of the error it would return, or "ok".                            *)
(*                                                                         *)
(* Two pieces of the code call libraries that are not in the repository   *)
(* and are given as constants: iana.ExtractSuffix (PublicSuffixes: the    *)
(* ICANN suffixes it knows) and idna.ToUnicode followed by the NFC test   *)
(* (PunycodeLabels: the xn-- labels that pass both).  The length limits   *)
(* maxLabels, maxLabelLength and maxDNSIdentifierLength are constants so  *)
(* that a small model reaches each of them.                               *)
(***************************************************************************)
EXTENDS Integers, SequencesExt

CONSTANTS
  PublicSuffixes,       \* names iana.ExtractSuffix recognises as ICANN suffixes
  PunycodeLabels,       \* xn-- labels that decode to NFC-normal Unicode
  MaxLabels,            \* maxLabels (10 in the code)
  MaxLabelLength,       \* maxLabelLength (63)
  MaxNameLength         \* maxDNSIdentifierLength (253)

LowerSeq == <<"a","b","c","d","e","f","g","h","i","j","k","l","m",
             "n","o","p","q","r","s","t","u","v","w","x","y","z">>
UpperSeq == <<"A","B","C","D","E","F","G","H","I","J","K","L","M",
             "N","O","P","Q","R","S","T","U","V","W","X","Y","Z">>
LowerLetters == ToSet(LowerSeq)
UpperLetters == ToSet(UpperSeq)
DigitValue == [c \in {"0","1","2","3","4","5","6","7","8","9"} |->
                 CASE c = "0" -> 0 [] c = "1" -> 1 [] c = "2" -> 2
                   [] c = "3" -> 3 [] c = "4" -> 4 [] c = "5" -> 5
                   [] c = "6" -> 6 [] c = "7" -> 7 [] c = "8" -> 8
                   [] c = "9" -> 9]
Digits == DOMAIN DigitValue

\* isDNSCharacter: letters of either case, digits, '.' and '-'.
isDNSCharacter(ch) == ch \in LowerLetters \cup UpperLetters \cup Digits \cup {".", "-"}

\* dnsLabelCharacterRegexp, ^[a-z0-9-]+$ (non-emptiness is checked before it).
LabelCharacters == LowerLetters \cup Digits \cup {"-"}

----------------------------------------------------------------------------
(* strings.Split(s, "."), strings.Join(ls, "."), strings.Count(s, c).     *)

RECURSIVE Split(_)
Split(s) ==
  LET dot == SelectInSeq(s, LAMBDA ch : ch = ".")
  IN  IF dot = 0 THEN <<s>>
      ELSE <<SubSeq(s, 1, dot - 1)>> \o Split(SubSeq(s, dot + 1, Len(s)))

Join(ls) == FoldLeft(LAMBDA acc, l : acc \o <<".">> \o l, Head(ls), Tail(ls))

Count(s, ch) == Len(SelectSeq(s, LAMBDA c : c = ch))

\* netip.ParseAddr on a string of DNS characters: only dotted-quad IPv4
\* can parse, with four decimal fields of one to three digits, no leading
\* zero, each at most 255.
FieldValue(f) == FoldLeft(LAMBDA acc, d : 10 * acc + DigitValue[d], 0, f)
IsIPv4Literal(s) ==
  LET fields == Split(s)
  IN  /\ Len(fields) = 4
      /\ \A i \in 1..4 :
           LET f == fields[i] IN
           /\ Len(f) \in 1..3
           /\ \A j \in DOMAIN f : f[j] \in Digits
           /\ (f[1] = "0" => Len(f) = 1)
           /\ FieldValue(f) <= 255

\* iana.ExtractSuffix: the longest known suffix that is the whole name or
\* a label-aligned tail of it, or "error" when none is.
KnownSuffixes(s) == {t \in PublicSuffixes : t = s \/ IsSuffix(<<".">> \o t, s)}
ExtractSuffix(s) ==
  IF KnownSuffixes(s) = {} THEN "error"
  ELSE CHOOSE t \in KnownSuffixes(s) : \A u \in KnownSuffixes(s) : Len(u) <= Len(t)

----------------------------------------------------------------------------
\* Mutant: a label's leading or trailing hyphen is not refused.
LabelErrorNoHyphenEdge(label) ==
  IF Len(label) < 1 THEN "errLabelTooShort"
  ELSE IF Len(label) > MaxLabelLength THEN "errLabelTooLong"
  ELSE IF \E i \in DOMAIN label : label[i] \notin LabelCharacters
    THEN "errInvalidDNSCharacter"
  ELSE "ok"

(* One label of validNonWildcardDomain's loop: the first check it fails.  *)
LabelError(label) ==
  IF Len(label) < 1 THEN "errLabelTooShort"
  ELSE IF Len(label) > MaxLabelLength THEN "errLabelTooLong"
  ELSE IF \E i \in DOMAIN label : label[i] \notin LabelCharacters
    THEN "errInvalidDNSCharacter"
  ELSE IF label[1] = "-" \/ label[Len(label)] = "-"
    THEN "errInvalidDNSCharacter"
  ELSE IF Len(label) >= 4 /\ SubSeq(label, 3, 4) = <<"-", "-">>
    THEN IF SubSeq(label, 1, 2) # <<"x", "n">> THEN "errInvalidRLDH"
         ELSE IF label \notin PunycodeLabels THEN "errMalformedIDN"
         ELSE "ok"
  ELSE "ok"

validNonWildcardDomain(domain) ==
  LET labels == Split(domain)
      failing == {i \in DOMAIN labels : LabelError(labels[i]) # "ok"}
  IN
  IF domain = <<>> THEN "errEmptyIdentifier"
  ELSE IF IsPrefix(<<"*", ".">>, domain) THEN "errWildcardNotSupported"
  ELSE IF \E i \in DOMAIN domain : ~isDNSCharacter(domain[i])
    THEN "errInvalidDNSCharacter"
  ELSE IF Len(domain) > MaxNameLength THEN "errNameTooLong"
  ELSE IF IsIPv4Literal(domain) THEN "errIPAddressInDNS"
  ELSE IF Last(domain) = "." THEN "errNameEndsInDot"
  ELSE IF Len(labels) > MaxLabels THEN "errTooManyLabels"
  ELSE IF Len(labels) < 2 THEN "errTooFewLabels"
  ELSE IF failing # {} THEN LabelError(labels[Min(failing)])
  ELSE IF ExtractSuffix(domain) = "error" THEN "errNonPublic"
  ELSE IF ExtractSuffix(domain) = domain THEN "errICANNTLD"
  ELSE "ok"

\* strings.TrimPrefix(domain, "*.")
BaseDomain(domain) ==
  IF IsPrefix(<<"*", ".">>, domain) THEN SubSeq(domain, 3, Len(domain))
  ELSE domain

ValidDomain(domain) ==
  LET base == BaseDomain(domain) IN
  IF Count(domain, "*") <= 0 THEN validNonWildcardDomain(domain)
  ELSE IF Count(domain, "*") > 1 THEN "errTooManyWildcards"
  ELSE IF ~IsPrefix(<<"*", ".">>, domain) THEN "errMalformedWildcard"
  ELSE IF ExtractSuffix(base) = "error" THEN "errNonPublic"
  ELSE IF base = ExtractSuffix(base) THEN "errICANNTLDWildcard"
  ELSE validNonWildcardDomain(base)

----------------------------------------------------------------------------
(***************************************************************************)
(* The issuedNames encoding of the SA (src/sa/model.go): addIssuedNames   *)
(* stores each DNS name of a certificate as reverseFQDN(name) and each IP *)
(* as its text; lookups go through EncodeIssuedName, which reverses only   *)
(* what netip.ParseAddr refuses.                                           *)
(***************************************************************************)

\* Mutant: only the first and last labels are swapped.
reverseFQDNOuterOnly(fqdn) ==
  LET ls == Split(fqdn) IN Join([ls EXCEPT ![1] = ls[Len(ls)], ![Len(ls)] = ls[1]])

\* reverseFQDN: split on ".", reverse the labels, join them again.
reverseFQDN(fqdn) == Join(Reverse(Split(fqdn)))

\* EncodeIssuedName: an IP address as netip.Addr.String() gives it (for a
\* dotted quad that ParseAddr accepts, with no leading zeros, the text
\* itself), anything else reversed.
EncodeIssuedName(name) == IF IsIPv4Literal(name) THEN name ELSE reverseFQDN(name)

\* addIssuedNames: one reversedName per DNS name, then one per IP address
\* (given as its text), refused when the certificate has neither.  The
\* serial, notBefore day and renewal columns are the same on every row.
addIssuedNames(dnsNames, ipAddresses) ==
  IF dnsNames = <<>> /\ ipAddresses = <<>>
  THEN [err |-> "certificate has no DNSNames or IPAddresses", rows |-> <<>>]
  ELSE [err |-> "nil", rows |-> [i \in DOMAIN dnsNames |-> reverseFQDN(dnsNames[i])] \o ipAddresses]

----------------------------------------------------------------------------
(***************************************************************************)
(* Reference definitions, written from the specification's text (section  *)
(* 4.2, "DNS well-formedness" and "Wildcards") rather than from the code,  *)
(* and strings.ToLower.                                                   *)
(***************************************************************************)
ToLowerChar(c) ==
  IF c \in UpperLetters THEN LowerSeq[CHOOSE i \in 1..26 : UpperSeq[i] = c]
  ELSE c
ToLower(s) == [i \in DOMAIN s |-> ToLowerChar(s[i])]

ReservedLDH(l) == Len(l) >= 4 /\ SubSeq(l, 3, 4) = <<"-", "-">>

SpecNonWildcard(d) ==
  LET labels == Split(d) IN
  /\ \A i \in DOMAIN d : d[i] \in LabelCharacters \cup {"."}
  /\ Len(d) <= MaxNameLength
  /\ Len(labels) \in 2..MaxLabels
  /\ \A i \in DOMAIN labels :
       LET l == labels[i] IN
       /\ Len(l) \in 1..MaxLabelLength
       /\ l[1] # "-" /\ Last(l) # "-"
       /\ ReservedLDH(l) => l \in PunycodeLabels
  /\ \E t \in PublicSuffixes : IsSuffix(<<".">> \o t, d)
  /\ d \notin PublicSuffixes
  /\ ~IsIPv4Literal(d)

SpecWellFormed(d) ==
  IF Count(d, "*") = 0 THEN SpecNonWildcard(d)
  ELSE /\ Count(d, "*") = 1
       /\ IsPrefix(<<"*", ".">>, d)
       /\ SpecNonWildcard(BaseDomain(d))
       /\ BaseDomain(d) \notin PublicSuffixes

----------------------------------------------------------------------------
(***************************************************************************)
(* ValidEmail, on an address "x@" followed by the domain part.  The local *)
(* part is fixed: nothing after mail.ParseAddress looks at it.            *)
(***************************************************************************)

\* forbiddenMailDomains: example.com, example.net and example.org.
ExampleLabel == <<"e", "x", "a", "m", "p", "l", "e">>
forbiddenMailDomains ==
  {Join(<<ExampleLabel, tld>>) : tld \in {<<"c", "o", "m">>, <<"n", "e", "t">>, <<"o", "r", "g">>}}

\* mail.ParseAddress on such an address: the domain must be a dot-atom,
\* one or more atoms separated by single dots.  Every character of the
\* names modelled but "." is atext.
ParsesAsAddress(domain) == \A i \in DOMAIN Split(domain) : Split(domain)[i] # <<>>

\* Mutant: the domain is validated as given, without lower-casing.
ValidEmailNoLower(domain) ==
  IF ~ParsesAsAddress(domain) THEN "unable to parse email address"
  ELSE IF validNonWildcardDomain(domain) # "ok" THEN "contact email has invalid domain"
  ELSE IF domain \in forbiddenMailDomains THEN "contact email has forbidden domain"
  ELSE "ok"

\* ValidEmail: parse, take the part after the last "@" in lower case,
\* validate it as a non-wildcard name, refuse the forbidden domains.
ValidEmail(domain) ==
  LET d == ToLower(domain) IN
  IF ~ParsesAsAddress(domain) THEN "unable to parse email address"
  ELSE IF validNonWildcardDomain(d) # "ok" THEN "contact email has invalid domain"
  ELSE IF d \in forbiddenMailDomains THEN "contact email has forbidden domain"
  ELSE "ok"

=============================================================================
