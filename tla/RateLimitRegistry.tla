------------------------- MODULE RateLimitRegistry -------------------------
(***************************************************************************)
(* The rate-limit registry of the ratelimits package (src/unnamed/        *)
(* part_001, limit.go): parsing the default and override limit files into *)
(* a limitRegistry, precomputing each limit's GCRA parameters, getLimit,  *)
(* and DumpOverrides' sorted export.                                      *)
(*                                                                         *)
(* Identifiers and CSV fields are sequences of one-character strings, so  *)
(* that the ':' of a bucket key and the digits of a formatted duration are *)
(* what the code sees.  Names, comments and ids are otherwise abstract:   *)
(* Name enums are integers, Name.String() order is the constant NameOrder,*)
(* comments are naturals with "" as 0.  int64 is scaled to Width bits and *)
(* a tick of Period stands for one second, so Duration.String prints      *)
(* whole seconds.                                                         *)
(*                                                                         *)
(* Code outside part_001 enters as constants: StringToName, Name.isValid  *)
(* (LimitNames), validateIdForName (BadIds), netip.ParseAddr followed by  *)
(* coveringIPPrefix (IPPrefix) and core.HashIdentifiers (FQDNSetHash).    *)
(***************************************************************************)
EXTENDS Integers, SequencesExt

CONSTANTS
  LimitNames,              \* the Name enums for which isValid holds
  StringToName,            \* YAML key -> Name enum; other keys are unrecognized
  NameOrder,               \* [LimitNames -> Nat]: the order of Name.String()
  CertificatesPerDomain,   \* the two Name enums whose ids are rewritten
  CertificatesPerFQDNSet,
  BadIds,                  \* <<name, id>> pairs validateIdForName rejects
  IPPrefix,                \* [ids that parse as IPs -> covering prefix string]
  FQDNSetHash,             \* [ids -> hex of the hash of the comma-split list]
  Width                    \* bits of Go's int64

VARIABLES
  files,      \* the defaults and overrides files read at start-up
  registry,   \* the limitRegistry, or the outcome of a failed construction
  dump,       \* DumpOverrides' outcome and the rows it wrote
  lookup      \* the last getLimit call and the (limit, error) it returned

vars == <<files, registry, dump, lookup>>

----------------------------------------------------------------------------
(* Strings, integers and formatting.                                       *)

\* The characters identifiers and durations use, in byte order.
Alphabet == <<"/","0","1","2","3","4","5","6","7","8","9",":",
              "a","b","c","d","e","f","g","h","i","j","k","l","m",
              "n","o","p","q","r","s","t","u","v","w","x","y","z">>
ByteRank(c) == CHOOSE i \in DOMAIN Alphabet : Alphabet[i] = c
DigitChar(n) == Alphabet[n + 2]
IsDigitChar(c) == ByteRank(c) \in 2..11

\* Go's < on strings: byte-wise lexicographic order.
StringLess(a, b) ==
  \E i \in 0..Len(a) :
    /\ i <= Len(b)
    /\ SubSeq(a, 1, i) = SubSeq(b, 1, i)
    /\ \/ i = Len(a) /\ i < Len(b)
       \/ i < Len(a) /\ i < Len(b) /\ ByteRank(a[i + 1]) < ByteRank(b[i + 1])

\* strconv.Itoa for n >= 0, and strconv.Atoi on a string of digits.
RECURSIVE Itoa(_)
Itoa(n) == IF n < 10 THEN <<DigitChar(n)>> ELSE Itoa(n \div 10) \o <<DigitChar(n % 10)>>
Atoi(s) == FoldLeft(LAMBDA acc, c : 10 * acc + ByteRank(c) - 2, 0, s)
AtoiOk(s) == s # <<>> /\ \A i \in DOMAIN s : IsDigitChar(s[i])

\* time.Duration.String() of a whole number of seconds d >= 0.
DurationString(d) ==
  LET h == d \div 3600
      m == (d % 3600) \div 60
      s == d % 60
  IN  IF h > 0 THEN Itoa(h) \o <<"h">> \o Itoa(m) \o <<"m">> \o Itoa(s) \o <<"s">>
      ELSE IF m > 0 THEN Itoa(m) \o <<"m">> \o Itoa(s) \o <<"s">>
      ELSE Itoa(s) \o <<"s">>

\* int64 arithmetic: results wrap modulo 2^Width, / truncates toward zero.
Half == 2^(Width - 1)
Int64 == -Half..(Half - 1)
Wrap(x) == ((x + Half) % (2 * Half)) - Half
AbsVal(x) == IF x < 0 THEN -x ELSE x
Quot(a, b) == IF (a >= 0) = (b >= 0) THEN AbsVal(a) \div AbsVal(b)
              ELSE -(AbsVal(a) \div AbsVal(b))

EnumString(n) == Itoa(n)
joinWithColon(a, b) == a \o <<":">> \o b

----------------------------------------------------------------------------
(* Limits.                                                                 *)

NewLimit(cfg, name, comment, isOverride) ==
  [burst |-> cfg.burst, count |-> cfg.count, period |-> cfg.period,
   name |-> name, comment |-> comment, isOverride |-> isOverride,
   emissionInterval |-> 0, burstOffset |-> 0]

\* precompute.  Its integer division by Count panics at run time when Count
\* is 0 (DividesByZero); precompute is applied only to other limits.
DividesByZero(l) == l.count = 0
\* Mutant: the burst offset counts one interval past the burst.
precomputeOffsetPastBurst(l) ==
  LET e == Wrap(Quot(l.period, l.count))
  IN  [l EXCEPT !.emissionInterval = e, !.burstOffset = Wrap(e * (l.burst + 1))]
precompute(l) ==
  LET e == Wrap(Quot(l.period, l.count))
  IN  [l EXCEPT !.emissionInterval = e, !.burstOffset = Wrap(e * l.burst)]

ValidateLimit(l) ==
  IF l.burst <= 0 THEN "errBurst"
  ELSE IF l.count <= 0 THEN "errCount"
  ELSE IF l.period <= 0 THEN "errPeriod"
  ELSE "ok"

\* parseDefaultLimits: every key must name a limit and every limit must
\* validate; the result is keyed by the name's EnumString.  Go's random map
\* order only changes which error is reported.
parseDefaultLimits(d) ==
  IF \E k \in DOMAIN d :
       \/ k \notin DOMAIN StringToName
       \/ ValidateLimit(NewLimit(d[k], StringToName[k], 0, FALSE)) # "ok"
  THEN [status |-> "error"]
  ELSE [status |-> "ok",
        parsed |-> [s \in {EnumString(StringToName[k]) : k \in DOMAIN d} |->
                      LET k == CHOOSE k \in DOMAIN d : EnumString(StringToName[k]) = s
                      IN  precompute(NewLimit(d[k], StringToName[k], 0, FALSE))]]

\* The switch on name: the id under which an override is stored.
OverrideId(name, id) ==
  CASE name = CertificatesPerDomain /\ id \in DOMAIN IPPrefix -> IPPrefix[id]
    [] name = CertificatesPerFQDNSet -> FQDNSetHash[id]
    [] OTHER -> id

\* Mutant: an override already parsed for the same key is kept.
StoreOverrideKeepFirst(parsed, key, lim) == parsed @@ (key :> lim)

\* parsed[key] = lim
StoreOverride(parsed, key, lim) == (key :> lim) @@ parsed

\* One id of one override: validate the id, rewrite it, precompute, then
\* validate the limit.
OverrideIdStep(acc, name, ov, e) ==
  IF acc.status # "ok" THEN acc
  ELSE IF <<name, e.id>> \in BadIds THEN [status |-> "error"]
  ELSE LET raw == NewLimit(ov, name, e.comment, TRUE)
           lim == precompute(raw) IN
       IF DividesByZero(raw) THEN [status |-> "panic"]
       ELSE IF ValidateLimit(lim) # "ok" THEN [status |-> "error"]
       ELSE [acc EXCEPT !.parsed = StoreOverride(acc.parsed,
                joinWithColon(EnumString(name), OverrideId(name, e.id)), lim)]

\* One element of the override list: its key must name a limit, then the
\* loop over its ids.
OverrideStep(acc, ov) ==
  IF acc.status # "ok" THEN acc
  ELSE IF ov.key \notin DOMAIN StringToName THEN [status |-> "error"]
  ELSE FoldLeft(LAMBDA a, e : OverrideIdStep(a, StringToName[ov.key], ov, e), acc, ov.ids)

parseOverrideLimits(y) ==
  FoldLeft(OverrideStep, [status |-> "ok", parsed |-> <<>>], y)

newLimitRegistry(d, y) ==
  LET defs == parseDefaultLimits(d)
      ovs  == parseOverrideLimits(y)
  IN  IF defs.status # "ok" THEN [status |-> "error", defaults |-> <<>>, overrides |-> <<>>]
      ELSE IF ovs.status # "ok" THEN [status |-> ovs.status, defaults |-> <<>>, overrides |-> <<>>]
      ELSE [status |-> "ok", defaults |-> defs.parsed, overrides |-> ovs.parsed]

\* Go's nil *Limit.
NilLimit == [burst |-> 0, count |-> 0, period |-> 0, name |-> 0, comment |-> 0,
             isOverride |-> FALSE, emissionInterval |-> 0, burstOffset |-> 0]
Result(l, err) == [limit |-> l, err |-> err]

\* Mutant: the ok of the override lookup is ignored, so a key with no
\* override returns a nil limit.
getLimitIgnoresOk(reg, name, bucketKey) ==
  IF name \notin LimitNames THEN Result(NilLimit, "errInvalidName")
  ELSE IF bucketKey # <<>> THEN
         IF bucketKey \in DOMAIN reg.overrides THEN Result(reg.overrides[bucketKey], "nil")
         ELSE Result(NilLimit, "nil")
  ELSE IF EnumString(name) \in DOMAIN reg.defaults
    THEN Result(reg.defaults[EnumString(name)], "nil")
  ELSE Result(NilLimit, "errLimitDisabled")

\* getLimit: the override for a non-empty bucket key, else the name's
\* default, else errLimitDisabled.
getLimit(reg, name, bucketKey) ==
  IF name \notin LimitNames THEN Result(NilLimit, "errInvalidName")
  ELSE IF bucketKey # <<>> /\ bucketKey \in DOMAIN reg.overrides
    THEN Result(reg.overrides[bucketKey], "nil")
  ELSE IF EnumString(name) \in DOMAIN reg.defaults
    THEN Result(reg.defaults[EnumString(name)], "nil")
  ELSE Result(NilLimit, "errLimitDisabled")

----------------------------------------------------------------------------
(* DumpOverrides.                                                          *)

\* Mutant: the key is split at its last ':' instead of its first.
parseOverrideNameEnumIdLastColon(key) ==
  LET colon == SelectLastInSeq(key, LAMBDA c : c = ":")
      nameStr == SubSeq(key, 1, colon - 1)
      id == SubSeq(key, colon + 1, Len(key))
      err == [status |-> "error", name |-> 0, id |-> <<>>]
  IN  IF colon = 0 THEN err
      ELSE IF ~AtoiOk(nameStr) THEN err
      ELSE IF Atoi(nameStr) \notin LimitNames THEN err
      ELSE IF id = <<>> THEN err
      ELSE [status |-> "ok", name |-> Atoi(nameStr), id |-> id]

\* parseOverrideNameEnumId: strings.SplitN(key, ":", 2) splits at the first
\* ':'; the name part must be an integer naming a valid limit, the id part
\* non-empty.  (The len != 2 test cannot fail once the key contains ':'.)
parseOverrideNameEnumId(key) ==
  LET colon == SelectInSeq(key, LAMBDA c : c = ":")
      nameStr == SubSeq(key, 1, colon - 1)
      id == SubSeq(key, colon + 1, Len(key))
      err == [status |-> "error", name |-> 0, id |-> <<>>]
  IN  IF colon = 0 THEN err
      ELSE IF ~AtoiOk(nameStr) THEN err
      ELSE IF Atoi(nameStr) \notin LimitNames THEN err
      ELSE IF id = <<>> THEN err
      ELSE [status |-> "ok", name |-> Atoi(nameStr), id |-> id]

Row(key, l) ==
  LET p == parseOverrideNameEnumId(key) IN
  [name |-> p.name, id |-> p.id, count |-> l.count, burst |-> l.burst,
   period |-> DurationString(l.period), comment |-> l.comment]

\* The sort.Slice comparator: name, count descending, burst descending,
\* period as a string, comment, id.
rowLess(a, b) ==
  IF a.name # b.name THEN NameOrder[a.name] < NameOrder[b.name]
  ELSE IF a.count # b.count THEN a.count > b.count
  ELSE IF a.burst # b.burst THEN a.burst > b.burst
  ELSE IF a.period # b.period THEN StringLess(a.period, b.period)
  ELSE IF a.comment # b.comment THEN a.comment < b.comment
  ELSE StringLess(a.id, b.id)

\* DumpOverrides up to the CSV writer: one row per override, or the error
\* of the first key that does not parse.  The rows' (name, id) are
\* distinct, so the comparator is a strict total order on them and the
\* result of the unstable sort is unique.
DumpOverrides(overrides) ==
  IF \E k \in DOMAIN overrides : parseOverrideNameEnumId(k).status = "error"
  THEN [status |-> "error", rows |-> <<>>]
  ELSE [status |-> "ok",
        rows |-> SetToSortSeq({Row(k, overrides[k]) : k \in DOMAIN overrides}, rowLess)]

----------------------------------------------------------------------------
(* The registry's life: built once at start-up, then dumped and queried.   *)

CONSTANTS
  DefaultConfigs,    \* the defaults files: [YAML key -> [burst, count, period]]
  OverrideConfigs,   \* the override files: sequences of [key, burst, count, period, ids]
  QueryNames,        \* the Name enums callers pass to getLimit
  QueryKeys          \* the bucket keys callers pass to getLimit

NoLookup == [name |-> 0, key |-> <<>>, result |-> Result(NilLimit, "none")]

Init ==
  /\ files = <<<<>>, <<>>>>
  /\ registry = [status |-> "unloaded", defaults |-> <<>>, overrides |-> <<>>]
  /\ dump = [status |-> "none", rows |-> <<>>]
  /\ lookup = NoLookup

\* newLimitRegistryFromFiles at start-up; config holds the files it read.
Load(d, y) ==
  /\ registry.status = "unloaded"
  /\ files' = <<d, y>>
  /\ registry' = newLimitRegistry(d, y)
  /\ UNCHANGED <<dump, lookup>>

\* The admin tool's DumpOverrides of the parsed overrides.
Dump ==
  /\ registry.status = "ok"
  /\ dump.status = "none"
  /\ dump' = DumpOverrides(registry.overrides)
  /\ UNCHANGED <<files, registry, lookup>>

GetLimit(name, key) ==
  /\ registry.status = "ok"
  /\ lookup' = [name |-> name, key |-> key, result |-> getLimit(registry, name, key)]
  /\ UNCHANGED <<files, registry, dump>>

Next ==
  \/ \E d \in DefaultConfigs, y \in OverrideConfigs : Load(d, y)
  \/ Dump
  \/ \E n \in QueryNames, k \in QueryKeys : GetLimit(n, k)

Spec == Init /\ [][Next]_vars

----------------------------------------------------------------------------
(***************************************************************************)
(* Reference definitions, from the specification (section 4.3,           *)
(* "Per-limit configuration" and "Overrides", and the YAML formats of     *)
(* section 6) rather than from the parsing code.                          *)
(***************************************************************************)
Positive(c) == c.burst > 0 /\ c.count > 0 /\ c.period > 0

\* A configuration is accepted iff every name is known, every id is valid
\* for its limit, and every limit configured (a default, or an override
\* for an id) has count, burst and period strictly positive.
ConfigValid(d, y) ==
  /\ \A k \in DOMAIN d : k \in DOMAIN StringToName /\ Positive(d[k])
  /\ \A i \in DOMAIN y :
       /\ y[i].key \in DOMAIN StringToName
       /\ \A j \in DOMAIN y[i].ids :
            /\ <<StringToName[y[i].key], y[i].ids[j].id>> \notin BadIds
            /\ Positive(y[i])

\* "<limitEnum>:<id>" of the j-th id of the i-th override.
EntryKey(y, i, j) ==
  LET n == StringToName[y[i].key]
  IN  joinWithColon(EnumString(n), OverrideId(n, y[i].ids[j].id))

\* An override replaces the default for its exact key; of two overrides
\* for one key, the later in the file is the one configured.
ExpectedLimit(d, y, n, k) ==
  LET hits == {h \in UNION {{<<i, j>> : j \in DOMAIN y[i].ids} : i \in DOMAIN y} :
                 EntryKey(y, h[1], h[2]) = k}
      last == CHOOSE h \in hits : \A g \in hits : g[1] < h[1] \/ (g[1] = h[1] /\ g[2] <= h[2])
      dkeys == {key \in DOMAIN d : StringToName[key] = n}
  IN  IF n \notin LimitNames THEN [err |-> "errInvalidName"]
      ELSE IF k # <<>> /\ hits # {}
        THEN [err |-> "nil", burst |-> y[last[1]].burst, count |-> y[last[1]].count,
              period |-> y[last[1]].period, comment |-> y[last[1]].ids[last[2]].comment]
      ELSE IF dkeys # {}
        THEN LET c == d[CHOOSE key \in dkeys : TRUE]
             IN  [err |-> "nil", burst |-> c.burst, count |-> c.count,
                  period |-> c.period, comment |-> 0]
      ELSE [err |-> "errLimitDisabled"]

\* What a caller of getLimit can tell apart.
Observed(r) ==
  IF r.err # "nil" THEN [err |-> r.err]
  ELSE [err |-> "nil", burst |-> r.limit.burst, count |-> r.limit.count,
        period |-> r.limit.period, comment |-> r.limit.comment]

\* The specification's canonical export order: name, count descending,
\* burst descending, period ascending as a duration, comment, id.
CanonicalBefore(a, b) ==
  IF a.name # b.name THEN NameOrder[a.name] < NameOrder[b.name]
  ELSE IF a.count # b.count THEN a.count > b.count
  ELSE IF a.burst # b.burst THEN a.burst > b.burst
  ELSE IF a.period # b.period THEN a.period < b.period
  ELSE IF a.comment # b.comment THEN a.comment < b.comment
  ELSE StringLess(a.id, b.id)

----------------------------------------------------------------------------
(* Properties.                                                             *)

LimitRecords ==
  [burst: Int64, count: Int64, period: Int64, name: LimitNames, comment: Nat,
   isOverride: BOOLEAN, emissionInterval: Int64, burstOffset: Int64]

\* Types; in particular getLimit never returns a nil limit without an
\* error, which its callers dereference.
TypeOK ==
  /\ registry.status \in {"unloaded", "ok", "error", "panic"}
  /\ registry.status = "ok" =>
       \A l \in Range(registry.defaults) \cup Range(registry.overrides) : l \in LimitRecords
  /\ dump.status \in {"none", "ok", "error"}
  /\ lookup.result.err \in {"none", "nil", "errInvalidName", "errLimitDisabled"}
  /\ lookup.result.err = "nil" => lookup.result.limit \in LimitRecords

\* newLimitRegistry succeeds exactly for the configurations the
\* specification calls valid, and every getLimit afterwards returns what
\* the files configure for that name and bucket key: the last override for
\* the exact key, else the name's default, else errLimitDisabled.
RegistryMatchesConfig ==
  /\ registry.status # "unloaded" =>
       (registry.status = "ok" <=> ConfigValid(files[1], files[2]))
  /\ lookup # NoLookup =>
       Observed(lookup.result) = ExpectedLimit(files[1], files[2], lookup.name, lookup.key)

\* DumpOverrides writes one row per override in the registry, each with the
\* name and id of its bucket key and the limit's fields.
DumpRowsMatchOverrides ==
  dump.status # "none" =>
    /\ dump.status = "ok"
    /\ Len(dump.rows) = Cardinality(DOMAIN registry.overrides)
    /\ \A k \in DOMAIN registry.overrides :
         LET l == registry.overrides[k] IN
         \E i \in DOMAIN dump.rows :
           /\ joinWithColon(EnumString(dump.rows[i].name), dump.rows[i].id) = k
           /\ dump.rows[i].count = l.count /\ dump.rows[i].burst = l.burst
           /\ dump.rows[i].period = DurationString(l.period)
           /\ dump.rows[i].comment = l.comment

\* Building the registry never panics: an invalid limit in either file is
\* reported by ValidateLimit as an error.
LoadNeverPanics == registry.status # "panic"

\* The dumped rows are in the specification's canonical order (and in the
\* order DumpOverrides' comment promises: shorter periods first).
DumpInCanonicalOrder ==
  dump.status = "ok" =>
    \A i, j \in DOMAIN dump.rows :
      LET Key(r) == joinWithColon(EnumString(r.name), r.id)
          Full(r) == [r EXCEPT !.period = registry.overrides[Key(r)].period]
      IN  i < j => ~CanonicalBefore(Full(dump.rows[j]), Full(dump.rows[i]))
=============================================================================
