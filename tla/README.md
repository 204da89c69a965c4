# TLA+ models of the ACME CA core

These modules model the parts of the certificate authority in `src/` that
decide whether and how a certificate is issued. They are checked with TLC.
Each definition is written from the Go source it names in
`PROJECT.json` ("map"). A definition of code that is not under `src/`
(the RA's handlers, the SA's transactions) is written from `spec.md` and
marked `spec_modelled`.

## The system and how its parts interact

| Part | Source | State it owns | Operations |
|---|---|---|---|
| Storage Authority (SA) model helpers | `src/sa/model.go` | order rows, authz2 rows, `orderFqdnSets`, `replacementOrders` | `statusForOrder`, `addOrderFQDNSet`, `deleteOrderFQDNSet`, `addReplacementOrder`, `setReplacementOrderFinalized`, authz conversions both ways, `addIssuedNames`, `reverseFQDN`, `EncodeIssuedName` |
| Registration Authority (RA) | not in `src/` (spec 4.1, 4.6) | none; requests in flight | NewOrder, FinalizeOrder, PerformValidation, DeactivateAuthorization |
| Policy Authority (PA) | `src/policy/pa.go` | four blocklist tables behind `blocklistMu` | `LoadIdentPolicyFile`, `WillingToIssue`, `WellFormedIdentifiers`, `ValidDomain`, `ValidIP`, `ValidEmail`, challenge selection |
| Rate-limit registry | `src/unnamed/part_001` (ratelimits `limit.go`) | default and override limits | `precompute`, `ValidateLimit`, `parseOverrideLimits`, `parseDefaultLimits`, `getLimit`, `DumpOverrides` |
| GCRA rate-limit engine | not in `src/` (spec 4.3, 5) | the shared cache: one TAT per bucket | `Check`, `Spend`, `BatchCheckAndSpend`, `Refund`, with limits from the registry's `getLimit` |
| Errors, observer client, mock CA | `src/observer/obsclient/obsclient.go` | none | constructors, `WithSubErrors`, `GRPCStatus`; client and mock CA are configuration and test doubles (not modelled) |
| RA configuration | `src/unnamed/part_000` | n/a | profile lifetimes and feature flags |

The RA serves concurrent ACME requests. Each request calls the PA (is the
identifier well formed and not blocked), the rate limiter, and the SA,
which stores orders and authorizations in transactions. An order's status
is never stored. `statusForOrder` computes it from the order row, the authz2
rows it references, and the clock. Between two SA calls of one request, other
requests, the clock, the authorization purge and policy reloads all move on.
That window is where the hard behaviours live.

## Modules

* **`OrderStatus`**: the abstract promise to a client. Each order is `none`
  until it exists. After that it moves only along
  `pending -> ready -> processing -> valid`, or to `invalid`, which is final.
* **`OrderLifecycle`**: orders, authorizations, replacements and the RA
  handlers that drive them.
  * Variables: `authzs` (the authz2 table; purged rows leave its domain),
    `orders` (orders and orderToAuthz2), `orderFqdnSets`,
    `replacementOrders`, `precertificates` (what the CA signed) and
    `worker` (each concurrent RA handler's request and step).
  * Each RA request is split at its SA and CA calls:
    * NewOrder is `NewOrderCheck` (policy and the replacement pre-check),
      then `NewOrderCommit` or `NewOrderFail` (the `NewOrderAndAuthzs`
      transaction).
    * FinalizeOrder is `FinalizeCheck` (status must be ready), then
      `SetOrderProcessing` (the conditional update), then
      `IssuePrecertificate` (the CA; a failure is `SetOrderError`), then
      `FinalizeOrderSA` (serial, `deleteOrderFQDNSet`,
      `setReplacementOrderFinalized`, in one transaction).
  * `statusForOrder` keeps the code's early returns in the code's order.
    `"error"` stands for its InternalServerErrors.
  * `ClientStatus` maps the state to `OrderStatus`, and
    `OrderStatusRefinement` checks it as a property.
  * `RACrash` (enabled by the constant `RACrashes`) drops a handler's
    request at any step and leaves the rows it wrote. The history variable
    `abandoned` records the orders whose finalization a crash cut off.
    `ClockSpec` adds weak fairness of `Tick`: time passes.
* **`DomainSyntax`**: `validNonWildcardDomain` and `ValidDomain` over names
  given as sequences of characters. `Split`, `Join` and `Count` are
  `strings.Split`, `strings.Join` and `strings.Count`. Two inputs come from
  libraries outside `src/` and are constants:
  * `iana.ExtractSuffix`: `PublicSuffixes`, with the longest match used;
  * the punycode and NFC check: `PunycodeLabels`.

  The limits 10, 63 and 253 are constants too, so that a small model reaches
  them. The module also holds the reference grammar written from spec
  section 4.2 (`SpecWellFormed`) and `ToLower`.
* `ValidEmail` is in `DomainSyntax` too, on the domain part of an address
  `x@domain`. `mail.ParseAddress` is reduced to its dot-atom test
  (`ParsesAsAddress`). The domain is lower-cased, validated by
  `validNonWildcardDomain` and checked against `forbiddenMailDomains`,
  which the run replaces by a name its token set reaches.
* The SA's `issuedNames` encoding is in `DomainSyntax` as well, on the same
  character sequences. `reverseFQDN` is `Join(Reverse(Split(name)))`.
  `EncodeIssuedName` keeps what `IsIPv4Literal` (the `netip.ParseAddr`
  model) accepts and reverses the rest. `addIssuedNames` gives the rows
  a certificate's DNS names and IPs produce, or its error when there are
  none.
* **`PolicyAuthority`** (extends `DomainSyntax`): the four blocklist tables,
  `LoadIdentPolicyFile` (validation, then a swap of all four tables under
  the write lock), and readers running `WillingToIssue`.
  * Each helper that takes `blocklistMu.RLock` is one atomic reader step:
    `TypeCheck` (IdentifierTypeEnabled), `CheckWildcard`
    (checkWildcardBlocklist) and `CheckBlocklists` (checkBlocklists).
  * `Start` is the lock-free `WellFormedIdentifiers`. `Advance` is the loop
    and `combineSubErrors`.
  * `Forbidden(p, ident)` is the specification's blocklist semantics for
    one policy. It is written from spec 4.2 and laws 3 and 4, not from the
    tables.
  * The history variables `inForce` and `reader[r].seen` record every policy
    in force during a call.
* **`RateLimiter`**: the GCRA engine of spec 4.3, written from the
  specification, composed with `RateLimitRegistry`. Each request asks the
  registry's `getLimit` for the limit and uses its precomputed
  `emissionInterval` and `burstOffset`.
  * Variables: `now`, `tat` (the cache), `task` (each RA task's batch:
    probed buckets still to spend and buckets spent), and the history
    `spentNet` (requests spent less those refunded, per bucket).
  * `decide` is steps 1-4 of spec 4.3. `Check` denies a batch with the
    earliest time at which every bucket permits.
  * `Spend` checks and spends one bucket in one compare-and-set.
    `Admitted(b)` is what the limit admits since time 0: the burst plus one
    request per emission interval elapsed.
    `BatchCheckAndSpend` is `Probe`, then one `SpendBucket` per bucket, each
    re-reading its TAT. This is spec 5's "probe-then-spend, may read-skew":
    another task can spend between the probe and the spend.
  * After its spends, a task either finishes, or fails and refunds every
    bucket it spent (`Refund`, clamped at `now - burstOffset`), or its
    process dies and the refund is lost (`TaskCrash`).
  * The engine serves a registry that its own callers have not queried, and
    the registry's callers query one that is not serving yet. Their steps
    are independent, so this keeps the two state spaces from multiplying.
    Every query is still explored under every start-up.
* **`RateLimitRegistry`**: the limit files parsed into a `limitRegistry`.
  * `parseDefaultLimits` validates then precomputes. `parseOverrideLimits`
    walks the override list in file order, rewrites ids
    (`CertificatesPerDomain` IPs to their covering prefix, `CertificatesPerFQDNSet`
    lists to their hash), then calls `precompute` *before* `ValidateLimit`.
  * int64 arithmetic is scaled to `Width` bits, wraps, and truncates toward
    zero. A division by a zero `Count` is a panic outcome.
  * `getLimit` returns the `(limit, error)` pair, with `NilLimit` as nil.
  * `DumpOverrides` parses each key back with `parseOverrideNameEnumId`
    (split at the first `:`), formats the period with `Duration.String`, and
    sorts with the code's comparator. Keys, ids and periods are sequences of
    characters compared byte-wise.
  * The module also holds reference definitions written from spec 4.3:
    `ConfigValid`, `ExpectedLimit` and `CanonicalBefore`.
  * Variables: `files` (the files read), `registry`, `dump`, `lookup`.
    Actions: `Load` (once, at start-up), `Dump`, `GetLimit`.
* **`AuthzModel`**: one authorization through its `authz2` row.
  * Its steps: `NewAuthz` stores `ChallengeTypesFor` through
    `newAuthzReqToModel`. Two workers run `StartValidation` (read back,
    pending, type enabled) and `FinishValidation` (the conditional
    `FinalizeAuthorization2`). Then come `Deactivate`, `Revoke`,
    `RestartPA` (a new `enabledChallenges`), and `Read`
    (`modelToAuthzPB`, then `CheckAuthzChallenges`).
  * `Deactivate` takes a pending or a valid authorization. Spec 4.4 lists
    only pending, but the comment of `SelectAuthzsMatchingIssuance` says a
    client may deactivate an authorization after issuance.
  * `now` is a clock in seconds from 1 (a real clock never reads the zero
    time, which `authzPBToModel` reads as nil). `FinishValidation` stores
    it as `attemptedAt`, and `modelToAuthzPB` returns it as the attempted
    challenge's `validated`.
  * `authzPBToModel` and `hasMultipleNonPendingChallenges` convert an
    authorization back to a row, as test setup does. A challenge carries
    an `error` flag and its `validated` time, so that both conversions of
    the validation error and the attempt time are visible.
  * A wildcard's identifier value keeps its `*.`. `ChallengeTypesFor`
    tests that prefix.
  * `buildIdentifierQueryConditions(idents, order)` builds the identifier
    conditions and their args. `order` is the order Go walks
    `identsByType` in, which Go leaves unspecified, so every order in
    `MapOrders` is checked. `WhereSelects` binds the placeholders to the
    args in order, as MySQL does. `SelectAuthzsMatchingIssuance` adds the
    status filter and `attemptedAt <= issued + 1s`, which a NULL
    `attemptedAt` fails. Its registration and expiry filters are left out:
    the model has one account, and nothing in it expires.
  * The challenge bitmap uses the `Bitwise` module.
  * `authz` records what the SA was told, for the properties.
* `MC_*` modules give TLC the model values, the names spelt out, and the
  symmetry sets. `MC_RateLimiter` extends `MC_RateLimitRegistry` and names
  the engine's buckets, the batch, and the two start-ups it serves under.

## Runs

| Run | Expect | What it shows |
|---|---|---|
| `order_finalize` | pass | Two handlers racing to finalize one ready order produce one precertificate (`AtMostOnePrecertificatePerOrder`). `replaced` is set only once a replacing order has its certificate (`ReplacedOnlyWhenIssued`). Either handler's process may die at any step. A finalization whose handler keeps running ends with a serial or an error (`FinalizationCompletes`, under weak fairness of the finalization steps). One cut off by a crash after `SetOrderProcessing` leaves the order `invalid` once it expires (`AbandonedFinalizationResolves`, under weak fairness of the clock). This holds because the expiry check of `statusForOrder` comes before the processing branch. |
| `order_expiry` | pass | Authorizations expire, are purged, reused, deactivated and revoked. `statusForOrder` never returns an internal error (`StatusNeverInternalError`), and the client-visible status refines `OrderStatus` (`OrderStatusRefinement`). |
| `replacement_race` | violation | `ReplacementAcceptedOnce` fails. Two NewOrders for the same `replaces` serial both pass the pre-check. The second `addReplacementOrder` re-points the row and leaves `replaced` alone, and both orders are issued. |
| `domain_wellformed` | pass | `ValidDomain` accepts exactly `SpecWellFormed`, over 41,370 names built from labels chosen to reach every error. `errWildcardNotSupported` is reached only through `ValidEmail`. `ValidEmail` accepts exactly the contact domains that are well formed in lower case and not forbidden (`EmailDomainMatchesGrammar`). For every accepted name, the `EncodeIssuedName` lookup of the name and of each of its ancestors finds the row `addIssuedNames` stores, as itself or as a prefix ending at a label boundary (`IssuedNamesSuffixQuery`, spec 5). Wildcards make four-label names, so every reversal step is exercised. |
| `domain_lowercase` | violation | Spec law 1, `ValidDomain(lower(d)) == ValidDomain(d)`, fails. `isDNSCharacter` admits upper case, but the label regexp does not. |
| `pa_blocklist_laws` | pass | One valid and three malformed policy files are loaded in any order while two callers ask about the names of laws 3 and 4. Everything accepted is permitted by a policy in force during the call. Malformed files never take effect, and nothing passes before the first load. |
| `ratelimit_engine` | pass | Three defaults files and 111 override files (every parser branch, two IPv6 ids in one /64, a panicking and a vacuous entry). The registry loads exactly the configurations spec 4.3 calls valid. Every `getLimit` returns the last override for the exact key, else the default, else `errLimitDisabled` (`RegistryMatchesConfig`). The dump has one row per override, including ids with `:` (`DumpRowsMatchOverrides`). Under the defaults alone, and under an override that truncates one bucket's interval, two RA tasks probe, spend, refund and crash in every order. On each bucket, requests spent less refunds never exceed what the limit admits by more than one per other task (`AdmissionsWithinConcurrency`). Every limit the engine gets satisfies law 5 of spec 8 (`GcraBurstLaw`). |
| `ratelimit_readskew` | violation | Spec 5's reason for allowing read-skew, "overspend is bounded by burst" (`AdmissionsWithinRate`), fails with three tasks. At time 0 the three tasks are all permitted on the domain bucket (burst 1) before the spends land, and each spend re-reads and advances the TAT. Three requests are spent where the burst plus one more burst allows two. The overspend is bounded by the number of concurrent tasks, not by the burst. |
| `ratelimit_override_panic` | violation | `LoadNeverPanics` fails. An override with `Count: 0` reaches `precompute`'s division before `ValidateLimit`, so `newLimitRegistry` panics instead of returning "invalid count". |
| `ratelimit_dump_order` | violation | `DumpInCanonicalOrder` fails. Periods are compared as `Duration.String()` text, so `10s` is written before `5s`, against the comment "shorter durations first" and spec 4.3. |
| `authz_storage` | pass | The read-back authorization is the one stored: offered challenges before an attempt, only the attempted one after, with its attempt time, with two validations racing (`ReadBackFaithful`). `authzPBToModel` turns every read-back authorization into a row that reads back the same, attempted challenge, error and time included (`PBRoundTrip`). For an issuance at each second of the clock, `SelectAuthzsMatchingIssuance` finds the authorization exactly when a validation of it succeeded no later than a second after the issuance, it is valid or deactivated now, and the issuance names its type and value. This holds under every iteration order of the identifier map, over eight identifier lists that mix types, repeat a type and name a value under the wrong type (`IssuanceQueryFindsAuthz`). An authorization deactivated while pending is valid-or-deactivated in status but is not found, because its `attemptedAt` is NULL. A query without that filter fails the property. `CheckAuthzChallenges` accepts exactly the authorizations solved by a type enabled now and offered for the identifier, across PA restarts (`CheckAuthzMatchesSpec`). |
| `pa_reload_race` | violation | The same property fails when two valid policies alternate. `*.b.c` is forbidden by P1's high-risk list and by P2's wildcard-exact list, but it passes when the reload falls between `checkWildcardBlocklist` and `checkBlocklists`. |

Each property of a passing run has a mutant in `PROJECT.json`: a plausible
bug in the mapped code that makes TLC report the property violated. Examples:
`SetOrderProcessing` without its condition, `statusForOrder` testing the
authorization count before expiry, a label check without the hyphen rule, a
wildcard table built from the whole exact entry, an override parser that
keeps the first of two entries for one key, a key split at its last `:`, a
read-back that keeps the challenges that were not attempted, a
`statusForOrder` that reports a begun order as processing before it looks
at its expiry, a `reverseFQDN` that swaps only
the outer labels, an `authzPBToModel` that takes only a valid
challenge as the attempted one, and an identifier query that adds a
type's values before its type, a `ValidEmail` that validates the
domain before lower-casing it, a batch spend that writes the TAT its
probe computed instead of re-reading it, and a `precompute` whose burst
offset counts one interval too many.

## Bounds, and why they are enough

* **Orders.** Two orders, two authorizations, two workers, and clock values
  0..2 or 0..3. Lifetimes are scaled so that an authorization can expire
  while an order referencing it lives (expiry run: pending 2, valid 2,
  order 3). Two workers are the least that can race. One serial is enough
  for the replacement race. Three authorizations take more than three
  minutes and add no new interleaving of the properties' actors.
* **Domain syntax.** Up to four labels from fourteen tokens. The limits are
  scaled (3 labels, 5 characters per label, 12 per name). The label-count
  and label-length limits are hit exactly and one past, and every early
  return of both functions is reached. No accepted name is 12 characters
  long, so the name-length limit is checked only from the rejecting side.
  Which error is reported first, when a name breaks two rules, is not a
  property.
* **Policy.** Two readers, up to three loads, eleven requests including a
  two-identifier one and IP identifiers. Two policies and two loads are the
  least that tear a verdict.

* **Rate limits.** Three limit names, one of them unrecognized, and five
  ids, two of which share an IPv6 /64. Override files have up to two
  entries from ten, and there are three defaults files. Two entries
  share a bucket key, so "last wins" is exercised. `Width = 8`
  (int64 scaled) keeps the arithmetic small. The wrap is modelled, but no
  run checks it (see "Not modelled").
  A tick stands for one second, so `Duration.String` prints `5s`, `10s`
  and `1m0s`. `precompute` divides whole ticks, so a 5s period over a
  count of 2 truncates to 2, where the code divides nanoseconds and gets
  2.5e9 exactly. `Width = 8` wraps 3 * 60 = 180 to -76, where int64 does
  not wrap. No property depends on either.
* **Rate-limit engine.** Two tasks, the least that race, over two buckets
  (an account's `NewOrdersPerAccount`, burst 2, and a domain's
  `CertificatesPerDomain`, burst 1 or 2). One batch covers both buckets,
  and `Spend` takes either alone. The clock runs to 5 ticks. That is one
  full interval of 5 under the defaults, and two and a half of the
  truncated interval 2. `MaxRequests = 6` bounds `spentNet`, but
  `AdmissionsWithinConcurrency` keeps it at 5, so the bound never binds.
  With two tasks the overspend is at most one, below every burst, so the
  spec's burst bound cannot fail there. `ratelimit_readskew` uses three
  tasks, which is the least that exceed a burst of 1.
* **Crash.** The finalize run allows crashes. Pending and order lifetimes
  are 1 and the clock runs to 2, so an order made at 0 expires within the
  clock's range. A clock to 3 with lifetimes 2 shows nothing more and takes
  12 minutes.
* **Authorizations.** One authorization suffices: authorizations share no
  row. Each identifier kind is tried (DNS, wildcard, IP). Two workers are
  the least that race. Three PA configurations cover an attempted type
  being disabled and re-enabled. A clock of three seconds puts issuances
  more than one second before a validation, one second before it (inside
  the leeway), and after it.

## Fairness

Only `order_finalize` checks liveness. Weak fairness is assumed for
`SetOrderProcessing`, `IssuePrecertificate` and `FinalizeOrderSA`
of each worker. These are RPCs with deadlines (CA 15s and SA in
`part_000`), so a handler that has begun a finalization always gets an
answer or a timeout. Clients are not assumed to do anything. Crashes are not fair
steps: nothing forces or forbids them. `order_finalize` also assumes that
the clock advances (`WF_vars(Tick)`), which holds whatever the processes
do.

The rate-limit engine has no liveness property. A denial is final for
its request, and spec 4.3 promises nothing of a later request.

## Not modelled, and why

* `rehydrateHostPort` and the JSON of validation records are data, and
  so are the tokens and IDs `authzPBToModel` converts.
* `addFQDNSet` and `addKeyHash` insert one row holding a hash computed
  outside `src/` (`core.HashIdentifiers`, SHA-256). The SA handlers that
  call them are not under `src/`.
* The YAML reading (`loadDefaults`, `loadOverrides`) and the CSV writer of
  `DumpOverrides` are I/O.
* `net/mail`'s parser is reduced to the dot-atom test on the domain. The
  local part and quoted or bracketed forms are not modelled.
* The rate-limit cache's transport failures. Spec 9 says "fail open for
  check, fail closed for spend, by limit severity" as a design goal, but
  states no behaviour a model could follow.
* Row conversions (`orderToModel`, `modelToOrder`, the registration and
  identifier models, `pausedModel`, `overrideModel`) have no state. They
  copy fields one to one. Their only branches are a nil pointer read as
  `""`, an error too large for a `MEDIUMBLOB`, and an unknown identifier
  type. The identifier-type maps they look up are modelled in
  `AuthzModel`. A round-trip property over field copies would hold by the
  shape of the model, so none is stated.
* Two latent hazards have no run. An int64 overflow of `burstOffset`
  needs configurations beyond 2^63 ns. `ValidateLimit` accepts a count
  above the period in nanoseconds, whose emission interval is 0.
  `GcraBurstLaw` fails for such a limit, but no engine start-up loads one.
  Both are listed in `PROJECT.json` with notes. A violation run for either
  would exceed the 12 runs this project keeps.
* The errors package (`BoulderError`, its constructors, `WithSubErrors`,
  `GRPCStatus`) has no state. Its constructors fill a struct, `GRPCStatus`
  is a switch, and `WithSubErrors` appends to a copy. A property of any of
  them would restate one case or one literal. Two `WithSubErrors` calls
  on one value whose slice has spare capacity make the two results share
  an array. The only caller under `src/` (`combineSubErrors`) decorates a
  fresh value once, so nothing in `src/` reaches this.
* The observer HTTP client (`Client`, `newClient`, `Dialer`) only builds
  `http.Client` values at package init. `MockCA` and the OCSP and CRL mocks
  are stateless test doubles.
* CI, docker-compose, the container build and the integration test have no
  CA behaviour to model.

## Plan for the next steps

1. A violation run for a limit whose count exceeds its period in
   nanoseconds, against `GcraBurstLaw`, if a run slot frees up.
2. The cache's transport failures in `RateLimiter`, once the behaviour of
   spec 9 is pinned down per limit.
