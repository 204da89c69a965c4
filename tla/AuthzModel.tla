----------------------------- MODULE AuthzModel -----------------------------
(***************************************************************************)
(* One authorization through its storage row (src/sa/model.go): created   *)
(* by newAuthzReqToModel with the challenge types the PA offers            *)
(* (ChallengeTypesFor, src/policy/pa.go), validated through one challenge  *)
(* by concurrent PerformValidation requests, deactivated, and read back   *)
(* with modelToAuthzPB, whose result the PA's CheckAuthzChallenges judges  *)
(* against the challenge types enabled at that moment.                    *)
(*                                                                         *)
(* The RA's PerformValidation and the SA's FinalizeAuthorization2 and      *)
(* DeactivateAuthorization2 are not under src/ and are written from the   *)
(* specification (sections 4.1, 4.4 and 4.6).  Tokens and validation     *)
(* records are left out: no property tells them apart.  A validation      *)
(* error is present or absent.  Times are whole seconds of a small clock *)
(* that starts at 1: a real clock never reads the zero time.             *)
(***************************************************************************)
EXTENDS Integers, SequencesExt, Bitwise

CONSTANTS
  Idents,        \* identifiers: [type |-> "dns" or "ip", value]
  QueryIdents,   \* identifier lists an issuance may be looked up with
  Workers,       \* concurrent PerformValidation requests
  EnabledSets,   \* the challengeTypes maps a PA may be (re)started with
  MaxTime,       \* bound on the clock
  None

VARIABLES
  row,        \* the authz2 row, or None before it is inserted
  authz,      \* what the SA was told: identifier, offered types, status, attempt
  enabled,    \* pa.enabledChallenges
  worker,     \* each PerformValidation in flight
  view,       \* the last modelToAuthzPB result
  verdict,    \* CheckAuthzChallenges of that result
  now         \* the clock, in seconds

vars == <<row, authz, enabled, worker, view, verdict, now>>

Times == 1..MaxTime

----------------------------------------------------------------------------
(* The encodings of sa/model.go.                                           *)

\* challTypeToUint / uintToChallType: a type is its position - 1.
ChallTypeSeq == <<"http-01", "dns-01", "tls-alpn-01", "dns-account-01">>
ChallTypes == ToSet(ChallTypeSeq)
\* A type missing from the map reads as 0, http-01's bit.
challTypeToUint(t) == IF t \in ChallTypes THEN (CHOOSE i \in DOMAIN ChallTypeSeq : ChallTypeSeq[i] = t) - 1
                      ELSE 0
\* Mutant: the position is used as a 1-based index.
uintToChallTypeOffByOne(pos) == IF pos \in DOMAIN ChallTypeSeq THEN ChallTypeSeq[pos] ELSE ""

\* A missing key of a Go map reads as the zero value, "" for a string.
uintToChallType(pos) == IF pos + 1 \in DOMAIN ChallTypeSeq THEN ChallTypeSeq[pos + 1] ELSE ""

identifierTypeToUint(t) == IF t = "ip" THEN 1 ELSE 0
uintToIdentifierType == (0 :> "dns") @@ (1 :> "ip")

StatusSeq == <<"pending", "valid", "invalid", "deactivated", "revoked">>
\* statusUint / statusToUint: an unknown status reads as 0, pending.
statusUint(s) == IF s \in ToSet(StatusSeq) THEN (CHOOSE i \in DOMAIN StatusSeq : StatusSeq[i] = s) - 1
                 ELSE 0
uintToStatus(u) == StatusSeq[u + 1]

----------------------------------------------------------------------------
(* The PA's challenge selection.                                           *)

\* ChallengeTypesFor: dns-01 only for a wildcard, three types for other DNS
\* names, http-01 and tls-alpn-01 for IPs.
ChallengeTypesFor(ident) ==
  CASE ident.type = "dns" /\ IsPrefix("*.", ident.value) -> [err |-> "nil", types |-> <<"dns-01">>]
    [] ident.type = "dns" -> [err |-> "nil", types |-> <<"http-01", "dns-01", "tls-alpn-01">>]
    [] ident.type = "ip"  -> [err |-> "nil", types |-> <<"http-01", "tls-alpn-01">>]
    [] OTHER -> [err |-> "unrecognized identifier type", types |-> <<>>]

ChallengeTypeEnabled(en, t) == t \in en

\* core.Authorization.SolvedBy (not under src/): the type of the first
\* valid challenge.
SolvedBy(pb) ==
  LET v == SelectInSeq(pb.challenges, LAMBDA c : c.status = "valid")
  IN  IF pb.challenges = <<>> THEN [err |-> "authorization has no challenges"]
      ELSE IF v = 0 THEN [err |-> "authorization not solved by any challenge"]
      ELSE [err |-> "nil", type |-> pb.challenges[v].type]

\* Mutant: the enabled check is skipped.
CheckAuthzChallengesNoEnabled(pb, en) ==
  LET chall == SolvedBy(pb)
      types == ChallengeTypesFor(pb.ident)
  IN  IF chall.err # "nil" THEN chall.err
      ELSE IF types.err # "nil" THEN types.err
      ELSE IF ~Contains(types.types, chall.type) THEN "inapplicable challenge type"
      ELSE "nil"

CheckAuthzChallenges(pb, en) ==
  LET chall == SolvedBy(pb)
      types == ChallengeTypesFor(pb.ident)
  IN  IF chall.err # "nil" THEN chall.err
      ELSE IF ~ChallengeTypeEnabled(en, chall.type) THEN "disabled challenge type"
      ELSE IF types.err # "nil" THEN types.err
      ELSE IF ~Contains(types.types, chall.type) THEN "inapplicable challenge type"
      ELSE "nil"

----------------------------------------------------------------------------
(* The row conversions.                                                    *)

NilAttempted == -1   \* a NULL attempted column
\* A NULL attemptedAt column or a nil Validated timestamp.  The zero time
\* also reads as nil (core.IsAnyNilOrZero in authzPBToModel).
NoTime == 0

\* newAuthzReqToModel: a pending row with one bitmap bit per challenge type.
newAuthzReqToModel(ident, challengeTypes) ==
  [identifierType |-> identifierTypeToUint(ident.type),
   identifierValue |-> ident.value,
   status |-> statusUint("pending"),
   challenges |-> FoldLeft(LAMBDA acc, t : acc | 2^challTypeToUint(t), 0, challengeTypes),
   attempted |-> NilAttempted,
   attemptedAt |-> NoTime,
   validationError |-> FALSE]

\* populateAttemptedFields: the attempted challenge is invalid if the row
\* holds a validation error and valid otherwise.
populateAttemptedFields(am, challenge) ==
  [challenge EXCEPT !.status = IF am.validationError THEN "invalid" ELSE "valid",
                    !.error = am.validationError]

Positions == [i \in 1..8 |-> i - 1]   \* pos := 0 .. 7

\* Mutant: the challenges that were not attempted are kept.
modelToAuthzPBKeepAll(am) ==
  LET bit(pos) == (shiftR(am.challenges, pos) & 1) = 1
      isAttempted(pos) == am.attempted # NilAttempted /\ uintToChallType(am.attempted) = uintToChallType(pos)
      chall(pos) == [type |-> uintToChallType(pos), status |-> "pending", error |-> FALSE, validated |-> NoTime]
      out(pos) == IF isAttempted(pos)
                  THEN [populateAttemptedFields(am, chall(pos)) EXCEPT !.validated = am.attemptedAt]
                  ELSE chall(pos)
  IN  IF am.identifierType \notin DOMAIN uintToIdentifierType
      THEN [err |-> "unrecognized identifier type encoding", status |-> "", ident |-> None, challenges |-> <<>>]
      ELSE [err |-> "nil", status |-> uintToStatus(am.status),
            ident |-> [type |-> uintToIdentifierType[am.identifierType],
                       value |-> am.identifierValue],
            challenges |-> [i \in 1..Len(SelectSeq(Positions, bit)) |-> out(SelectSeq(Positions, bit)[i])]]

\* modelToAuthzPB: one challenge per set bit, in bit order; once a
\* challenge has been attempted only that one is returned, its Validated
\* time taken from attemptedAt.
modelToAuthzPB(am) ==
  LET bit(pos) == (shiftR(am.challenges, pos) & 1) = 1
      isAttempted(pos) == am.attempted # NilAttempted /\ uintToChallType(am.attempted) = uintToChallType(pos)
      kept(pos) == bit(pos) /\ (am.attempted # NilAttempted => isAttempted(pos))
      chall(pos) == [type |-> uintToChallType(pos), status |-> "pending", error |-> FALSE, validated |-> NoTime]
      out(pos) == IF isAttempted(pos)
                  THEN [populateAttemptedFields(am, chall(pos)) EXCEPT !.validated = am.attemptedAt]
                  ELSE chall(pos)
  IN  IF am.identifierType \notin DOMAIN uintToIdentifierType
      THEN [err |-> "unrecognized identifier type encoding", status |-> "", ident |-> None, challenges |-> <<>>]
      ELSE [err |-> "nil", status |-> uintToStatus(am.status),
            ident |-> [type |-> uintToIdentifierType[am.identifierType],
                       value |-> am.identifierValue],
            challenges |-> [i \in 1..Len(SelectSeq(Positions, kept)) |-> out(SelectSeq(Positions, kept)[i])]]

NonPending(c) == c.status \in {"valid", "invalid"}

\* hasMultipleNonPendingChallenges: a second valid or invalid challenge.
hasMultipleNonPendingChallenges(challenges) ==
  Len(SelectSeq(challenges, NonPending)) > 1

\* Mutant: an invalid challenge is not taken as the attempted one.
authzPBToModelValidOnly(pb) ==
  LET cs == pb.challenges
      att == SelectLastInSeq(cs, LAMBDA c : c.status = "valid")
  IN  IF hasMultipleNonPendingChallenges(cs)
      THEN [err |-> "multiple challenges are non-pending"]
      ELSE [err |-> "nil",
            model |-> [identifierType |-> identifierTypeToUint(pb.ident.type),
                       identifierValue |-> pb.ident.value,
                       status |-> statusUint(pb.status),
                       challenges |-> FoldLeft(LAMBDA acc, c : acc | 2^challTypeToUint(c.type), 0, cs),
                       attempted |-> IF att = 0 THEN NilAttempted ELSE challTypeToUint(cs[att].type),
                       attemptedAt |-> IF att = 0 THEN NoTime ELSE cs[att].validated,
                       validationError |-> att # 0 /\ cs[att].error]]

\* authzPBToModel (test setup only): one bitmap bit per challenge, and the
\* non-pending challenge, if any, as the attempted one with its error and
\* its Validated time.
authzPBToModel(pb) ==
  LET cs == pb.challenges
      att == SelectLastInSeq(cs, NonPending)
  IN  IF hasMultipleNonPendingChallenges(cs)
      THEN [err |-> "multiple challenges are non-pending"]
      ELSE [err |-> "nil",
            model |-> [identifierType |-> identifierTypeToUint(pb.ident.type),
                       identifierValue |-> pb.ident.value,
                       status |-> statusUint(pb.status),
                       challenges |-> FoldLeft(LAMBDA acc, c : acc | 2^challTypeToUint(c.type), 0, cs),
                       attempted |-> IF att = 0 THEN NilAttempted ELSE challTypeToUint(cs[att].type),
                       attemptedAt |-> IF att = 0 THEN NoTime ELSE cs[att].validated,
                       validationError |-> att # 0 /\ cs[att].error]]

----------------------------------------------------------------------------
(* The identifier query of SelectAuthzsMatchingIssuance.  A prepared      *)
(* statement is its conditions, each "identifierType = ? AND              *)
(* identifierValue IN (?, ...)" given by its number of value placeholders, *)
(* and its args, which bind to the placeholders in order.  An arg is a     *)
(* record naming the kind of value it holds.  The statement "FALSE" of an *)
(* empty list is the empty disjunction.                                    *)

\* The values identsByType collects for type t, in the order given.
ValuesOfType(idents, t) ==
  LET sel == SelectSeq(idents, LAMBDA id : id.type = t)
  IN  [i \in DOMAIN sel |-> [identifierValue |-> sel[i].value]]

\* The orders in which Go may walk identsByType: every ordering of the
\* types present.
MapOrders(idents) == SetToSeqs({idents[i].type : i \in DOMAIN idents})

\* Mutant: each type's values are added before its type argument.
buildIdentifierQueryConditionsTypeLast(idents, order) ==
  IF idents = <<>> THEN [conditions |-> <<>>, args |-> <<>>]
  ELSE [conditions |-> [i \in DOMAIN order |-> Len(ValuesOfType(idents, order[i]))],
        args |-> FoldLeft(LAMBDA acc, t : acc \o ValuesOfType(idents, t)
                                            \o <<[identifierType |-> identifierTypeToUint(t)]>>,
                          <<>>, order)]

\* buildIdentifierQueryConditions with identsByType walked in `order`: one
\* condition per type, its type argument followed by its values.
buildIdentifierQueryConditions(idents, order) ==
  IF idents = <<>> THEN [conditions |-> <<>>, args |-> <<>>]
  ELSE [conditions |-> [i \in DOMAIN order |-> Len(ValuesOfType(idents, order[i]))],
        args |-> FoldLeft(LAMBDA acc, t : acc \o <<[identifierType |-> identifierTypeToUint(t)]>>
                                            \o ValuesOfType(idents, t),
                          <<>>, order)]

\* Whether MySQL selects row r under the statement: conditions joined by
\* OR, each placeholder bound to the next argument.
WhereSelects(q, r) ==
  \E i \in DOMAIN q.conditions :
    LET o == FoldLeft(LAMBDA acc, n : acc + 1 + n, 0, SubSeq(q.conditions, 1, i - 1))
    IN  /\ q.args[o + 1] = [identifierType |-> r.identifierType]
        /\ \E j \in 1..q.conditions[i] : q.args[o + 1 + j] = [identifierValue |-> r.identifierValue]

\* SelectAuthzsMatchingIssuance for an issuance at time `issued`, on the
\* one stored row: valid or deactivated, attempted no later than one second
\* after the issuance, and matching the identifier conditions, converted
\* with modelToAuthzPB.  A NULL attemptedAt makes "attemptedAt <= ?" false
\* in MySQL.  The registration and expiry filters are left out: the model
\* has one account, and no authorization expires in it.
SelectAuthzsMatchingIssuance(r, idents, order, issued) ==
  IF /\ r.status \in {statusUint("valid"), statusUint("deactivated")}
     /\ r.attemptedAt # NoTime /\ r.attemptedAt <= issued + 1
     /\ WhereSelects(buildIdentifierQueryConditions(idents, order), r)
  THEN <<modelToAuthzPB(r)>>
  ELSE <<>>

----------------------------------------------------------------------------
(* The authorization's life.                                               *)

Idle == [pc |-> "idle", type |-> ""]
NoView == [err |-> "none", status |-> "", ident |-> None, challenges |-> <<>>]
NoVerdict == [result |-> "none", enabled |-> {}, authz |-> None]

Init ==
  /\ row = None
  /\ authz = None
  /\ enabled \in EnabledSets
  /\ worker = [w \in Workers |-> Idle]
  /\ view = NoView
  /\ verdict = NoVerdict
  /\ now = 1

\* NewOrderAndAuthzs stores a pending authorization offering the PA's
\* challenge types for the identifier.
NewAuthz(ident) ==
  LET types == ChallengeTypesFor(ident) IN
  /\ row = None
  /\ types.err = "nil"
  /\ row' = newAuthzReqToModel(ident, types.types)
  /\ authz' = [ident |-> ident, offered |-> ToSet(types.types), status |-> "pending",
               attempted |-> "", attemptedAt |-> NoTime, ok |-> FALSE]
  /\ UNCHANGED <<enabled, worker, view, verdict, now>>

\* PerformValidation reads the authorization and accepts a pending
\* challenge of an enabled type; the VA is then called.
StartValidation(w, t) ==
  LET pb == modelToAuthzPB(row) IN
  /\ row # None
  /\ worker[w] = Idle
  /\ pb.status = "pending"
  /\ \E i \in DOMAIN pb.challenges : pb.challenges[i].type = t /\ pb.challenges[i].status = "pending"
  /\ ChallengeTypeEnabled(enabled, t)
  /\ worker' = [worker EXCEPT ![w] = [pc |-> "va", type |-> t]]
  /\ UNCHANGED <<row, authz, enabled, view, verdict, now>>

\* FinalizeAuthorization2 with the VA's verdict: status, attempted, the
\* attempt time and the validation error are written together, only while
\* the row is pending.
FinishValidation(w, success) ==
  LET t == worker[w].type IN
  /\ worker[w].pc = "va"
  /\ worker' = [worker EXCEPT ![w] = Idle]
  /\ IF row.status = statusUint("pending")
       THEN /\ row' = [row EXCEPT !.status = statusUint(IF success THEN "valid" ELSE "invalid"),
                                  !.attempted = challTypeToUint(t),
                                  !.attemptedAt = now,
                                  !.validationError = ~success]
            /\ authz' = [authz EXCEPT !.status = IF success THEN "valid" ELSE "invalid",
                                      !.attempted = t, !.attemptedAt = now, !.ok = success]
       ELSE UNCHANGED <<row, authz>>
  /\ UNCHANGED <<enabled, view, verdict, now>>

\* DeactivateAuthorization2: a pending or a valid authorization becomes
\* deactivated.  Section 4.4 lists pending -> deactivated only; the comment
\* of SelectAuthzsMatchingIssuance says a client may deactivate an
\* authorization after issuance, which is when it is valid.
Deactivate ==
  /\ row # None
  /\ row.status \in {statusUint("pending"), statusUint("valid")}
  /\ row' = [row EXCEPT !.status = statusUint("deactivated")]
  /\ authz' = [authz EXCEPT !.status = "deactivated"]
  /\ UNCHANGED <<enabled, worker, view, verdict, now>>

\* Revocation of a certificate carrying the authorization: valid -> revoked.
Revoke ==
  /\ row # None
  /\ row.status = statusUint("valid")
  /\ row' = [row EXCEPT !.status = statusUint("revoked")]
  /\ authz' = [authz EXCEPT !.status = "revoked"]
  /\ UNCHANGED <<enabled, worker, view, verdict, now>>

\* A PA restarted with another challengeTypes configuration (New).
RestartPA(en) ==
  /\ en # enabled
  /\ enabled' = en
  /\ UNCHANGED <<row, authz, worker, view, verdict, now>>

\* GetAuthorization2 followed by the PA's CheckAuthzChallenges, as
\* FinalizeOrder does for each of an order's authorizations.
Read ==
  /\ row # None
  /\ view' = modelToAuthzPB(row)
  /\ verdict' = [result |-> CheckAuthzChallenges(modelToAuthzPB(row), enabled),
                 enabled |-> enabled, authz |-> authz]
  /\ UNCHANGED <<row, authz, enabled, worker, now>>

Tick ==
  /\ now < MaxTime
  /\ now' = now + 1
  /\ UNCHANGED <<row, authz, enabled, worker, view, verdict>>

Next ==
  \/ \E i \in Idents : NewAuthz(i)
  \/ \E w \in Workers, t \in ChallTypes : StartValidation(w, t)
  \/ \E w \in Workers, b \in BOOLEAN : FinishValidation(w, b)
  \/ Deactivate
  \/ Revoke
  \/ \E en \in EnabledSets : RestartPA(en)
  \/ Read
  \/ Tick

Spec == Init /\ [][Next]_vars

----------------------------------------------------------------------------
(* Properties.                                                             *)

RowType ==
  [identifierType: 0..255, identifierValue: STRING, status: 0..255, challenges: 0..255,
   attempted: {NilAttempted} \cup 0..255, attemptedAt: {NoTime} \cup Times,
   validationError: BOOLEAN]

\* Types; every challenge read back has a known type.
TypeOK ==
  /\ row = None \/ row \in RowType
  /\ worker \in [Workers -> {Idle} \cup [pc: {"va"}, type: ChallTypes]]
  /\ \A i \in DOMAIN view.challenges :
       /\ view.challenges[i].type \in ChallTypes
       /\ view.challenges[i].status \in {"pending", "valid", "invalid"}

\* The client-visible authorization read back from the row is the one the
\* SA was given: its status; before an attempt, each offered challenge
\* once and pending; after one, only the attempted challenge, valid
\* exactly when its validation succeeded.  Concurrent validations of two
\* challenges leave one attempt.
ReadBackFaithful ==
  view # NoView =>
    LET a == verdict.authz
        types == {view.challenges[i].type : i \in DOMAIN view.challenges}
    IN  /\ view.err = "nil"
        /\ view.status = a.status
        /\ view.ident = a.ident
        /\ Len(view.challenges) = Cardinality(types)
        /\ IF a.attempted = ""
             THEN /\ types = a.offered
                  /\ \A i \in DOMAIN view.challenges : view.challenges[i].status = "pending"
             ELSE view.challenges = <<[type |-> a.attempted,
                                       status |-> IF a.ok THEN "valid" ELSE "invalid",
                                       error |-> ~a.ok, validated |-> a.attemptedAt]>>

\* Specification 4.2: CheckAuthzChallenges accepts an authorization read
\* back from storage exactly when it was solved by a challenge type that
\* is enabled at the time of the check and is offered for its identifier.
CheckAuthzMatchesSpec ==
  verdict # NoVerdict =>
    (verdict.result = "nil" <=>
       /\ verdict.authz.ok
       /\ verdict.authz.attempted \in verdict.enabled
       /\ Contains(ChallengeTypesFor(verdict.authz.ident).types, verdict.authz.attempted))

\* What a test seeds with authzPBToModel reads back through modelToAuthzPB
\* as the authorization it was built from: for every authorization read
\* back from storage, pending, attempted, deactivated or revoked, the
\* conversion back to a row succeeds and that row reads as the same
\* authorization, challenges, attempted one and error included.
PBRoundTrip ==
  view # NoView =>
    LET m == authzPBToModel(view)
    IN  m.err = "nil" /\ modelToAuthzPB(m.model) = view


\* SelectAuthzsMatchingIssuance returns, for an issuance at any time, the
\* authorizations that were potentially valid then (its comment): the
\* stored authorization is found exactly when its identifier, type and
\* value both, is one the issuance names, a validation of it succeeded no
\* later than one second after the issuance, and it is still valid or has
\* been deactivated since.  One deactivated while pending, or validated
\* only after the issuance, is not found; this holds whatever order Go
\* walks identsByType in.
IssuanceQueryFindsAuthz ==
  row # None =>
    \A q \in QueryIdents, issued \in Times : \A order \in MapOrders(q) :
      (SelectAuthzsMatchingIssuance(row, q, order, issued) # <<>>)
        <=> /\ authz.ok /\ authz.attemptedAt <= issued + 1
            /\ authz.status \in {"valid", "deactivated"}
            /\ \E i \in DOMAIN q : q[i] = authz.ident

=============================================================================
