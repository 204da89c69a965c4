\* One authorization of each kind of identifier, two racing validations,
\* deactivation, revocation, PA restarts and read-backs, over three seconds
\* of clock: issuances one second before, at and after a validation.
CONSTANTS
  Idents <- MCIdents
  QueryIdents <- MCQueryIdents
  EnabledSets <- MCEnabledSets
  Workers = {w1, w2}
  MaxTime = 3
  None = None
SYMMETRY Symmetry
SPECIFICATION Spec
INVARIANTS
  TypeOK
  ReadBackFaithful
  CheckAuthzMatchesSpec
  PBRoundTrip
  IssuanceQueryFindsAuthz
