\* Two handlers each ask for a replacement of the same serial: both may
\* pass the RA check before either transaction writes the row.
CONSTANTS
  Idents = {i1}
  ReplaceableSerials = {s1}
  Workers = {w1, w2}
  MaxOrders = 2
  MaxAuthzs = 2
  MaxTime = 2
  PendingAuthzLifetime = 2
  ValidAuthzLifetime = 3
  OrderLifetime = 2
  NoPendingAuthzReuse = TRUE
  RACrashes = FALSE
  None = None
SPECIFICATION Spec
INVARIANTS
  ReplacementAcceptedOnce
