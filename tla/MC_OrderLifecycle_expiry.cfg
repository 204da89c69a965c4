\* Orders over two identifiers that reuse valid authorizations, while the
\* clock runs and expired authz2 rows are purged.  A reused valid
\* authorization (lifetime 2) can expire before a later order's own
\* lifetime (3) ends.
CONSTANTS
  Idents = {i1, i2}
  ReplaceableSerials = {}
  Workers = {w1}
  MaxOrders = 2
  MaxAuthzs = 2
  MaxTime = 3
  PendingAuthzLifetime = 2
  ValidAuthzLifetime = 2
  OrderLifetime = 3
  NoPendingAuthzReuse = TRUE
  RACrashes = FALSE
  None = None
SPECIFICATION Spec
INVARIANTS
  StatusNeverInternalError
PROPERTIES
  OrderStatusRefinement
SYMMETRY Symmetry
