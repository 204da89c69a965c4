\* Two handlers race to finalize the same orders; one identifier, one
\* replaceable serial, two orders.  Either handler's process may die at
\* any step; the clock runs to 2, past the expiry (1) of an order made at 0.
CONSTANTS
  Idents = {i1}
  ReplaceableSerials = {s1}
  Workers = {w1, w2}
  MaxOrders = 2
  MaxAuthzs = 2
  MaxTime = 2
  PendingAuthzLifetime = 1
  ValidAuthzLifetime = 3
  OrderLifetime = 1
  NoPendingAuthzReuse = TRUE
  RACrashes = TRUE
  None = None
SPECIFICATION ClockSpec
INVARIANTS
  TypeOK
  AtMostOnePrecertificatePerOrder
  ReplacedOnlyWhenIssued
PROPERTIES
  FinalizationCompletes
  AbandonedFinalizationResolves
