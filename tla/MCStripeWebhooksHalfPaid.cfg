\* A payment event whose first delivery broke off is delivered again.
SPECIFICATION Spec
CONSTANTS
  paid = paid
  failed = failed
  refunded = refunded
  refundedAll = refundedAll
  deleted = deleted
  updated = updated
  completed = completed
  inv = inv
  Calls = {c1, c2}
  Events = {paid, failed, refunded, refundedAll, deleted, updated, completed}
  Payload <- Payloads
  Invoices = {inv}
  Price = 2
  PoolSize = 2
  Profiled = TRUE
  None = None
INVARIANT ProcessedPaymentsAreRevenue
SYMMETRY Symmetry
CHECK_DEADLOCK FALSE
