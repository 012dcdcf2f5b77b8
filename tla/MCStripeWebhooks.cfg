\* Two deliveries of any events, over a pool they can exhaust.
SPECIFICATION FairSpec
CONSTANTS
  paid = paid
  failed = failed
  refunded = refunded
  refundedAll = refundedAll
  deleted = deleted
  updated = updated
  completed = completed
  inv = inv
  Calls = {c1, c2}
  Events = {paid, failed, refunded, refundedAll, deleted, updated, completed}
  Payload <- Payloads
  Invoices = {inv}
  Price = 2
  PoolSize = 2
  Profiled = TRUE
  None = None
INVARIANTS MoneyIsCounted
           CancellationsAreFollowedUp
PROPERTIES ImplementsEventInbox DeliveriesEnd
CHECK_DEADLOCK FALSE
