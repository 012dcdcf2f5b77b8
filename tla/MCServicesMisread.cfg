SPECIFICATION Spec
CONSTANTS
  Pair = {c1, c2}
  Trio = {c3, c4, c5}
  Checklist = {i1}
  Scope = {w1}
  Extras = {x1}
  Digits <- DigitsOf
  Asks <- Bodies
  Ratings = {"HEALTHY", "CRITICAL"}
  AccountId = a1
  Contacts = {k1}
  Horizon = 15
  Prices = {97, 197}
  MaxVersion = 2
  Known = {lead}
  Firms = {f1}
  Keys = {key}
  MaxAttempt = 3
  Provisioned = TRUE
  Clients = {a1, k1}
  Items = {i1, i2}
  Deliverables = {w1}
  Deals = {d1}
  Persons = {lead}
  Owner <- OwnerOf
  Required = {i1}
  Ours = {i1}
  Price <- PriceOf
  Tier <- TierOf
  Value <- ValueOf
  Likely <- LikelihoodOf
  Shown = 1
  MaxWrites = 1
  i1 = i1
  i2 = i2
  w1 = w1
  x1 = x1
  a1 = a1
  k1 = k1
  d1 = d1
  None = None
SYMMETRY Symmetry
INVARIANTS
  RatedByDays
CHECK_DEADLOCK FALSE
