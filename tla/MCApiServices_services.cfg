SPECIFICATION ServicesSpec
CONSTANTS
  c1 = c1  c2 = c2  m1 = m1  m2 = m2  shop1 = shop1  shop2 = shop2  cart = cart  plan = plan
  e1 = e1  e2 = e2  r1 = r1  r2 = r2  r3 = r3
  NoRisk = NoRisk  Unusable = Unusable  NoCase = NoCase  NoSession = NoSession
  Handlers = {c1, c2}
  Shops = {shop1, shop2}
  Checkouts = {cart}
  Subscriptions = {plan}
  RiskEvents = {e1, e2}
  RiskOf <- RiskOfEvent
  Window = 1
  MaxTime = 2
  MaxReports = 4
  Desks = {c1, c2}
  Replies = {r1, r2, r3}
  ReplyType <- TypeOfReply
  Clear <- ClearReply
  MaxWaits = 2
  Callers = {c1, c2}
  Models = {m1, m2}
  TypeOf <- OneType
  MaxTicks = 8
  Editors = {c1, c2}
  Merchants = {shop1}
  MaxProfiles = 4
  Portfolio <- SmallPortfolio
  LimitChoices <- SomeLimits
  MaxPriorityRuns = 1
  MaxBudgetRuns = 1
SYMMETRY Alike
INVARIANTS TypeOK OneCasePerCheckout ProcessedHasCase SessionKept ResponseActsOnce  OneActive SequentialHistory ProfilesNumbered BudgetKept NothingFitsLeft FairAmongEquals
PROPERTIES CaseKept
CHECK_DEADLOCK FALSE
