SPECIFICATION WSpec
CONSTANTS
  p1 = p1  pay1 = pay1  pay2 = pay2  e1 = e1
  k1 = k1  pr1 = pr1  h1 = h1  h2 = h2  q1 = q1
  NoPromise = NoPromise  NoPayment = NoPayment  NoEvent = NoEvent
  Promises <- OnePromise
  Checkers <- OneChecker
  Presenters <- OnePresenter
  Cancellers <- Nobody
  Observers <- HandlersAndAPI
  Handlers <- TwoHandlers
  Events <- OneEvent
  PaymentOf <- FirstLink
  Payments <- TwoPayments
  MaxFailures = 1
CHECK_DEADLOCK FALSE
INVARIANTS WTypeOK OneHandlerPerEvent PaymentKeepsPromise
