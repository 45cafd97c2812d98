SPECIFICATION WFairSpec
CONSTANTS
  p1 = p1  pay1 = pay1  pay2 = pay2  e1 = e1
  k1 = k1  pr1 = pr1  h1 = h1  h2 = h2  q1 = q1
  NoPromise = NoPromise  NoPayment = NoPayment  NoEvent = NoEvent
  Promises <- Nobody
  Checkers <- Nobody
  Presenters <- Nobody
  Cancellers <- Nobody
  Observers <- OneHandler
  Handlers <- OneHandler
  Events <- OneEvent
  PaymentOf <- FirstLink
  Payments <- OnePayment
  MaxFailures = 1
CHECK_DEADLOCK FALSE
PROPERTY DeliveredPaymentCounts
