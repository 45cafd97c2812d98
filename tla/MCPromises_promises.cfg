SPECIFICATION FairSpec
CONSTANTS
  p1 = p1  p2 = p2  pay1 = pay1  k1 = k1  x1 = x1  q1 = q1
  NoPromise = NoPromise  NoPayment = NoPayment
  Promises <- TwoPromises
  Payments <- OnePayment
  Checkers <- OneChecker
  Presenters <- Nobody
  Cancellers <- OneCanceller
  Observers <- OneObserver
  MaxFailures = 1
CHECK_DEADLOCK FALSE
INVARIANTS TypeOK ActiveIsChecked
PROPERTIES ContractSpec 
