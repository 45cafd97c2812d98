SPECIFICATION Spec
CONSTANTS
 DayLength = 2
 WeekLength = 3
 Scale = 1000
 Facts <- SomeFacts
 Merchants <- SomeMerchants
 Levels <- TwoLevels
 MaxAttempts = 2
 MaxRows = 3
 MaxTime = 3
 MaxPolicies = 1
 NoTime = NoTime
CHECK_DEADLOCK FALSE
INVARIANTS TypeOK   StandsDown  WorthIt
PROPERTIES LinkIsReused
