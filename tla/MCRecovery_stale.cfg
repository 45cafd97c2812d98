SPECIFICATION Spec
CONSTANTS
 w1 = w1 w2 = w2 d1 = d1 o1 = o1 r1 = r1 pay1 = pay1 pay2 = pay2
 Workers <- OneWorker
 Deciders <- OneDecider
 Operators <- OneOperator
 Reviewers <- Nobody
 OperatorTargets <- PullBack
 Payments <- Nobody
 Candidates <- ActOnly
 Escalates = FALSE
 WorldEvents <- Nobody
 MaxAttempts = 1
 MaxSchedules = 2
 MaxVersion = 8
 MaxCrashes = 0
 MaxOverruns = 0
CHECK_DEADLOCK FALSE
PROPERTY ExecutesFreshWork
