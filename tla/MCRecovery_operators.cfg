SPECIFICATION Spec
CONSTANTS
 w1 = w1 w2 = w2 d1 = d1 o1 = o1 r1 = r1 pay1 = pay1 pay2 = pay2
 Workers <- OneWorker
 Deciders <- OneDecider
 Operators <- OneOperator
 Reviewers <- Nobody
 OperatorTargets <- PullBack
 Payments <- TwoPayments
 Candidates <- ActOnly
 Escalates = FALSE
 WorldEvents <- BothEvents
 MaxAttempts = 1
 MaxSchedules = 2
 MaxVersion = 9
 MaxCrashes = 1
 MaxOverruns = 0
CHECK_DEADLOCK FALSE
INVARIANTS SnapshotFaithful FreshRow AttributedOnce WaitIsObserved
PROPERTIES TerminalAbsorbing
