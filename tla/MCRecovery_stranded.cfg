SPECIFICATION FairSpec
CONSTANTS
 w1 = w1 w2 = w2 d1 = d1 o1 = o1 r1 = r1 pay1 = pay1 pay2 = pay2
 Workers <- OneWorker
 Deciders <- OneDecider
 Operators <- Nobody
 Reviewers <- Nobody
 OperatorTargets <- Nobody
 Payments <- Nobody
 Candidates <- ActOnly
 Escalates = FALSE
 WorldEvents <- Nobody
 MaxAttempts = 2
 MaxSchedules = 1
 MaxVersion = 0
 MaxCrashes = 0
 MaxOverruns = 0
CHECK_DEADLOCK FALSE
PROPERTY ClosedWorkIsFollowed
