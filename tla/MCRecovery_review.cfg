SPECIFICATION FairSpec
CONSTANTS
 w1 = w1 w2 = w2 d1 = d1 o1 = o1 r1 = r1 pay1 = pay1 pay2 = pay2
 Workers <- OneWorker
 Deciders <- OneDecider
 Operators <- Nobody
 Reviewers <- OneReviewer
 OperatorTargets <- Nobody
 Payments <- Nobody
 Candidates <- AnyCandidate
 Escalates = TRUE
 WorldEvents <- Nobody
 MaxAttempts = 1
 MaxSchedules = 2
 MaxVersion = 0
 MaxCrashes = 1
 MaxOverruns = 0
CHECK_DEADLOCK FALSE
INVARIANTS AuthorisedWork
PROPERTIES CaseSpec WaitEnds
