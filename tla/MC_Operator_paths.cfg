SPECIFICATION FairSpec
CONSTANTS
 r1 = r1
 o1 = o1
 c1 = c1
 c2 = c2
 None = None
 Op = {r1, o1}
 KindsOf <- RunAndOther
 Call = {c1}
 Serial = TRUE
 MaxTries = 2
 MaxLinks = 2
 MaxCrashes = 1
 MaxLosses = 1
CHECK_DEADLOCK FALSE
INVARIANT EffectsAreKept
PROPERTY AnswerReachable
PROPERTY CallReturns
