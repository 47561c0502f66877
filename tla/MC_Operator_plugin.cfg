SPECIFICATION FairSpec
CONSTANTS
 r1 = r1
 o1 = o1
 c1 = c1
 c2 = c2
 None = None
 Op = {r1, o1}
 KindsOf <- RunAndPlugin
 Call = {c1}
 Serial = TRUE
 MaxTries = 2
 MaxLinks = 2
 MaxCrashes = 0
 MaxLosses = 0
PROPERTY PluginPolled
CHECK_DEADLOCK FALSE
