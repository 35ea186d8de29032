SPECIFICATION FairSpec
CONSTANTS
    NoRuntime = NoRuntime
    NoSession = NoSession
    Sessions = {s1, s2, s3}
    Files = {f1, f2}
    MaxLive = 2
    MaxRev = 3
PROPERTIES IdleBackgroundReleased
