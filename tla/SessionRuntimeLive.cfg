SPECIFICATION FairSpec
CONSTANTS
    NoRuntime = NoRuntime
    NoSession = NoSession
    Sessions = {s1, s2}
    Files = {f1, f2}
    MaxLive = 2
    MaxRev = 4
PROPERTIES SettledReleased
