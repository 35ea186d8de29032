SPECIFICATION Spec
CONSTANTS
    NoRuntime = NoRuntime
    NoSession = NoSession
    Sessions = {s1, s2, s3}
    Files = {f1, f2, f3}
    MaxLive = 2
    MaxRev = 3
SYMMETRY Symmetry
INVARIANTS
    TypeOK RuntimesLive OneWriterPerFile NoOrphan LiveLimit LiveFilesExist
    SnapshotNamesActive
PROPERTY BusyKept
