SPECIFICATION FairSpec
CONSTANTS
    Mutations = {m1, m2}
    Reads = {r1, r2}
    Cleanups = {c1, c2}
    Shutdown = Shutdown
    Identities = {i1, i2}
    Nobody = Nobody
INVARIANTS TypeOK OwnerHolds ReadsStable
PROPERTIES Serialises ShutdownEnds CleanupsServed
CHECK_DEADLOCK FALSE
