SPECIFICATION WpSpec
CONSTANTS
    NoGraph = NoGraph
    NoDir = NoDir
    Graphs = {g1, g2, g3, g4}
    Dirs = {d1, d2, d3, d4}
    MaxRetained = 2
    MaxRev = 4
SYMMETRY Symmetry
INVARIANTS
    WpTypeOK ServedIntact PoolSound ProvidersPlaced
PROPERTY RunningKept

\* The revisions end at MaxRev, and a Host that is asked nothing rests.
CHECK_DEADLOCK FALSE
