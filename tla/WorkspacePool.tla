---------------------------- MODULE WorkspacePool ----------------------------
(***************************************************************************)
(* The workspaces a Host serves in turn (workspace-lifecycle.ts).          *)
(*                                                                         *)
(* A workspace is a graph of services around its sessions.  One graph is   *)
(* current; the others that were visited are retained, so that a turn goes *)
(* on and coming back is quick.  All of them register model providers in   *)
(* one runtime, where the same id of two workspaces would be merged, so a  *)
(* retained graph gives its registrations up ("parked") unless it runs.    *)
(* A switch holds the graph lock over many awaits; a step below is what    *)
(* lies between two of them.                                               *)
(***************************************************************************)
EXTENDS Integers, FiniteSets

CONSTANTS
    Graphs,         \* graph objects; one that was disposed of may be used again
    Dirs,           \* canonical directories
    NoGraph, NoDir,
    MaxRetained,    \* MAX_RETAINED_GRAPHS
    MaxRev          \* bound: workspace revisions

ASSUME PoolAssumption ==
    /\ NoGraph \notin Graphs /\ NoDir \notin Dirs
    /\ IsFiniteSet(Graphs)
    /\ MaxRetained \in Nat \ {0} /\ MaxRev \in Nat

VARIABLES
    graphs,     \* the objects, see Blank
    current,    \* getGraph()
    pool,       \* retainedGraphs, a map by directory in the order of "at"
    identity,   \* of the server: [graph, rev], the workspace id and revision
    told,       \* the identity the desktop was last told
    sw,         \* the switch that holds the graph lock, or NoSwitch
    unread      \* for the properties only: the last switch broke off while it
                \* read the files of the workspace it was leaving

wpVars == <<graphs, current, pool, identity, told, sw, unread>>

(***************************************************************************)
(* state "failed" is a workspace whose services could not be built.  busy: *)
(* one of its sessions runs or holds its operation lock; bg: it has        *)
(* background sessions.  heard: the foreground session is subscribed to;   *)
(* ui: its Extension UI is attached.  parked: suspendedProviders is set.   *)
(* fresh: the files still have the fingerprint taken at retention; at: the *)
(* revision of the switch that left it.  For the properties only, late: it *)
(* settled at a moment when nobody looked whether to park it.              *)
(***************************************************************************)
Blank == [state |-> "blank", dir |-> NoDir, busy |-> FALSE, bg |-> FALSE,
          heard |-> FALSE, ui |-> FALSE, parked |-> FALSE, fresh |-> FALSE,
          at |-> 0, late |-> FALSE]

Nobody == [graph |-> NoGraph, rev |-> 0]

NoSwitch == [step |-> "none", mode |-> "none", dir |-> NoDir, graph |-> NoGraph,
             prev |-> NoGraph, back |-> Nobody]

Free == sw = NoSwitch

\* Bug: the revision goes back.
Rev_Down == sw.back.rev - 1

Rev == sw.back.rev + 1      \* what the switch makes the workspace revision
Ready(g) == g \in Graphs /\ graphs[g].state = "ready"
Running(g) == Ready(g) /\ graphs[g].busy

\* A graph's owner holds its registrations in the shared runtime.
Registered(g) == Ready(g) /\ ~graphs[g].parked

-----------------------------------------------------------------------------
(* What the steps do to the graphs G. *)

\* Bug: a busy session is not asked about.
MaySuspend_Busy(graph) == graph.state = "ready" /\ ~graph.parked

\* A turn still holds the registered client.
MaySuspend(graph) == graph.state = "ready" /\ ~graph.parked /\ ~graph.busy

Suspend(G, g) ==
    IF g # NoGraph /\ MaySuspend(G[g]) THEN [G EXCEPT ![g].parked = TRUE] ELSE G

\* Bug: the roll-back leaves the providers of the workspace suspended.
Resume_Never(G, g) == G

Resume(G, g) == IF g # NoGraph THEN [G EXCEPT ![g].parked = FALSE] ELSE G

\* disposeGraph, which releases the owner.
Dispose(G, gone) == [g \in Graphs |-> IF g \in gone THEN Blank ELSE G[g]]

WillRetain(g) == Ready(g) /\ (graphs[g].busy \/ ~graphs[g].bg)

At(dir) == {g \in pool : graphs[g].dir = dir}

\* Bug: the limit is one too high.
HasRoom_OffByOne == Cardinality(pool) <= MaxRetained

HasRoom == Cardinality(pool) < MaxRetained

\* canAcceptOutgoingRetention
CanAccept(dir) ==
    \/ ~WillRetain(current)
    \/ At(dir) # {}
    \/ HasRoom
    \/ \E g \in pool : ~graphs[g].busy

\* Bug: the oldest graph goes, running or not.
Evictable_Oldest(kept) ==
    {g \in kept : \A h \in kept : graphs[g].at <= graphs[h].at}

\* The oldest of the idle graphs.
Evictable(kept) ==
    {g \in kept : /\ ~graphs[g].busy
                  /\ \A h \in kept : ~graphs[h].busy => graphs[g].at <= graphs[h].at}

\* The first, synchronous part of retainGraph.
Left(graph) ==
    [graph EXCEPT !.heard = @ /\ graph.busy, !.ui = FALSE,
                  !.parked = @ \/ MaySuspend(graph), !.at = Rev, !.late = FALSE]

-----------------------------------------------------------------------------
(* workspace.setCurrent.  Requests that are refused change nothing and are *)
(* left out: a stale identity, a directory that is none, a pool full of    *)
(* running workspaces.                                                     *)

\* takeRetainedGraph, or the outgoing workspace is parked for the build.
SwitchBegin(dir) ==
    LET start(step, graph) ==
            sw' = [step |-> step, mode |-> "built", dir |-> dir, graph |-> graph,
                   prev |-> current, back |-> identity]
    IN  /\ Free /\ identity.rev < MaxRev
        /\ told = identity /\ CanAccept(dir)
        /\ pool' = pool \ At(dir)
        /\ IF At(dir) = {}
           THEN /\ start("building", NoGraph)
                /\ graphs' = Suspend(graphs, current)
           ELSE /\ \E g \in At(dir) : start("comparing", g)
                /\ UNCHANGED graphs
        /\ UNCHANGED <<current, identity, told, unread>>

\* The retained graph is given up, the switch goes on with a build.
Rebuild ==
    /\ graphs' = Suspend(Dispose(graphs, {sw.graph}), sw.prev)
    /\ sw' = [sw EXCEPT !.step = "building", !.graph = NoGraph, !.mode = "built"]

\* The files cannot be read: the retained graph is disposed of, the switch fails.
CompareFails ==
    /\ sw.step = "comparing"
    /\ graphs' = Resume(Dispose(graphs, {sw.graph}), current)
    /\ sw' = NoSwitch
    /\ UNCHANGED <<current, pool, identity, told, unread>>

\* Its files have changed and nothing runs in it.
CompareRejects ==
    /\ sw.step = "comparing" /\ ~graphs[sw.graph].fresh /\ ~graphs[sw.graph].busy
    /\ Rebuild
    /\ UNCHANGED <<current, pool, identity, told, unread>>

\* The outgoing owner leaves the runtime before the incoming one returns.
CompareKeeps ==
    /\ sw.step = "comparing" /\ (graphs[sw.graph].fresh \/ graphs[sw.graph].busy)
    /\ graphs' = Resume(Suspend(graphs, sw.prev), sw.graph)
    /\ sw' = [sw EXCEPT !.step = "binding", !.mode = "reactivated"]
    /\ UNCHANGED <<current, pool, identity, told, unread>>

BindFails ==
    /\ sw.step = "binding"
    /\ Rebuild
    /\ UNCHANGED <<current, pool, identity, told, unread>>

\* Identity and graph change in one turn, before the Extension UI is activated.
Install(g) ==
    /\ current' = g
    /\ identity' = [graph |-> g, rev |-> Rev]
    /\ sw' = [sw EXCEPT !.step = "activating", !.graph = g]

BindOk ==
    /\ sw.step = "binding"
    /\ graphs' = [graphs EXCEPT ![sw.graph].heard = TRUE, ![sw.graph].ui = TRUE]
    /\ Install(sw.graph)
    /\ UNCHANGED <<pool, told, unread>>

BuildOk(g) ==
    /\ sw.step = "building" /\ graphs[g].state = "blank"
    /\ graphs' = [graphs EXCEPT ![g] = [Blank EXCEPT !.state = "ready", !.dir = sw.dir,
                                                     !.heard = TRUE, !.ui = TRUE]]
    /\ Install(g)
    /\ UNCHANGED <<pool, told, unread>>

\* retainGraph(prev) begins in the same turn: what is not to be retained is
\* disposed of, the rest is detached and parked, and its files are read.
Leave(mode) ==
    LET prev == sw.prev
        next(step) == sw' = [sw EXCEPT !.step = step, !.mode = mode]
    IN  IF prev # NoGraph /\ WillRetain(prev)
        THEN /\ graphs' = [graphs EXCEPT ![prev] = Left(@)]
             /\ next("printing")
        ELSE /\ graphs' = Dispose(graphs, {prev})
             /\ next("ending")

BuildFails ==
    /\ sw.step = "building"
    /\ Leave("failure")
    /\ UNCHANGED <<current, pool, identity, told, unread>>

ActivateOk ==
    /\ sw.step = "activating"
    /\ Leave(sw.mode)
    /\ UNCHANGED <<current, pool, identity, told, unread>>

\* Of a retained graph: back to the outgoing workspace, and on with a build.
ReactivateFails ==
    /\ sw.step = "activating" /\ sw.mode = "reactivated"
    /\ current' = sw.prev /\ identity' = sw.back
    /\ Rebuild
    /\ UNCHANGED <<pool, told, unread>>

\* Of a new graph, which is current while it is disposed of.
ActivateFails ==
    /\ sw.step = "activating" /\ sw.mode = "built"
    /\ graphs' = [graphs EXCEPT ![sw.graph] = [Blank EXCEPT !.state = "disposed"]]
    /\ sw' = [sw EXCEPT !.step = "undoing"]
    /\ UNCHANGED <<current, pool, identity, told, unread>>

\* And back to the outgoing workspace, if there is one.
UndoDone ==
    /\ sw.step = "undoing" /\ sw.prev # NoGraph
    /\ graphs' = Resume(Dispose(graphs, {sw.graph}), sw.prev)
    /\ current' = sw.prev /\ identity' = sw.back
    /\ sw' = NoSwitch
    /\ UNCHANGED <<pool, told, unread>>

\* The fingerprint of the outgoing workspace cannot be taken: it is disposed of
\* unless it is still current, and the switch ends without being announced.
PrintFails ==
    /\ sw.step = "printing"
    /\ graphs' = IF current = sw.prev THEN Resume(graphs, sw.prev)
                 ELSE Dispose(graphs, {sw.prev})
    /\ sw' = NoSwitch
    /\ unread' = TRUE
    /\ UNCHANGED <<current, pool, identity, told>>

\* The rest of retainGraph: what was retained for the directory before is
\* disposed of, and the oldest idle graph when there are too many.
PrintOk ==
    LET same == At(graphs[sw.prev].dir)
        kept == (pool \ same) \union {sw.prev}
        evicted == IF Cardinality(kept) > MaxRetained THEN Evictable(kept) ELSE {}
    IN  /\ sw.step = "printing"
        /\ pool' = kept \ evicted
        /\ graphs' = Dispose([graphs EXCEPT ![sw.prev].fresh = TRUE], same \union evicted)
        /\ sw' = [sw EXCEPT !.step = "ending"]
        /\ UNCHANGED <<current, identity, told, unread>>

\* The lock is released, then workspace.changed is published.
Announce(id) ==
    /\ identity' = id /\ told' = id
    /\ sw' = NoSwitch
    /\ unread' = FALSE

SwitchEnds ==
    /\ sw.step = "ending" /\ sw.mode # "failure"
    /\ Announce(identity)
    /\ UNCHANGED <<graphs, current, pool>>

\* commitWorkspaceFailure: a workspace without services becomes current.
FailureEnds(g) ==
    /\ \/ sw.step = "ending" /\ sw.mode = "failure"
       \/ sw.step = "undoing" /\ sw.prev = NoGraph
    /\ graphs[g].state = "blank"
    /\ graphs' = [Dispose(graphs, {sw.graph}) EXCEPT ![g].state = "failed", ![g].dir = sw.dir]
    /\ current' = g
    /\ Announce([graph |-> g, rev |-> Rev])
    /\ UNCHANGED pool

-----------------------------------------------------------------------------
(* Meanwhile. *)

\* agent.prompt refuses while the graph lock is held.
WorkStarts ==
    /\ Free /\ Ready(current) /\ ~graphs[current].busy
    /\ graphs' = [graphs EXCEPT ![current].busy = TRUE]
    /\ UNCHANGED <<current, pool, identity, told, sw, unread>>

\* A session that runs is left for another one of its workspace.
SessionRetained ==
    /\ Free /\ Running(current)
    /\ graphs' = [graphs EXCEPT ![current].bg = TRUE]
    /\ UNCHANGED <<current, pool, identity, told, sw, unread>>

\* The clean-up of the last settled background session had the lock.
BackgroundReleased(g) ==
    /\ Free /\ Ready(g) /\ graphs[g].bg
    /\ graphs' = [graphs EXCEPT ![g].bg = FALSE]
    /\ UNCHANGED <<current, pool, identity, told, sw, unread>>

\* suspendIdleRetainedProviders
MayPark(g) == current # g /\ g \in pool

\* The last session of a workspace ends its run.  That nothing runs any more is
\* noticed only if the operation lock is released before agent_end is published.
WorkEnds(g, noticed) ==
    LET unseen == noticed => sw.prev = g /\ (sw.step = "printing" \/ current = g)
        idle == [graphs EXCEPT ![g].busy = FALSE, ![g].late = unseen]
    IN  /\ Running(g)
        /\ graphs' = IF noticed /\ MayPark(g) THEN Suspend(idle, g) ELSE idle
        /\ UNCHANGED <<current, pool, identity, told, sw, unread>>

\* Settings, providers or packages change on disk.
FilesChange ==
    /\ \E g \in Graphs : graphs[g].fresh
    /\ graphs' = [g \in Graphs |-> [graphs[g] EXCEPT !.fresh = FALSE]]
    /\ UNCHANGED <<current, pool, identity, told, sw, unread>>

\* A provider or package mutation, refused while a retained workspace runs.
InvalidateAll ==
    /\ Free /\ pool # {} /\ \A g \in pool : ~graphs[g].busy
    /\ graphs' = Dispose(graphs, pool)
    /\ pool' = {}
    /\ UNCHANGED <<current, identity, told, sw, unread>>

\* A session file of the current directory is moved, renamed or deleted.
InvalidateSame ==
    /\ Free /\ Ready(current) /\ At(graphs[current].dir) # {}
    /\ graphs' = Dispose(graphs, At(graphs[current].dir))
    /\ pool' = pool \ At(graphs[current].dir)
    /\ UNCHANGED <<current, identity, told, sw, unread>>

\* The desktop finds its identity stale and takes the Host's.
Rehydrate ==
    /\ Free /\ told # identity
    /\ told' = identity
    /\ UNCHANGED <<graphs, current, pool, identity, sw, unread>>

-----------------------------------------------------------------------------
WpInit ==
    /\ graphs = [g \in Graphs |-> Blank]
    /\ current = NoGraph /\ pool = {}
    /\ identity = Nobody /\ told = Nobody
    /\ sw = NoSwitch
    /\ unread = FALSE

Switch ==
    \/ \E dir \in Dirs : SwitchBegin(dir)
    \/ CompareFails \/ CompareRejects \/ CompareKeeps
    \/ BindOk \/ BindFails
    \/ \E g \in Graphs : BuildOk(g)
    \/ BuildFails
    \/ ActivateOk \/ ReactivateFails \/ ActivateFails \/ UndoDone
    \/ PrintOk \/ PrintFails
    \/ SwitchEnds
    \/ \E g \in Graphs : FailureEnds(g)

Sessions ==
    \/ WorkStarts \/ SessionRetained
    \/ \E g \in Graphs : BackgroundReleased(g)
    \/ \E g \in Graphs, noticed \in BOOLEAN : WorkEnds(g, noticed)

Others == FilesChange \/ InvalidateAll \/ InvalidateSame \/ Rehydrate

WpNext == Switch \/ Sessions \/ Others

WpSpec == WpInit /\ [][WpNext]_wpVars

-----------------------------------------------------------------------------
(* Properties *)

GraphType ==
    [state : {"blank", "ready", "failed", "disposed"}, dir : Dirs \union {NoDir},
     busy : BOOLEAN, bg : BOOLEAN, heard : BOOLEAN, ui : BOOLEAN, parked : BOOLEAN,
     fresh : BOOLEAN, at : Nat, late : BOOLEAN]

Identities == [graph : Graphs \union {NoGraph}, rev : Nat]

\* Shapes of graphs, pool, identities and the switch.
WpTypeOK ==
    /\ graphs \in [Graphs -> GraphType]
    /\ current \in Graphs \union {NoGraph}
    /\ pool \subseteq Graphs
    /\ identity \in Identities /\ told \in Identities
    /\ sw \in [step : {"none", "comparing", "binding", "building", "activating", "undoing",
                       "printing", "ending"},
               mode : {"none", "built", "reactivated", "failure"},
               dir : Dirs \union {NoDir}, graph : Graphs \union {NoGraph},
               prev : Graphs \union {NoGraph}, back : Identities]
    /\ unread \in BOOLEAN

\* Whatever became of a switch, once it is over the workspace the identity
\* names is served: the desktop was told of it, its services were not disposed
\* of, its events are heard, its Extension UI is attached and its providers are
\* registered.  Not so after a switch that could not read the files of the
\* workspace it was leaving, see the README.
ServedIntact ==
    Free /\ ~unread =>
        /\ identity.graph = current /\ told = identity
        /\ current # NoGraph => Ready(current) \/ graphs[current].state = "failed"
        /\ Ready(current) =>
              graphs[current].heard /\ graphs[current].ui /\ Registered(current)

\* The pool never holds more than its limit, nor two graphs of a directory, nor
\* one that is served or was disposed of; and no graph is lost: each is current,
\* retained or in the hands of the switch.
PoolSound ==
    /\ Cardinality(pool) <= MaxRetained
    /\ \A g \in pool : Ready(g) /\ (Free => g # current) /\ At(graphs[g].dir) = {g}
    /\ \A g \in Graphs :
          graphs[g].state # "blank" => g \in pool \union {current, sw.graph, sw.prev}

\* "Unregistering mid-stream aborts model output on the parked Workspace": a
\* workspace that runs has its providers in the shared runtime.  And "parking a
\* workspace suspends its solely-owned providers" (development.md): of the idle
\* ones only the workspace served, entered or left has, where ids of two would be
\* merged; unless it settled when nobody looked, see the README.
ProvidersPlaced ==
    \A g \in Graphs :
        /\ Running(g) => Registered(g)
        /\ Registered(g) => \/ g \in {current, sw.graph, sw.prev}
                            \/ graphs[g].busy \/ graphs[g].late

\* "Too many workspaces are still running. Stop one before switching.": a
\* running workspace is not disposed of to make room, nor for a mutation of
\* providers or packages.  What ends it is that its own reactivation fails, that
\* its files cannot be read, or that there is another graph of its directory.
RunningKept ==
    [][\A g \in Graphs :
          Running(g) /\ graphs'[g].state # "ready" =>
              \/ g = sw.graph
              \/ g = sw.prev /\ unread'
              \/ \E h \in Graphs \ {g} : Ready(h) /\ graphs[h].dir = graphs[g].dir]_wpVars
=============================================================================
