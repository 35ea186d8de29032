------------------------ MODULE WorkspacePoolProofs ------------------------
(***************************************************************************)
(* What WorkspacePool keeps for any number of graphs, directories and      *)
(* switches.                                                               *)
(***************************************************************************)
EXTENDS WorkspacePool, FiniteSetTheorems, WellFoundedInduction, TLAPS

-----------------------------------------------------------------------------
(* The inductive invariant. *)

Entering == sw.step \in {"comparing", "binding", "building"}
Failing == sw.step = "ending" /\ sw.mode = "failure"

\* How far the switch has got with the incoming and the outgoing graph.
SwitchOK ==
    /\ sw.step = "none" => sw = NoSwitch
    /\ sw.graph \in Graphs => sw.graph \notin pool /\ sw.graph # sw.prev
    /\ sw.prev \in pool => sw.step = "ending"
    /\ current \in pool => Failing
    /\ sw.mode = "failure" => sw.step \in {"printing", "ending"}
    /\ sw.step \in {"comparing", "binding"} => Ready(sw.graph)
    /\ sw.step = "building" => sw.graph = NoGraph
    /\ Entering => current = sw.prev
    /\ sw.step = "activating" => current = sw.graph /\ Ready(sw.graph)
    /\ sw.step = "undoing" =>
          current = sw.graph /\ sw.graph \in Graphs /\ graphs[sw.graph].state = "disposed"
    /\ sw.step = "printing" => Ready(sw.prev)
    /\ sw.step = "ending" /\ sw.prev \in Graphs =>
          sw.prev \in pool \/ graphs[sw.prev].state = "blank"
    /\ sw.step \in {"printing", "ending"} =>
          IF sw.mode = "failure" THEN sw.graph = NoGraph /\ current = sw.prev
          ELSE current = sw.graph /\ Ready(sw.graph)

\* What the server says, what the desktop was told and what is gone back to.
IdentityOK ==
    /\ identity.graph = current
    /\ Free /\ ~unread => told = identity
    /\ ~Free => /\ told = sw.back /\ sw.back.graph = sw.prev
                /\ current = sw.prev => identity = sw.back

\* A workspace that is served, or is to be gone back to.
Whole(g) ==
    /\ graphs[g].state \in {"ready", "failed"}
    /\ Ready(g) /\ ~unread => graphs[g].heard /\ graphs[g].ui

\* A workspace that has just been entered.
Served(g) == Registered(g) /\ graphs[g].heard /\ graphs[g].ui

ServedOK ==
    /\ Free /\ current \in Graphs => Whole(current) /\ (Ready(current) => Registered(current))
    /\ sw.prev \in Graphs /\ (Entering \/ sw.step \in {"activating", "undoing"}) =>
          Whole(sw.prev)
    /\ sw.step = "binding" => Registered(sw.graph)
    /\ sw.step = "activating" => Served(sw.graph)
    /\ sw.step \in {"printing", "ending"} /\ sw.mode # "failure" => Served(sw.graph)

\* A graph of the pool is ready, the only one of its directory there, and has
\* no providers registered unless it runs or settled unseen; so is what enters it.
PooledOK(g) == Ready(g) /\ (Registered(g) => graphs[g].busy \/ graphs[g].late)

PoolOK ==
    /\ \A g \in pool : PooledOK(g)
    /\ \A g, h \in pool : graphs[g].dir = graphs[h].dir => g = h
    /\ sw.step = "printing" => PooledOK(sw.prev)

\* One more graph can be retained: there is room, or an idle one to evict.
RoomForOne == Cardinality(pool) < MaxRetained \/ \E g \in pool : ~graphs[g].busy

RoomOK ==
    /\ Cardinality(pool) <= MaxRetained
    /\ Entering \/ sw.step = "activating" => ~WillRetain(sw.prev) \/ RoomForOne
    /\ sw.step = "printing" => RoomForOne

GraphOK(g) ==
    /\ graphs[g].state # "blank" => g \in pool \union {current, sw.graph, sw.prev}
    /\ Running(g) => Registered(g)

WpInv ==
    /\ WpTypeOK
    /\ SwitchOK
    /\ IdentityOK
    /\ ServedOK
    /\ PoolOK
    /\ RoomOK
    /\ \A g \in Graphs : GraphOK(g)

USE PoolAssumption

\* No switch, no graph: the invariant holds when the Host starts.
THEOREM WpInitInv == WpInit => WpInv
  <1> SUFFICES ASSUME WpInit PROVE WpInv
    OBVIOUS
  <1>1. \A g \in Graphs : graphs[g] = Blank
    BY DEF WpInit
  <1>2. WpTypeOK
    BY DEF WpInit, WpTypeOK, Blank, GraphType, Nobody, Identities, NoSwitch
  <1>3. IsFiniteSet(pool) /\ Cardinality(pool) = 0
    BY FS_EmptySet DEF WpInit
  <1>4. SwitchOK /\ IdentityOK /\ ServedOK
    BY DEF WpInit, SwitchOK, IdentityOK, ServedOK, NoSwitch, Nobody, Free, Entering, Failing
  <1>5. PoolOK /\ RoomOK
    BY <1>3 DEF WpInit, PoolOK, RoomOK, NoSwitch, Entering
  <1>6. \A g \in Graphs : GraphOK(g)
    BY <1>1 DEF GraphOK, Running, Ready, Blank
  <1> QED BY <1>2, <1>4, <1>5, <1>6 DEF WpInv

-----------------------------------------------------------------------------
(* What the changes of graphs are. *)

\* All but the registrations.
Alike(a, b) ==
    /\ a.state = b.state /\ a.dir = b.dir /\ a.busy = b.busy /\ a.bg = b.bg
    /\ a.heard = b.heard /\ a.ui = b.ui /\ a.fresh = b.fresh /\ a.at = b.at
    /\ a.late = b.late

AllGraphs == [Graphs -> GraphType]

\* Suspending parks one ready, idle graph and touches nothing else.
LEMMA SuspendShape ==
    ASSUME NEW G \in AllGraphs, NEW g \in Graphs \union {NoGraph}
    PROVE  /\ Suspend(G, g) \in AllGraphs
           /\ \A h \in Graphs :
                 /\ Alike(Suspend(G, g)[h], G[h])
                 /\ Suspend(G, g)[h].parked <=>
                       \/ G[h].parked
                       \/ h = g /\ G[h].state = "ready" /\ ~G[h].busy
                 /\ h # g \/ G[h].busy => Suspend(G, g)[h] = G[h]
  BY DEF Suspend, MaySuspend, AllGraphs, GraphType, Alike

\* Resuming puts one graph's registrations back and touches nothing else.
LEMMA ResumeShape ==
    ASSUME NEW G \in AllGraphs, NEW g \in Graphs \union {NoGraph}
    PROVE  /\ Resume(G, g) \in AllGraphs
           /\ \A h \in Graphs :
                 /\ Alike(Resume(G, g)[h], G[h])
                 /\ Resume(G, g)[h].parked <=> h # g /\ G[h].parked
                 /\ h # g => Resume(G, g)[h] = G[h]
  <1>1. CASE g = NoGraph
    BY <1>1 DEF Resume, Alike
  <1>2. CASE g \in Graphs
    <2> DEFINE r == [G[g] EXCEPT !.parked = FALSE]
    <2>1. r \in GraphType /\ Alike(r, G[g]) /\ r.parked = FALSE
      BY <1>2 DEF AllGraphs, GraphType, Alike
    <2>2. Resume(G, g) = [G EXCEPT ![g] = r]
      BY <1>2 DEF Resume
    <2> HIDE DEF r
    <2> QED BY <1>2, <2>1, <2>2 DEF AllGraphs, Alike
  <1> QED BY <1>1, <1>2

\* Disposing blanks the graphs given up and leaves the others.
LEMMA DisposeShape ==
    ASSUME NEW G \in AllGraphs, NEW gone
    PROVE  /\ Dispose(G, gone) \in AllGraphs
           /\ \A h \in gone \cap Graphs : Dispose(G, gone)[h] = Blank
           /\ \A h \in Graphs \ gone : Dispose(G, gone)[h] = G[h]
  BY DEF Dispose, AllGraphs, GraphType, Blank

\* The pool is a finite set of graphs.
LEMMA PoolFinite ==
    ASSUME WpTypeOK, NEW S \in SUBSET pool
    PROVE  /\ IsFiniteSet(pool) /\ IsFiniteSet(S)
           /\ Cardinality(pool) \in Nat /\ Cardinality(S) \in Nat
           /\ Cardinality(S) <= Cardinality(pool)
           /\ S # pool => Cardinality(S) < Cardinality(pool)
  <1>1. IsFiniteSet(pool) /\ Cardinality(pool) \in Nat
    BY FS_Subset, FS_CardinalityType DEF WpTypeOK
  <1>2. IsFiniteSet(S) /\ Cardinality(S) \in Nat /\ Cardinality(S) <= Cardinality(pool)
    BY <1>1, FS_Subset, FS_CardinalityType
  <1>3. ASSUME S # pool PROVE Cardinality(S) < Cardinality(pool)
    <2>1. PICK x \in pool : x \notin S
      BY <1>3
    <2>2. IsFiniteSet(pool \ {x}) /\ Cardinality(pool \ {x}) = Cardinality(pool) - 1
      BY <1>1, FS_RemoveElement
    <2>3. Cardinality(S) <= Cardinality(pool \ {x})
      BY <2>1, <2>2, FS_Subset
    <2> QED BY <1>1, <1>2, <2>2, <2>3
  <1> QED BY <1>1, <1>2, <1>3

\* A set of naturals has a least one.
LEMMA Least ==
    ASSUME NEW T, T \subseteq Nat, T # {}
    PROVE  \E x \in T : \A y \in T : x <= y
  <1>1. PICK x \in T : \A y \in T : ~(<<y, x>> \in OpToRel(<, Nat))
    BY NatLessThanWellFounded, WFMin
  <1>2. \A y \in T : ~(y < x)
    BY <1>1 DEF OpToRel
  <1> QED BY <1>2
\* The type invariant in the form the lemmas need.
LEMMA Shapes ==
    ASSUME WpTypeOK
    PROVE  /\ graphs \in AllGraphs /\ current \in Graphs \union {NoGraph}
           /\ sw.graph \in Graphs \union {NoGraph} /\ sw.prev \in Graphs \union {NoGraph}
           /\ NoGraph \notin Graphs /\ Rev \in Nat /\ sw.dir \in Dirs \union {NoDir}
           /\ sw.back \in Identities /\ pool \subseteq Graphs
           /\ \A g \in Graphs : graphs[g] \in GraphType
  BY DEF WpTypeOK, AllGraphs, Rev, Identities, GraphType

-----------------------------------------------------------------------------
(* A switch begins and reads the files of a retained graph. *)

\* The retained graph leaves the pool, or the outgoing one is parked for a build.
LEMMA SwitchBeginInv ==
    ASSUME WpInv, NEW dir \in Dirs, SwitchBegin(dir)
    PROVE  WpInv'
  <1> USE DEF WpInv
  <1>1. /\ sw = NoSwitch /\ sw.step = "none" /\ sw.graph = NoGraph /\ sw.prev = NoGraph
        /\ Free /\ told = identity /\ identity.graph = current
        /\ UNCHANGED <<current, identity, told, unread>>
    BY DEF SwitchBegin, Free, NoSwitch, IdentityOK
  <1>2. /\ sw'.prev = current /\ sw'.back = identity /\ sw'.dir = dir /\ sw'.mode = "built"
        /\ sw'.step = IF At(dir) = {} THEN "building" ELSE "comparing"
        /\ IF At(dir) = {} THEN sw'.graph = NoGraph ELSE sw'.graph \in At(dir)
        /\ At(dir) \subseteq pool /\ pool' = pool \ At(dir)
    BY DEF SwitchBegin, At
  <1>3. /\ graphs' \in AllGraphs
        /\ \A h \in Graphs : Alike(graphs'[h], graphs[h])
        /\ \A h \in Graphs : graphs[h].parked => graphs'[h].parked
        /\ \A h \in Graphs : h # current \/ graphs[h].busy => graphs'[h] = graphs[h]
    <2>1. graphs' = graphs \/ graphs' = Suspend(graphs, current)
      BY DEF SwitchBegin
    <2>2. graphs \in AllGraphs /\ current \in Graphs \union {NoGraph}
      BY Shapes
    <2>3. CASE graphs' = graphs
      BY <2>2, <2>3 DEF Alike
    <2>4. CASE graphs' = Suspend(graphs, current)
      BY <2>2, <2>4, SuspendShape
    <2> QED BY <2>1, <2>3, <2>4
  <1>4. WpTypeOK'
    BY <1>2, <1>3 DEF WpTypeOK, SwitchBegin, AllGraphs
  <1>5. SwitchOK'
    BY <1>1, <1>2, <1>3, Shapes
    DEF SwitchOK, Entering, Failing, WpTypeOK, PoolOK, PooledOK, Ready, Alike
  <1>6. IdentityOK'
    BY <1>1, <1>2 DEF IdentityOK, Free, NoSwitch
  <1>7. ServedOK'
    BY <1>1, <1>2, <1>3, Shapes
    DEF ServedOK, Whole, Served, Ready, Registered, Alike, Entering, Free, NoSwitch
  <1>8. PoolOK'
    BY <1>1, <1>2, <1>3, Shapes DEF PoolOK, PooledOK, Ready, Registered, Alike, WpTypeOK
  <1>9. RoomOK'
    <2>1. Cardinality(pool') <= MaxRetained /\ (At(dir) # {} => RoomForOne')
      BY <1>2, PoolFinite DEF RoomOK, RoomForOne
    <2>2. ASSUME At(dir) = {}, WillRetain(current)' PROVE RoomForOne'
      <3>1. WillRetain(current) /\ pool' = pool
        BY <1>1, <1>2, <1>3, <2>2 DEF WillRetain, Ready, Alike
      <3>2. RoomForOne
        BY <3>1, <2>2 DEF SwitchBegin, CanAccept, HasRoom, RoomForOne
      <3> QED BY <3>1, <3>2, <1>3 DEF RoomForOne, Alike, WpTypeOK
    <2> QED BY <2>1, <2>2, <1>1, <1>2 DEF RoomOK, Entering
  <1>10. \A g \in At(dir) : g = sw'.graph
    BY <1>2 DEF At, PoolOK
  <1>11. \A g \in Graphs : GraphOK(g)'
    BY <1>1, <1>2, <1>3, <1>10, Shapes DEF GraphOK, Running, Registered, Ready, Alike
  <1> QED BY <1>4, <1>5, <1>6, <1>7, <1>8, <1>9, <1>11

\* Graphs are given up and another one's registrations are put back.
LEMMA GiveBack ==
    ASSUME NEW G \in AllGraphs, NEW gone,
           NEW y \in Graphs \union {NoGraph}, y \notin gone,
           NEW R, R = Resume(Dispose(G, gone), y)
    PROVE  /\ R \in AllGraphs
           /\ \A h \in gone \cap Graphs : R[h] = Blank
           /\ \A h \in Graphs \ gone :
                 /\ Alike(R[h], G[h])
                 /\ R[h].parked <=> h # y /\ G[h].parked
                 /\ h # y => R[h] = G[h]
  <1> DEFINE D == Dispose(G, gone)
  <1>1. /\ D \in AllGraphs
        /\ \A h \in gone \cap Graphs : D[h] = Blank
        /\ \A h \in Graphs \ gone : D[h] = G[h]
    BY DisposeShape
  <1> HIDE DEF D
  <1>2. /\ Resume(D, y) \in AllGraphs
        /\ \A h \in Graphs :
              /\ Alike(Resume(D, y)[h], D[h])
              /\ Resume(D, y)[h].parked <=> h # y /\ D[h].parked
              /\ h # y => Resume(D, y)[h] = D[h]
    BY <1>1, ResumeShape
  <1>3. \A h \in gone \cap Graphs : Resume(D, y)[h] = D[h]
    BY <1>2
  <1> QED BY <1>1, <1>2, <1>3 DEF D

\* Graphs are given up and another one is parked.
LEMMA GiveUp ==
    ASSUME NEW G \in AllGraphs, NEW gone,
           NEW y \in Graphs \union {NoGraph}, y \notin gone,
           NEW R, R = Suspend(Dispose(G, gone), y)
    PROVE  /\ R \in AllGraphs
           /\ \A h \in gone \cap Graphs : R[h] = Blank
           /\ \A h \in Graphs \ gone :
                 /\ Alike(R[h], G[h])
                 /\ G[h].parked => R[h].parked
                 /\ h # y \/ G[h].busy => R[h] = G[h]
  <1> DEFINE D == Dispose(G, gone)
  <1>1. /\ D \in AllGraphs
        /\ \A h \in gone \cap Graphs : D[h] = Blank
        /\ \A h \in Graphs \ gone : D[h] = G[h]
    BY DisposeShape
  <1> HIDE DEF D
  <1>2. /\ Suspend(D, y) \in AllGraphs
        /\ \A h \in Graphs :
              /\ Alike(Suspend(D, y)[h], D[h])
              /\ D[h].parked => Suspend(D, y)[h].parked
              /\ h # y \/ D[h].busy => Suspend(D, y)[h] = D[h]
    BY <1>1, SuspendShape
  <1>3. \A h \in gone \cap Graphs : Suspend(D, y)[h] = D[h]
    BY <1>2
  <1> QED BY <1>1, <1>2, <1>3 DEF D

\* The retained graph is given up and the outgoing one resumed.
LEMMA CompareFailsInv ==
    ASSUME WpInv, CompareFails
    PROVE  WpInv'
  <1> USE DEF WpInv
  <1>1. /\ sw.graph \in Graphs /\ sw.graph \notin pool /\ sw.graph # sw.prev
        /\ current = sw.prev /\ identity = sw.back /\ told = sw.back
        /\ current \notin pool /\ ~Free
    BY Shapes DEF CompareFails, SwitchOK, IdentityOK, Entering, Free, NoSwitch, Ready, Failing
  <1>2. /\ sw' = NoSwitch /\ sw'.step = "none" /\ sw'.graph = NoGraph /\ sw'.prev = NoGraph
        /\ sw'.mode = "none" /\ Free'
        /\ UNCHANGED <<current, pool, identity, told, unread>>
    BY DEF CompareFails, Free, NoSwitch
  <1>3. /\ graphs' \in AllGraphs /\ graphs'[sw.graph] = Blank
        /\ \A h \in Graphs \ {sw.graph} :
              /\ Alike(graphs'[h], graphs[h])
              /\ graphs'[h].parked <=> h # current /\ graphs[h].parked
              /\ h # current => graphs'[h] = graphs[h]
    <2>1. graphs' = Resume(Dispose(graphs, {sw.graph}), current)
      BY DEF CompareFails
    <2>2. graphs \in AllGraphs /\ current \in Graphs \union {NoGraph}
      BY Shapes
    <2> DEFINE gone == {sw.graph}
    <2>3. current \notin gone
      BY <1>1
    <2>4. sw.graph \in gone \cap Graphs /\ Graphs \ {sw.graph} = Graphs \ gone
      BY <1>1
    <2>5. graphs' = Resume(Dispose(graphs, gone), current)
      BY <2>1
    <2> HIDE DEF gone
    <2> QED BY <2>2, <2>3, <2>4, <2>5, GiveBack
  <1>4. WpTypeOK'
    BY <1>2, <1>3 DEF WpTypeOK, AllGraphs, NoSwitch, Nobody, Identities
  <1>5. SwitchOK'
    BY <1>1, <1>2, Shapes DEF SwitchOK, Entering, Failing
  <1>6. IdentityOK'
    BY <1>1, <1>2 DEF IdentityOK
  <1>7. ServedOK'
    BY <1>1, <1>2, <1>3, Shapes
    DEF ServedOK, Whole, Served, Ready, Registered, Alike, Entering, CompareFails
  <1>8. PoolOK'
    BY <1>1, <1>2, <1>3, Shapes DEF PoolOK, PooledOK, Ready, Registered, WpTypeOK
  <1>9. RoomOK'
    BY <1>2 DEF RoomOK, Entering
  <1>10. \A g \in Graphs : GraphOK(g)'
    BY <1>1, <1>2, <1>3, Shapes DEF GraphOK, Running, Registered, Ready, Alike, Blank
  <1> QED BY <1>4, <1>5, <1>6, <1>7, <1>8, <1>9, <1>10

\* A reactivation that came to nothing leaves the switch as one that builds.
LEMMA RebuildInv ==
    ASSUME WpInv, Rebuild, sw.step \in {"comparing", "binding", "activating"},
           current' = sw.prev, identity' = sw.back, UNCHANGED <<pool, told, unread>>
    PROVE  WpInv'
  <1> USE DEF WpInv
  <1>1. /\ sw.graph \in Graphs /\ sw.graph \notin pool /\ sw.graph # sw.prev
        /\ told = sw.back /\ sw.back.graph = sw.prev /\ sw.prev \notin pool
        /\ current \in {sw.prev, sw.graph}
    BY Shapes DEF SwitchOK, IdentityOK, Entering, Free, NoSwitch, Ready
  <1>2. /\ sw'.step = "building" /\ sw'.graph = NoGraph /\ sw'.prev = sw.prev
        /\ sw'.mode = "built" /\ sw'.back = sw.back /\ sw'.dir = sw.dir
    BY DEF Rebuild, WpTypeOK
  <1>3. /\ graphs' \in AllGraphs /\ graphs'[sw.graph] = Blank
        /\ \A h \in Graphs \ {sw.graph} :
              /\ Alike(graphs'[h], graphs[h])
              /\ graphs[h].parked => graphs'[h].parked
              /\ h # sw.prev \/ graphs[h].busy => graphs'[h] = graphs[h]
    <2>1. graphs' = Suspend(Dispose(graphs, {sw.graph}), sw.prev)
      BY DEF Rebuild
    <2>2. graphs \in AllGraphs /\ sw.prev \in Graphs \union {NoGraph}
      BY Shapes
    <2> DEFINE gone == {sw.graph}
    <2>3. sw.prev \notin gone
      BY <1>1
    <2>4. sw.graph \in gone \cap Graphs /\ Graphs \ {sw.graph} = Graphs \ gone
      BY <1>1
    <2>5. graphs' = Suspend(Dispose(graphs, gone), sw.prev)
      BY <2>1
    <2> HIDE DEF gone
    <2> QED BY <2>2, <2>3, <2>4, <2>5, GiveUp
  <1>4. WpTypeOK'
    BY <1>2, <1>3, Shapes DEF WpTypeOK, AllGraphs, Rebuild
  <1>5. SwitchOK'
    BY <1>1, <1>2, Shapes DEF SwitchOK, Entering, Failing
  <1>6. IdentityOK'
    BY <1>1, <1>2 DEF IdentityOK, Free, NoSwitch
  <1>7. ServedOK'
    BY <1>1, <1>2, <1>3, Shapes
    DEF ServedOK, Whole, Served, Ready, Registered, Alike, Entering, Free, NoSwitch
  <1>8. PoolOK'
    BY <1>1, <1>2, <1>3, Shapes DEF PoolOK, PooledOK, Ready, Registered, WpTypeOK
  <1>9. RoomOK'
    BY <1>1, <1>2, <1>3 DEF RoomOK, RoomForOne, WillRetain, Ready, Alike, Entering, WpTypeOK
  <1>10. \A g \in Graphs : GraphOK(g)'
    BY <1>1, <1>2, <1>3, Shapes DEF GraphOK, Running, Registered, Ready, Alike, Blank
  <1> QED BY <1>4, <1>5, <1>6, <1>7, <1>8, <1>9, <1>10

\* Its files changed while it was retained.
LEMMA CompareRejectsInv ==
    ASSUME WpInv, CompareRejects
    PROVE  WpInv'
  <1>1. current = sw.prev /\ identity = sw.back
    BY DEF WpInv, CompareRejects, SwitchOK, IdentityOK, Entering, Free, NoSwitch
  <1> QED BY <1>1, RebuildInv DEF CompareRejects

\* Its sessions cannot be subscribed to again.
LEMMA BindFailsInv ==
    ASSUME WpInv, BindFails
    PROVE  WpInv'
  <1>1. current = sw.prev /\ identity = sw.back
    BY DEF WpInv, BindFails, SwitchOK, IdentityOK, Entering, Free, NoSwitch
  <1> QED BY <1>1, RebuildInv DEF BindFails

\* Its Extension UI cannot be activated: identity and graph go back.
LEMMA ReactivateFailsInv ==
    ASSUME WpInv, ReactivateFails
    PROVE  WpInv'
  BY RebuildInv DEF ReactivateFails

\* The outgoing owner is parked, then the incoming one registers.
LEMMA CompareKeepsInv ==
    ASSUME WpInv, CompareKeeps
    PROVE  WpInv'
  <1> USE DEF WpInv
  <1>1. /\ sw.graph \in Graphs /\ sw.graph \notin pool /\ sw.graph # sw.prev
        /\ current = sw.prev /\ identity = sw.back /\ told = sw.back /\ sw.back.graph = sw.prev
        /\ sw.prev \notin pool /\ sw.step = "comparing" /\ ~Free
    BY Shapes DEF CompareKeeps, SwitchOK, IdentityOK, Entering, Free, NoSwitch, Ready, Failing
  <1>2. /\ sw'.step = "binding" /\ sw'.graph = sw.graph /\ sw'.prev = sw.prev
        /\ sw'.mode = "reactivated" /\ sw'.back = sw.back /\ sw'.dir = sw.dir
        /\ UNCHANGED <<current, pool, identity, told, unread>>
    BY DEF CompareKeeps, WpTypeOK
  <1>3. /\ graphs' \in AllGraphs
        /\ \A h \in Graphs : Alike(graphs'[h], graphs[h])
        /\ \A h \in Graphs \ {sw.graph} : graphs[h].parked => graphs'[h].parked
        /\ \A h \in Graphs \ {sw.graph} :
              h # sw.prev \/ graphs[h].busy => graphs'[h] = graphs[h]
        /\ ~graphs'[sw.graph].parked
    <2> DEFINE G == Suspend(graphs, sw.prev)
    <2>1. graphs' = Resume(G, sw.graph)
      BY DEF CompareKeeps
    <2>2. /\ G \in AllGraphs
          /\ \A h \in Graphs :
                /\ Alike(G[h], graphs[h])
                /\ graphs[h].parked => G[h].parked
                /\ h # sw.prev \/ graphs[h].busy => G[h] = graphs[h]
      BY Shapes, SuspendShape
    <2> HIDE DEF G
    <2>3. /\ graphs' \in AllGraphs
          /\ \A h \in Graphs :
                /\ Alike(graphs'[h], G[h])
                /\ graphs'[h].parked <=> h # sw.graph /\ G[h].parked
                /\ h # sw.graph => graphs'[h] = G[h]
      BY <1>1, <2>1, <2>2, ResumeShape
    <2> QED BY <1>1, <2>2, <2>3 DEF Alike
  <1>4. WpTypeOK'
    BY <1>2, <1>3, Shapes DEF WpTypeOK, AllGraphs, CompareKeeps
  <1>5. SwitchOK'
    BY <1>1, <1>2, <1>3, Shapes DEF SwitchOK, Entering, Failing, Ready, Alike
  <1>6. IdentityOK'
    BY <1>1, <1>2 DEF IdentityOK, Free, NoSwitch
  <1>7. ServedOK'
    BY <1>1, <1>2, <1>3, Shapes
    DEF ServedOK, SwitchOK, Whole, Served, Ready, Registered, Alike, Entering, Free, NoSwitch
  <1>8. PoolOK'
    BY <1>1, <1>2, <1>3, Shapes DEF PoolOK, PooledOK, Ready, Registered, Alike
  <1>9. RoomOK'
    BY <1>1, <1>2, <1>3, Shapes DEF RoomOK, RoomForOne, WillRetain, Ready, Alike, Entering
  <1>10. \A g \in Graphs : GraphOK(g)'
    BY <1>1, <1>2, <1>3, Shapes DEF GraphOK, Running, Registered, Ready, Alike
  <1> QED BY <1>4, <1>5, <1>6, <1>7, <1>8, <1>9, <1>10

\* The retained graph takes over from the outgoing one.
LEMMA BindOkInv ==
    ASSUME WpInv, BindOk
    PROVE  WpInv'
  <1> USE DEF WpInv
  <1>1. /\ sw.graph \in Graphs /\ sw.graph \notin pool /\ sw.graph # sw.prev
        /\ current = sw.prev /\ identity = sw.back /\ told = sw.back /\ sw.back.graph = sw.prev
        /\ sw.prev \notin pool /\ sw.step = "binding" /\ ~Free
        /\ Registered(sw.graph)
    BY Shapes
    DEF BindOk, SwitchOK, ServedOK, IdentityOK, Entering, Free, NoSwitch, Ready, Failing
  <1>2. /\ sw'.step = "activating" /\ sw'.graph = sw.graph /\ sw'.prev = sw.prev
        /\ sw'.mode = sw.mode /\ sw'.back = sw.back /\ sw'.dir = sw.dir
        /\ current' = sw.graph /\ identity' = [graph |-> sw.graph, rev |-> Rev]
        /\ UNCHANGED <<pool, told, unread>>
    BY DEF BindOk, Install, WpTypeOK
  <1>3. /\ graphs' \in AllGraphs
        /\ \A h \in Graphs \ {sw.graph} : graphs'[h] = graphs[h]
        /\ graphs'[sw.graph].heard /\ graphs'[sw.graph].ui
        /\ graphs'[sw.graph].state = graphs[sw.graph].state
        /\ graphs'[sw.graph].parked = graphs[sw.graph].parked
    <2> DEFINE r == [graphs[sw.graph] EXCEPT !.heard = TRUE, !.ui = TRUE]
    <2>1. /\ r \in GraphType /\ r.heard /\ r.ui
          /\ r.state = graphs[sw.graph].state /\ r.parked = graphs[sw.graph].parked
      BY <1>1, Shapes DEF GraphType
    <2>2. graphs' = [graphs EXCEPT ![sw.graph] = r]
      BY <1>1, Shapes DEF BindOk, AllGraphs, GraphType
    <2> HIDE DEF r
    <2> QED BY <1>1, <2>1, <2>2, Shapes DEF AllGraphs
  <1>4. WpTypeOK'
    <2>1. identity' \in Identities /\ told' \in Identities
      BY <1>1, <1>2, Shapes DEF Identities, WpTypeOK
    <2>2. sw' = [sw EXCEPT !.step = "activating", !.graph = sw.graph]
      BY DEF BindOk, Install
    <2> QED BY <1>1, <1>2, <1>3, <2>1, <2>2, Shapes DEF WpTypeOK, AllGraphs
  <1>5. SwitchOK'
    BY <1>1, <1>2, <1>3, Shapes DEF SwitchOK, Entering, Failing, Ready, Registered
  <1>6. IdentityOK'
    BY <1>1, <1>2 DEF IdentityOK, Free, NoSwitch
  <1>7. ServedOK'
    BY <1>1, <1>2, <1>3, Shapes
    DEF ServedOK, Whole, Served, Ready, Registered, Entering, Free, NoSwitch
  <1>8. PoolOK'
    BY <1>1, <1>2, <1>3, Shapes DEF PoolOK, PooledOK, Ready, Registered
  <1>9. RoomOK'
    BY <1>1, <1>2, <1>3, Shapes DEF RoomOK, RoomForOne, WillRetain, Ready, Entering
  <1>10. \A g \in Graphs : GraphOK(g)'
    BY <1>1, <1>2, <1>3, Shapes DEF GraphOK, Running, Registered, Ready
  <1> QED BY <1>4, <1>5, <1>6, <1>7, <1>8, <1>9, <1>10

\* A new graph takes over from the outgoing one.
LEMMA BuildOkInv ==
    ASSUME WpInv, NEW g \in Graphs, BuildOk(g)
    PROVE  WpInv'
  <1> USE DEF WpInv
  <1>1. /\ graphs[g].state = "blank" /\ g \notin pool /\ g # sw.prev
        /\ current = sw.prev /\ identity = sw.back /\ told = sw.back /\ sw.back.graph = sw.prev
        /\ sw.prev \notin pool /\ sw.step = "building" /\ ~Free /\ sw.graph = NoGraph
    BY Shapes DEF BuildOk, SwitchOK, ServedOK, PoolOK, PooledOK, Whole, IdentityOK, Entering,
                  Free, NoSwitch, Ready, Failing
  <1>2. /\ sw'.step = "activating" /\ sw'.graph = g /\ sw'.prev = sw.prev
        /\ sw'.mode = sw.mode /\ sw'.back = sw.back /\ sw'.dir = sw.dir
        /\ current' = g /\ identity' = [graph |-> g, rev |-> Rev]
        /\ UNCHANGED <<pool, told, unread>>
    BY DEF BuildOk, Install, WpTypeOK
  <1>3. /\ graphs' \in AllGraphs
        /\ \A h \in Graphs \ {g} : graphs'[h] = graphs[h]
        /\ graphs'[g].heard /\ graphs'[g].ui /\ graphs'[g].state = "ready"
        /\ ~graphs'[g].parked /\ ~graphs'[g].busy
    BY <1>1, Shapes DEF BuildOk, AllGraphs, GraphType, Blank
  <1>4. WpTypeOK'
    <2>1. identity' \in Identities /\ told' \in Identities
      BY <1>1, <1>2, Shapes DEF Identities, WpTypeOK
    <2>2. sw' = [sw EXCEPT !.step = "activating", !.graph = g]
      BY DEF BuildOk, Install
    <2> QED BY <1>1, <1>2, <1>3, <2>1, <2>2, Shapes DEF WpTypeOK, AllGraphs
  <1>5. SwitchOK'
    BY <1>1, <1>2, <1>3, Shapes DEF SwitchOK, Entering, Failing, Ready
  <1>6. IdentityOK'
    BY <1>1, <1>2 DEF IdentityOK, Free, NoSwitch
  <1>7. ServedOK'
    BY <1>1, <1>2, <1>3, Shapes
    DEF ServedOK, Whole, Served, Ready, Registered, Entering, Free, NoSwitch
  <1>8. PoolOK'
    BY <1>1, <1>2, <1>3, Shapes DEF PoolOK, PooledOK, Ready, Registered
  <1>9. RoomOK'
    BY <1>1, <1>2, <1>3, Shapes DEF RoomOK, RoomForOne, WillRetain, Ready, Entering
  <1>10. \A h \in Graphs : GraphOK(h)'
    BY <1>1, <1>2, <1>3, Shapes DEF GraphOK, Running, Registered, Ready
  <1> QED BY <1>4, <1>5, <1>6, <1>7, <1>8, <1>9, <1>10

-----------------------------------------------------------------------------
(* The outgoing graph is left. *)

\* A graph that is left stays ready, and is parked unless it runs.
LEMMA LeftShape ==
    ASSUME WpTypeOK, NEW g \in Graphs, graphs[g].state = "ready"
    PROVE  LET r == Left(graphs[g])
           IN  /\ r \in GraphType /\ r.state = "ready" /\ r.dir = graphs[g].dir
               /\ r.busy = graphs[g].busy
               /\ r.parked <=> graphs[g].parked \/ ~graphs[g].busy
  <1> DEFINE graph == graphs[g]
             heard == graph.heard /\ graph.busy
             parked == graph.parked \/ MaySuspend(graph)
             r == [graph EXCEPT !.heard = heard, !.ui = FALSE, !.parked = parked,
                                !.at = Rev, !.late = FALSE]
  <1>1. graph \in GraphType /\ Rev \in Nat /\ graph.state = "ready"
    BY Shapes
  <1>2. graph.heard \in BOOLEAN /\ graph.busy \in BOOLEAN /\ graph.parked \in BOOLEAN
    BY <1>1 DEF GraphType
  <1>3. /\ heard \in BOOLEAN /\ parked \in BOOLEAN
        /\ parked <=> graph.parked \/ ~graph.busy
    BY <1>1, <1>2 DEF MaySuspend
  <1>4. Left(graph) = r
    BY <1>1 DEF Left, GraphType
  <1> HIDE DEF graph, heard, parked
  <1>5. /\ r \in GraphType /\ r.state = "ready" /\ r.dir = graph.dir
        /\ r.busy = graph.busy /\ r.parked = parked
    BY <1>1, <1>3 DEF GraphType
  <1> QED BY <1>3, <1>4, <1>5 DEF graph

\* The outgoing graph is detached, or disposed of when it is not to be kept.
LEMMA LeaveInv ==
    ASSUME WpInv, NEW mode, Leave(mode), UNCHANGED <<current, pool, identity, told, unread>>,
           \/ mode = "failure" /\ sw.step = "building"
           \/ mode = sw.mode /\ sw.step = "activating"
    PROVE  WpInv'
  <1> USE DEF WpInv
  <1>1. /\ told = sw.back /\ sw.back.graph = sw.prev /\ sw.prev \notin pool
        /\ ~Free /\ current = sw.prev => identity = sw.back
        /\ IF mode = "failure" THEN sw.graph = NoGraph /\ current = sw.prev
           ELSE current = sw.graph /\ Ready(sw.graph) /\ Served(sw.graph)
        /\ current \notin pool
    BY Shapes DEF SwitchOK, ServedOK, IdentityOK, Entering, Free, NoSwitch, Failing
  <1>2. /\ sw'.step = IF sw.prev # NoGraph /\ WillRetain(sw.prev) THEN "printing" ELSE "ending"
        /\ sw'.graph = sw.graph /\ sw'.prev = sw.prev
        /\ sw'.mode = mode /\ sw'.back = sw.back /\ sw'.dir = sw.dir
    BY DEF Leave, WpTypeOK
  <1>3. sw.graph \in Graphs => sw.graph \notin pool /\ sw.graph # sw.prev
    BY DEF SwitchOK
  <1>4. CASE WillRetain(sw.prev)
    <2>1. sw.prev \in Graphs /\ sw'.step = "printing" /\ Ready(sw.prev)
      BY <1>2, <1>4 DEF WillRetain, Ready
    <2>2. /\ graphs' \in AllGraphs
          /\ \A h \in Graphs \ {sw.prev} : graphs'[h] = graphs[h]
          /\ graphs'[sw.prev].state = "ready" /\ graphs'[sw.prev].dir = graphs[sw.prev].dir
          /\ graphs'[sw.prev].busy = graphs[sw.prev].busy
          /\ graphs'[sw.prev].parked <=> graphs[sw.prev].parked \/ ~graphs[sw.prev].busy
      <3> DEFINE r == Left(graphs[sw.prev])
      <3>1. /\ r \in GraphType /\ r.state = "ready" /\ r.dir = graphs[sw.prev].dir
            /\ r.busy = graphs[sw.prev].busy
            /\ r.parked <=> graphs[sw.prev].parked \/ ~graphs[sw.prev].busy
        BY <2>1, LeftShape DEF Ready
      <3>2. graphs' = [graphs EXCEPT ![sw.prev] = r]
        BY <1>4, <2>1 DEF Leave
      <3> HIDE DEF r
      <3> QED BY <2>1, <3>1, <3>2, Shapes DEF AllGraphs
    <2>3. WpTypeOK'
      BY <1>2, <2>2, Shapes DEF WpTypeOK, AllGraphs, Leave
    <2>4. SwitchOK'
      BY <1>1, <1>2, <1>3, <2>1, <2>2, Shapes DEF SwitchOK, Entering, Failing, Ready
    <2>5. IdentityOK'
      BY <1>1, <1>2, <2>1 DEF IdentityOK, Free, NoSwitch
    <2>6. ServedOK'
      BY <1>1, <1>2, <1>3, <2>1, <2>2, Shapes
      DEF ServedOK, Served, Ready, Registered, Entering, Free, NoSwitch
    <2>7. PoolOK'
      BY <1>1, <1>2, <2>1, <2>2, Shapes DEF PoolOK, PooledOK, Ready, Registered
    <2>8. RoomOK'
      BY <1>1, <1>2, <1>4, <2>1, <2>2, Shapes DEF RoomOK, RoomForOne, Entering
    <2>9. \A g \in Graphs : GraphOK(g)'
      BY <1>2, <2>1, <2>2, Shapes DEF GraphOK, Running, Registered, Ready
    <2> QED BY <2>3, <2>4, <2>5, <2>6, <2>7, <2>8, <2>9
  <1>5. CASE ~WillRetain(sw.prev)
    <2>1. sw'.step = "ending"
      BY <1>2, <1>5
    <2>2. /\ graphs' \in AllGraphs
          /\ sw.prev \in Graphs => graphs'[sw.prev] = Blank
          /\ \A h \in Graphs \ {sw.prev} : graphs'[h] = graphs[h]
      <3> DEFINE gone == {sw.prev}
      <3>1. graphs' = Dispose(graphs, gone)
        BY <1>5 DEF Leave
      <3>2. sw.prev \in gone /\ Graphs \ {sw.prev} = Graphs \ gone
        OBVIOUS
      <3> HIDE DEF gone
      <3> QED BY <3>1, <3>2, Shapes, DisposeShape
    <2>3. WpTypeOK'
      BY <1>2, <2>2, Shapes DEF WpTypeOK, AllGraphs, Leave
    <2>4. SwitchOK'
      BY <1>1, <1>2, <1>3, <2>1, <2>2, Shapes DEF SwitchOK, Entering, Failing, Ready, Blank
    <2>5. IdentityOK'
      BY <1>1, <1>2, <2>1 DEF IdentityOK, Free, NoSwitch
    <2>6. ServedOK'
      BY <1>1, <1>2, <1>3, <2>1, <2>2, Shapes
      DEF ServedOK, Served, Ready, Registered, Entering, Free, NoSwitch
    <2>7. PoolOK'
      BY <1>1, <1>2, <2>1, <2>2, Shapes DEF PoolOK, PooledOK, Ready, Registered
    <2>8. RoomOK'
      BY <1>1, <1>2, <2>1 DEF RoomOK, Entering
    <2>9. \A g \in Graphs : GraphOK(g)'
      BY <1>2, <2>1, <2>2, Shapes DEF GraphOK, Running, Registered, Ready, Blank
    <2> QED BY <2>3, <2>4, <2>5, <2>6, <2>7, <2>8, <2>9
  <1> QED BY <1>4, <1>5

\* The outgoing graph is left for a workspace without services.
LEMMA BuildFailsInv ==
    ASSUME WpInv, BuildFails
    PROVE  WpInv'
  BY LeaveInv DEF BuildFails

\* The outgoing graph is left for the new one.
LEMMA ActivateOkInv ==
    ASSUME WpInv, ActivateOk
    PROVE  WpInv'
  BY LeaveInv DEF ActivateOk

\* The new graph is disposed of while it is still current.
LEMMA ActivateFailsInv ==
    ASSUME WpInv, ActivateFails
    PROVE  WpInv'
  <1> USE DEF WpInv
  <1>1. /\ sw.graph \in Graphs /\ sw.graph \notin pool /\ sw.graph # sw.prev
        /\ current = sw.graph /\ told = sw.back /\ sw.back.graph = sw.prev
        /\ sw.prev \notin pool /\ sw.step = "activating" /\ sw.mode = "built"
    BY Shapes DEF ActivateFails, SwitchOK, IdentityOK, Free, NoSwitch, Ready
  <1>2. /\ sw'.step = "undoing" /\ sw'.graph = sw.graph /\ sw'.prev = sw.prev
        /\ sw'.mode = "built" /\ sw'.back = sw.back /\ sw'.dir = sw.dir
        /\ UNCHANGED <<current, pool, identity, told, unread>>
    BY <1>1 DEF ActivateFails, WpTypeOK
  <1>3. /\ graphs' \in AllGraphs
        /\ \A h \in Graphs \ {sw.graph} : graphs'[h] = graphs[h]
        /\ graphs'[sw.graph].state = "disposed"
    <2> DEFINE r == [Blank EXCEPT !.state = "disposed"]
    <2>1. r \in GraphType /\ r.state = "disposed"
      BY DEF Blank, GraphType
    <2>2. graphs' = [graphs EXCEPT ![sw.graph] = r]
      BY DEF ActivateFails
    <2> HIDE DEF r
    <2> QED BY <1>1, <2>1, <2>2, Shapes DEF AllGraphs
  <1>4. WpTypeOK'
    BY <1>1, <1>2, <1>3, Shapes DEF WpTypeOK, AllGraphs, ActivateFails
  <1>5. SwitchOK'
    BY <1>1, <1>2, <1>3, Shapes DEF SwitchOK, Entering, Failing
  <1>6. IdentityOK'
    BY <1>1, <1>2 DEF IdentityOK, Free, NoSwitch
  <1>7. ServedOK'
    BY <1>1, <1>2, <1>3, Shapes DEF ServedOK, Whole, Ready, Entering, Free, NoSwitch
  <1>8. PoolOK'
    BY <1>1, <1>2, <1>3, Shapes DEF PoolOK, PooledOK, Ready, Registered
  <1>9. RoomOK'
    BY <1>1, <1>2, <1>3, Shapes DEF RoomOK, Entering
  <1>10. \A g \in Graphs : GraphOK(g)'
    BY <1>1, <1>2, <1>3, Shapes DEF GraphOK, Running, Registered, Ready
  <1> QED BY <1>4, <1>5, <1>6, <1>7, <1>8, <1>9, <1>10

\* The outgoing graph is current again and has its registrations.
LEMMA UndoDoneInv ==
    ASSUME WpInv, UndoDone
    PROVE  WpInv'
  <1> USE DEF WpInv
  <1>1. /\ sw.graph \in Graphs /\ sw.graph \notin pool /\ sw.graph # sw.prev
        /\ sw.prev \in Graphs /\ current = sw.graph
        /\ told = sw.back /\ sw.back.graph = sw.prev /\ sw.prev \notin pool
        /\ Whole(sw.prev)
    BY Shapes DEF UndoDone, SwitchOK, ServedOK, IdentityOK, Free, NoSwitch
  <1>2. /\ sw' = NoSwitch /\ sw'.step = "none" /\ sw'.graph = NoGraph /\ sw'.prev = NoGraph
        /\ sw'.mode = "none" /\ Free' /\ current' = sw.prev /\ identity' = sw.back
        /\ UNCHANGED <<pool, told, unread>>
    BY DEF UndoDone, Free, NoSwitch
  <1>3. /\ graphs' \in AllGraphs /\ graphs'[sw.graph] = Blank
        /\ \A h \in Graphs \ {sw.graph} :
              /\ Alike(graphs'[h], graphs[h])
              /\ graphs'[h].parked <=> h # sw.prev /\ graphs[h].parked
              /\ h # sw.prev => graphs'[h] = graphs[h]
    <2> DEFINE gone == {sw.graph}
    <2>1. graphs' = Resume(Dispose(graphs, gone), sw.prev)
      BY DEF UndoDone
    <2>2. graphs \in AllGraphs /\ sw.prev \in Graphs \union {NoGraph} /\ sw.prev \notin gone
      BY <1>1, Shapes
    <2>3. sw.graph \in gone \cap Graphs /\ Graphs \ {sw.graph} = Graphs \ gone
      BY <1>1
    <2> HIDE DEF gone
    <2> QED BY <2>1, <2>2, <2>3, GiveBack
  <1>4. WpTypeOK'
    BY <1>1, <1>2, <1>3, Shapes DEF WpTypeOK, AllGraphs, NoSwitch, Nobody, Identities
  <1>5. SwitchOK'
    BY <1>1, <1>2, Shapes DEF SwitchOK, Entering, Failing
  <1>6. IdentityOK'
    BY <1>1, <1>2 DEF IdentityOK
  <1>7. ServedOK'
    BY <1>1, <1>2, <1>3, Shapes DEF ServedOK, Whole, Ready, Registered, Alike, Entering
  <1>8. PoolOK'
    BY <1>1, <1>2, <1>3, Shapes DEF PoolOK, PooledOK, Ready, Registered
  <1>9. RoomOK'
    BY <1>2 DEF RoomOK, Entering
  <1>10. \A g \in Graphs : GraphOK(g)'
    BY <1>1, <1>2, <1>3, Shapes DEF GraphOK, Running, Registered, Ready, Alike, Blank
  <1> QED BY <1>4, <1>5, <1>6, <1>7, <1>8, <1>9, <1>10

\* The switch breaks off: the outgoing graph is resumed or disposed of.
LEMMA PrintFailsInv ==
    ASSUME WpInv, PrintFails
    PROVE  WpInv'
  <1> USE DEF WpInv
  <1>1. /\ sw.step = "printing" /\ ~Free /\ Ready(sw.prev) /\ sw.prev \in Graphs
        /\ sw.prev \notin pool /\ current \notin pool /\ identity.graph = current
        /\ sw.graph \in Graphs => sw.graph \notin pool /\ sw.graph # sw.prev
        /\ IF sw.mode = "failure" THEN sw.graph = NoGraph /\ current = sw.prev
           ELSE current = sw.graph /\ Ready(sw.graph) /\ Served(sw.graph)
    BY Shapes DEF PrintFails, SwitchOK, ServedOK, IdentityOK, Free, NoSwitch, Ready, Failing
  <1>2. /\ sw' = NoSwitch /\ sw'.step = "none" /\ sw'.graph = NoGraph /\ sw'.prev = NoGraph
        /\ sw'.mode = "none" /\ Free' /\ unread' = TRUE
        /\ UNCHANGED <<current, pool, identity, told>>
    BY DEF PrintFails, Free, NoSwitch
  <1>3. /\ graphs' \in AllGraphs
        /\ \A h \in Graphs \ {sw.prev} : graphs'[h] = graphs[h]
        /\ current = sw.prev =>
              Alike(graphs'[current], graphs[current]) /\ ~graphs'[current].parked
        /\ current # sw.prev => graphs'[sw.prev] = Blank
    <2>1. CASE current = sw.prev
      <3>1. graphs' = Resume(graphs, sw.prev)
        BY <2>1 DEF PrintFails
      <3> QED BY <1>1, <2>1, <3>1, Shapes, ResumeShape
    <2>2. CASE current # sw.prev
      <3> DEFINE gone == {sw.prev}
      <3>1. graphs' = Dispose(graphs, gone)
        BY <2>2 DEF PrintFails
      <3>2. sw.prev \in gone \cap Graphs /\ Graphs \ {sw.prev} = Graphs \ gone
        BY <1>1
      <3> HIDE DEF gone
      <3> QED BY <2>2, <3>1, <3>2, Shapes, DisposeShape
    <2> QED BY <2>1, <2>2
  <1>4. WpTypeOK'
    BY <1>2, <1>3, Shapes DEF WpTypeOK, AllGraphs, NoSwitch, Nobody, Identities
  <1>5. SwitchOK'
    BY <1>1, <1>2, Shapes DEF SwitchOK, Entering, Failing
  <1>6. IdentityOK'
    BY <1>1, <1>2 DEF IdentityOK
  <1>7. ServedOK'
    BY <1>1, <1>2, <1>3, Shapes
    DEF ServedOK, Whole, Served, Ready, Registered, Alike, Entering
  <1>8. PoolOK'
    BY <1>1, <1>2, <1>3, Shapes DEF PoolOK, PooledOK, Ready, Registered
  <1>9. RoomOK'
    BY <1>2 DEF RoomOK, Entering
  <1>10. \A g \in Graphs : GraphOK(g)'
    BY <1>1, <1>2, <1>3, Shapes DEF GraphOK, Running, Registered, Ready, Alike, Blank
  <1> QED BY <1>4, <1>5, <1>6, <1>7, <1>8, <1>9, <1>10

\* When the pool was full, what is kept with the outgoing graph is one too many,
\* and then an idle one of them can go.
LEMMA EvictionMakesRoom ==
    ASSUME WpTypeOK, RoomForOne, Cardinality(pool) <= MaxRetained,
           NEW x \in Graphs, x \notin pool, NEW same \in SUBSET pool,
           Cardinality((pool \ same) \union {x}) > MaxRetained
    PROVE  /\ same = {}
           /\ Evictable((pool \ same) \union {x}) # {}
           /\ Cardinality((pool \ same) \union {x}) = MaxRetained + 1
  <1> DEFINE rest == pool \ same
             kept == rest \union {x}
  <1>1. /\ IsFiniteSet(pool) /\ IsFiniteSet(rest) /\ Cardinality(rest) \in Nat
        /\ Cardinality(pool) \in Nat /\ Cardinality(rest) <= Cardinality(pool)
        /\ rest # pool => Cardinality(rest) < Cardinality(pool)
    BY PoolFinite
  <1>2. IsFiniteSet(kept) /\ Cardinality(kept) = Cardinality(rest) + 1
    BY <1>1, FS_AddElement
  <1>3. Cardinality(pool) = MaxRetained /\ rest = pool
    BY <1>1, <1>2
  <1>4. PICK y \in pool : ~graphs[y].busy
    BY <1>3 DEF RoomForOne
  <1> DEFINE idle == {g \in kept : ~graphs[g].busy}
             T == {graphs[g].at : g \in idle}
  <1>5. T \subseteq Nat /\ T # {}
    <2>1. y \in idle
      BY <1>3, <1>4
    <2>2. \A g \in idle : graphs[g].at \in Nat
      BY Shapes DEF GraphType
    <2> QED BY <2>1, <2>2
  <1>6. PICK least \in T : \A t \in T : least <= t
    BY <1>5, Least
  <1>7. PICK z \in idle : graphs[z].at = least
    BY <1>6
  <1>8. z \in Evictable(kept)
    BY <1>6, <1>7 DEF Evictable
  <1>9. same = {}
    BY <1>3
  <1> QED BY <1>2, <1>3, <1>8, <1>9

\* The outgoing graph is retained, others make room for it.
LEMMA PrintOkInv ==
    ASSUME WpInv, PrintOk
    PROVE  WpInv'
  <1> USE DEF WpInv
  <1> DEFINE x == sw.prev
             same == At(graphs[x].dir)
             kept == (pool \ same) \union {x}
             evicted == IF Cardinality(kept) > MaxRetained THEN Evictable(kept) ELSE {}
             gone == same \union evicted
             r == [graphs[x] EXCEPT !.fresh = TRUE]
             G == [graphs EXCEPT ![x] = r]
  <1>1. /\ sw.step = "printing" /\ ~Free /\ x \in Graphs /\ x \notin pool
        /\ Ready(x) /\ PooledOK(x)
        /\ current \notin pool /\ told = sw.back /\ sw.back.graph = x
        /\ RoomForOne /\ Cardinality(pool) <= MaxRetained
        /\ sw.graph \in Graphs => sw.graph \notin pool /\ sw.graph # x
        /\ IF sw.mode = "failure" THEN sw.graph = NoGraph /\ current = x
           ELSE current = sw.graph /\ Ready(sw.graph) /\ Served(sw.graph)
    BY Shapes DEF PrintOk, SwitchOK, ServedOK, IdentityOK, PoolOK, RoomOK, Free, NoSwitch,
                  Ready, Failing
  <1>2. /\ sw'.step = "ending" /\ sw'.graph = sw.graph /\ sw'.prev = x
        /\ sw'.mode = sw.mode /\ sw'.back = sw.back /\ sw'.dir = sw.dir
        /\ UNCHANGED <<current, identity, told, unread>>
    BY DEF PrintOk, WpTypeOK
  <1>3. pool' = kept \ evicted
    BY DEF PrintOk
  <1>4. graphs' = Dispose(G, gone)
    BY <1>1, Shapes DEF PrintOk
  <1>5. /\ same \subseteq pool
        /\ \A g \in pool \ same : graphs[g].dir # graphs[x].dir
        /\ evicted \subseteq kept
    BY DEF At, Evictable
  <1>6. r \in GraphType /\ Alike(r, [graphs[x] EXCEPT !.fresh = TRUE])
        /\ r.state = graphs[x].state /\ r.dir = graphs[x].dir /\ r.busy = graphs[x].busy
        /\ r.parked = graphs[x].parked /\ r.late = graphs[x].late
    BY <1>1, Shapes DEF GraphType, Alike
  <1>7. Cardinality(pool') <= MaxRetained
    <2>1. IsFiniteSet(kept) /\ Cardinality(kept) \in Nat
      BY PoolFinite, <1>1, <1>5, FS_AddElement, FS_CardinalityType
    <2>2. CASE Cardinality(kept) <= MaxRetained
      BY <1>3, <2>1, <2>2
    <2>3. CASE Cardinality(kept) > MaxRetained
      <3>1. evicted # {} /\ Cardinality(kept) = MaxRetained + 1
        <4>1. evicted = Evictable(kept)
          BY <2>3
        <4>2. x \in Graphs /\ x \notin pool /\ same \in SUBSET pool
              /\ RoomForOne /\ Cardinality(pool) <= MaxRetained
          BY <1>1, <1>5
        <4> HIDE DEF x, same, evicted
        <4> QED BY <2>3, <4>1, <4>2, EvictionMakesRoom
      <3>2. PICK y \in evicted : TRUE
        BY <3>1
      <3>3. IsFiniteSet(kept \ {y}) /\ Cardinality(kept \ {y}) = MaxRetained
        <4>1. y \in kept
          BY <1>5, <3>2
        <4> HIDE DEF kept
        <4>2. IsFiniteSet(kept \ {y}) /\ Cardinality(kept \ {y}) = Cardinality(kept) - 1
          BY <2>1, <4>1, FS_RemoveElement
        <4> QED BY <3>1, <4>2
      <3>4. Cardinality(kept \ evicted) <= Cardinality(kept \ {y})
        BY <3>2, <3>3, FS_Subset
      <3> QED BY <1>3, <3>3, <3>4
    <2> QED BY <2>1, <2>2, <2>3
  <1>8. /\ pool' \subseteq (pool \ same) \union {x} /\ x \notin same
        /\ x \in pool' \/ x \in gone
        /\ \A g \in pool : g \in pool' \/ g \in gone
        /\ pool' \cap gone = {}
        /\ gone \subseteq pool \union {x}
    BY <1>1, <1>3, <1>5
  <1>9. G \in AllGraphs /\ G[x] = r /\ \A h \in Graphs \ {x} : G[h] = graphs[h]
    BY <1>1, <1>6, Shapes DEF AllGraphs
  <1> HIDE DEF same, kept, evicted, gone, r, G
  <1>10. /\ graphs' \in AllGraphs
         /\ \A h \in gone \cap Graphs : graphs'[h] = Blank
         /\ \A h \in Graphs \ gone : graphs'[h] = G[h]
    BY <1>4, <1>9, DisposeShape
  <1>11. /\ \A h \in Graphs \ gone : h # x => graphs'[h] = graphs[h]
         /\ x \notin gone =>
               /\ graphs'[x].state = graphs[x].state /\ graphs'[x].dir = graphs[x].dir
               /\ graphs'[x].busy = graphs[x].busy /\ graphs'[x].parked = graphs[x].parked
               /\ graphs'[x].late = graphs[x].late
    BY <1>1, <1>6, <1>9, <1>10
  <1> HIDE DEF x
  <1>12. WpTypeOK'
    BY <1>1, <1>2, <1>8, <1>10, Shapes DEF WpTypeOK, AllGraphs, PrintOk
  <1>13. SwitchOK'
    BY <1>1, <1>2, <1>8, <1>10, <1>11, Shapes DEF SwitchOK, Entering, Failing, Ready, Blank
  <1>14. IdentityOK'
    BY <1>1, <1>2 DEF IdentityOK, Free, NoSwitch, x
  <1>15. ServedOK'
    BY <1>1, <1>2, <1>8, <1>11, Shapes
    DEF ServedOK, Served, Ready, Registered, Entering, Free, NoSwitch
  <1>16. PoolOK'
    <2>1. \A g \in pool' : g \notin gone /\ g \in Graphs
      BY <1>1, <1>8, Shapes
    <2>2. \A g \in pool' : PooledOK(g)'
      BY <1>1, <1>8, <1>11, <2>1 DEF PoolOK, PooledOK, Ready, Registered
    <2>3. \A g \in pool' : graphs'[g].dir = graphs[g].dir
      BY <1>11, <2>1
    <2>4. ASSUME NEW g \in pool', NEW h \in pool', graphs'[g].dir = graphs'[h].dir PROVE g = h
      BY <1>5, <1>8, <2>3, <2>4 DEF PoolOK
    <2> QED BY <1>2, <2>2, <2>4 DEF PoolOK
  <1>17. RoomOK'
    BY <1>2, <1>7 DEF RoomOK, Entering
  <1>18. \A g \in Graphs : GraphOK(g)'
    BY <1>1, <1>2, <1>8, <1>10, <1>11, Shapes DEF GraphOK, Running, Registered, Ready, Blank, x
  <1> QED BY <1>12, <1>13, <1>14, <1>15, <1>16, <1>17, <1>18

\* The switch is announced.
LEMMA SwitchEndsInv ==
    ASSUME WpInv, SwitchEnds
    PROVE  WpInv'
  <1> USE DEF WpInv
  <1>1. /\ sw.step = "ending" /\ sw.mode # "failure" /\ current = sw.graph
        /\ Served(sw.graph) /\ Ready(sw.graph) /\ sw.graph \in Graphs
        /\ current \notin pool /\ identity.graph = current
        /\ sw.prev \in Graphs => sw.prev \in pool \/ graphs[sw.prev].state = "blank"
    BY Shapes DEF SwitchEnds, SwitchOK, ServedOK, IdentityOK, Ready, Failing
  <1>2. /\ sw' = NoSwitch /\ sw'.step = "none" /\ sw'.graph = NoGraph /\ sw'.prev = NoGraph
        /\ sw'.mode = "none" /\ Free' /\ unread' = FALSE /\ told' = identity
        /\ UNCHANGED <<graphs, current, pool, identity>>
    BY DEF SwitchEnds, Announce, Free, NoSwitch
  <1>3. WpTypeOK'
    BY <1>2 DEF WpTypeOK, NoSwitch, Nobody, Identities
  <1>4. SwitchOK'
    BY <1>1, <1>2, Shapes DEF SwitchOK, Entering, Failing
  <1>5. IdentityOK'
    BY <1>1, <1>2 DEF IdentityOK
  <1>6. ServedOK'
    BY <1>1, <1>2, Shapes DEF ServedOK, Whole, Served, Ready, Registered, Entering
  <1>7. PoolOK' /\ RoomOK'
    BY <1>2 DEF PoolOK, RoomOK, PooledOK, Ready, Registered, Entering
  <1>8. \A g \in Graphs : GraphOK(g)'
    BY <1>1, <1>2, Shapes DEF GraphOK, Running, Registered, Ready
  <1> QED BY <1>3, <1>4, <1>5, <1>6, <1>7, <1>8

\* A workspace without services becomes current.
LEMMA FailureEndsInv ==
    ASSUME WpInv, NEW g \in Graphs, FailureEnds(g)
    PROVE  WpInv'
  <1> USE DEF WpInv
  <1>1. graphs[g].state = "blank" /\ g \notin pool
    BY DEF FailureEnds, PoolOK, PooledOK, Ready
  <1>2. /\ sw' = NoSwitch /\ sw'.step = "none" /\ sw'.graph = NoGraph /\ sw'.prev = NoGraph
        /\ sw'.mode = "none" /\ Free' /\ unread' = FALSE /\ told' = identity'
        /\ identity' = [graph |-> g, rev |-> Rev] /\ current' = g
        /\ UNCHANGED pool
    BY DEF FailureEnds, Announce, Free, NoSwitch
  <1>3. /\ \A h \in Graphs : h = sw.graph => h \notin pool
        /\ \A h \in Graphs : graphs[h].state # "blank" /\ h # sw.graph => h \in pool
    BY Shapes DEF FailureEnds, SwitchOK, GraphOK
  <1>4. /\ graphs' \in AllGraphs
        /\ graphs'[g].state = "failed"
        /\ \A h \in Graphs \ {g} : IF h = sw.graph THEN graphs'[h] = Blank
                                   ELSE graphs'[h] = graphs[h]
    <2> DEFINE gone == {sw.graph}
               D == Dispose(graphs, gone)
               r == [D[g] EXCEPT !.state = "failed", !.dir = sw.dir]
    <2>1. /\ \A h \in Graphs : h \in gone <=> h = sw.graph
          /\ D = Dispose(graphs, gone)
      OBVIOUS
    <2>2. graphs' = [[D EXCEPT ![g].state = "failed"] EXCEPT ![g].dir = sw.dir]
      BY DEF FailureEnds
    <2> HIDE DEF gone, D
    <2>3. /\ D \in AllGraphs
          /\ \A h \in Graphs : D[h] = IF h = sw.graph THEN Blank ELSE graphs[h]
      BY <2>1, Shapes, DisposeShape
    <2>4. r \in GraphType /\ r.state = "failed"
      <3>1. D[g] \in GraphType /\ sw.dir \in Dirs \union {NoDir}
        BY <2>3, Shapes DEF AllGraphs
      <3> DEFINE d == D[g]
                 dir == sw.dir
      <3> HIDE DEF d, dir
      <3>2. ASSUME d \in GraphType, dir \in Dirs \union {NoDir}
            PROVE  LET s == [d EXCEPT !.state = "failed", !.dir = dir]
                   IN  s \in GraphType /\ s.state = "failed"
        BY <3>2 DEF GraphType
      <3> QED BY <3>1, <3>2 DEF d, dir
    <2>5. graphs' = [D EXCEPT ![g] = r]
      BY <2>2, <2>3 DEF AllGraphs, GraphType
    <2> HIDE DEF r
    <2> QED BY <2>3, <2>4, <2>5 DEF AllGraphs
  <1>5. WpTypeOK'
    <2>1. identity' \in Identities
      BY <1>2, Shapes DEF Identities
    <2> QED BY <1>2, <1>4, <2>1 DEF WpTypeOK, AllGraphs, NoSwitch, Nobody, Identities
  <1>6. SwitchOK'
    BY <1>1, <1>2, Shapes DEF SwitchOK, Entering, Failing
  <1>7. IdentityOK'
    BY <1>2 DEF IdentityOK
  <1>8. ServedOK'
    BY <1>2, <1>4, Shapes DEF ServedOK, Whole, Ready, Entering
  <1>9. \A h \in pool : graphs'[h] = graphs[h]
    BY <1>1, <1>3, <1>4, Shapes
  <1>10. PoolOK'
    BY <1>2, <1>9, Shapes DEF PoolOK, PooledOK, Ready, Registered
  <1>11. RoomOK'
    BY <1>2 DEF RoomOK, Entering
  <1>12. \A h \in Graphs : GraphOK(h)'
    BY <1>2, <1>3, <1>4, Shapes DEF GraphOK, Running, Registered, Ready, Blank
  <1> QED BY <1>5, <1>6, <1>7, <1>8, <1>10, <1>11, <1>12

-----------------------------------------------------------------------------
(* Meanwhile. *)

\* Graphs of the pool are disposed of.
LEMMA DropInv ==
    ASSUME WpInv, Free, NEW gone \in SUBSET pool,
           graphs' = Dispose(graphs, gone), pool' = pool \ gone,
           UNCHANGED <<current, identity, told, sw, unread>>
    PROVE  WpInv'
  <1> USE DEF WpInv
  <1>1. /\ sw = NoSwitch /\ sw.step = "none" /\ sw.graph = NoGraph /\ sw.prev = NoGraph
        /\ sw.mode = "none" /\ Free' /\ current \notin pool
    BY Shapes DEF SwitchOK, Free, NoSwitch, Failing
  <1>2. /\ graphs' \in AllGraphs
        /\ \A h \in gone : graphs'[h] = Blank
        /\ \A h \in Graphs \ gone : graphs'[h] = graphs[h]
    BY Shapes, DisposeShape
  <1>3. WpTypeOK'
    BY <1>2 DEF WpTypeOK, AllGraphs
  <1>4. SwitchOK'
    BY <1>1, Shapes DEF SwitchOK, Entering, Failing
  <1>5. IdentityOK'
    BY <1>1 DEF IdentityOK, Free
  <1>6. ServedOK'
    BY <1>1, <1>2, Shapes DEF ServedOK, Whole, Ready, Registered, Entering
  <1>7. PoolOK'
    BY <1>1, <1>2, Shapes DEF PoolOK, PooledOK, Ready, Registered
  <1>8. RoomOK'
    BY <1>1, PoolFinite DEF RoomOK, Entering
  <1>9. \A g \in Graphs : GraphOK(g)'
    BY <1>1, <1>2, Shapes DEF GraphOK, Running, Registered, Ready, Blank
  <1> QED BY <1>3, <1>4, <1>5, <1>6, <1>7, <1>8, <1>9

\* The retained graphs go when providers or packages change.
LEMMA InvalidateAllInv ==
    ASSUME WpInv, InvalidateAll
    PROVE  WpInv'
  <1>1. pool \in SUBSET pool /\ pool' = pool \ pool
    BY DEF InvalidateAll
  <1> QED BY <1>1, DropInv DEF InvalidateAll

\* The retained graph of the current directory goes when a session file moves.
LEMMA InvalidateSameInv ==
    ASSUME WpInv, InvalidateSame
    PROVE  WpInv'
  <1> DEFINE gone == At(graphs[current].dir)
  <1>1. gone \in SUBSET pool
    BY DEF At
  <1>2. graphs' = Dispose(graphs, gone) /\ pool' = pool \ gone
    BY DEF InvalidateSame
  <1> HIDE DEF gone
  <1> QED BY <1>1, <1>2, DropInv DEF InvalidateSame

\* All but the background sessions, the fingerprint and the age.
Kin(a, b) ==
    /\ a.state = b.state /\ a.dir = b.dir /\ a.busy = b.busy /\ a.heard = b.heard
    /\ a.ui = b.ui /\ a.parked = b.parked /\ a.late = b.late

\* Nothing changes in a graph but what the invariant does not speak of.
LEMMA TouchInv ==
    ASSUME WpInv, graphs' \in AllGraphs,
           \A h \in Graphs :
              Kin(graphs'[h], graphs[h]) /\ (Free \/ graphs'[h].bg = graphs[h].bg),
           UNCHANGED <<current, pool, identity, told, sw, unread>>
    PROVE  WpInv'
  <1> USE DEF WpInv
  <1>1. sw.graph = sw.graph' /\ sw.prev = sw.prev' /\ (Free => sw.step = "none")
        /\ (Free' <=> Free)
    BY DEF Free, NoSwitch
  <1>2. \A h \in Graphs \union {NoGraph} :
           /\ Ready(h)' <=> Ready(h)
           /\ Registered(h)' <=> Registered(h)
           /\ Running(h)' <=> Running(h)
           /\ ~Free => (WillRetain(h)' <=> WillRetain(h))
    BY Shapes DEF Ready, Registered, Running, WillRetain, Kin
  <1>10. \A h \in Graphs :
            /\ Whole(h)' <=> Whole(h)
            /\ Served(h)' <=> Served(h)
            /\ PooledOK(h)' <=> PooledOK(h)
    BY <1>2 DEF Whole, Served, PooledOK, Kin
  <1>3. WpTypeOK'
    BY DEF WpTypeOK, AllGraphs
  <1>4. SwitchOK'
    BY <1>2, Shapes DEF SwitchOK, Entering, Failing, Kin
  <1>5. IdentityOK'
    BY <1>1 DEF IdentityOK
  <1>6. ServedOK'
    <2>1. /\ sw.step \in {"activating"} => sw.graph \in Graphs
          /\ sw.step \in {"printing", "ending"} /\ sw.mode # "failure" => sw.graph \in Graphs
      BY DEF SwitchOK, Ready
    <2> QED BY <1>1, <1>2, <1>10, <2>1, Shapes DEF ServedOK, Entering
  <1>7. PoolOK'
    <2>1. sw.step = "printing" => sw.prev \in Graphs
      BY DEF SwitchOK, Ready
    <2>2. \A h \in pool : h \in Graphs /\ graphs'[h].dir = graphs[h].dir
      BY Shapes DEF Kin
    <2> QED BY <1>1, <1>10, <2>1, <2>2 DEF PoolOK
  <1>8. RoomOK'
    BY <1>1, <1>2, Shapes DEF RoomOK, RoomForOne, Entering, Kin
  <1>9. \A g \in Graphs : GraphOK(g)'
    BY <1>1, <1>2, Shapes DEF GraphOK, Kin
  <1> QED BY <1>3, <1>4, <1>5, <1>6, <1>7, <1>8, <1>9

\* Only the background sessions of one graph change.
LEMMA BgShape ==
    ASSUME WpTypeOK, NEW g \in Graphs, NEW bg \in BOOLEAN,
           NEW G, G = [graphs EXCEPT ![g].bg = bg]
    PROVE  /\ G \in AllGraphs
           /\ \A h \in Graphs : Kin(G[h], graphs[h])
  <1> DEFINE r == [graphs[g] EXCEPT !.bg = bg]
  <1>1. r \in GraphType /\ Kin(r, graphs[g])
    BY Shapes DEF GraphType, Kin
  <1>2. G = [graphs EXCEPT ![g] = r]
    BY Shapes DEF AllGraphs, GraphType
  <1> HIDE DEF r
  <1> QED BY <1>1, <1>2, Shapes DEF AllGraphs, Kin

\* A session goes on in the background.
LEMMA SessionRetainedInv ==
    ASSUME WpInv, SessionRetained
    PROVE  WpInv'
  <1>1. current \in Graphs /\ graphs' = [graphs EXCEPT ![current].bg = TRUE]
    BY DEF SessionRetained, Running, Ready
  <1>2. graphs' \in AllGraphs /\ \A h \in Graphs : Kin(graphs'[h], graphs[h])
    BY <1>1, BgShape DEF WpInv
  <1> QED BY <1>2, TouchInv DEF SessionRetained

\* The last background session is released.
LEMMA BackgroundReleasedInv ==
    ASSUME WpInv, NEW g \in Graphs, BackgroundReleased(g)
    PROVE  WpInv'
  <1>1. graphs' = [graphs EXCEPT ![g].bg = FALSE]
    BY DEF BackgroundReleased
  <1>2. graphs' \in AllGraphs /\ \A h \in Graphs : Kin(graphs'[h], graphs[h])
    BY <1>1, BgShape DEF WpInv
  <1> QED BY <1>2, TouchInv DEF BackgroundReleased

\* No retained graph is fresh any more.
LEMMA FilesChangeInv ==
    ASSUME WpInv, FilesChange
    PROVE  WpInv'
  <1>1. /\ graphs' \in AllGraphs
        /\ \A h \in Graphs : Kin(graphs'[h], graphs[h]) /\ graphs'[h].bg = graphs[h].bg
    <2> DEFINE r(h) == [graphs[h] EXCEPT !.fresh = FALSE]
    <2>1. \A h \in Graphs : r(h) \in GraphType /\ Kin(r(h), graphs[h]) /\ r(h).bg = graphs[h].bg
      <3> TAKE h \in Graphs
      <3>1. graphs[h] \in GraphType
        BY Shapes DEF WpInv
      <3> QED BY <3>1 DEF GraphType, Kin
    <2>2. graphs' = [h \in Graphs |-> r(h)]
      BY DEF FilesChange
    <2> HIDE DEF r
    <2> QED BY <2>1, <2>2 DEF AllGraphs
  <1> QED BY <1>1, TouchInv DEF FilesChange

\* The desktop takes the Host's identity.
LEMMA RehydrateInv ==
    ASSUME WpInv, Rehydrate
    PROVE  WpInv'
  BY DEF WpInv, Rehydrate, WpTypeOK, SwitchOK, IdentityOK, ServedOK, PoolOK, RoomOK, GraphOK,
         Entering, Failing, Whole, Served, PooledOK, RoomForOne, WillRetain, Ready, Registered,
         Running, Free

\* A turn starts in the workspace that is served.
LEMMA WorkStartsInv ==
    ASSUME WpInv, WorkStarts
    PROVE  WpInv'
  <1> USE DEF WpInv
  <1>1. /\ sw = NoSwitch /\ sw.step = "none" /\ sw.graph = NoGraph /\ sw.prev = NoGraph
        /\ sw.mode = "none" /\ Free /\ Free' /\ current \notin pool /\ current \in Graphs
        /\ UNCHANGED <<current, pool, identity, told, sw, unread>>
    BY Shapes DEF WorkStarts, SwitchOK, Free, NoSwitch, Failing, Ready
  <1>2. Whole(current) /\ Registered(current)
    BY <1>1 DEF WorkStarts, ServedOK
  <1>3. /\ graphs' \in AllGraphs
        /\ \A h \in Graphs \ {current} : graphs'[h] = graphs[h]
        /\ graphs'[current].state = graphs[current].state
        /\ graphs'[current].heard = graphs[current].heard
        /\ graphs'[current].ui = graphs[current].ui
        /\ graphs'[current].parked = graphs[current].parked
    <2> DEFINE r == [graphs[current] EXCEPT !.busy = TRUE]
    <2>1. /\ r \in GraphType /\ r.state = graphs[current].state
          /\ r.heard = graphs[current].heard /\ r.ui = graphs[current].ui
          /\ r.parked = graphs[current].parked
      BY <1>1, Shapes DEF GraphType
    <2>2. graphs' = [graphs EXCEPT ![current] = r]
      BY <1>1, Shapes DEF WorkStarts, AllGraphs, GraphType
    <2> HIDE DEF r
    <2> QED BY <1>1, <2>1, <2>2, Shapes DEF AllGraphs
  <1>4. WpTypeOK'
    BY <1>1, <1>3 DEF WpTypeOK, AllGraphs
  <1>5. SwitchOK'
    BY <1>1, Shapes DEF SwitchOK, Entering, Failing
  <1>6. IdentityOK'
    BY <1>1 DEF IdentityOK
  <1>7. ServedOK'
    BY <1>1, <1>2, <1>3, Shapes DEF ServedOK, Whole, Ready, Registered, Entering
  <1>8. PoolOK'
    BY <1>1, <1>3, Shapes DEF PoolOK, PooledOK, Ready, Registered
  <1>9. RoomOK'
    BY <1>1 DEF RoomOK, Entering
  <1>10. \A g \in Graphs : GraphOK(g)'
    BY <1>1, <1>2, <1>3, Shapes DEF GraphOK, Running, Registered, Ready
  <1> QED BY <1>4, <1>5, <1>6, <1>7, <1>8, <1>9, <1>10

\* A turn ends, noticed or not.
LEMMA WorkEndsInv ==
    ASSUME WpInv, NEW g \in Graphs, NEW noticed \in BOOLEAN, WorkEnds(g, noticed)
    PROVE  WpInv'
  <1> USE DEF WpInv
  <1> DEFINE unseen == noticed => sw.prev = g /\ (sw.step = "printing" \/ current = g)
             r == [graphs[g] EXCEPT !.busy = FALSE, !.late = unseen]
             idle == [graphs EXCEPT ![g] = r]
  <1>1. /\ Ready(g) /\ Registered(g) /\ UNCHANGED <<current, pool, identity, told, sw, unread>>
        /\ (Free' <=> Free)
    BY DEF WorkEnds, GraphOK, Running, Free
  <1>2. unseen \in BOOLEAN
    OBVIOUS
  <1>3. graphs' = IF noticed /\ MayPark(g) THEN Suspend(idle, g) ELSE idle
    BY <1>2, Shapes DEF WorkEnds, GraphType, AllGraphs
  <1>4. /\ r \in GraphType /\ r.state = graphs[g].state /\ r.dir = graphs[g].dir
        /\ ~r.busy /\ r.bg = graphs[g].bg /\ r.heard = graphs[g].heard /\ r.ui = graphs[g].ui
        /\ r.parked = graphs[g].parked /\ r.late = unseen
    <2> HIDE DEF unseen
    <2> QED BY ZenonT(60), <1>2, Shapes DEF GraphType
  <1>5. idle \in AllGraphs /\ idle[g] = r /\ \A h \in Graphs \ {g} : idle[h] = graphs[h]
    BY <1>4, Shapes DEF AllGraphs
  <1> HIDE DEF r, idle
  <1>6. /\ graphs' \in AllGraphs
        /\ \A h \in Graphs \ {g} : graphs'[h] = graphs[h]
        /\ graphs'[g].state = graphs[g].state /\ graphs'[g].dir = graphs[g].dir
        /\ ~graphs'[g].busy /\ graphs'[g].bg = graphs[g].bg
        /\ graphs'[g].heard = graphs[g].heard /\ graphs'[g].ui = graphs[g].ui
        /\ graphs'[g].late = unseen
        /\ IF noticed /\ MayPark(g) THEN graphs'[g].parked
           ELSE graphs'[g].parked = graphs[g].parked
    <2>1. CASE noticed /\ MayPark(g)
      <3>1. graphs' = Suspend(idle, g) /\ r.state = "ready"
        BY <1>1, <1>3, <1>4, <2>1 DEF Ready
      <3> QED BY <1>4, <1>5, <2>1, <3>1, SuspendShape DEF Alike
    <2>2. CASE ~(noticed /\ MayPark(g))
      BY <1>3, <1>4, <1>5, <2>2
    <2> QED BY <2>1, <2>2
  <1>7. WpTypeOK'
    BY <1>1, <1>6 DEF WpTypeOK, AllGraphs
  <1>8. SwitchOK'
    BY <1>1, <1>6, Shapes DEF SwitchOK, Entering, Failing, Ready
  <1>9. IdentityOK'
    BY <1>1 DEF IdentityOK
  <1>10. g \in pool /\ noticed => MayPark(g) \/ unseen
    BY <1>1 DEF MayPark, SwitchOK, Failing
  <1>11. \A h \in Graphs : h \notin pool \/ h # g => (Registered(h)' <=> Registered(h))
    BY <1>6 DEF MayPark, Registered, Ready
  <1>12. ServedOK'
    BY <1>1, <1>6, <1>11, Shapes
    DEF ServedOK, SwitchOK, Failing, Whole, Served, Ready, Entering, Free, NoSwitch
  <1>13. PoolOK'
    <2>1. \A h \in pool : PooledOK(h)'
      BY <1>1, <1>6, <1>10, Shapes DEF PoolOK, PooledOK, Ready, Registered
    <2>2. sw'.step = "printing" => PooledOK(sw.prev)'
      BY <1>1, <1>6, Shapes DEF PoolOK, PooledOK, Ready, Registered
    <2> QED BY <1>1, <1>6, <2>1, <2>2, Shapes DEF PoolOK
  <1>14. RoomOK'
    BY <1>1, <1>6, Shapes DEF RoomOK, RoomForOne, WillRetain, Ready, Entering
  <1>15. \A h \in Graphs : GraphOK(h)'
    BY <1>1, <1>6, Shapes DEF GraphOK, Running, Registered, Ready
  <1> QED BY <1>7, <1>8, <1>9, <1>12, <1>13, <1>14, <1>15

-----------------------------------------------------------------------------
(* The theorems. *)

\* Every step of a switch, and whatever happens meanwhile, preserves it.
THEOREM WpNextInv == WpInv /\ [WpNext]_wpVars => WpInv'
  <1> SUFFICES ASSUME WpInv, [WpNext]_wpVars PROVE WpInv'
    OBVIOUS
  <1>1. CASE Switch
    BY <1>1, SwitchBeginInv, CompareFailsInv, CompareRejectsInv, CompareKeepsInv, BindOkInv,
       BindFailsInv, BuildOkInv, BuildFailsInv, ActivateOkInv, ReactivateFailsInv,
       ActivateFailsInv, UndoDoneInv, PrintOkInv, PrintFailsInv, SwitchEndsInv, FailureEndsInv
    DEF Switch
  <1>2. CASE Sessions
    BY <1>2, WorkStartsInv, SessionRetainedInv, BackgroundReleasedInv, WorkEndsInv DEF Sessions
  <1>3. CASE Others
    BY <1>3, FilesChangeInv, InvalidateAllInv, InvalidateSameInv, RehydrateInv DEF Others
  <1>4. CASE UNCHANGED wpVars
    BY <1>4 DEF wpVars, WpInv, WpTypeOK, SwitchOK, IdentityOK, ServedOK, PoolOK, RoomOK,
         GraphOK, Entering, Failing, Whole, Served, PooledOK, RoomForOne, WillRetain, Ready,
         Registered, Running, Free
  <1> QED BY <1>1, <1>2, <1>3, <1>4 DEF WpNext

\* The inductive invariant of the workspace switch holds throughout.
THEOREM WpInvCorrect == WpSpec => []WpInv
  BY WpInitInv, WpNextInv, PTL DEF WpSpec

\* The variables of the workspace lifecycle keep their shapes.
THEOREM WpTypeCorrect == WpSpec => []WpTypeOK
  <1>1. WpInv => WpTypeOK
    BY DEF WpInv
  <1> QED BY <1>1, WpInvCorrect, PTL

\* However a switch ends, the workspace the Host names is served: told to the
\* desktop, not disposed of, heard, its UI attached, its providers registered.
THEOREM ServedCorrect == WpSpec => []ServedIntact
  <1>1. WpInv => ServedIntact
    <2> SUFFICES ASSUME WpInv, Free, ~unread
                 PROVE  /\ identity.graph = current /\ told = identity
                        /\ current # NoGraph =>
                              Ready(current) \/ graphs[current].state = "failed"
                        /\ Ready(current) =>
                              /\ graphs[current].heard /\ graphs[current].ui
                              /\ Registered(current)
      BY DEF ServedIntact
    <2> QED BY Shapes DEF WpInv, IdentityOK, ServedOK, Whole, Ready
  <1> QED BY <1>1, WpInvCorrect, PTL

\* The pool keeps to its limit, has one graph a directory, none that is served or
\* was disposed of, and no graph of services is lost.
THEOREM PoolCorrect == WpSpec => []PoolSound
  <1>1. WpInv => PoolSound
    <2> SUFFICES ASSUME WpInv PROVE PoolSound
      OBVIOUS
    <2>1. Cardinality(pool) <= MaxRetained
      BY DEF WpInv, RoomOK
    <2>2. ASSUME NEW g \in pool
          PROVE  Ready(g) /\ (Free => g # current) /\ At(graphs[g].dir) = {g}
      BY <2>2 DEF WpInv, PoolOK, PooledOK, SwitchOK, Failing, Free, NoSwitch, At
    <2>3. \A g \in Graphs :
             graphs[g].state # "blank" => g \in pool \union {current, sw.graph, sw.prev}
      BY DEF WpInv, GraphOK
    <2> QED BY <2>1, <2>2, <2>3 DEF PoolSound
  <1> QED BY <1>1, WpInvCorrect, PTL

\* A workspace that runs has its providers in the shared runtime; of the idle
\* ones only that served, entered or left has, or one that settled unseen.
THEOREM ProvidersCorrect == WpSpec => []ProvidersPlaced
  <1>1. WpInv => ProvidersPlaced
    <2> SUFFICES ASSUME WpInv, NEW g \in Graphs
                 PROVE  /\ Running(g) => Registered(g)
                        /\ Registered(g) => \/ g \in {current, sw.graph, sw.prev}
                                            \/ graphs[g].busy \/ graphs[g].late
      BY DEF ProvidersPlaced
    <2>1. GraphOK(g)
      BY DEF WpInv
    <2>2. g \in pool => PooledOK(g)
      BY DEF WpInv, PoolOK
    <2> QED BY <2>1, <2>2 DEF GraphOK, PooledOK, Registered, Ready
  <1> QED BY <1>1, WpInvCorrect, PTL

-----------------------------------------------------------------------------
(* A running workspace is kept. *)

\* What is disposed of to make room, and for a mutation of providers, is idle; a
\* step that ends a workspace otherwise is one of those RunningKept names.
LEMMA RunningKeptStep ==
    ASSUME WpInv, [WpNext]_wpVars, NEW g \in Graphs, Running(g), g # sw.graph,
           g = sw.prev => ~unread',
           \A h \in Graphs \ {g} : Ready(h) => graphs[h].dir # graphs[g].dir
    PROVE  graphs'[g].state = "ready"
  <1> WpTypeOK /\ SwitchOK
    BY DEF WpInv
  <1>1. graphs \in AllGraphs /\ graphs[g].state = "ready" /\ graphs[g].busy
    BY Shapes DEF Running, Ready
  <1>2. ASSUME NEW G \in AllGraphs, NEW gone, g \notin gone
        PROVE  Dispose(G, gone)[g] = G[g] /\ Dispose(G, gone) \in AllGraphs
    BY <1>2, DisposeShape
  <1>3. ASSUME NEW G \in AllGraphs, NEW y \in Graphs \union {NoGraph}
        PROVE  /\ Suspend(G, y)[g].state = G[g].state /\ Suspend(G, y) \in AllGraphs
               /\ Resume(G, y)[g].state = G[g].state /\ Resume(G, y) \in AllGraphs
    <2>1. Suspend(G, y) \in AllGraphs /\ Alike(Suspend(G, y)[g], G[g])
      BY SuspendShape
    <2>2. Resume(G, y) \in AllGraphs /\ Alike(Resume(G, y)[g], G[g])
      BY ResumeShape
    <2> QED BY <2>1, <2>2 DEF Alike
  <1>5. CASE \E dir \in Dirs : SwitchBegin(dir)
    <2>1. graphs' = graphs \/ graphs' = Suspend(graphs, current)
      BY <1>5 DEF SwitchBegin
    <2>2. Suspend(graphs, current)[g].state = graphs[g].state
      BY <1>1, <1>3, Shapes
    <2> QED BY <1>1, <2>1, <2>2
  <1>6. CASE CompareFails
    <2> DEFINE gone == {sw.graph}
    <2>1. g \notin gone /\ graphs' = Resume(Dispose(graphs, gone), current)
      BY <1>6 DEF CompareFails
    <2> HIDE DEF gone
    <2>2. Dispose(graphs, gone)[g] = graphs[g] /\ Dispose(graphs, gone) \in AllGraphs
      BY <1>1, <1>2, <2>1
    <2>3. Resume(Dispose(graphs, gone), current)[g].state = Dispose(graphs, gone)[g].state
      BY <1>3, <2>2, Shapes
    <2> QED BY <1>1, <2>1, <2>2, <2>3
  <1>7. CASE CompareRejects \/ BindFails \/ ReactivateFails
    <2> DEFINE gone == {sw.graph}
    <2>1. g \notin gone /\ graphs' = Suspend(Dispose(graphs, gone), sw.prev)
      BY <1>7 DEF CompareRejects, BindFails, ReactivateFails, Rebuild
    <2> HIDE DEF gone
    <2>2. Dispose(graphs, gone)[g] = graphs[g] /\ Dispose(graphs, gone) \in AllGraphs
      BY <1>1, <1>2, <2>1
    <2>3. Suspend(Dispose(graphs, gone), sw.prev)[g].state = Dispose(graphs, gone)[g].state
      BY <1>3, <2>2, Shapes
    <2> QED BY <1>1, <2>1, <2>2, <2>3
  <1>8. CASE CompareKeeps
    <2> DEFINE G == Suspend(graphs, sw.prev)
    <2>1. graphs' = Resume(G, sw.graph)
      BY <1>8 DEF CompareKeeps
    <2>2. G \in AllGraphs /\ G[g].state = graphs[g].state
      BY <1>1, <1>3, Shapes
    <2> HIDE DEF G
    <2>3. Resume(G, sw.graph)[g].state = G[g].state
      BY <1>3, <2>2, Shapes
    <2> QED BY <1>1, <2>1, <2>2, <2>3
  <1>9. CASE BindOk
    BY <1>1, <1>9 DEF BindOk, AllGraphs
  <1>10. CASE \E h \in Graphs : BuildOk(h)
    BY <1>1, <1>10 DEF BuildOk, AllGraphs
  <1>11. CASE BuildFails \/ ActivateOk
    <2>1. PICK mode : Leave(mode)
      BY <1>11 DEF BuildFails, ActivateOk
    <2>2. CASE WillRetain(sw.prev)
      <3>1. graphs' = [graphs EXCEPT ![sw.prev] = Left(graphs[sw.prev])]
        BY <2>1, <2>2 DEF Leave, WillRetain, Ready
      <3>2. g = sw.prev => Left(graphs[g]).state = "ready"
        BY <1>1, LeftShape
      <3> QED BY <1>1, <3>1, <3>2 DEF AllGraphs
    <2>3. CASE ~WillRetain(sw.prev)
      <3> DEFINE gone == {sw.prev}
      <3>1. g \notin gone
        BY <1>1, <2>3 DEF WillRetain, Ready
      <3>2. graphs' = Dispose(graphs, gone)
        BY <2>1, <2>3 DEF Leave
      <3> HIDE DEF gone
      <3> QED BY <1>1, <1>2, <3>1, <3>2
    <2> QED BY <2>2, <2>3
  <1>12. CASE ActivateFails
    BY <1>1, <1>12 DEF ActivateFails, AllGraphs
  <1>13. CASE UndoDone
    <2> DEFINE gone == {sw.graph}
    <2>1. g \notin gone /\ graphs' = Resume(Dispose(graphs, gone), sw.prev)
      BY <1>13 DEF UndoDone
    <2> HIDE DEF gone
    <2>2. Dispose(graphs, gone)[g] = graphs[g] /\ Dispose(graphs, gone) \in AllGraphs
      BY <1>1, <1>2, <2>1
    <2>3. Resume(Dispose(graphs, gone), sw.prev)[g].state = Dispose(graphs, gone)[g].state
      BY <1>3, <2>2, Shapes
    <2> QED BY <1>1, <2>1, <2>2, <2>3
  <1>14. CASE PrintFails
    <2> DEFINE gone == {sw.prev}
    <2>1. g \notin gone
      BY <1>14 DEF PrintFails
    <2>2. graphs' = Resume(graphs, sw.prev) \/ graphs' = Dispose(graphs, gone)
      BY <1>14 DEF PrintFails
    <2> HIDE DEF gone
    <2>3. Dispose(graphs, gone)[g] = graphs[g]
      BY <1>1, <1>2, <2>1
    <2>4. Resume(graphs, sw.prev)[g].state = graphs[g].state
      BY <1>1, <1>3, Shapes
    <2> QED BY <1>1, <2>2, <2>3, <2>4
  <1>15. CASE PrintOk
    <2> DEFINE x == sw.prev
               r == [graphs[x] EXCEPT !.fresh = TRUE]
               G == [graphs EXCEPT ![x] = r]
               same == At(graphs[x].dir)
               kept == (pool \ same) \union {x}
               evicted == IF Cardinality(kept) > MaxRetained THEN Evictable(kept) ELSE {}
               gone == same \union evicted
    <2>1. x \in Graphs /\ Ready(x) /\ x \notin pool
      BY <1>15 DEF PrintOk, SwitchOK, Ready
    <2>2. graphs' = Dispose(G, gone)
      BY <1>15, <2>1, Shapes DEF PrintOk
    <2>3. r \in GraphType /\ r.state = graphs[x].state
      BY <2>1, Shapes DEF GraphType
    <2>4. g \notin same
      BY <2>1 DEF At
    <2>5. g \notin evicted
      BY <1>1 DEF Evictable
    <2>6. g \notin gone
      BY <2>4, <2>5
    <2> HIDE DEF gone, r
    <2>7. G \in AllGraphs /\ G[g].state = "ready"
      BY <1>1, <2>1, <2>3 DEF AllGraphs
    <2> QED BY <1>2, <2>2, <2>6, <2>7
  <1>16. CASE SwitchEnds
    BY <1>1, <1>16 DEF SwitchEnds
  <1>17. CASE \E h \in Graphs : FailureEnds(h)
    <2>1. PICK h \in Graphs : FailureEnds(h)
      BY <1>17
    <2> DEFINE gone == {sw.graph}
    <2>2. /\ g \notin gone /\ h # g
          /\ graphs' = [Dispose(graphs, gone) EXCEPT ![h].state = "failed", ![h].dir = sw.dir]
      BY <1>1, <2>1 DEF FailureEnds
    <2> HIDE DEF gone
    <2> QED BY <1>1, <1>2, <2>2 DEF AllGraphs
  <1>18. CASE WorkStarts
    BY <1>1, <1>18 DEF WorkStarts, AllGraphs, GraphType
  <1>19. CASE SessionRetained \/ \E h \in Graphs : BackgroundReleased(h)
    BY ZenonT(60), <1>1, <1>19, BgShape DEF SessionRetained, BackgroundReleased, Running, Ready, Kin
  <1>20. CASE \E h \in Graphs, noticed \in BOOLEAN : WorkEnds(h, noticed)
    <2>1. PICK h \in Graphs, noticed \in BOOLEAN : WorkEnds(h, noticed)
      BY <1>20
    <2> DEFINE unseen == noticed => sw.prev = h /\ (sw.step = "printing" \/ current = h)
               r == [graphs[h] EXCEPT !.busy = FALSE, !.late = unseen]
               idle == [graphs EXCEPT ![h] = r]
    <2>2. graphs' = Suspend(idle, h) \/ graphs' = idle
      BY <2>1, Shapes DEF WorkEnds, GraphType, AllGraphs
    <2>3. unseen \in BOOLEAN
      OBVIOUS
    <2> HIDE DEF unseen
    <2>4. r \in GraphType /\ r.state = graphs[h].state
      BY <2>3, Shapes DEF GraphType
    <2> HIDE DEF r
    <2>5. idle \in AllGraphs /\ idle[g].state = "ready"
      BY <1>1, <2>4 DEF AllGraphs
    <2> HIDE DEF idle
    <2> QED BY <1>3, <2>2, <2>5
  <1>21. CASE FilesChange
    BY <1>1, <1>21, Shapes DEF FilesChange, GraphType
  <1>22. CASE InvalidateAll
    <2>1. g \notin pool /\ graphs' = Dispose(graphs, pool)
      BY <1>1, <1>22 DEF InvalidateAll
    <2> QED BY <1>1, <1>2, <2>1
  <1>23. CASE InvalidateSame
    <2> DEFINE gone == At(graphs[current].dir)
    <2>1. Ready(current) /\ current # g => graphs[current].dir # graphs[g].dir
      BY DEF Ready
    <2>2. Ready(current) /\ current \notin pool
      BY <1>23, Shapes DEF InvalidateSame, SwitchOK, Free, NoSwitch, Failing
    <2>3. g \notin gone /\ graphs' = Dispose(graphs, gone)
      BY <1>23, <2>1, <2>2 DEF InvalidateSame, At
    <2> HIDE DEF gone
    <2> QED BY <1>1, <1>2, <2>3
  <1>24. CASE Rehydrate \/ UNCHANGED wpVars
    BY <1>1, <1>24 DEF Rehydrate, wpVars
  <1> QED
    BY <1>5, <1>6, <1>7, <1>8, <1>9, <1>10, <1>11, <1>12, <1>13, <1>14, <1>15, <1>16, <1>17,
       <1>18, <1>19, <1>20, <1>21, <1>22, <1>23, <1>24
    DEF WpNext, Switch, Sessions, Others

\* A running workspace is disposed of only when its own reactivation fails, its
\* files cannot be read, or there is another graph of its directory.
THEOREM RunningCorrect == WpSpec => RunningKept
  <1>1. WpInv /\ [WpNext]_wpVars =>
          \A g \in Graphs :
             Running(g) /\ graphs'[g].state # "ready" =>
                 \/ g = sw.graph
                 \/ g = sw.prev /\ unread'
                 \/ \E h \in Graphs \ {g} : Ready(h) /\ graphs[h].dir = graphs[g].dir
    BY RunningKeptStep
  <1> QED BY <1>1, WpInvCorrect, PTL DEF WpSpec, RunningKept
=============================================================================
