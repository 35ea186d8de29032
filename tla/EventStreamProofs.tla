------------------------- MODULE EventStreamProofs -------------------------
(***************************************************************************)
(* The invariants of EventStream as theorems, for any limits and any       *)
(* number of events, requests and recoveries.                              *)
(*                                                                         *)
(* StreamLemmas says what the lines on their way are to a reader.  Here    *)
(* each operation of the writer, each step of the Host and each line the   *)
(* desktop reads keeps the flow good (GoodFlow) for the desktop and for    *)
(* every snapshot in it; the inductive invariant (EsInv) adds the state    *)
(* the desktop has between its steps (ClientOK).                           *)
(***************************************************************************)
EXTENDS StreamLemmas

-----------------------------------------------------------------------------
(* The writer's queue, and the flow it makes with the wire. *)

\* What may be replaced is the last of its kind and has no number; frames that
\* may be joined hold the last chunk; what attention was asked for is closed.
QueueOK(q, frames) ==
    /\ \A i \in 1..Len(q) :
          /\ q[i].kind = "widget" => q[i].bytes = 1
          /\ q[i].indexed => HasKey(q[i].kind) /\ q[i].seq = 0
          /\ q[i].indexed /\ q[i].kind = "frame" /\ ~q[i].dropped =>
                q[i].val[Len(q[i].val)] = frames
    /\ \A i, j \in 1..Len(q) : i < j /\ q[i].indexed =>
          /\ q[i].kind # q[j].kind
          /\ ~(q[i].kind = "widget" /\ q[j].kind = "attention")

WireOK(lines) ==
    /\ lines \in Seq(LineOf(Words))
    /\ \A i \in 1..Len(lines) : Event(lines[i]) => lines[i].seq # 0

Writing(w, lines, rd, h, c, reqs) ==
    /\ Bounded(Words, w) /\ WireOK(lines) /\ QueueOK(w.queue, h.frames)
    /\ GoodFlow(FlowOf(w, lines), w.last, rd, h, c, reqs)

\* The flow, position by position.
LEMMA FlowLines ==
    ASSUME NEW w, w.queue \in Seq(EntryOf(Words)), NEW lines \in Seq(LineOf(Words))
    PROVE  /\ FlowOf(w, lines) \in Seq(FlowLine)
           /\ Len(FlowOf(w, lines)) = Len(lines) + Len(w.queue)
           /\ Len(lines) \in Nat /\ Len(w.queue) \in Nat
           /\ \A i \in 1..Len(lines) : FlowOf(w, lines)[i] = lines[i]
           /\ \A i \in 1..Len(w.queue) : FlowOf(w, lines)[Len(lines) + i] = Line(w.queue[i])
           /\ \A p \in 1..Len(FlowOf(w, lines)) :
                 \/ p \in 1..Len(lines)
                 \/ p - Len(lines) \in 1..Len(w.queue) /\ p = Len(lines) + (p - Len(lines))
  <1> DEFINE q == w.queue
             o == [i \in DOMAIN q |-> Line(q[i])]
  <1>1. q \in Seq(EntryOf(Words)) /\ Len(q) \in Nat /\ DOMAIN q = 1..Len(q)
    OBVIOUS
  <1>2. ASSUME NEW i \in 1..Len(q) PROVE o[i] = Line(q[i]) /\ o[i] \in FlowLine
    <2>1. q[i] \in EntryOf(Words)
      BY <1>1
    <2>2. q[i].kind \in EventKinds \cup {"response"} /\ q[i].val \in Words /\ q[i].seq \in Nat
      BY <2>1, EntryFields
    <2> QED BY <1>1, <2>2 DEF Line, FlowLine
  <1>3. o = [i \in DOMAIN q |-> o[i]]
    OBVIOUS
  <1> HIDE DEF o
  <1>4. o \in Seq(FlowLine) /\ Len(o) = Len(q)
    <2>1. \A i \in 1..Len(q) : o[i] \in FlowLine
      BY <1>2
    <2> HIDE DEF q
    <2> QED BY <1>1, <1>3, <2>1, Rewritten
  <1>5. lines \in Seq(FlowLine) /\ Len(lines) \in Nat
    <2>1. \A i \in 1..Len(lines) : lines[i] \in FlowLine
      <3>1. \A i \in 1..Len(lines) : lines[i] \in LineOf(Words)
        OBVIOUS
      <3> QED BY <3>1 DEF LineOf, FlowLine
    <2> QED BY <2>1
  <1>6. /\ lines \o o \in Seq(FlowLine) /\ Len(lines \o o) = Len(lines) + Len(o)
        /\ \A i \in 1..Len(lines) : (lines \o o)[i] = lines[i]
        /\ \A i \in 1..Len(o) : (lines \o o)[Len(lines) + i] = o[i]
    BY <1>4, <1>5
  <1>7. FlowOf(w, lines) = lines \o o
    BY DEF FlowOf, o
  <1>8. \A p \in 1..Len(lines) + Len(q) :
            \/ p \in 1..Len(lines)
            \/ p - Len(lines) \in 1..Len(q) /\ p = Len(lines) + (p - Len(lines))
    BY <1>1, <1>5
  <1> QED BY <1>1, <1>2, <1>4, <1>5, <1>6, <1>7, <1>8

\* From u to v events are dropped, and a number is burned if any is; when a
\* widget goes, so does attention.
Drops(u, v) ==
    /\ Len(v.queue) = Len(u.queue) /\ v.last \in {u.last, u.last + 1}
    /\ \A i \in 1..Len(u.queue) :
          /\ v.queue[i].kind = u.queue[i].kind /\ v.queue[i].val = u.queue[i].val
          /\ v.queue[i].bytes = u.queue[i].bytes /\ v.queue[i].seq = u.queue[i].seq
          /\ v.queue[i].indexed = u.queue[i].indexed
          /\ u.queue[i].dropped => v.queue[i].dropped
          /\ v.queue[i].dropped /\ ~u.queue[i].dropped =>
                /\ IsEvent(u.queue[i]) /\ v.last = u.last + 1
                /\ \A j \in 1..Len(u.queue) : u.queue[j].kind = "attention" => v.queue[j].dropped

\* A pass of maybeEnforceHardCap.
LEMMA DropDrops ==
    ASSUME NEW u, Sound(Words, u), NEW all \in BOOLEAN
    PROVE  Sound(Words, Drop(u, all)) /\ Drops(u, Drop(u, all))
  <1> DEFINE q == u.queue
             N == Len(q)
             gone(i) == Droppable(q[i], all)
             r == [i \in DOMAIN q |-> Shed(q[i], all)]
             freed == [i \in DOMAIN q |-> IF gone(i) THEN q[i].bytes ELSE 0]
             bare == [u EXCEPT !.queue = r, !.pending = @ - Total(freed)]
             v == Drop(u, all)
  <1>1. /\ u \in WriterOf(Words) /\ q \in Seq(EntryOf(Words)) /\ u.last \in Nat
        /\ N \in Nat /\ DOMAIN q = 1..N
    BY DEF Sound, WriterOf
  <1>2. ASSUME NEW i \in 1..N
        PROVE  /\ r[i] \in EntryOf(Words) /\ r[i].dropped = (q[i].dropped \/ gone(i))
               /\ r[i].kind = q[i].kind /\ r[i].val = q[i].val /\ r[i].indexed = q[i].indexed
               /\ r[i].bytes = q[i].bytes /\ r[i].seq = q[i].seq
    <2> DEFINE e == q[i]
               b == e.dropped \/ gone(i)
    <2>1. b \in BOOLEAN
      OBVIOUS
    <2>2. r[i] = [e EXCEPT !.dropped = b]
      BY <1>1 DEF Shed
    <2>3. e \in EntryOf(Words)
      BY <1>1
    <2> HIDE DEF e, b, r
    <2>4. /\ r[i] \in EntryOf(Words) /\ r[i].dropped = b
          /\ r[i].kind = e.kind /\ r[i].val = e.val /\ r[i].indexed = e.indexed
          /\ r[i].bytes = e.bytes /\ r[i].seq = e.seq
      BY <2>1, <2>2, <2>3, EntryDropped
    <2> QED BY <2>4 DEF e, b
  <1>3. r = [i \in DOMAIN q |-> r[i]]
    OBVIOUS
  <1>4. v = IF \E i \in 1..N : gone(i) THEN [bare EXCEPT !.last = @ + 1] ELSE bare
    BY <1>1 DEF Drop, NextSequence
  <1> HIDE DEF r, freed
  <1>5. r \in Seq(EntryOf(Words)) /\ Len(r) = N
    <2>1. \A i \in 1..Len(q) : r[i] \in EntryOf(Words)
      BY <1>2
    <2> HIDE DEF q
    <2> QED BY <1>1, <1>3, <2>1, Rewritten
  <1>6. bare.queue = r /\ bare.last = u.last /\ DOMAIN bare = DOMAIN u
    <2> HIDE DEF q
    <2> QED BY <1>1 DEF WriterOf
  <1>7. Sound(Words, v)
    BY DropSound
  <1>8. "queue" \in DOMAIN u /\ "last" \in DOMAIN u
    BY <1>1 DEF WriterOf
  <1> HIDE DEF bare
  <1>9. /\ v.queue = r
        /\ v.last = IF \E i \in 1..N : gone(i) THEN u.last + 1 ELSE u.last
    <2>1. CASE \E i \in 1..N : gone(i)
      <3>1. v = [bare EXCEPT !.last = @ + 1]
        BY <1>4, <2>1
      <3> HIDE DEF v, gone
      <3> QED BY <1>6, <1>8, <2>1, <3>1
    <2>2. CASE ~\E i \in 1..N : gone(i)
      <3>1. v = bare
        BY <1>4, <2>2
      <3> HIDE DEF v, gone
      <3> QED BY <1>6, <2>2, <3>1
    <2> QED BY <2>1, <2>2
  <1> HIDE DEF v
  <1>10. ASSUME NEW i \in 1..N, r[i].dropped, ~q[i].dropped
         PROVE  /\ IsEvent(q[i]) /\ v.last = u.last + 1
                /\ \A j \in 1..N : q[j].kind = "attention" => r[j].dropped
    <2>1. gone(i)
      BY <1>2, <1>10
    <2>2. v.last = u.last + 1
      BY <1>9, <2>1
    <2>3. ASSUME NEW j \in 1..N, q[j].kind = "attention" PROVE r[j].dropped
      <3>1. q[j].dropped \/ gone(j)
        BY <2>3 DEF Droppable, IsEvent, HasKey, PlainKinds
      <3> QED BY <1>2, <3>1
    <2> QED BY <2>1, <2>2, <2>3 DEF Droppable
  <1>11. Drops(u, v)
    <2>1. Len(v.queue) = N /\ u.queue = q
      BY <1>5, <1>9
    <2>2. \A i \in 1..N : q[i].dropped => r[i].dropped
      BY <1>2
    <2>3. v.last \in {u.last, u.last + 1} /\ v.queue = r
      BY <1>9
    <2> HIDE DEF q, N, gone
    <2> QED BY <1>2, <1>10, <2>1, <2>2, <2>3 DEF Drops, N
  <1> QED BY <1>7, <1>11 DEF v

\* maybeEnforceHardCap
LEMMA EnforceDrops ==
    ASSUME NEW u, Sound(Words, u)
    PROVE  Bounded(Words, EnforceHardCap(u)) /\ Drops(u, EnforceHardCap(u))
  <1>1. Drops(u, u)
    BY DEF Drops
  <1>2. EnforceHardCap(u) \in {u, Drop(u, FALSE), Drop(u, TRUE)}
    BY DEF EnforceHardCap
  <1>3. Drops(u, Drop(u, FALSE)) /\ Drops(u, Drop(u, TRUE))
    BY DropDrops
  <1>4. Bounded(Words, EnforceHardCap(u))
    BY EnforceHardCapBounded
  <1> QED BY <1>1, <1>2, <1>3, <1>4
\* Dropping events leaves the flow good.
LEMMA DropsThin ==
    ASSUME NEW u, NEW v, u.queue \in Seq(EntryOf(Words)), v.queue \in Seq(EntryOf(Words)),
           NEW lines \in Seq(LineOf(Words)), Drops(u, v), NEW rd,
           FlowOK(FlowOf(u, lines), u.last, rd)
    PROVE  /\ Thin(FlowOf(u, lines), u.last, FlowOf(v, lines), v.last)
           /\ FlowOK(FlowOf(v, lines), v.last, rd)
  <1> DEFINE f == FlowOf(u, lines)
             g == FlowOf(v, lines)
             L == Len(lines)
             N == Len(u.queue)
  <1>1. /\ f \in Seq(FlowLine) /\ Len(f) = L + N /\ L \in Nat /\ N \in Nat
        /\ \A i \in 1..L : f[i] = lines[i]
        /\ \A i \in 1..N : f[L + i] = Line(u.queue[i])
        /\ \A p \in 1..Len(f) : p \in 1..L \/ (p - L \in 1..N /\ p = L + (p - L))
    BY FlowLines
  <1>2. /\ g \in Seq(FlowLine) /\ Len(g) = L + N
        /\ \A i \in 1..L : g[i] = lines[i]
        /\ \A i \in 1..N : g[L + i] = Line(v.queue[i])
    <2>1. Len(v.queue) = N
      BY DEF Drops
    <2> QED BY <2>1, FlowLines
  <1>3. u.last \in Nat /\ v.last \in Nat /\ v.last \in {u.last, u.last + 1}
    BY DEF Drops, FlowOK
  <1>4. ASSUME NEW i \in 1..N
        PROVE  /\ g[L + i].kind = IF v.queue[i].dropped THEN "dropped" ELSE u.queue[i].kind
               /\ f[L + i].kind = IF u.queue[i].dropped THEN "dropped" ELSE u.queue[i].kind
               /\ g[L + i].val = f[L + i].val /\ g[L + i].seq = f[L + i].seq
               /\ u.queue[i].dropped => v.queue[i].dropped
               /\ v.queue[i].dropped /\ ~u.queue[i].dropped =>
                     /\ u.queue[i].kind \in EventKinds /\ v.last = u.last + 1
                     /\ \A j \in 1..N : u.queue[j].kind = "attention" => v.queue[j].dropped
    <2>1. u.queue[i].kind \in EventKinds \cup {"response"}
      <3>1. u.queue[i] \in EntryOf(Words)
        OBVIOUS
      <3> QED BY <3>1, EntryFields
    <2>2. /\ f[L + i] = Line(u.queue[i]) /\ g[L + i] = Line(v.queue[i])
      BY <1>1, <1>2
    <2>3. /\ v.queue[i].kind = u.queue[i].kind /\ v.queue[i].val = u.queue[i].val
          /\ v.queue[i].seq = u.queue[i].seq
          /\ u.queue[i].dropped => v.queue[i].dropped
          /\ v.queue[i].dropped /\ ~u.queue[i].dropped =>
                /\ IsEvent(u.queue[i]) /\ v.last = u.last + 1
                /\ \A j \in 1..N : u.queue[j].kind = "attention" => v.queue[j].dropped
      BY DEF Drops
    <2> HIDE DEF f, g, L, N
    <2> QED BY <2>1, <2>2, <2>3 DEF Line, IsEvent
  <1>5. ASSUME NEW p \in 1..Len(f)
        PROVE  /\ g[p].kind = f[p].kind \/ (Event(f[p]) /\ g[p].kind = "dropped" /\ v.last = u.last + 1)
               /\ g[p].val = f[p].val /\ g[p].seq = f[p].seq
    <2> HIDE DEF f, g, L, N
    <2>1. CASE p \in 1..L
      BY <1>1, <1>2, <2>1
    <2>2. CASE p - L \in 1..N /\ p = L + (p - L)
      <3> DEFINE i == p - L
      <3>1. i \in 1..N /\ p = L + i
        BY <2>2
      <3> HIDE DEF i
      <3>2. /\ g[p].kind = IF v.queue[i].dropped THEN "dropped" ELSE u.queue[i].kind
            /\ f[p].kind = IF u.queue[i].dropped THEN "dropped" ELSE u.queue[i].kind
            /\ g[p].val = f[p].val /\ g[p].seq = f[p].seq
            /\ u.queue[i].dropped => v.queue[i].dropped
            /\ v.queue[i].dropped /\ ~u.queue[i].dropped =>
                  u.queue[i].kind \in EventKinds /\ v.last = u.last + 1
        BY <1>4, <3>1
      <3> QED BY <3>2 DEF Event
    <2> QED BY <1>1, <2>1, <2>2
  <1>6. ASSUME NEW p \in 1..Len(f), NEW q \in 1..Len(f), p < q,
               f[p].kind = "widget", g[p].kind = "dropped"
        PROVE  g[q].kind # "attention"
    <2> SUFFICES ASSUME g[q].kind = "attention" PROVE FALSE
      OBVIOUS
    <2> HIDE DEF f, g, L, N
    <2>1. ~(p \in 1..L)
      BY <1>1, <1>2, <1>6
    <2>2. p - L \in 1..N /\ q - L \in 1..N /\ p = L + (p - L) /\ q = L + (q - L)
      BY <1>1, <1>6, <2>1
    <2> DEFINE i == p - L
               j == q - L
    <2>3. i \in 1..N /\ j \in 1..N /\ p = L + i /\ q = L + j
      BY <2>2
    <2> HIDE DEF i, j
    <2>4. v.queue[i].dropped /\ ~u.queue[i].dropped
      BY <1>4, <1>6, <2>3
    <2>5. ~v.queue[j].dropped /\ u.queue[j].kind = "attention"
      BY <1>4, <2>3
    <2> QED BY <1>4, <2>3, <2>4, <2>5
  <1>7. Thin(f, u.last, g, v.last)
    <2>1. Len(g) = Len(f) /\ u.last <= v.last
      BY <1>1, <1>2, <1>3
    <2>2. \A p \in 1..Len(f) : g[p].kind = f[p].kind \/ (Event(f[p]) /\ g[p].kind = "dropped")
      BY <1>5
    <2>3. \A p \in 1..Len(f) : g[p].val = f[p].val /\ g[p].seq = f[p].seq
      BY <1>5
    <2>4. ASSUME NEW p \in 1..Len(f), Event(f[p]), g[p].kind = "dropped"
          PROVE  u.last < v.last
      <3>1. "dropped" \notin EventKinds
        BY DEF EventKinds, PlainKinds, Mergeable
      <3>2. v.last = u.last + 1
        BY <1>5, <2>4, <3>1 DEF Event
      <3> QED BY <1>3, <3>2
    <2>5. ASSUME NEW q \in 1..Len(f), Event(g[q]) PROVE g[q].seq <= u.last
      <3>1. Event(f[q])
        BY <1>5, <2>5 DEF Event
      <3>2. f[q].seq # 0 => f[q].seq <= u.last
        BY <3>1 DEF FlowOK, Rises
      <3> QED BY <1>3, <1>5, <3>2
    <2> HIDE DEF f, g
    <2> QED BY <1>6, <2>1, <2>2, <2>3, <2>4, <2>5 DEF Thin
  <1>8. FlowOK(g, v.last, rd)
    <2>1. \A p \in 1..Len(f) : Saying(f[p].kind, f[p].val)
      BY DEF FlowOK
    <2>2. ASSUME NEW p \in 1..Len(g) PROVE Saying(g[p].kind, g[p].val)
      <3>1. p \in 1..Len(f)
        BY <1>1, <1>2
      <3>2. CASE g[p].kind = f[p].kind
        BY <1>5, <2>1, <3>1, <3>2
      <3>3. CASE g[p].kind = "dropped"
        BY <3>3 DEF Saying, EventKinds, PlainKinds, Mergeable
      <3> QED BY <1>5, <3>1, <3>2, <3>3
    <2>3. \A p \in 1..Len(f) : g[p].seq = f[p].seq
      BY <1>5
    <2>4. FlowOK(f, u.last, rd)
      OBVIOUS
    <2> HIDE DEF f, g
    <2> QED BY <1>2, <1>3, <1>7, <2>2, <2>3, <2>4, ThinOK
  <1> QED BY <1>7, <1>8

\* maybeEnforceHardCap keeps what is written good.
LEMMA EnforceGood ==
    ASSUME NEW u, NEW lines, NEW rd, NEW h, NEW c, NEW reqs,
           Sound(Words, u), WireOK(lines), QueueOK(u.queue, h.frames),
           GoodFlow(FlowOf(u, lines), u.last, rd, h, c, reqs)
    PROVE  Writing(EnforceHardCap(u), lines, rd, h, c, reqs)
  <1> DEFINE v == EnforceHardCap(u)
  <1>1. Bounded(Words, v) /\ Drops(u, v)
    BY EnforceDrops
  <1> HIDE DEF v
  <1>2. /\ u.queue \in Seq(EntryOf(Words)) /\ v.queue \in Seq(EntryOf(Words))
        /\ lines \in Seq(LineOf(Words))
    BY <1>1 DEF Bounded, Sound, WriterOf, WireOK
  <1>3. /\ Thin(FlowOf(u, lines), u.last, FlowOf(v, lines), v.last)
        /\ FlowOK(FlowOf(v, lines), v.last, rd)
    BY <1>1, <1>2, DropsThin DEF GoodFlow
  <1>4. GoodFlow(FlowOf(v, lines), v.last, rd, h, c, reqs)
    BY <1>3, GoodThin
  <1>5. QueueOK(v.queue, h.frames)
    <2>1. Len(v.queue) = Len(u.queue)
      BY <1>1 DEF Drops
    <2>2. \A i \in 1..Len(u.queue) :
              /\ v.queue[i].kind = u.queue[i].kind /\ v.queue[i].val = u.queue[i].val
              /\ v.queue[i].bytes = u.queue[i].bytes /\ v.queue[i].seq = u.queue[i].seq
              /\ v.queue[i].indexed = u.queue[i].indexed
              /\ u.queue[i].dropped => v.queue[i].dropped
      BY <1>1 DEF Drops
    <2>3. ASSUME NEW i \in 1..Len(v.queue)
          PROVE  /\ v.queue[i].kind = "widget" => v.queue[i].bytes = 1
                 /\ v.queue[i].indexed => HasKey(v.queue[i].kind) /\ v.queue[i].seq = 0
                 /\ v.queue[i].indexed /\ v.queue[i].kind = "frame" /\ ~v.queue[i].dropped =>
                       v.queue[i].val[Len(v.queue[i].val)] = h.frames
      BY <2>1, <2>2 DEF QueueOK
    <2>4. \A i, j \in 1..Len(v.queue) : i < j /\ v.queue[i].indexed =>
              /\ v.queue[i].kind # v.queue[j].kind
              /\ ~(v.queue[i].kind = "widget" /\ v.queue[j].kind = "attention")
      BY <2>1, <2>2 DEF QueueOK
    <2> QED BY <2>3, <2>4 DEF QueueOK
  <1> QED BY <1>1, <1>4, <1>5 DEF Writing, v
-----------------------------------------------------------------------------
(* What the Host says is added to the flow. *)

LEMMA WriterParts ==
    ASSUME NEW w, NEW lines, NEW rd, NEW h, NEW c, NEW reqs, Writing(w, lines, rd, h, c, reqs)
    PROVE  /\ Bounded(Words, w) /\ Sound(Words, w) /\ WireOK(lines)
           /\ w.queue \in Seq(EntryOf(Words)) /\ lines \in Seq(LineOf(Words))
           /\ Len(w.queue) \in Nat /\ Len(lines) \in Nat
           /\ w.last \in Nat /\ w.pending \in Nat /\ QueueOK(w.queue, h.frames)
           /\ GoodFlow(FlowOf(w, lines), w.last, rd, h, c, reqs)
           /\ FlowOK(FlowOf(w, lines), w.last, rd)
           /\ DOMAIN w.queue = 1..Len(w.queue)
  BY DEF Writing, Bounded, Sound, WriterOf, WireOK, GoodFlow

\* Index flags do not show in the flow.
LEMMA SameFlow ==
    ASSUME NEW w, NEW v, NEW lines, w.queue \in Seq(EntryOf(Words)),
           v.queue \in Seq(EntryOf(Words)), Relisted(w, v)
    PROVE  FlowOf(v, lines) = FlowOf(w, lines)
  <1> DEFINE q == w.queue
             r == v.queue
  <1>1. /\ DOMAIN q = 1..Len(q) /\ DOMAIN r = 1..Len(q) /\ Len(q) \in Nat
    BY DEF Relisted
  <1>2. \A i \in 1..Len(q) : Line(r[i]) = Line(q[i])
    BY DEF Relisted, Line
  <1>3. [i \in DOMAIN r |-> Line(r[i])] = [i \in DOMAIN q |-> Line(q[i])]
    BY <1>1, <1>2
  <1> QED BY <1>3 DEF FlowOf

Unindexed(w, v, kind) ==
    /\ v.last = w.last /\ Relisted(w, v)
    /\ \A i \in 1..Len(w.queue) :
          v.queue[i].indexed = (w.queue[i].indexed /\ w.queue[i].kind # kind)

\* So does coalesceIndex.delete, which does not show in the flow.
LEMMA UnindexGood ==
    ASSUME NEW w, NEW lines, NEW rd, NEW h, NEW c, NEW reqs, NEW kind,
           Writing(w, lines, rd, h, c, reqs)
    PROVE  /\ Writing(Unindex(w, kind), lines, rd, h, c, reqs)
           /\ Unindexed(w, Unindex(w, kind), kind)
           /\ FlowOf(Unindex(w, kind), lines) = FlowOf(w, lines)
  <1> DEFINE v == Unindex(w, kind)
  <1>1. /\ Bounded(Words, v) /\ v.last = w.last /\ Relisted(w, v)
        /\ \A i \in 1..Len(w.queue) :
              v.queue[i].indexed = (w.queue[i].indexed /\ w.queue[i].kind # kind)
    BY WriterParts, UnindexBounded
  <1> HIDE DEF v
  <1>2. v.queue \in Seq(EntryOf(Words)) /\ w.queue \in Seq(EntryOf(Words))
    BY <1>1, WriterParts DEF Bounded, Sound, WriterOf
  <1>3. FlowOf(v, lines) = FlowOf(w, lines)
    BY <1>1, <1>2, SameFlow
  <1>4. QueueOK(v.queue, h.frames)
    <2>0. \A i \in 1..Len(w.queue) : v.queue[i].indexed => w.queue[i].indexed
      BY <1>1
    <2>1. /\ Len(v.queue) = Len(w.queue) /\ Len(w.queue) \in Nat
          /\ \A i \in 1..Len(w.queue) :
                /\ v.queue[i].kind = w.queue[i].kind /\ v.queue[i].val = w.queue[i].val
                /\ v.queue[i].bytes = w.queue[i].bytes /\ v.queue[i].seq = w.queue[i].seq
                /\ v.queue[i].dropped = w.queue[i].dropped
      BY <1>1, <1>2 DEF Relisted
    <2>2. QueueOK(w.queue, h.frames)
      BY WriterParts
    <2>3. ASSUME NEW i \in 1..Len(v.queue)
          PROVE  /\ v.queue[i].kind = "widget" => v.queue[i].bytes = 1
                 /\ v.queue[i].indexed => HasKey(v.queue[i].kind) /\ v.queue[i].seq = 0
                 /\ v.queue[i].indexed /\ v.queue[i].kind = "frame" /\ ~v.queue[i].dropped =>
                       v.queue[i].val[Len(v.queue[i].val)] = h.frames
      BY <2>0, <2>1, <2>2 DEF QueueOK
    <2>4. \A i, j \in 1..Len(v.queue) : i < j /\ v.queue[i].indexed =>
              /\ v.queue[i].kind # v.queue[j].kind
              /\ ~(v.queue[i].kind = "widget" /\ v.queue[j].kind = "attention")
      BY <2>0, <2>1, <2>2 DEF QueueOK
    <2> QED BY <2>3, <2>4 DEF QueueOK
  <1>5. Writing(v, lines, rd, h, c, reqs)
    BY <1>1, <1>3, <1>4, WriterParts DEF Writing
  <1>6. Unindexed(w, v, kind)
    BY <1>1 DEF Unindexed
  <1> QED BY <1>3, <1>5, <1>6 DEF v

\* The entry of an event or of a response, as it is pushed.
Fresh(kind, val, bytes) == [Entry(kind, val, bytes) EXCEPT !.indexed = HasKey(kind)]

IsFresh(e, kind, val, bytes) ==
    /\ e \in EntryOf(Words) /\ e.kind = kind /\ e.val = val /\ e.bytes = bytes
    /\ e.seq = 0 /\ e.dropped = FALSE /\ e.indexed = HasKey(kind)
    /\ Line(e) \in FlowLine /\ Line(e).kind = kind /\ Line(e).val = val /\ Line(e).seq = 0
    /\ kind = "response" => e = Entry(kind, val, bytes)

\* The fields of a new entry, and the line it will be.
LEMMA FreshFields ==
    ASSUME NEW kind \in EventKinds \cup {"response"}, NEW val \in Words, NEW bytes \in Nat,
           kind # "response" => val \in Payload
    PROVE  IsFresh(Fresh(kind, val, bytes), kind, val, bytes)
  <1> DEFINE b == HasKey(kind)
             e == [kind |-> kind, val |-> val, bytes |-> bytes, seq |-> 0,
                   dropped |-> FALSE, indexed |-> b]
  <1>1. b \in BOOLEAN /\ (kind = "response" => b = FALSE)
    BY DEF HasKey
  <1>0. Fresh(kind, val, bytes) = [Entry(kind, val, bytes) EXCEPT !.indexed = b]
    BY DEF Fresh
  <1>3. kind = "response" => e = Entry(kind, val, bytes)
    BY <1>1 DEF Entry
  <1> HIDE DEF b
  <1>2. Fresh(kind, val, bytes) = e
    BY <1>0, <1>1 DEF Entry
  <1>4. e \in EntryOf(Words)
    BY <1>1 DEF EntryOf, IsEvent
  <1>5. /\ Line(e) \in FlowLine /\ Line(e).kind = kind /\ Line(e).val = val /\ Line(e).seq = 0
    BY DEF Line, FlowLine
  <1> HIDE DEF e
  <1>6. /\ e.kind = kind /\ e.val = val /\ e.bytes = bytes
        /\ e.seq = 0 /\ e.dropped = FALSE /\ e.indexed = HasKey(kind)
    BY DEF e, b
  <1> QED BY <1>2, <1>3, <1>4, <1>5, <1>6 DEF IsFresh

\* Where an entry is pushed the flow gets longer by its line.
LEMMA PushedFlow ==
    ASSUME NEW w, NEW v, NEW e \in EntryOf(Words), NEW lines \in Seq(LineOf(Words)),
           w.queue \in Seq(EntryOf(Words)), v.queue = Append(w.queue, e)
    PROVE  Longer(FlowOf(w, lines), Line(e), FlowOf(v, lines))
  <1> DEFINE f == FlowOf(w, lines)
             g == FlowOf(v, lines)
             L == Len(lines)
             N == Len(w.queue)
  <1>1. /\ f \in Seq(FlowLine) /\ Len(f) = L + N /\ L \in Nat /\ N \in Nat
        /\ \A i \in 1..L : f[i] = lines[i]
        /\ \A i \in 1..N : f[L + i] = Line(w.queue[i])
        /\ \A p \in 1..Len(f) : p \in 1..L \/ (p - L \in 1..N /\ p = L + (p - L))
    BY FlowLines
  <1>2. /\ v.queue \in Seq(EntryOf(Words)) /\ Len(v.queue) = N + 1
        /\ v.queue[N + 1] = e /\ \A i \in 1..N : v.queue[i] = w.queue[i]
    OBVIOUS
  <1>3. /\ g \in Seq(FlowLine) /\ Len(g) = L + Len(v.queue)
        /\ \A i \in 1..L : g[i] = lines[i]
        /\ \A i \in 1..Len(v.queue) : g[L + i] = Line(v.queue[i])
    BY <1>2, FlowLines
  <1> HIDE DEF f, g, L, N
  <1>4. Len(g) = Len(f) + 1
    BY <1>1, <1>2, <1>3
  <1>5. g[Len(f) + 1] = Line(e)
    <2>1. N + 1 \in 1..Len(v.queue) /\ Len(f) + 1 = L + (N + 1)
      BY <1>1, <1>2
    <2> QED BY <1>2, <1>3, <2>1
  <1>6. ASSUME NEW p \in 1..Len(f) PROVE g[p] = f[p]
    <2>1. CASE p \in 1..L
      BY <1>1, <1>3, <2>1
    <2>2. CASE p - L \in 1..N /\ p = L + (p - L)
      <3>1. p - L \in 1..Len(v.queue) /\ v.queue[p - L] = w.queue[p - L]
        BY <1>1, <1>2, <2>2
      <3>2. g[L + (p - L)] = Line(w.queue[p - L]) /\ f[L + (p - L)] = Line(w.queue[p - L])
        BY <1>1, <1>3, <2>2, <3>1
      <3> QED BY <2>2, <3>2
    <2> QED BY <1>1, <2>1, <2>2
  <1>7. Longer(f, Line(e), g)
    BY <1>3, <1>4, <1>5, <1>6 DEF Longer
  <1> QED BY <1>7 DEF f, g
\* What may be pushed behind what is queued.
Fits(q, kind, val, bytes, frames, frames2) ==
    /\ \A i \in 1..Len(q) : q[i].indexed =>
          /\ q[i].kind # kind
          /\ kind = "attention" => q[i].kind # "widget"
          /\ q[i].kind = "frame" => frames2 = frames
    /\ kind = "widget" => bytes = 1
    /\ kind = "frame" => val[Len(val)] = frames2

\* The queue's flags are right when what is pushed fits.
LEMMA PushedQueue ==
    ASSUME NEW q \in Seq(EntryOf(Words)), NEW r, NEW frames, NEW frames2,
           NEW kind \in EventKinds \cup {"response"}, NEW val \in Words, NEW bytes \in Nat,
           kind # "response" => val \in Payload,
           r = Append(q, Fresh(kind, val, bytes)),
           QueueOK(q, frames), Fits(q, kind, val, bytes, frames, frames2)
    PROVE  QueueOK(r, frames2)
  <1> DEFINE e == Fresh(kind, val, bytes)
             N == Len(q)
  <1>1. /\ e.kind = kind /\ e.val = val /\ e.bytes = bytes /\ e.seq = 0
        /\ e.dropped = FALSE /\ e.indexed = HasKey(kind)
    <2>1. IsFresh(e, kind, val, bytes)
      BY FreshFields
    <2> QED BY <2>1 DEF IsFresh
  <1> HIDE DEF e
  <1>2. /\ N \in Nat /\ Len(r) = N + 1 /\ r[N + 1] = e
        /\ \A i \in 1..N : r[i] = q[i]
    BY DEF e
  <1>3. ASSUME NEW i \in 1..Len(r)
        PROVE  /\ r[i].kind = "widget" => r[i].bytes = 1
               /\ r[i].indexed => HasKey(r[i].kind) /\ r[i].seq = 0
               /\ r[i].indexed /\ r[i].kind = "frame" /\ ~r[i].dropped =>
                     r[i].val[Len(r[i].val)] = frames2
    <2>1. CASE i \in 1..N
      BY <1>2, <2>1 DEF QueueOK, Fits
    <2>2. CASE i = N + 1
      BY <1>1, <1>2, <2>2 DEF Fits
    <2> QED BY <1>2, <2>1, <2>2
  <1>4. ASSUME NEW i \in 1..Len(r), NEW j \in 1..Len(r), i < j, r[i].indexed
        PROVE  /\ r[i].kind # r[j].kind
               /\ ~(r[i].kind = "widget" /\ r[j].kind = "attention")
    <2>1. i \in 1..N
      BY <1>2, <1>4
    <2>2. CASE j \in 1..N
      BY <1>2, <1>4, <2>1, <2>2 DEF QueueOK
    <2>3. CASE j = N + 1
      BY <1>1, <1>2, <1>4, <2>1, <2>3 DEF Fits
    <2> QED BY <1>2, <2>2, <2>3
  <1> QED BY <1>3, <1>4 DEF QueueOK

\* An event is pushed.
LEMMA PushEvent ==
    ASSUME NEW w, NEW lines, NEW rd, NEW h, NEW h2, NEW c, NEW reqs,
           Writing(w, lines, rd, h, c, reqs),
           NEW kind \in EventKinds, NEW val \in Payload, NEW bytes \in Nat, Saying(kind, val),
           Fits(w.queue, kind, val, bytes, h.frames, h2.frames),
           \A r \in 0..Len(FlowOf(w, lines)) : r = 0 \/ Mark(FlowOf(w, lines)[r]) =>
               NewLine(FlowOf(w, lines), r, Line(Fresh(kind, val, bytes)), h, h2)
    PROVE  Writing(Push(w, Fresh(kind, val, bytes)), lines, rd, h2, c, reqs)
  <1> DEFINE e == Fresh(kind, val, bytes)
             l == Line(e)
             f == FlowOf(w, lines)
  <1>1. /\ e \in EntryOf(Words) /\ e.seq = 0 /\ ~e.dropped
        /\ l \in FlowLine /\ l.kind = kind /\ l.val = val /\ l.seq = 0
    <2>1. val \in Words /\ kind # "response"
      BY DEF Words, EventKinds, PlainKinds, Mergeable
    <2>2. IsFresh(e, kind, val, bytes)
      BY <2>1, FreshFields
    <2> HIDE DEF e
    <2> QED BY <2>2 DEF IsFresh
  <1>2. Bounded(Words, w) /\ w.queue \in Seq(EntryOf(Words)) /\ lines \in Seq(LineOf(Words))
        /\ WireOK(lines) /\ QueueOK(w.queue, h.frames) /\ GoodFlow(f, w.last, rd, h, c, reqs)
    BY WriterParts
  <1> HIDE DEF e
  <1>3. PICK mid : Sound(Words, mid) /\ Pushed(w, e, mid)
    BY <1>1, <1>2, PushSteps
  <1>4. /\ Push(w, e) = EnforceHardCap(mid) /\ mid.queue = Append(w.queue, e)
        /\ mid.last = w.last
    BY <1>3 DEF Pushed
  <1>5. QueueOK(mid.queue, h2.frames)
    BY <1>2, <1>4, PushedQueue DEF e, Words
  <1>6. Longer(f, l, FlowOf(mid, lines))
    BY <1>1, <1>2, <1>4, PushedFlow
  <1>7. GoodFlow(FlowOf(mid, lines), w.last, rd, h2, c, reqs)
    <2>1. Event(l) /\ Saying(l.kind, l.val)
      BY <1>1 DEF Event
    <2>2. \A r \in 0..Len(f) : r = 0 \/ Mark(f[r]) => NewLine(f, r, l, h, h2)
      BY DEF e
    <2> HIDE DEF f, l
    <2> QED BY <1>1, <1>2, <1>6, <2>1, <2>2, GoodEvent
  <1>8. Writing(EnforceHardCap(mid), lines, rd, h2, c, reqs)
    BY <1>2, <1>3, <1>4, <1>5, <1>7, EnforceGood
  <1> QED BY <1>4, <1>8 DEF e

\* Nothing queued competes with a response.
LEMMA ResponseFits ==
    ASSUME NEW q, NEW frames, QueueOK(q, frames), NEW val, NEW bytes
    PROVE  Fits(q, "response", val, bytes, frames, frames)
  BY DEF Fits, QueueOK, HasKey

\* A response that is no snapshot is pushed.
LEMMA PushAnswer ==
    ASSUME NEW w, NEW lines, NEW rd, NEW h, NEW h2, NEW c, NEW reqs, NEW reqs2,
           Writing(w, lines, rd, h, c, reqs), NEW val \in Answers,
           ~(val.request.method = "rehydrate" /\ val.ok),
           val.at = h.log, val.request = reqs[1], Behind(reqs, reqs2),
           h.log \in Nat, h.frames \in Nat, h.widget \in Nat,
           h2.log = h.log, h2.frames = h.frames, h2.widget = h.widget,
           h2.cached = IF val.request.method = "settings" THEN val.cached ELSE h.cached
    PROVE  Writing(EnqueueResponse(w, val), lines, rd, h2, c, reqs2)
  <1> DEFINE e == Fresh("response", val, 1)
             l == Line(e)
             f == FlowOf(w, lines)
  <1>1. /\ e \in EntryOf(Words) /\ e.seq = 0 /\ ~e.dropped
        /\ l \in FlowLine /\ l.kind = "response" /\ l.val = val /\ l.seq = 0
        /\ EnqueueResponse(w, val) = Push(w, e)
    <2>1. val \in Words /\ 1 \in Nat
      BY DEF Words
    <2>2. IsFresh(e, "response", val, 1)
      BY <2>1, FreshFields
    <2> HIDE DEF e
    <2> QED BY <2>2 DEF IsFresh, EnqueueResponse
  <1>2. Bounded(Words, w) /\ w.queue \in Seq(EntryOf(Words)) /\ lines \in Seq(LineOf(Words))
        /\ WireOK(lines) /\ QueueOK(w.queue, h.frames) /\ GoodFlow(f, w.last, rd, h, c, reqs)
    BY WriterParts
  <1> HIDE DEF e
  <1>3. PICK mid : Sound(Words, mid) /\ Pushed(w, e, mid)
    BY <1>1, <1>2, PushSteps
  <1>4. /\ Push(w, e) = EnforceHardCap(mid) /\ mid.queue = Append(w.queue, e)
        /\ mid.last = w.last
    BY <1>3 DEF Pushed
  <1>5. QueueOK(mid.queue, h2.frames)
    <2>1. Fits(w.queue, "response", val, 1, h.frames, h2.frames)
      BY <1>2, ResponseFits
    <2> QED BY <1>2, <1>4, <2>1, PushedQueue DEF e, Words
  <1>6. Longer(f, l, FlowOf(mid, lines))
    BY <1>1, <1>2, <1>4, PushedFlow
  <1>7. GoodFlow(FlowOf(mid, lines), w.last, rd, h2, c, reqs2)
    <2>1. Saying(l.kind, l.val)
      BY <1>1 DEF Saying, EventKinds, PlainKinds, Mergeable
    <2>2. ~Mark(l) /\ l.val.at = h.log /\ l.val.request = reqs[1]
      BY <1>1 DEF Mark
    <2>3. h2.cached = IF Renews(l) THEN Renewed(l) ELSE h.cached
      BY <1>1 DEF Renews, Renewed
    <2> HIDE DEF f, l
    <2> QED BY <1>1, <1>2, <1>6, <2>1, <2>2, <2>3, GoodAnswer
  <1>8. Writing(EnforceHardCap(mid), lines, rd, h2, c, reqs2)
    BY <1>2, <1>3, <1>4, <1>5, <1>7, EnforceGood
  <1> QED BY <1>1, <1>4, <1>8
\* What a merge says of the Host.
MergedLine(kind, val, h, h2) ==
    /\ h2.log = h.log /\ h2.cached = h.cached
    /\ kind = "frame" => /\ h2.frames = h.frames + 1 /\ val = <<h2.frames>>
                         /\ h2.widget = h.widget
    /\ kind = "widget" => /\ h2.frames = h.frames /\ h2.widget \in Nat
                          /\ h.widget < h2.widget /\ val[1] = h2.widget
    /\ kind = "queue" => h2.frames = h.frames /\ h2.widget = h.widget

\* A good flow stays one where it says the same of the Host.
LEMMA SameHost ==
    ASSUME NEW f, NEW last, NEW rd, NEW h, NEW h2, NEW c, NEW reqs,
           GoodFlow(f, last, rd, h, c, reqs),
           h2.log = h.log, h2.cached = h.cached, h2.frames = h.frames, h2.widget = h.widget
    PROVE  GoodFlow(f, last, rd, h2, c, reqs)
  <1>1. ASSUME NEW r, NEW b, Follows(f, r, last, h, b) PROVE Follows(f, r, last, h2, b)
    BY <1>1 DEF Follows
  <1>2. AllFollow(f, last, h, c)
    BY DEF GoodFlow
  <1>3. AllFollow(f, last, h2, c)
    BY <1>1, <1>2 DEF AllFollow
  <1> QED BY <1>3 DEF GoodFlow

\* What replaces an entry fits in the queue.
LEMMA MergedQueue ==
    ASSUME NEW w, NEW mid, NEW k \in 1..Len(w.queue), NEW val, NEW bytes, NEW h, NEW h2,
           w.queue \in Seq(EntryOf(Words)), Merged(w, k, val, bytes, mid),
           QueueOK(w.queue, h.frames), w.queue[k].indexed,
           w.queue[k].kind = "widget" => bytes = 1,
           w.queue[k].kind \in Mergeable, MergedLine(w.queue[k].kind, val, h, h2),
           mid.queue[k].kind = "frame" =>
               mid.queue[k].val[Len(mid.queue[k].val)] = h2.frames
    PROVE  QueueOK(mid.queue, h2.frames)
  <1> DEFINE q == w.queue
             r == mid.queue
             N == Len(q)
  <1>1. /\ Len(r) = N /\ N \in Nat /\ k \in 1..N
        /\ \A i \in 1..N : /\ i # k => r[i] = q[i]
                           /\ r[i].kind = q[i].kind /\ r[i].seq = q[i].seq
                           /\ r[i].dropped = q[i].dropped /\ r[i].indexed = q[i].indexed
        /\ q[k].kind # "frame" => r[k].bytes = bytes
    BY DEF Merged
  <1>2. QueueOK(q, h.frames) /\ q[k].indexed /\ (q[k].kind = "widget" => bytes = 1)
        /\ (r[k].kind = "frame" => r[k].val[Len(r[k].val)] = h2.frames)
    OBVIOUS
  <1>3. q[k].kind # "frame" => h2.frames = h.frames
    BY DEF MergedLine, Mergeable
  <1> HIDE DEF q, r, N
  <1>4. ASSUME NEW i \in 1..N
        PROVE  /\ r[i].kind = "widget" => r[i].bytes = 1
               /\ r[i].indexed => HasKey(r[i].kind) /\ r[i].seq = 0
    <2>1. CASE i = k
      BY <1>1, <1>2, <2>1 DEF QueueOK, N
    <2>2. CASE i # k
      BY <1>1, <1>2, <2>2 DEF QueueOK, N
    <2> QED BY <2>1, <2>2
  <1>5. ASSUME NEW i \in 1..N, r[i].indexed, r[i].kind = "frame", ~r[i].dropped
        PROVE  r[i].val[Len(r[i].val)] = h2.frames
    <2>1. CASE i = k
      BY <1>2, <1>5, <2>1
    <2>2. CASE i # k
      <3>1. q[i].indexed /\ q[i].kind = "frame" /\ ~q[i].dropped /\ r[i] = q[i]
        BY <1>1, <1>5, <2>2
      <3>2. q[k].kind # "frame"
        <4>1. i < k \/ k < i
          BY <1>1, <2>2
        <4> QED BY <1>1, <1>2, <3>1, <4>1 DEF QueueOK, N
      <3> QED BY <1>2, <1>3, <3>1, <3>2 DEF QueueOK, N
    <2> QED BY <2>1, <2>2
  <1>6. \A i, j \in 1..N : i < j /\ r[i].indexed =>
            /\ r[i].kind # r[j].kind
            /\ ~(r[i].kind = "widget" /\ r[j].kind = "attention")
    BY <1>1, <1>2 DEF QueueOK, N
  <1>7. Len(mid.queue) = N /\ r = mid.queue
    BY <1>1 DEF r
  <1> QED BY <1>4, <1>5, <1>6, <1>7 DEF QueueOK

\* Where an entry changes one line of the flow does.
OneLine(w, mid, k, f, p, g) ==
    /\ Replaced(f, p, g) /\ f[p] = Line(w.queue[k]) /\ g[p] = Line(mid.queue[k])
    /\ \A o \in 1..Len(f) : p < o =>
          \E j \in 1..Len(w.queue) : k < j /\ f[o] = Line(w.queue[j])

\* A merge changes the line of the entry it takes.
LEMMA MergedFlow ==
    ASSUME NEW w, NEW mid, NEW k \in 1..Len(w.queue), NEW val, NEW bytes,
           NEW lines \in Seq(LineOf(Words)),
           w.queue \in Seq(EntryOf(Words)), mid.queue \in Seq(EntryOf(Words)),
           Merged(w, k, val, bytes, mid), w.queue[k].seq = 0, ~w.queue[k].dropped,
           w.queue[k].kind \in Mergeable
    PROVE  OneLine(w, mid, k, FlowOf(w, lines), Len(lines) + k, FlowOf(mid, lines))
  <1> DEFINE f == FlowOf(w, lines)
             g == FlowOf(mid, lines)
             L == Len(lines)
             N == Len(w.queue)
             P == L + k
  <1>1. /\ f \in Seq(FlowLine) /\ Len(f) = L + N /\ L \in Nat /\ N \in Nat
        /\ \A i \in 1..L : f[i] = lines[i]
        /\ \A i \in 1..N : f[L + i] = Line(w.queue[i])
        /\ \A o \in 1..Len(f) : o \in 1..L \/ (o - L \in 1..N /\ o = L + (o - L))
    BY FlowLines
  <1>2. Len(mid.queue) = N
    BY DEF Merged
  <1>3. /\ g \in Seq(FlowLine) /\ Len(g) = L + N
        /\ \A i \in 1..L : g[i] = lines[i]
        /\ \A i \in 1..N : g[L + i] = Line(mid.queue[i])
    BY <1>2, FlowLines
  <1>4. ASSUME NEW i \in 1..N
        PROVE  /\ i # k => mid.queue[i] = w.queue[i]
               /\ Line(mid.queue[i]).kind = Line(w.queue[i]).kind
               /\ Line(mid.queue[i]).seq = Line(w.queue[i]).seq
    BY DEF Merged, Line
  <1>5. k \in 1..N /\ k \in Nat
    OBVIOUS
  <1>6. Line(w.queue[k]).seq = 0 /\ Event(Line(w.queue[k]))
    BY DEF Line, Event, EventKinds
  <1> HIDE DEF f, g, L, N
  <1>7. P \in 1..Len(f) /\ f[P] = Line(w.queue[k]) /\ g[P] = Line(mid.queue[k])
    BY <1>1, <1>3, <1>5
  <1>8. ASSUME NEW o \in 1..Len(f)
        PROVE  g[o].kind = f[o].kind /\ g[o].seq = f[o].seq /\ (o # P => g[o] = f[o])
    <2>1. CASE o \in 1..L
      BY <1>1, <1>3, <2>1
    <2>2. CASE o - L \in 1..N /\ o = L + (o - L)
      <3> DEFINE i == o - L
      <3>1. i \in 1..N /\ o = L + i
        BY <2>2
      <3> HIDE DEF i
      <3>2. f[o] = Line(w.queue[i]) /\ g[o] = Line(mid.queue[i])
        BY <1>1, <1>3, <3>1
      <3>3. o # P => i # k
        BY <3>1
      <3> QED BY <1>4, <3>1, <3>2, <3>3
    <2> QED BY <1>1, <2>1, <2>2
  <1>9. Replaced(f, P, g)
    <2>1. Len(g) = Len(f)
      BY <1>1, <1>3
    <2>2. Event(f[P]) /\ f[P].seq = 0
      BY <1>6, <1>7
    <2> HIDE DEF P
    <2> QED BY <1>3, <1>7, <1>8, <2>1, <2>2 DEF Replaced
  <1>10. ASSUME NEW o \in 1..Len(f), P < o
         PROVE  \E j \in 1..N : k < j /\ f[o] = Line(w.queue[j])
    <2>1. o - L \in 1..N /\ o = L + (o - L) /\ k < o - L
      BY <1>1, <1>5, <1>10
    <2>2. f[L + (o - L)] = Line(w.queue[o - L])
      BY <1>1, <2>1
    <2> QED BY <2>1, <2>2
  <1> QED BY <1>7, <1>9, <1>10 DEF f, g, N, L, OneLine
\* Another pending queue in place of the one queued.
LEMMA RequeueGood ==
    ASSUME NEW f, NEW g, NEW p, NEW last, NEW rd, NEW h, NEW c, NEW reqs,
           GoodFlow(f, last, rd, h, c, reqs), Replaced(f, p, g),
           f[p].kind = "queue", Saying("queue", g[p].val)
    PROVE  GoodFlow(g, last, rd, h, c, reqs)
  <1>1. /\ g \in Seq(FlowLine) /\ Len(g) = Len(f) /\ p \in 1..Len(f) /\ last \in Nat
        /\ \A o \in 1..Len(f) : /\ g[o].kind = f[o].kind /\ g[o].seq = f[o].seq
                                /\ o # p => g[o] = f[o]
    BY DEF Replaced, GoodFlow, FlowOK
  <1>2. Thin(f, last, g, last)
    <2>1. \A o \in 1..Len(f) : g[o].val = f[o].val \/ f[o].kind = "queue"
      BY <1>1
    <2>2. \A o \in 1..Len(f) : ~(Event(f[o]) /\ g[o].kind = "dropped")
      BY <1>1 DEF Event, EventKinds, PlainKinds, Mergeable
    <2>3. \A o \in 1..Len(f) : ~(f[o].kind = "widget" /\ g[o].kind = "dropped")
      BY <1>1
    <2> QED BY <1>1, <2>1, <2>2, <2>3 DEF Thin
  <1>3. FlowOK(f, last, rd)
    BY DEF GoodFlow
  <1>4. \A o \in 1..Len(g) : Saying(g[o].kind, g[o].val)
    <2>1. \A o \in 1..Len(f) : Saying(f[o].kind, f[o].val)
      BY <1>3 DEF FlowOK
    <2> QED BY <1>1, <2>1
  <1>5. FlowOK(g, last, rd)
    BY <1>1, <1>2, <1>3, <1>4, ThinOK
  <1> QED BY <1>2, <1>5, GoodThin

\* Under pressure an event joins or replaces the one queued.
LEMMA MergeEvent ==
    ASSUME NEW w, NEW lines, NEW rd, NEW h, NEW h2, NEW c, NEW reqs,
           Writing(w, lines, rd, h, c, reqs),
           NEW k \in 1..Len(w.queue), w.queue[k].indexed, ~w.queue[k].dropped,
           w.queue[k].kind \in Mergeable, NEW val \in Payload, Saying(w.queue[k].kind, val),
           NEW bytes \in Nat, w.queue[k].kind = "widget" => bytes = 1,
           MergedLine(w.queue[k].kind, val, h, h2), h.frames \in Nat
    PROVE  Writing(Merge(w, k, val, bytes), lines, rd, h2, c, reqs)
  <1> DEFINE kind == w.queue[k].kind
             f == FlowOf(w, lines)
             p == Len(lines) + k
  <1>1. /\ Bounded(Words, w) /\ w.queue \in Seq(EntryOf(Words)) /\ lines \in Seq(LineOf(Words))
        /\ WireOK(lines) /\ QueueOK(w.queue, h.frames) /\ GoodFlow(f, w.last, rd, h, c, reqs)
        /\ FlowOK(f, w.last, rd)
    BY WriterParts
  <1>2. IsEvent(w.queue[k]) /\ w.queue[k].seq = 0 /\ kind \in EventKinds
    BY <1>1 DEF IsEvent, QueueOK, Mergeable, EventKinds
  <1>3. Payload \subseteq Words
    BY DEF Words
  <1>4. PICK mid : Sound(Words, mid) /\ Merged(w, k, val, bytes, mid)
    BY <1>1, <1>2, <1>3, MergeSteps
  <1> DEFINE g == FlowOf(mid, lines)
  <1>5. mid.queue \in Seq(EntryOf(Words))
    BY <1>4 DEF Sound, WriterOf
  <1>6. /\ Replaced(f, p, g) /\ f[p] = Line(w.queue[k]) /\ g[p] = Line(mid.queue[k])
        /\ \A o \in 1..Len(f) : p < o =>
              \E j \in 1..Len(w.queue) : k < j /\ f[o] = Line(w.queue[j])
    <2>1. OneLine(w, mid, k, f, p, g)
      BY <1>1, <1>2, <1>4, <1>5, MergedFlow
    <2> HIDE DEF f, g, p
    <2> QED BY <2>1 DEF OneLine
  <1>7. /\ Merge(w, k, val, bytes) = EnforceHardCap(mid) /\ mid.last = w.last
        /\ mid.queue[k].val = IF kind = "frame" THEN w.queue[k].val \o val ELSE val
        /\ mid.queue[k].kind = kind /\ ~mid.queue[k].dropped
    BY <1>4 DEF Merged
  <1>8. /\ f[p].kind = kind /\ f[p].val = w.queue[k].val
        /\ g[p].kind = kind /\ g[p].val = mid.queue[k].val /\ p \in 1..Len(f)
    BY <1>6, <1>7 DEF Line, Replaced
  <1>9. MergedLine(kind, val, h, h2) /\ kind \in Mergeable /\ Saying(kind, val)
    OBVIOUS
  <1>10. \A o \in 1..Len(f) : p < o =>
             f[o].kind # kind /\ ~(kind = "widget" /\ f[o].kind = "attention")
    <2>1. ASSUME NEW o \in 1..Len(f), p < o
          PROVE  f[o].kind # kind /\ ~(kind = "widget" /\ f[o].kind = "attention")
      <3>1. PICK j \in 1..Len(w.queue) : k < j /\ f[o] = Line(w.queue[j])
        BY <1>6, <2>1
      <3>2. kind # w.queue[j].kind /\ ~(kind = "widget" /\ w.queue[j].kind = "attention")
        BY <1>1, <3>1 DEF QueueOK
      <3>3. f[o].kind \in {"dropped", w.queue[j].kind}
        BY <3>1 DEF Line
      <3> HIDE DEF kind, f
      <3> QED BY <1>9, <3>2, <3>3 DEF Mergeable
    <2> QED BY <2>1
  <1>11. CASE kind = "frame"
    <2> DEFINE u == w.queue[k].val
               v == mid.queue[k].val
    <2>1. u \in Seq(Nat) /\ Saying("frame", u)
      <3>1. Saying(f[p].kind, f[p].val)
        BY <1>1, <1>8 DEF FlowOK
      <3>2. Saying("frame", u)
        BY <1>8, <1>11, <3>1
      <3> HIDE DEF u
      <3> QED BY <3>2 DEF Saying, Payload, EventKinds, Mergeable
    <2>0. v = u \o val
      BY <1>7, <1>11
    <2>2. v = u \o <<h2.frames>> /\ h2.frames = h.frames + 1 /\ h2.frames \in Nat
      <3>1. val = <<h2.frames>> /\ h2.frames = h.frames + 1
        <4> HIDE DEF kind
        <4> QED BY <1>9, <1>11 DEF MergedLine
      <3> HIDE DEF u, v
      <3> QED BY <2>0, <3>1
    <2> HIDE DEF u, v
    <2>3. Joined(u, v, h2.frames) /\ v[Len(v)] = h2.frames /\ Len(v) # 0 /\ v \in Seq(Nat)
      BY <2>1, <2>2 DEF Joined
    <2>4. Saying("frame", v)
      BY <2>3 DEF Saying, Payload, EventKinds, Mergeable
    <2>5. u[Len(u)] = h.frames
      BY <1>1, <1>2, <1>11 DEF QueueOK, u
    <2>6. f[p].val = u /\ g[p].val = v /\ mid.queue[k].val = v
      BY <1>8 DEF u, v
    <2>7. GoodFlow(g, w.last, rd, h2, c, reqs)
      <3> HIDE DEF f, g, p
      <3>1. /\ f[p].kind = "frame" /\ \A o \in 1..Len(f) : p < o => f[o].kind # "frame"
        BY <1>8, <1>10, <1>11
      <3>2. /\ h2.log = h.log /\ h2.cached = h.cached
            /\ h2.frames = h.frames + 1 /\ h2.widget = h.widget
        BY <1>9, <1>11 DEF MergedLine
      <3>3. Saying(g[p].kind, g[p].val)
        BY <1>8, <1>11, <2>4, <2>6
      <3> QED BY <1>1, <1>6, <2>3, <2>5, <2>6, <3>1, <3>2, <3>3, GoodMerge
    <2>8. QueueOK(mid.queue, h2.frames)
      BY <1>1, <1>4, <2>3, <2>6, MergedQueue
    <2> QED BY <1>1, <1>4, <1>7, <2>7, <2>8, EnforceGood
  <1>12. ASSUME kind # "frame" PROVE QueueOK(mid.queue, h2.frames)
    <2>1. mid.queue[k].kind # "frame"
      BY <1>7, <1>12
    <2> QED BY <1>1, <1>4, <2>1, MergedQueue
  <1>13. CASE kind = "widget"
    <2>1. GoodFlow(g, w.last, rd, h2, c, reqs)
      <3> HIDE DEF f, g, p
      <3>1. /\ f[p].kind = "widget"
            /\ \A o \in 1..Len(f) : p < o => f[o].kind \notin {"widget", "attention"}
        BY <1>8, <1>10, <1>13
      <3>2. /\ h2.log = h.log /\ h2.cached = h.cached /\ h2.frames = h.frames
            /\ h2.widget \in Nat /\ h.widget < h2.widget /\ g[p].val[1] = h2.widget
        BY <1>7, <1>8, <1>9, <1>13 DEF MergedLine
      <3>3. Saying(g[p].kind, g[p].val)
        BY <1>7, <1>8, <1>9, <1>13
      <3> QED BY <1>1, <1>6, <3>1, <3>2, <3>3, GoodMerge
    <2>2. QueueOK(mid.queue, h2.frames)
      BY <1>12, <1>13
    <2> QED BY <1>1, <1>4, <1>7, <2>1, <2>2, EnforceGood
  <1>14. CASE kind = "queue"
    <2>1. GoodFlow(g, w.last, rd, h, c, reqs)
      <3> HIDE DEF f, g, p
      <3>1. f[p].kind = "queue" /\ Saying("queue", g[p].val)
        BY <1>7, <1>8, <1>9, <1>14
      <3> QED BY <1>1, <1>6, <3>1, RequeueGood
    <2>2. GoodFlow(g, w.last, rd, h2, c, reqs)
      <3> HIDE DEF g
      <3>1. /\ h2.log = h.log /\ h2.cached = h.cached
            /\ h2.frames = h.frames /\ h2.widget = h.widget
        BY <1>9, <1>14 DEF MergedLine
      <3> QED BY <2>1, <3>1, SameHost
    <2>3. QueueOK(mid.queue, h2.frames)
      BY <1>12, <1>14
    <2> QED BY <1>1, <1>4, <1>7, <2>2, <2>3, EnforceGood
  <1> QED BY <1>9, <1>11, <1>13, <1>14 DEF Mergeable
-----------------------------------------------------------------------------
(* The events a session emits. *)

\* What an event says of the Host, attention aside.
Announces(kind, val, h, h2) ==
    /\ h2.log \in Nat /\ h2.frames \in Nat /\ h2.widget \in Nat
    /\ IF kind = "delta" THEN h2.log = h.log + 1 /\ val[1] = h2.log ELSE h2.log = h.log
    /\ kind = "snap" => val[1] = h.log
    /\ h2.cached = IF kind = "snap" THEN val[1] ELSE h.cached
    /\ IF kind = "frame" THEN h2.frames = h.frames + 1 /\ val = <<h2.frames>>
       ELSE h2.frames = h.frames
    /\ kind = "closed" => h.frames = 0
    /\ IF kind = "widget" THEN h.widget < h2.widget /\ val[1] = h2.widget
       ELSE h2.widget = h.widget

\* The counters by the kind of event, one at a time.
LEMMA AnnouncesParts ==
    ASSUME NEW kind, NEW val, NEW h, NEW h2, Announces(kind, val, h, h2)
    PROVE  /\ kind # "delta" => h2.log = h.log
           /\ kind # "snap" => h2.cached = h.cached
           /\ kind = "frame" => h2.frames = h.frames + 1 /\ val = <<h2.frames>>
           /\ kind # "frame" => h2.frames = h.frames
           /\ kind = "widget" => h.widget < h2.widget /\ val[1] = h2.widget
           /\ kind # "widget" => h2.widget = h.widget
           /\ h2.log \in Nat /\ h2.frames \in Nat /\ h2.widget \in Nat
  BY DEF Announces

\* The last of one.
LEMMA LastOfOne ==
    ASSUME NEW x, NEW s, s = <<x>>
    PROVE  s[Len(s)] = x
  OBVIOUS

\* What enqueueEvent does with an event that is no attention request.
LEMMA EnqueueCases ==
    ASSUME NEW w, NEW kind, kind # "attention", NEW val, NEW bytes
    PROVE  \/ /\ kind \in Mergeable
              /\ \E k \in DOMAIN w.queue :
                    /\ w.queue[k].kind = kind /\ w.queue[k].indexed /\ ~w.queue[k].dropped
                    /\ EnqueueEvent(w, kind, val, bytes) = Merge(w, k, val, bytes)
           \/ EnqueueEvent(w, kind, val, bytes) = Push(Unindex(w, kind), Fresh(kind, val, bytes))
  <1> DEFINE target == {i \in Indexed(w, kind) : ~w.queue[i].dropped}
             k == CHOOSE i \in target : TRUE
             merges == kind \in Mergeable /\ w.pending > SoftWatermark /\ target # {}
  <1>1. EnqueueEvent(w, kind, val, bytes) =
            IF merges THEN Merge(w, k, val, bytes)
            ELSE Push(Unindex(w, kind), Fresh(kind, val, bytes))
    BY DEF EnqueueEvent, Fresh
  <1>2. CASE merges
    <2>1. k \in target
      BY <1>2
    <2>2. EnqueueEvent(w, kind, val, bytes) = Merge(w, k, val, bytes)
      BY <1>1, <1>2
    <2>3. k \in DOMAIN w.queue /\ w.queue[k].kind = kind /\ w.queue[k].indexed
          /\ ~w.queue[k].dropped
      BY <2>1 DEF Indexed
    <2>4. kind \in Mergeable
      BY <1>2
    <2> HIDE DEF k, merges, target
    <2> QED BY <2>2, <2>3, <2>4
  <1>3. CASE ~merges
    <2> HIDE DEF merges, k
    <2> QED BY <1>1, <1>3
  <1> QED BY <1>2, <1>3

\* enqueueEvent keeps what is written good: it merges, or unindexes and pushes.
LEMMA EnqueueGood ==
    ASSUME NEW w, NEW lines, NEW rd, NEW h, NEW h2, NEW c, NEW reqs,
           Writing(w, lines, rd, h, c, reqs), h.frames \in Nat,
           NEW kind \in EventKinds, kind # "attention", NEW val \in Payload, Saying(kind, val),
           Announces(kind, val, h, h2)
    PROVE  Writing(EnqueueEvent(w, kind, val, 1), lines, rd, h2, c, reqs)
  <1>1. CASE /\ kind \in Mergeable
             /\ \E k \in DOMAIN w.queue :
                   /\ w.queue[k].kind = kind /\ w.queue[k].indexed /\ ~w.queue[k].dropped
                   /\ EnqueueEvent(w, kind, val, 1) = Merge(w, k, val, 1)
    <2>1. PICK k \in DOMAIN w.queue :
              /\ w.queue[k].kind = kind /\ w.queue[k].indexed /\ ~w.queue[k].dropped
              /\ EnqueueEvent(w, kind, val, 1) = Merge(w, k, val, 1)
      BY <1>1
    <2>2. k \in 1..Len(w.queue)
      BY WriterParts
    <2>3. MergedLine(w.queue[k].kind, val, h, h2)
      <3>1. MergedLine(kind, val, h, h2)
        <4>1. kind # "delta" /\ kind # "snap"
          BY <1>1 DEF Mergeable
        <4> QED BY <4>1, AnnouncesParts DEF MergedLine
      <3> QED BY <2>1, <3>1
    <2> QED BY <1>1, <2>1, <2>2, <2>3, MergeEvent
  <1>2. CASE EnqueueEvent(w, kind, val, 1) = Push(Unindex(w, kind), Fresh(kind, val, 1))
    <2> DEFINE v == Unindex(w, kind)
               f == FlowOf(w, lines)
               l == Line(Fresh(kind, val, 1))
    <2>0. /\ Writing(v, lines, rd, h, c, reqs) /\ FlowOf(v, lines) = f
          /\ Unindexed(w, v, kind)
      BY UnindexGood
    <2> HIDE DEF v
    <2>1. /\ Relisted(w, v)
          /\ \A i \in 1..Len(w.queue) :
                v.queue[i].indexed = (w.queue[i].indexed /\ w.queue[i].kind # kind)
      BY <2>0 DEF Unindexed
    <2>2. Fits(v.queue, kind, val, 1, h.frames, h2.frames)
      <3>1. Len(v.queue) = Len(w.queue)
            /\ \A i \in 1..Len(w.queue) : v.queue[i].kind = w.queue[i].kind
        BY <2>1 DEF Relisted
      <3>2. \A i \in 1..Len(v.queue) : v.queue[i].indexed => v.queue[i].kind # kind
        BY <2>1, <3>1
      <3>3. kind # "frame" => h2.frames = h.frames
        BY DEF Announces
      <3>4. kind = "frame" => val[Len(val)] = h2.frames
        <4>1. kind = "frame" => val = <<h2.frames>>
          BY DEF Announces
        <4> QED BY <4>1, LastOfOne
      <3> QED BY <3>2, <3>3, <3>4 DEF Fits
    <2>3. l.kind = kind /\ l.val = val /\ kind # "response"
      <3>1. val \in Words /\ kind # "response"
        BY DEF Words, EventKinds, PlainKinds, Mergeable
      <3>2. IsFresh(Fresh(kind, val, 1), kind, val, 1)
        BY <3>1, FreshFields
      <3> QED BY <3>1, <3>2 DEF IsFresh
    <2>4. \A r \in 0..Len(f) : NewLine(f, r, l, h, h2)
      <3> HIDE DEF f, l
      <3>1. h2.cached = IF Renews(l) THEN Renewed(l) ELSE h.cached
        BY <2>3 DEF Renews, Renewed, Announces
      <3> QED BY <2>3, <3>1 DEF NewLine, Announces
    <2>5. Writing(Push(v, Fresh(kind, val, 1)), lines, rd, h2, c, reqs)
      BY <2>0, <2>2, <2>4, PushEvent
    <2> QED BY <1>2, <2>5 DEF v
  <1> QED BY <1>1, <1>2, EnqueueCases
\* The widget that was said last may still be replaced.
Replaceable(w, val, k) ==
    /\ k \in 1..Len(w.queue) /\ w.queue[k].kind = "widget" /\ w.queue[k].indexed
    /\ w.queue[k].val = val

\* enforcing the hard cap changes no flag and no value.
LEMMA EnforceReplaceable ==
    ASSUME NEW u, Sound(Words, u), NEW val, NEW k, Replaceable(u, val, k)
    PROVE  Replaceable(EnforceHardCap(u), val, k)
  <1> DEFINE v == EnforceHardCap(u)
  <1>1. Drops(u, v)
    BY EnforceDrops
  <1> HIDE DEF v
  <1>2. Replaceable(v, val, k)
    BY <1>1 DEF Drops, Replaceable
  <1> QED BY <1>2 DEF v

\* A widget said by enqueueEvent is in the queue and indexed.
LEMMA WidgetReplaceable ==
    ASSUME NEW w, NEW lines, NEW rd, NEW h, NEW c, NEW reqs,
           Writing(w, lines, rd, h, c, reqs), NEW val \in Payload
    PROVE  \E k : Replaceable(EnqueueEvent(w, "widget", val, 1), val, k)
  <1> DEFINE x == EnqueueEvent(w, "widget", val, 1)
             e == Fresh("widget", val, 1)
  <1>1. CASE \E k \in DOMAIN w.queue :
                /\ w.queue[k].kind = "widget" /\ w.queue[k].indexed /\ ~w.queue[k].dropped
                /\ x = Merge(w, k, val, 1)
    <2>1. PICK k \in DOMAIN w.queue :
              /\ w.queue[k].kind = "widget" /\ w.queue[k].indexed /\ ~w.queue[k].dropped
              /\ x = Merge(w, k, val, 1)
      BY <1>1
    <2>2. k \in 1..Len(w.queue) /\ Bounded(Words, w) /\ Payload \subseteq Words /\ 1 \in Nat
      BY WriterParts DEF Words
    <2>3. IsEvent(w.queue[k])
      BY <2>1 DEF IsEvent
    <2>4. PICK mid : Sound(Words, mid) /\ Merged(w, k, val, 1, mid)
      BY <2>1, <2>2, <2>3, MergeSteps
    <2>5. Replaceable(mid, val, k)
      BY <2>1, <2>2, <2>4 DEF Merged, Replaceable
    <2>6. x = EnforceHardCap(mid)
      BY <2>1, <2>4 DEF Merged
    <2>7. Replaceable(EnforceHardCap(mid), val, k)
      BY <2>4, <2>5, EnforceReplaceable
    <2> HIDE DEF x
    <2>8. Replaceable(x, val, k)
      BY <2>6, <2>7
    <2> QED BY <2>8 DEF x
  <1>2. CASE x = Push(Unindex(w, "widget"), e)
    <2> DEFINE v == Unindex(w, "widget")
    <2>1. Bounded(Words, v) /\ v.queue \in Seq(EntryOf(Words))
      <3>1. Writing(v, lines, rd, h, c, reqs)
        BY UnindexGood
      <3> HIDE DEF v
      <3> QED BY <3>1, WriterParts
    <2>2. /\ e \in EntryOf(Words) /\ ~e.dropped /\ e.seq = 0 /\ e.kind = "widget"
          /\ e.val = val /\ e.indexed
      <3>1. val \in Words /\ 1 \in Nat /\ "widget" \in EventKinds
        BY DEF Words, EventKinds, Mergeable
      <3>2. IsFresh(e, "widget", val, 1)
        BY <3>1, FreshFields
      <3>3. HasKey("widget")
        BY DEF HasKey, PlainKinds
      <3> HIDE DEF e
      <3> QED BY <3>2, <3>3 DEF IsFresh
    <2> HIDE DEF v, e
    <2>3. PICK mid : Sound(Words, mid) /\ Pushed(v, e, mid)
      BY <2>1, <2>2, PushSteps
    <2>4. /\ Push(v, e) = EnforceHardCap(mid) /\ mid.queue = Append(v.queue, e)
      BY <2>3 DEF Pushed
    <2> DEFINE k == Len(v.queue) + 1
    <2>5. /\ k \in 1..Len(mid.queue) /\ mid.queue[k] = e
      BY <2>1, <2>4
    <2> HIDE DEF k
    <2>6. Replaceable(mid, val, k)
      BY <2>2, <2>5 DEF Replaceable
    <2>7. Replaceable(EnforceHardCap(mid), val, k)
      BY <2>3, <2>6, EnforceReplaceable
    <2>8. x = EnforceHardCap(mid)
      BY <1>2, <2>4 DEF v, e
    <2> HIDE DEF x
    <2>9. Replaceable(x, val, k)
      BY <2>7, <2>8
    <2> QED BY <2>9 DEF x
  <1> QED BY <1>1, <1>2, EnqueueCases

\* An attention request follows its widget, or is not said.
LEMMA AttentionGood ==
    ASSUME NEW w, NEW lines, NEW rd, NEW h, NEW c, NEW reqs,
           Writing(w, lines, rd, h, c, reqs), NEW val \in Payload, Len(val) = 1,
           h.log \in Nat, h.frames \in Nat, h.widget \in Nat,
           \E k : Replaceable(w, val, k)
    PROVE  Writing(EnqueueEvent(w, "attention", val, 1), lines, rd, h, c, reqs)
  <1> DEFINE u == Unindex(w, "widget")
             v == Unindex(u, "attention")
             e == Fresh("attention", val, 1)
             f == FlowOf(w, lines)
             lost == \E i \in Indexed(w, "widget") : w.queue[i].dropped
  <1>1. EnqueueEvent(w, "attention", val, 1) = IF lost THEN w ELSE Push(v, e)
    <2>1. "attention" \notin Mergeable
      BY DEF Mergeable
    <2> QED BY <2>1 DEF EnqueueEvent, Fresh, AttentionGuard
  <1>2. CASE lost
    BY <1>1, <1>2
  <1>3. CASE ~lost
    <2>1. PICK k : Replaceable(w, val, k)
      OBVIOUS
    <2>2. /\ k \in 1..Len(w.queue) /\ w.queue[k].kind = "widget" /\ w.queue[k].indexed
          /\ w.queue[k].val = val
      BY <2>1 DEF Replaceable
    <2>3. /\ w.queue \in Seq(EntryOf(Words)) /\ lines \in Seq(LineOf(Words))
          /\ Len(w.queue) \in Nat /\ Len(lines) \in Nat /\ QueueOK(w.queue, h.frames)
          /\ FlowOK(f, w.last, rd) /\ DOMAIN w.queue = 1..Len(w.queue)
      BY WriterParts
    <2>4. ~w.queue[k].dropped /\ w.queue[k].seq = 0
      BY <1>3, <2>2, <2>3 DEF Indexed, QueueOK
    <2> DEFINE p == Len(lines) + k
               l == Line(e)
    <2>5. /\ p \in 1..Len(f) /\ f[p] = Line(w.queue[k]) /\ Len(f) \in Nat
          /\ \A o \in 1..Len(f) : p < o =>
                \E j \in 1..Len(w.queue) : k < j /\ f[o] = Line(w.queue[j])
      <3> DEFINE L == Len(lines)
                 N == Len(w.queue)
      <3>1. /\ Len(f) = L + N
            /\ \A i \in 1..N : f[L + i] = Line(w.queue[i])
            /\ \A o \in 1..Len(f) : o \in 1..L \/ (o - L \in 1..N /\ o = L + (o - L))
        BY <2>3, FlowLines
      <3>2. L \in Nat /\ N \in Nat /\ k \in 1..N
        BY <2>2, <2>3
      <3> HIDE DEF f, L, N
      <3>3. p = L + k
        BY DEF L
      <3> HIDE DEF p
      <3>4. ASSUME NEW o \in 1..Len(f), p < o
            PROVE  \E j \in 1..N : k < j /\ f[o] = Line(w.queue[j])
        <4>1. o - L \in 1..N /\ o = L + (o - L) /\ k < o - L
          BY <3>1, <3>2, <3>3, <3>4
        <4>2. f[L + (o - L)] = Line(w.queue[o - L])
          BY <3>1, <4>1
        <4> QED BY <4>1, <4>2
      <3>5. p \in 1..Len(f) /\ Len(f) \in Nat
        BY <3>1, <3>2, <3>3
      <3>6. f[p] = Line(w.queue[k])
        BY <3>1, <3>2, <3>3
      <3> QED BY <3>4, <3>5, <3>6 DEF N
    <2>6. f[p].kind = "widget" /\ f[p].val = val /\ f[p].seq = 0
      BY <2>2, <2>4, <2>5 DEF Line
    <2>7. \A o \in 1..Len(f) : p < o => f[o].kind # "widget"
      <3>1. ASSUME NEW o \in 1..Len(f), p < o PROVE f[o].kind # "widget"
        <4>1. PICK j \in 1..Len(w.queue) : k < j /\ f[o] = Line(w.queue[j])
          BY <2>5, <3>1
        <4>2. w.queue[j].kind # "widget"
          BY <2>2, <2>3, <4>1 DEF QueueOK
        <4> HIDE DEF f
        <4> QED BY <4>1, <4>2 DEF Line
      <3> QED BY <3>1
    <2>8. \A r \in 1..Len(f) : Mark(f[r]) => r < p
      <3>1. ASSUME NEW r \in 1..Len(f), Mark(f[r]), p < r PROVE FALSE
        <4>1. Event(f[p])
          BY <2>6 DEF Event, EventKinds, Mergeable
        <4>2. f[p].seq # 0
          BY <2>3, <2>5, <3>1, <4>1 DEF FlowOK, MarksSealed
        <4> QED BY <2>6, <4>2
      <3>2. ~Mark(f[p])
        BY <2>6 DEF Mark
      <3> HIDE DEF f, p
      <3> QED BY <2>5, <3>1, <3>2
    <2>9. l.kind = "attention" /\ l.val = val /\ val \in Words
      <3>1. val \in Words /\ 1 \in Nat /\ "attention" \in EventKinds
        BY DEF Words, EventKinds
      <3>2. IsFresh(e, "attention", val, 1)
        BY <3>1, FreshFields
      <3> HIDE DEF e
      <3> QED BY <3>1, <3>2 DEF IsFresh
    <2>10. ASSUME NEW r \in 0..Len(f), r = 0 \/ Mark(f[r]) PROVE NewLine(f, r, l, h, h)
      <3>1. r < p
        BY <2>5, <2>8, <2>10
      <3> HIDE DEF f, p, l
      <3> QED BY <2>5, <2>6, <2>7, <2>9, <3>1 DEF NewLine, Renews
    <2>11. /\ Writing(u, lines, rd, h, c, reqs) /\ FlowOf(u, lines) = f
           /\ Unindexed(w, u, "widget")
      BY UnindexGood
    <2> HIDE DEF u
    <2>12. /\ Writing(v, lines, rd, h, c, reqs) /\ FlowOf(v, lines) = f
           /\ Unindexed(u, v, "attention")
      BY <2>11, UnindexGood
    <2> HIDE DEF v
    <2>13. Fits(v.queue, "attention", val, 1, h.frames, h.frames)
      <3>1. /\ Len(v.queue) = Len(w.queue) /\ Len(u.queue) = Len(w.queue)
            /\ \A i \in 1..Len(w.queue) :
                  u.queue[i].kind = w.queue[i].kind /\ v.queue[i].kind = w.queue[i].kind
        BY <2>11, <2>12 DEF Unindexed, Relisted
      <3>2. \A i \in 1..Len(w.queue) :
                /\ v.queue[i].indexed => u.queue[i].indexed /\ u.queue[i].kind # "attention"
                /\ u.queue[i].indexed => w.queue[i].kind # "widget"
        BY <2>11, <2>12, <3>1 DEF Unindexed
      <3> QED BY <3>1, <3>2 DEF Fits
    <2>14. Saying("attention", val) /\ "attention" \in EventKinds
      BY DEF Saying, EventKinds
    <2>15. Writing(Push(v, e), lines, rd, h, c, reqs)
      <3>1. \A r \in 0..Len(f) : r = 0 \/ Mark(f[r]) => NewLine(f, r, l, h, h)
        BY <2>10
      <3>2. \A r \in 0..Len(FlowOf(v, lines)) : r = 0 \/ Mark(FlowOf(v, lines)[r]) =>
               NewLine(FlowOf(v, lines), r, Line(Fresh("attention", val, 1)), h, h)
        BY <2>12, <3>1
      <3> QED BY <2>12, <2>13, <2>14, <3>2, PushEvent
    <2> QED BY <1>1, <1>3, <2>15 DEF v, u
  <1> QED BY <1>2, <1>3
-----------------------------------------------------------------------------
(* A snapshot that waits in the queue gets the new pending queue. *)

\* A non-empty set of positions has a largest.
LEMMA MaxIn ==
    ASSUME NEW N \in Nat, NEW S, S \subseteq 1..N, S # {}
    PROVE  Max(S) \in S
  <1> DEFINE Largest(n) == \E x \in S : x <= n /\ \A y \in S : y <= n => y <= x
             T == {n \in 0..N : (\E x \in S : x <= n) => Largest(n)}
  <1>1. 0 \in T
    OBVIOUS
  <1>2. ASSUME NEW n \in 1..N, n - 1 \in T PROVE n \in T
    <2>1. CASE n \in S
      <3>1. Largest(n)
        BY <2>1
      <3> QED BY <3>1
    <2>2. CASE n \notin S
      <3>1. \A x \in S : x <= n <=> x <= n - 1
        BY <2>2
      <3>2. (\E x \in S : x <= n) => Largest(n - 1)
        BY <1>2, <3>1
      <3>3. Largest(n - 1) => Largest(n)
        BY <3>1
      <3> QED BY <3>2, <3>3
    <2> QED BY <2>1, <2>2
  <1>3. \A n \in 0..N : n \in T
    <2> HIDE DEF T
    <2> QED BY <1>1, <1>2, UpTo
  <1>4. N \in T /\ \E x \in S : x <= N
    <2>1. N \in 0..N
      OBVIOUS
    <2>2. \E x \in S : x <= N
      <3>1. PICK x \in S : TRUE
        OBVIOUS
      <3>2. x \in 1..N
        BY <3>1
      <3> QED BY <3>1, <3>2
    <2> HIDE DEF T
    <2> QED BY <1>3, <2>1, <2>2
  <1>5. \E x \in S : \A y \in S : x >= y
    <2>1. Largest(N)
      BY <1>4
    <2> QED BY <2>1
  <1> QED BY <1>5 DEF Max

\* The value of a snapshot changes in the pending queue it holds.
Repended(w, v, k) ==
    /\ Len(v.queue) = Len(w.queue) /\ v.last = w.last /\ v.pending = w.pending
    /\ k \in 1..Len(w.queue) /\ w.queue[k].kind = "snap"
    /\ v.queue[k].val[1] = w.queue[k].val[1]
    /\ Len(v.queue[k].val) = Len(w.queue[k].val)
    /\ \A i \in 1..Len(w.queue) :
          /\ i # k => v.queue[i] = w.queue[i]
          /\ v.queue[i].kind = w.queue[i].kind /\ v.queue[i].bytes = w.queue[i].bytes
          /\ v.queue[i].seq = w.queue[i].seq /\ v.queue[i].dropped = w.queue[i].dropped
          /\ v.queue[i].indexed = w.queue[i].indexed

\* publishQueueSnapshot writes in the snapshot that waits, if there is one.
LEMMA SetPendingForm ==
    ASSUME NEW w \in WriterOf(Words), NEW version \in Nat
    PROVE  \/ SetPending(w, version) = w
           \/ /\ SetPending(w, version) \in WriterOf(Words)
              /\ \E k : Repended(w, SetPending(w, version), k)
  <1> DEFINE v == SetPending(w, version)
             S == Snaps(w)
             k == Max(S)
             q == w.queue
  <1>1. /\ q \in Seq(EntryOf(Words)) /\ w.pending \in Nat /\ w.last \in Nat
        /\ Len(q) \in Nat /\ DOMAIN q = 1..Len(q)
    BY DEF WriterOf
  <1>2. CASE ~(host.shared /\ S # {})
    BY <1>2 DEF SetPending
  <1>3. CASE host.shared /\ S # {}
    <2>1. S \subseteq 1..Len(q)
      BY <1>1 DEF Snaps
    <2>2. k \in S
      <3> HIDE DEF S
      <3> QED BY <1>1, <1>3, <2>1, MaxIn
    <2>3. k \in 1..Len(q) /\ q[k].kind = "snap"
      BY <1>1, <2>2 DEF Snaps
    <2> HIDE DEF S
    <2>4. v = [w EXCEPT !.queue[k].val[2] = version]
      BY <1>3 DEF SetPending, S
    <2> HIDE DEF k
    <2> DEFINE nval == [q[k].val EXCEPT ![2] = version]
               e == [q[k] EXCEPT !.val = nval]
               r == [q EXCEPT ![k] = e]
    <2>5. q[k] \in EntryOf(Words) /\ q[k].val \in Seq(Nat)
      <3>1. q[k] \in EntryOf(Words)
        BY <1>1, <2>3
      <3>2. IsEvent(q[k])
        BY <2>3 DEF IsEvent
      <3> QED BY <3>1, <3>2, EntryFields DEF Payload
    <2>6. nval \in Seq(Nat) /\ Len(nval) = Len(q[k].val) /\ nval[1] = q[k].val[1]
      <3> DEFINE s == q[k].val
      <3>1. s \in Seq(Nat)
        BY <2>5
      <3> HIDE DEF s
      <3> DEFINE t == [s EXCEPT ![2] = version]
      <3>2. t = [i \in DOMAIN s |-> t[i]] /\ \A i \in 1..Len(s) : t[i] \in Nat
        BY <3>1
      <3>6. t[1] = s[1]
        BY <3>1
      <3> HIDE DEF t
      <3>4. t \in Seq(Nat) /\ Len(t) = Len(s)
        BY <3>1, <3>2, Rewritten
      <3>5. nval = t
        BY DEF s, t
      <3> HIDE DEF nval
      <3> QED BY <3>4, <3>5, <3>6 DEF s
    <2>7. /\ e \in EntryOf(Words) /\ e.kind = q[k].kind /\ e.val = nval
          /\ e.bytes = q[k].bytes /\ e.seq = q[k].seq
          /\ e.dropped = q[k].dropped /\ e.indexed = q[k].indexed
      <3> DEFINE x == q[k]
      <3>1. x \in EntryOf(Words) /\ e = [x EXCEPT !.val = nval] /\ nval \in Payload
        BY <2>5, <2>6 DEF Payload
      <3> HIDE DEF x, e, nval
      <3>2. /\ e \in EntryOf(Words) /\ e.kind = x.kind /\ e.val = nval
            /\ e.bytes = x.bytes /\ e.seq = x.seq
            /\ e.dropped = x.dropped /\ e.indexed = x.indexed
        BY <3>1 DEF EntryOf, IsEvent, Words
      <3> QED BY <3>2 DEF x
    <2>8. v = [w EXCEPT !.queue = r]
      <3>1. v = [w EXCEPT !.queue = [q EXCEPT ![k] = [q[k] EXCEPT !.val = nval]]]
        BY <2>4
      <3> QED BY <3>1
    <2> HIDE DEF v, e
    <2>9. /\ r \in Seq(EntryOf(Words)) /\ Len(r) = Len(q) /\ r[k] = e
          /\ \A i \in 1..Len(q) : i # k => r[i] = q[i]
      BY <1>1, <2>3, <2>7
    <2> HIDE DEF r
    <2>10. /\ v \in WriterOf(Words) /\ v.queue = r /\ v.pending = w.pending
           /\ v.last = w.last
      <3> HIDE DEF q
      <3> QED BY <1>1, <2>8, <2>9 DEF WriterOf
    <2>11. Repended(w, v, k)
      <3>1. \A i \in 1..Len(q) :
                /\ i # k => r[i] = q[i]
                /\ r[i].kind = q[i].kind /\ r[i].bytes = q[i].bytes
                /\ r[i].seq = q[i].seq /\ r[i].dropped = q[i].dropped
                /\ r[i].indexed = q[i].indexed
        BY <2>7, <2>9
      <3>2. r[k].val[1] = q[k].val[1] /\ Len(r[k].val) = Len(q[k].val)
        BY <2>6, <2>7, <2>9
      <3> HIDE DEF nval
      <3> QED BY <2>3, <2>9, <2>10, <3>1, <3>2 DEF Repended
    <2> QED BY <2>10, <2>11 DEF v
  <1> QED BY <1>2, <1>3
\* The account of pendingBytes does not change with it.
LEMMA RependedBounded ==
    ASSUME NEW w, Bounded(Words, w), NEW v \in WriterOf(Words), NEW k, Repended(w, v, k)
    PROVE  Bounded(Words, v)
  <1> DEFINE q == w.queue
             r == v.queue
             N == Len(q)
  <1>1. /\ q \in Seq(EntryOf(Words)) /\ r \in Seq(EntryOf(Words)) /\ N \in Nat
        /\ DOMAIN q = 1..N /\ DOMAIN r = 1..N
        /\ w.pending = Total(Weights(q)) /\ Pressed(w) /\ v.pending = w.pending
    BY DEF Bounded, Sound, WriterOf, Repended
  <1>2. \A i \in 1..N : /\ r[i].kind = q[i].kind /\ r[i].bytes = q[i].bytes
                        /\ r[i].dropped = q[i].dropped
    BY DEF Repended
  <1> HIDE DEF N, q, r
  <1>3. Weights(r) = Weights(q)
    BY <1>1, <1>2 DEF Weights
  <1>4. Sound(Words, v)
    BY <1>1, <1>3 DEF Sound, r
  <1>5. Pressed(v)
    BY <1>1, <1>2 DEF Pressed, IsEvent, q, r
  <1> QED BY <1>4, <1>5 DEF Bounded

\* In the flow it changes the value of a snapshot.
LEMMA RependedThin ==
    ASSUME NEW w, NEW v, NEW k, NEW lines \in Seq(LineOf(Words)), NEW last \in Nat, NEW rd,
           w.queue \in Seq(EntryOf(Words)), v.queue \in Seq(EntryOf(Words)), Repended(w, v, k),
           FlowOK(FlowOf(w, lines), last, rd)
    PROVE  /\ Thin(FlowOf(w, lines), last, FlowOf(v, lines), last)
           /\ FlowOK(FlowOf(v, lines), last, rd)
  <1> DEFINE f == FlowOf(w, lines)
             g == FlowOf(v, lines)
             L == Len(lines)
             N == Len(w.queue)
  <1>1. /\ f \in Seq(FlowLine) /\ Len(f) = L + N /\ L \in Nat /\ N \in Nat
        /\ \A i \in 1..L : f[i] = lines[i]
        /\ \A i \in 1..N : f[L + i] = Line(w.queue[i])
        /\ \A o \in 1..Len(f) : o \in 1..L \/ (o - L \in 1..N /\ o = L + (o - L))
    BY FlowLines
  <1>2. Len(v.queue) = N
    BY DEF Repended
  <1>3. /\ g \in Seq(FlowLine) /\ Len(g) = L + N
        /\ \A i \in 1..L : g[i] = lines[i]
        /\ \A i \in 1..N : g[L + i] = Line(v.queue[i])
    BY <1>2, FlowLines
  <1>4. ASSUME NEW i \in 1..N
        PROVE  /\ Line(v.queue[i]).kind = Line(w.queue[i]).kind
               /\ Line(v.queue[i]).seq = Line(w.queue[i]).seq
               /\ \/ Line(v.queue[i]).val = Line(w.queue[i]).val
                  \/ /\ Line(w.queue[i]).kind \in {"snap", "dropped"}
                     /\ Line(v.queue[i]).val \in Payload
                     /\ Line(v.queue[i]).val[1] = Line(w.queue[i]).val[1]
                     /\ Len(Line(v.queue[i]).val) = Len(Line(w.queue[i]).val)
    <2>1. CASE i # k
      BY <2>1 DEF Repended
    <2>2. CASE i = k
      <3>1. v.queue[i] \in EntryOf(Words) /\ v.queue[i].kind = "snap"
        BY <1>2, <2>2 DEF Repended
      <3>2. v.queue[i].val \in Payload
        BY <3>1, EntryFields DEF IsEvent
      <3>3. /\ v.queue[i].val[1] = w.queue[i].val[1]
            /\ Len(v.queue[i].val) = Len(w.queue[i].val)
            /\ v.queue[i].kind = w.queue[i].kind /\ v.queue[i].seq = w.queue[i].seq
            /\ v.queue[i].dropped = w.queue[i].dropped
        BY <2>2 DEF Repended
      <3> HIDE DEF N
      <3> QED BY <3>1, <3>2, <3>3 DEF Line
    <2> QED BY <2>1, <2>2
  <1>5. ASSUME NEW p \in 1..Len(f)
        PROVE  /\ g[p].kind = f[p].kind /\ g[p].seq = f[p].seq
               /\ \/ g[p].val = f[p].val
                  \/ /\ f[p].kind \in {"snap", "dropped"} /\ g[p].val \in Payload
                     /\ g[p].val[1] = f[p].val[1] /\ Len(g[p].val) = Len(f[p].val)
    <2> HIDE DEF f, g, L, N
    <2>1. CASE p \in 1..L
      BY <1>1, <1>3, <2>1
    <2>2. CASE p - L \in 1..N /\ p = L + (p - L)
      <3> DEFINE i == p - L
      <3>1. i \in 1..N /\ p = L + i
        BY <2>2
      <3> HIDE DEF i
      <3>2. f[p] = Line(w.queue[i]) /\ g[p] = Line(v.queue[i])
        BY <1>1, <1>3, <3>1
      <3> QED BY <1>4, <3>1, <3>2
    <2> QED BY <1>1, <2>1, <2>2
  <1>6. Len(g) = Len(f) /\ FlowOK(f, last, rd)
    BY <1>1, <1>3
  <1> HIDE DEF f, g
  <1>7. Thin(f, last, g, last)
    <2>1. \A p \in 1..Len(f) : ~(Event(f[p]) /\ g[p].kind = "dropped")
      BY <1>5 DEF Event, EventKinds, PlainKinds, Mergeable
    <2>2. \A p \in 1..Len(f) : ~(f[p].kind = "widget" /\ g[p].kind = "dropped")
      BY <1>5
    <2>3. \A p \in 1..Len(f) :
              /\ g[p].kind = f[p].kind \/ (Event(f[p]) /\ g[p].kind = "dropped")
              /\ \/ g[p].val = f[p].val \/ f[p].kind \in {"queue", "dropped"}
                 \/ f[p].kind = "snap" /\ g[p].val[1] = f[p].val[1]
              /\ g[p].seq # f[p].seq => f[p].seq = 0 /\ last < g[p].seq
      BY <1>5
    <2> QED BY <1>6, <2>1, <2>2, <2>3 DEF Thin
  <1>8. ASSUME NEW p \in 1..Len(g) PROVE Saying(g[p].kind, g[p].val)
    <2>1. p \in 1..Len(f) /\ Saying(f[p].kind, f[p].val)
      BY <1>6 DEF FlowOK
    <2>2. CASE g[p].val = f[p].val
      BY <1>5, <2>1, <2>2
    <2>3. CASE /\ f[p].kind \in {"snap", "dropped"} /\ g[p].val \in Payload
               /\ g[p].val[1] = f[p].val[1] /\ Len(g[p].val) = Len(f[p].val)
      <3>1. g[p].kind = f[p].kind
        BY <1>5, <2>1
      <3> QED BY <2>1, <2>3, <3>1 DEF Saying, EventKinds, PlainKinds, Mergeable
    <2> QED BY <1>5, <2>1, <2>2, <2>3
  <1>9. \A p \in 1..Len(f) : g[p].seq = f[p].seq
    BY <1>5
  <1>10. FlowOK(g, last, rd)
    BY <1>3, <1>6, <1>7, <1>8, <1>9, ThinOK
  <1> QED BY <1>7, <1>10 DEF f, g

\* So what is written stays good.
LEMMA PendingGood ==
    ASSUME NEW w, NEW lines, NEW rd, NEW h, NEW c, NEW reqs, NEW version \in Nat,
           Writing(w, lines, rd, h, c, reqs)
    PROVE  Writing(SetPending(w, version), lines, rd, h, c, reqs)
  <1> DEFINE v == SetPending(w, version)
  <1>1. /\ Bounded(Words, w) /\ w.queue \in Seq(EntryOf(Words)) /\ lines \in Seq(LineOf(Words))
        /\ WireOK(lines) /\ QueueOK(w.queue, h.frames) /\ w.last \in Nat
        /\ GoodFlow(FlowOf(w, lines), w.last, rd, h, c, reqs)
        /\ FlowOK(FlowOf(w, lines), w.last, rd)
    BY WriterParts
  <1>2. v = w \/ (v \in WriterOf(Words) /\ \E k : Repended(w, v, k))
    <2>1. w \in WriterOf(Words)
      BY <1>1 DEF Bounded, Sound
    <2> QED BY <2>1, SetPendingForm
  <1> HIDE DEF v
  <1>3. CASE v \in WriterOf(Words) /\ \E k : Repended(w, v, k)
    <2>1. PICK k : Repended(w, v, k)
      BY <1>3
    <2>2. v.queue \in Seq(EntryOf(Words)) /\ v.last = w.last
      BY <1>3, <2>1 DEF WriterOf, Repended
    <2>3. Bounded(Words, v)
      BY <1>1, <1>3, <2>1, RependedBounded
    <2>4. /\ Thin(FlowOf(w, lines), w.last, FlowOf(v, lines), w.last)
          /\ FlowOK(FlowOf(v, lines), w.last, rd)
      BY <1>1, <2>1, <2>2, RependedThin
    <2>5. GoodFlow(FlowOf(v, lines), v.last, rd, h, c, reqs)
      BY <1>1, <2>2, <2>4, GoodThin
    <2>6. QueueOK(v.queue, h.frames)
      <3> DEFINE q == w.queue
                 r == v.queue
                 N == Len(q)
      <3>1. /\ Len(r) = N /\ q[k].kind = "snap" /\ k \in 1..N
            /\ \A i \in 1..N :
                  /\ i # k => r[i] = q[i]
                  /\ r[i].kind = q[i].kind /\ r[i].bytes = q[i].bytes
                  /\ r[i].seq = q[i].seq /\ r[i].dropped = q[i].dropped
                  /\ r[i].indexed = q[i].indexed
        BY <2>1 DEF Repended
      <3> HIDE DEF q, r, N
      <3>2. ASSUME NEW i \in 1..N
            PROVE  /\ r[i].kind = "widget" => r[i].bytes = 1
                   /\ r[i].indexed => HasKey(r[i].kind) /\ r[i].seq = 0
        BY <1>1, <3>1 DEF QueueOK, q, N
      <3>3. ASSUME NEW i \in 1..N, r[i].indexed, r[i].kind = "frame", ~r[i].dropped
            PROVE  r[i].val[Len(r[i].val)] = h.frames
        <4>1. i # k
          BY <3>1, <3>3
        <4> QED BY <1>1, <3>1, <3>3, <4>1 DEF QueueOK, q, N
      <3>4. \A i, j \in 1..N : i < j /\ r[i].indexed =>
                /\ r[i].kind # r[j].kind
                /\ ~(r[i].kind = "widget" /\ r[j].kind = "attention")
        BY <1>1, <3>1 DEF QueueOK, q, N
      <3>5. Len(v.queue) = N /\ v.queue = r
        BY <3>1 DEF r
      <3> QED BY <3>2, <3>3, <3>4, <3>5 DEF QueueOK
    <2>7. WireOK(lines)
      BY <1>1
    <2>8. Writing(v, lines, rd, h, c, reqs)
      BY <2>3, <2>5, <2>6, <2>7 DEF Writing
    <2> QED BY <2>8 DEF v
  <1> QED BY <1>2, <1>3 DEF v
-----------------------------------------------------------------------------
(* A snapshot: the barrier numbers what is queued, the response follows, and *)
(* what lives on is said again.                                              *)

\* Every event gets its number, in order.
Seals(f, last, g, last2) ==
    /\ g \in Seq(FlowLine) /\ Len(g) = Len(f) /\ last2 \in Nat /\ last <= last2
    /\ \A p \in 1..Len(f) :
          /\ g[p].kind = f[p].kind /\ g[p].val = f[p].val
          /\ f[p].seq # 0 => g[p].seq = f[p].seq
          /\ Event(f[p]) /\ f[p].seq = 0 => last < g[p].seq /\ g[p].seq <= last2
    /\ \A p, q \in 1..Len(f) :
          p < q /\ Event(f[p]) /\ Event(f[q]) /\ f[p].seq = 0 /\ f[q].seq = 0 =>
              g[p].seq < g[q].seq

\* Numbered events keep the order, and all are numbered then.
LEMMA SealsOK ==
    ASSUME NEW f, NEW g, NEW last, NEW last2, NEW rd, FlowOK(f, last, rd), rd <= last,
           Seals(f, last, g, last2), \A p \in 1..Len(f) : ~Mark(f[p])
    PROVE  /\ FlowOK(g, last2, rd)
           /\ \A p \in 1..Len(g) : Event(g[p]) => g[p].seq # 0
  <1>1. /\ g \in Seq(FlowLine) /\ Len(g) = Len(f) /\ last2 \in Nat /\ last <= last2
        /\ last \in Nat /\ rd \in Nat /\ f \in Seq(FlowLine)
    BY DEF Seals, FlowOK
  <1>2. ASSUME NEW p \in 1..Len(f)
        PROVE  /\ g[p].kind = f[p].kind /\ g[p].val = f[p].val
               /\ f[p].seq \in Nat /\ g[p].seq \in Nat
               /\ f[p].seq # 0 => g[p].seq = f[p].seq
               /\ Event(f[p]) /\ f[p].seq = 0 => last < g[p].seq /\ g[p].seq <= last2
               /\ Event(f[p]) /\ f[p].seq # 0 => rd < f[p].seq /\ f[p].seq <= last
               /\ (Event(g[p]) <=> Event(f[p])) /\ ~Mark(g[p])
               /\ Saying(g[p].kind, g[p].val)
    <2>1. f[p] \in FlowLine /\ g[p] \in FlowLine
      BY <1>1
    <2>2. f[p].seq \in Nat /\ g[p].seq \in Nat
      BY <2>1 DEF FlowLine
    <2>3. g[p].kind = f[p].kind /\ g[p].val = f[p].val /\ ~Mark(f[p])
      BY DEF Seals
    <2>4. Saying(f[p].kind, f[p].val)
      BY DEF FlowOK
    <2>5. Event(f[p]) /\ f[p].seq # 0 => rd < f[p].seq /\ f[p].seq <= last
      BY DEF FlowOK, Rises
    <2>6. /\ f[p].seq # 0 => g[p].seq = f[p].seq
          /\ Event(f[p]) /\ f[p].seq = 0 => last < g[p].seq /\ g[p].seq <= last2
      BY DEF Seals
    <2> QED BY <2>2, <2>3, <2>4, <2>5, <2>6 DEF Event, Mark
  <1>3. ASSUME NEW p \in 1..Len(f), Event(g[p])
        PROVE  g[p].seq # 0 /\ rd < g[p].seq /\ g[p].seq <= last2
    BY <1>1, <1>2, <1>3
  <1>4. ASSUME NEW p \in 1..Len(f), NEW q \in 1..Len(f), p < q, Event(g[p]), Event(g[q])
        PROVE  g[p].seq < g[q].seq
    <2>1. CASE f[q].seq # 0
      <3>1. f[p].seq # 0 /\ f[p].seq < f[q].seq
        BY <1>2, <1>4, <2>1 DEF FlowOK, Rises
      <3> QED BY <1>2, <2>1, <3>1
    <2>2. CASE f[q].seq = 0 /\ f[p].seq # 0
      BY <1>1, <1>2, <1>4, <2>2
    <2>3. CASE f[q].seq = 0 /\ f[p].seq = 0
      BY <1>2, <1>4, <2>3 DEF Seals
    <2> QED BY <2>1, <2>2, <2>3
  <1>5. Rises(g, last2, rd)
    BY <1>1, <1>3, <1>4 DEF Rises
  <1>6. MarksSealed(g, last2, rd)
    BY <1>1, <1>2 DEF MarksSealed
  <1> QED BY <1>1, <1>2, <1>3, <1>5, <1>6 DEF FlowOK

\* What a barrier does to the queue.
Sealing(w, v) ==
    /\ Len(v.queue) = Len(w.queue) /\ v.last = w.last + Cardinality(Open(w.queue))
    /\ \A i \in 1..Len(w.queue) :
          /\ v.queue[i].kind = w.queue[i].kind /\ v.queue[i].val = w.queue[i].val
          /\ v.queue[i].bytes = w.queue[i].bytes
          /\ v.queue[i].dropped = w.queue[i].dropped
          /\ v.queue[i].seq = IF i \in Open(w.queue) THEN w.last + Rank(w.queue, i)
                              ELSE w.queue[i].seq
          /\ ~v.queue[i].indexed

\* Seal and coalesceIndex.clear number the open entries by their rank.
LEMMA SealedForm ==
    ASSUME NEW w, Bounded(Words, w)
    PROVE  Bounded(Words, Sealed(w)) /\ Sealing(w, Sealed(w))
  <1> DEFINE u == Seal(w)
             v == ClearIndex(u)
  <1>1. /\ Bounded(Words, u) /\ Len(u.queue) = Len(w.queue)
        /\ u.last = w.last + Cardinality(Open(w.queue))
        /\ \A i \in 1..Len(w.queue) :
              /\ u.queue[i].kind = w.queue[i].kind /\ u.queue[i].val = w.queue[i].val
              /\ u.queue[i].bytes = w.queue[i].bytes
              /\ u.queue[i].dropped = w.queue[i].dropped
              /\ u.queue[i].seq = IF i \in Open(w.queue) THEN w.last + Rank(w.queue, i)
                                  ELSE w.queue[i].seq
    BY SealBounded
  <1> HIDE DEF u
  <1>2. /\ Bounded(Words, v) /\ v.last = u.last /\ Relisted(u, v)
        /\ \A i \in 1..Len(u.queue) : ~v.queue[i].indexed
    BY <1>1, ClearIndexBounded
  <1>3. v = Sealed(w)
    BY DEF Sealed, u
  <1> HIDE DEF v
  <1>4. Sealing(w, v)
    <2>1. /\ Len(v.queue) = Len(w.queue)
          /\ \A i \in 1..Len(w.queue) :
                /\ v.queue[i].kind = u.queue[i].kind /\ v.queue[i].val = u.queue[i].val
                /\ v.queue[i].bytes = u.queue[i].bytes /\ v.queue[i].seq = u.queue[i].seq
                /\ v.queue[i].dropped = u.queue[i].dropped
      BY <1>1, <1>2 DEF Relisted
    <2>2. \A i \in 1..Len(w.queue) : ~v.queue[i].indexed
      BY <1>1, <1>2
    <2> QED BY <1>1, <1>2, <2>1, <2>2 DEF Sealing
  <1> QED BY <1>2, <1>3, <1>4

\* In the flow they number the events that have no number.
LEMMA SealedFlow ==
    ASSUME NEW w, NEW v, NEW lines \in Seq(LineOf(Words)), w.last \in Nat,
           w.queue \in Seq(EntryOf(Words)), v.queue \in Seq(EntryOf(Words)), Sealing(w, v),
           \A i \in 1..Len(lines) : Event(lines[i]) => lines[i].seq # 0
    PROVE  Seals(FlowOf(w, lines), w.last, FlowOf(v, lines), v.last)
  <1> DEFINE f == FlowOf(w, lines)
             g == FlowOf(v, lines)
             L == Len(lines)
             q == w.queue
             N == Len(q)
             last == w.last
             O == Open(q)
  <1>1. /\ f \in Seq(FlowLine) /\ Len(f) = L + N /\ L \in Nat /\ N \in Nat
        /\ \A i \in 1..L : f[i] = lines[i]
        /\ \A i \in 1..N : f[L + i] = Line(q[i])
        /\ \A o \in 1..Len(f) : o \in 1..L \/ (o - L \in 1..N /\ o = L + (o - L))
    BY FlowLines
  <1>2. Len(v.queue) = N
    BY DEF Sealing
  <1>3. /\ g \in Seq(FlowLine) /\ Len(g) = L + N
        /\ \A i \in 1..L : g[i] = lines[i]
        /\ \A i \in 1..N : g[L + i] = Line(v.queue[i])
    BY <1>2, FlowLines
  <1>4. /\ Cardinality(O) \in Nat
        /\ \A i \in O : Rank(q, i) \in Nat \ {0} /\ Rank(q, i) <= Cardinality(O)
        /\ \A i, j \in O : i < j => Rank(q, i) < Rank(q, j)
    BY Ranks
  <1>5. v.last = last + Cardinality(O) /\ last \in Nat
    BY DEF Sealing
  <1>6. ASSUME NEW i \in 1..N
        PROVE  /\ Line(v.queue[i]).kind = Line(q[i]).kind
               /\ Line(v.queue[i]).val = Line(q[i]).val
               /\ Line(v.queue[i]).seq = IF i \in O THEN last + Rank(q, i) ELSE Line(q[i]).seq
               /\ Event(Line(q[i])) /\ Line(q[i]).seq = 0 => i \in O
               /\ i \in O => Line(q[i]).seq = 0
    <2>1. /\ v.queue[i].kind = q[i].kind /\ v.queue[i].val = q[i].val
          /\ v.queue[i].dropped = q[i].dropped
          /\ v.queue[i].seq = IF i \in O THEN last + Rank(q, i) ELSE q[i].seq
      BY DEF Sealing
    <2>2. i \in O <=> IsEvent(q[i]) /\ ~q[i].dropped /\ q[i].seq = 0
      BY DEF Open
    <2>3. Event(Line(q[i])) => IsEvent(q[i]) /\ ~q[i].dropped
      BY DEF Event, Line, IsEvent, EventKinds, PlainKinds, Mergeable
    <2> HIDE DEF O, last, q
    <2> QED BY <2>1, <2>2, <2>3 DEF Line
  <1> HIDE DEF f, g, L, N, O, q, last
  <1>7. ASSUME NEW p \in 1..Len(f)
        PROVE  \/ p \in 1..L /\ f[p] = g[p] /\ (Event(f[p]) => f[p].seq # 0)
               \/ \E i \in 1..N : p = L + i /\ f[p] = Line(q[i]) /\ g[p] = Line(v.queue[i])
    <2>1. CASE p \in 1..L
      <3>1. f[p] = lines[p] /\ g[p] = lines[p]
        BY <1>1, <1>3, <2>1
      <3>2. Event(lines[p]) => lines[p].seq # 0
        BY <2>1 DEF L
      <3> QED BY <2>1, <3>1, <3>2
    <2>2. CASE p - L \in 1..N /\ p = L + (p - L)
      <3> DEFINE i == p - L
      <3>1. i \in 1..N /\ p = L + i
        BY <2>2
      <3> HIDE DEF i
      <3>2. f[p] = Line(q[i]) /\ g[p] = Line(v.queue[i])
        BY <1>1, <1>3, <3>1
      <3> QED BY <3>1, <3>2
    <2> QED BY <1>1, <2>1, <2>2
  <1>8. ASSUME NEW p \in 1..Len(f)
        PROVE  /\ g[p].kind = f[p].kind /\ g[p].val = f[p].val
               /\ f[p].seq # 0 => g[p].seq = f[p].seq
               /\ Event(f[p]) /\ f[p].seq = 0 => last < g[p].seq /\ g[p].seq <= v.last
    <2>1. CASE \E i \in 1..N : p = L + i /\ f[p] = Line(q[i]) /\ g[p] = Line(v.queue[i])
      <3>1. PICK i \in 1..N : p = L + i /\ f[p] = Line(q[i]) /\ g[p] = Line(v.queue[i])
        BY <2>1
      <3> QED BY <1>4, <1>5, <1>6, <3>1
    <2> QED BY <1>7, <2>1
  <1>9. ASSUME NEW p \in 1..Len(f), NEW o \in 1..Len(f), p < o,
               Event(f[p]), Event(f[o]), f[p].seq = 0, f[o].seq = 0
        PROVE  g[p].seq < g[o].seq
    <2>1. PICK i \in 1..N : p = L + i /\ f[p] = Line(q[i]) /\ g[p] = Line(v.queue[i])
      BY <1>7, <1>9
    <2>2. PICK j \in 1..N : o = L + j /\ f[o] = Line(q[j]) /\ g[o] = Line(v.queue[j])
      BY <1>7, <1>9
    <2>3. i < j
      BY <1>1, <1>9, <2>1, <2>2
    <2>4. i \in O /\ j \in O
      BY <1>6, <1>9, <2>1, <2>2
    <2>5. g[p].seq = last + Rank(q, i) /\ g[o].seq = last + Rank(q, j)
      BY <1>6, <2>1, <2>2, <2>4
    <2>6. Rank(q, i) \in Nat /\ Rank(q, j) \in Nat /\ Rank(q, i) < Rank(q, j)
      BY <1>4, <2>3, <2>4
    <2> QED BY <1>5, <2>5, <2>6
  <1>10. Len(g) = Len(f) /\ v.last \in Nat /\ last <= v.last
    BY <1>1, <1>3, <1>4, <1>5
  <1>11. Seals(f, last, g, v.last)
    BY <1>3, <1>8, <1>9, <1>10 DEF Seals
  <1> QED BY <1>11 DEF f, g, last
\* The host as a new snapshot's reader knows it.
Fresher(h) == [log |-> h.log, cached |-> h.cached, frames |-> 0, widget |-> 0]

\* enqueueBarrierResponse: the snapshot's reader follows what is said from now on.
LEMMA BarrierGood ==
    ASSUME NEW w, NEW lines, NEW rd, NEW h, NEW c, NEW reqs, NEW reqs2,
           Writing(w, lines, rd, h, c, reqs), NEW val \in Answers,
           val.request.method = "rehydrate", val.ok, val.watermark = Sealed(w).last,
           val.at = h.log, val.cached = h.cached, val.request = reqs[1], Behind(reqs, reqs2),
           rd # 0, rd <= w.last, h.log \in Nat
    PROVE  Writing(EnqueueBarrier(w, val), lines, rd, Fresher(h), c, reqs2)
  <1> DEFINE x == Sealed(w)
             e == Fresh("response", val, 1)
             l == Line(e)
             f == FlowOf(w, lines)
             g == FlowOf(x, lines)
             h2 == Fresher(h)
  <1>1. /\ Bounded(Words, w) /\ w.queue \in Seq(EntryOf(Words)) /\ lines \in Seq(LineOf(Words))
        /\ WireOK(lines) /\ QueueOK(w.queue, h.frames) /\ w.last \in Nat
        /\ GoodFlow(f, w.last, rd, h, c, reqs) /\ FlowOK(f, w.last, rd)
    BY WriterParts
  <1>2. h2.log = h.log /\ h2.cached = h.cached /\ h2.frames = 0 /\ h2.widget = 0
    BY DEF Fresher
  <1>3. Bounded(Words, x) /\ Sealing(w, x)
    BY <1>1, SealedForm
  <1>4. /\ e \in EntryOf(Words) /\ e.seq = 0 /\ ~e.dropped
        /\ l \in FlowLine /\ l.kind = "response" /\ l.val = val /\ l.seq = 0
        /\ EnqueueBarrier(w, val) = Push(x, e)
    <2>1. val \in Words /\ 1 \in Nat
      BY DEF Words
    <2>2. IsFresh(e, "response", val, 1)
      BY <2>1, FreshFields
    <2> HIDE DEF e
    <2> QED BY <2>2 DEF IsFresh, EnqueueBarrier, EnqueueResponse
  <1>5. val.watermark = x.last
    OBVIOUS
  <1> HIDE DEF x, e, h2
  <1>6. x.queue \in Seq(EntryOf(Words)) /\ x.last \in Nat
    BY <1>3 DEF Bounded, Sound, WriterOf
  <1>7. Polled(f, reqs, c)
    BY <1>1 DEF GoodFlow
  <1>8. \A p \in 1..Len(f) : ~Mark(f[p])
    <2>1. ASSUME NEW p \in 1..Len(f), Mark(f[p]) PROVE FALSE
      <3>1. 1 \in 1..Len(reqs)
        BY DEF Behind
      <3>2. f[p].kind = "response" /\ f[p].val.request.method = "rehydrate"
        BY <2>1 DEF Mark
      <3>3. InTurn(f[p].val.request, reqs[1])
        BY <1>7, <3>1, <3>2 DEF Polled
      <3> QED BY <3>2, <3>3 DEF InTurn
    <2> QED BY <2>1
  <1>9. Seals(f, w.last, g, x.last)
    <2>1. \A i \in 1..Len(lines) : Event(lines[i]) => lines[i].seq # 0
      BY <1>1 DEF WireOK
    <2> QED BY <1>1, <1>3, <1>6, <2>1, SealedFlow
  <1>10. FlowOK(g, x.last, rd) /\ \A p \in 1..Len(g) : Event(g[p]) => g[p].seq # 0
    <2> HIDE DEF f, g
    <2> QED BY <1>1, <1>8, <1>9, SealsOK
  <1>11. Polled(g, reqs, c)
    <2> HIDE DEF f, g
    <2>1. Len(g) = Len(f) /\ \A p \in 1..Len(f) : g[p].kind = "response" =>
               f[p].kind = "response" /\ g[p].val = f[p].val
      BY <1>9 DEF Seals
    <2> QED BY <1>7, <2>1, SamePolled
  <1>12. PICK mid : Sound(Words, mid) /\ Pushed(x, e, mid)
    BY <1>3, <1>4, PushSteps
  <1>13. /\ Push(x, e) = EnforceHardCap(mid) /\ mid.queue = Append(x.queue, e)
         /\ mid.last = x.last
    BY <1>12 DEF Pushed
  <1>14. Longer(g, l, FlowOf(mid, lines))
    BY <1>1, <1>4, <1>6, <1>13, PushedFlow
  <1>15. GoodFlow(FlowOf(mid, lines), x.last, rd, h2, c, reqs2)
    <2>1. Saying(l.kind, l.val) /\ Mark(l)
      BY <1>4 DEF Saying, EventKinds, PlainKinds, Mergeable, Mark
    <2>2. /\ l.val.watermark = x.last /\ l.val.request = reqs[1]
          /\ l.val.at = h2.log /\ l.val.cached = h2.cached
      BY <1>2, <1>4, <1>5
    <2>3. rd <= x.last
      <3>1. w.last <= x.last
        BY <1>9 DEF Seals
      <3> QED BY <1>1, <1>6, <3>1 DEF FlowOK
    <2>4. h2.log \in Nat /\ h2.frames = 0 /\ h2.widget = 0
      BY <1>2
    <2>5. Behind(reqs, reqs2) /\ rd # 0
      OBVIOUS
    <2>6. l \in FlowLine /\ l.seq = 0
      BY <1>4
    <2> HIDE DEF f, g, l
    <2> QED BY <1>10, <1>11, <1>14, <2>1, <2>2, <2>3, <2>4, <2>5, <2>6, GoodSnapshot
  <1>16. QueueOK(x.queue, 0)
    <2>1. /\ Len(x.queue) = Len(w.queue)
          /\ \A i \in 1..Len(w.queue) :
                /\ x.queue[i].kind = w.queue[i].kind /\ x.queue[i].bytes = w.queue[i].bytes
                /\ ~x.queue[i].indexed
      BY <1>3 DEF Sealing
    <2>2. \A i \in 1..Len(w.queue) : w.queue[i].kind = "widget" => w.queue[i].bytes = 1
      BY <1>1 DEF QueueOK
    <2> QED BY <2>1, <2>2 DEF QueueOK
  <1>17. QueueOK(mid.queue, h2.frames)
    <2>1. Fits(x.queue, "response", val, 1, 0, 0)
      BY <1>16, ResponseFits
    <2> QED BY <1>2, <1>6, <1>13, <1>16, <2>1, PushedQueue DEF e, Words
  <1>18. GoodFlow(FlowOf(mid, lines), mid.last, rd, h2, c, reqs2)
    BY <1>13, <1>15
  <1>19. Writing(EnforceHardCap(mid), lines, rd, h2, c, reqs2)
    BY <1>1, <1>12, <1>17, <1>18, EnforceGood
  <1> QED BY <1>4, <1>13, <1>19 DEF h2

\* What the writer's state says of the Host it says of one with the same counters.
LEMMA SameWriting ==
    ASSUME NEW w, NEW lines, NEW rd, NEW h, NEW h2, NEW c, NEW reqs,
           Writing(w, lines, rd, h, c, reqs),
           h2.log = h.log, h2.cached = h.cached, h2.frames = h.frames, h2.widget = h.widget
    PROVE  Writing(w, lines, rd, h2, c, reqs)
  <1>1. /\ Bounded(Words, w) /\ WireOK(lines) /\ QueueOK(w.queue, h.frames)
        /\ GoodFlow(FlowOf(w, lines), w.last, rd, h, c, reqs)
    BY DEF Writing
  <1>2. GoodFlow(FlowOf(w, lines), w.last, rd, h2, c, reqs)
    BY <1>1, SameHost
  <1>3. QueueOK(w.queue, h2.frames)
    BY <1>1
  <1> QED BY <1>1, <1>2, <1>3 DEF Writing

\* afterRehydrateBarrier: "h" is the Host before it and "h2" the one after.
LEMMA ReplayGood ==
    ASSUME NEW w, NEW lines, NEW rd, NEW c, NEW reqs, NEW h2,
           Writing(w, lines, rd, Fresher(host), c, reqs), host.log \in Nat, host.widget \in Nat,
           h2.log = host.log, h2.cached = host.cached, h2.frames = 0, h2.widget = host.widget
    PROVE  Writing(Replay(w), lines, rd, h2, c, reqs)
  <1> DEFINE h == Fresher(host)
             closed == IF host.frames = 0 THEN w ELSE EnqueueEvent(w, "closed", <<>>, 1)
  <1>1. h.log = host.log /\ h.cached = host.cached /\ h.frames = 0 /\ h.widget = 0
    BY DEF Fresher
  <1>2. <<>> \in Payload /\ <<host.widget>> \in Payload
    BY DEF Payload
  <1>3. /\ "closed" \in EventKinds /\ "widget" \in EventKinds
        /\ Saying("closed", <<>>) /\ Saying("widget", <<host.widget>>)
    BY <1>2 DEF Saying, EventKinds, PlainKinds, Mergeable
  <1> HIDE DEF h
  <1>4. Writing(closed, lines, rd, h, c, reqs)
    <2>1. Announces("closed", <<>>, h, h)
      BY <1>1 DEF Announces
    <2>2. Writing(w, lines, rd, h, c, reqs)
      BY DEF h
    <2>3. Writing(EnqueueEvent(w, "closed", <<>>, 1), lines, rd, h, c, reqs)
      BY <1>1, <1>2, <1>3, <2>1, <2>2, EnqueueGood
    <2> QED BY <2>2, <2>3
  <1> HIDE DEF closed
  <1>5. CASE host.widget = 0
    <2>1. Replay(w) = closed
      BY <1>5 DEF Replay, closed
    <2>2. Writing(closed, lines, rd, h2, c, reqs)
      BY <1>1, <1>4, <1>5, SameWriting
    <2> QED BY <2>1, <2>2
  <1>6. CASE host.widget # 0
    <2>1. Replay(w) = EnqueueEvent(closed, "widget", <<host.widget>>, 1)
      BY <1>6 DEF Replay, closed
    <2>2. Announces("widget", <<host.widget>>, h, h2)
      BY <1>1, <1>6 DEF Announces
    <2>3. Writing(EnqueueEvent(closed, "widget", <<host.widget>>, 1), lines, rd, h2, c, reqs)
      BY <1>1, <1>2, <1>3, <1>4, <2>2, EnqueueGood
    <2> QED BY <2>1, <2>3
  <1> QED BY <1>5, <1>6
-----------------------------------------------------------------------------
(* The pump moves the first entry of the queue to the wire, or lets it go.  *)

LEMMA TailQueue ==
    ASSUME NEW q \in Seq(EntryOf(Words)), q # <<>>, NEW r, r = Tail(q)
    PROVE  /\ r \in Seq(EntryOf(Words)) /\ Len(q) = Len(r) + 1 /\ Len(r) \in Nat
           /\ \A i \in 1..Len(r) : r[i] = q[i + 1] /\ i + 1 \in 1..Len(q)
           /\ q[1] \in EntryOf(Words) /\ 1 \in 1..Len(q) /\ Head(q) = q[1]
  OBVIOUS

\* The rest of a queue has the flags right.
LEMMA TailOK ==
    ASSUME NEW q \in Seq(EntryOf(Words)), q # <<>>, NEW r, r = Tail(q), NEW frames,
           QueueOK(q, frames)
    PROVE  QueueOK(r, frames)
  <1>1. /\ Len(q) = Len(r) + 1 /\ Len(r) \in Nat
        /\ \A i \in 1..Len(r) : r[i] = q[i + 1] /\ i + 1 \in 1..Len(q)
    BY TailQueue
  <1>2. ASSUME NEW i \in 1..Len(r)
        PROVE  /\ r[i].kind = "widget" => r[i].bytes = 1
               /\ r[i].indexed => HasKey(r[i].kind) /\ r[i].seq = 0
               /\ r[i].indexed /\ r[i].kind = "frame" /\ ~r[i].dropped =>
                     r[i].val[Len(r[i].val)] = frames
    BY <1>1 DEF QueueOK
  <1>3. ASSUME NEW i \in 1..Len(r), NEW j \in 1..Len(r), i < j, r[i].indexed
        PROVE  /\ r[i].kind # r[j].kind
               /\ ~(r[i].kind = "widget" /\ r[j].kind = "attention")
    <2>1. i + 1 < j + 1 /\ i + 1 \in 1..Len(q) /\ j + 1 \in 1..Len(q)
      BY <1>1, <1>3
    <2> QED BY <1>1, <1>3, <2>1 DEF QueueOK
  <1> QED BY <1>2, <1>3 DEF QueueOK

\* The flow when the first entry has become the line l of the wire.
Moved(f, k, l, g) ==
    /\ g \in Seq(FlowLine) /\ Len(g) = Len(f) /\ k \in 1..Len(f) /\ g[k] = l
    /\ \A p \in 1..Len(f) : p # k => g[p] = f[p]

\* The flow when the pump writes the first entry.
LEMMA MovedFlow ==
    ASSUME NEW w, NEW v, NEW lines \in Seq(LineOf(Words)), NEW lines2, NEW l \in LineOf(Words),
           w.queue \in Seq(EntryOf(Words)), w.queue # <<>>, v.queue = Tail(w.queue),
           lines2 = Append(lines, l)
    PROVE  Moved(FlowOf(w, lines), Len(lines) + 1, l, FlowOf(v, lines2))
  <1> DEFINE f == FlowOf(w, lines)
             g == FlowOf(v, lines2)
             L == Len(lines)
             N == Len(v.queue)
  <1>1. /\ v.queue \in Seq(EntryOf(Words)) /\ Len(w.queue) = N + 1 /\ N \in Nat
        /\ \A i \in 1..N : v.queue[i] = w.queue[i + 1] /\ i + 1 \in 1..Len(w.queue)
        /\ 1 \in 1..Len(w.queue)
    BY TailQueue
  <1>2. /\ lines2 \in Seq(LineOf(Words)) /\ Len(lines2) = L + 1 /\ L \in Nat
        /\ lines2[L + 1] = l /\ \A i \in 1..L : lines2[i] = lines[i]
    OBVIOUS
  <1>3. /\ f \in Seq(FlowLine) /\ Len(f) = L + Len(w.queue)
        /\ \A i \in 1..L : f[i] = lines[i]
        /\ \A i \in 1..Len(w.queue) : f[L + i] = Line(w.queue[i])
    BY FlowLines
  <1>4. /\ g \in Seq(FlowLine) /\ Len(g) = Len(lines2) + N
        /\ \A i \in 1..Len(lines2) : g[i] = lines2[i]
        /\ \A i \in 1..N : g[Len(lines2) + i] = Line(v.queue[i])
        /\ \A p \in 1..Len(g) : \/ p \in 1..Len(lines2)
                                \/ p - Len(lines2) \in 1..N /\ p = Len(lines2) + (p - Len(lines2))
    BY <1>1, <1>2, FlowLines
  <1> HIDE DEF f, g, L, N
  <1>5. Len(g) = Len(f) /\ L + 1 \in 1..Len(f) /\ g[L + 1] = l
    BY <1>1, <1>2, <1>3, <1>4
  <1>6. ASSUME NEW p \in 1..Len(f), p # L + 1 PROVE g[p] = f[p]
    <2>1. CASE p \in 1..Len(lines2)
      BY <1>2, <1>3, <1>4, <1>6, <2>1
    <2>2. CASE p - Len(lines2) \in 1..N /\ p = Len(lines2) + (p - Len(lines2))
      <3>1. g[Len(lines2) + (p - Len(lines2))] = Line(v.queue[p - Len(lines2)])
        BY <1>4, <2>2
      <3>2. v.queue[p - Len(lines2)] = w.queue[(p - Len(lines2)) + 1]
            /\ (p - Len(lines2)) + 1 \in 1..Len(w.queue)
        BY <1>1, <2>2
      <3>3. f[L + ((p - Len(lines2)) + 1)] = Line(w.queue[(p - Len(lines2)) + 1])
        BY <1>3, <3>2
      <3>4. L + ((p - Len(lines2)) + 1) = p
        BY <1>2, <1>5
      <3> QED BY <2>2, <3>1, <3>2, <3>3, <3>4
    <2> QED BY <1>4, <1>5, <2>1, <2>2
  <1>7. Moved(f, L + 1, l, g)
    BY <1>4, <1>5, <1>6 DEF Moved
  <1> QED BY <1>7 DEF f, g, L

\* The flow when the pump lets it go.
LEMMA GoneFlow ==
    ASSUME NEW w, NEW v, NEW lines \in Seq(LineOf(Words)),
           w.queue \in Seq(EntryOf(Words)), w.queue # <<>>, v.queue = Tail(w.queue)
    PROVE  /\ Without(FlowOf(w, lines), Len(lines) + 1, FlowOf(v, lines))
           /\ FlowOf(v, lines) \in Seq(FlowLine)
  <1> DEFINE f == FlowOf(w, lines)
             g == FlowOf(v, lines)
             L == Len(lines)
             N == Len(v.queue)
  <1>1. /\ v.queue \in Seq(EntryOf(Words)) /\ Len(w.queue) = N + 1 /\ N \in Nat /\ L \in Nat
        /\ \A i \in 1..N : v.queue[i] = w.queue[i + 1] /\ i + 1 \in 1..Len(w.queue)
        /\ 1 \in 1..Len(w.queue)
    BY TailQueue
  <1>3. /\ f \in Seq(FlowLine) /\ Len(f) = L + Len(w.queue)
        /\ \A i \in 1..L : f[i] = lines[i]
        /\ \A i \in 1..Len(w.queue) : f[L + i] = Line(w.queue[i])
    BY FlowLines
  <1>4. /\ g \in Seq(FlowLine) /\ Len(g) = L + N
        /\ \A i \in 1..L : g[i] = lines[i]
        /\ \A i \in 1..N : g[L + i] = Line(v.queue[i])
        /\ \A p \in 1..Len(g) : p \in 1..L \/ (p - L \in 1..N /\ p = L + (p - L))
    BY <1>1, FlowLines
  <1> HIDE DEF f, g, L, N
  <1>5. Len(f) = Len(g) + 1 /\ L + 1 \in 1..Len(f)
    BY <1>1, <1>3, <1>4
  <1>6. ASSUME NEW p \in 1..Len(g) PROVE g[p] = f[Back(L + 1, p)]
    <2>1. CASE p \in 1..L
      BY <1>1, <1>3, <1>4, <2>1 DEF Back
    <2>2. CASE p - L \in 1..N /\ p = L + (p - L)
      <3>1. g[L + (p - L)] = Line(v.queue[p - L])
        BY <1>4, <2>2
      <3>2. v.queue[p - L] = w.queue[(p - L) + 1] /\ (p - L) + 1 \in 1..Len(w.queue)
        BY <1>1, <2>2
      <3>3. f[L + ((p - L) + 1)] = Line(w.queue[(p - L) + 1])
        BY <1>3, <3>2
      <3>4. L + ((p - L) + 1) = p + 1 /\ Back(L + 1, p) = p + 1
        BY <1>1, <1>4, <2>2 DEF Back
      <3> QED BY <2>2, <3>1, <3>2, <3>3, <3>4
    <2> QED BY <1>4, <2>1, <2>2
  <1>7. Without(f, L + 1, g)
    BY <1>5, <1>6 DEF Without
  <1> QED BY <1>4, <1>7 DEF f, g, L
\* A line keeps its number, or is the first without one and gets the next.
LEMMA MovedGood ==
    ASSUME NEW f, NEW g, NEW k, NEW l, NEW last, NEW last2, NEW rd, NEW h, NEW c, NEW reqs,
           GoodFlow(f, last, rd, h, c, reqs), rd <= last, Moved(f, k, l, g),
           l \in FlowLine, l.kind = f[k].kind, l.val = f[k].val,
           \/ l.seq = f[k].seq /\ last2 = last
           \/ /\ Event(f[k]) /\ f[k].seq = 0 /\ l.seq = last + 1 /\ last2 = last + 1
              /\ \A p \in 1..Len(f) : p < k /\ Event(f[p]) => f[p].seq # 0
    PROVE  GoodFlow(g, last2, rd, h, c, reqs)
  <1>1. FlowOK(f, last, rd) /\ f \in Seq(FlowLine) /\ last \in Nat /\ Len(f) \in Nat
    BY DEF GoodFlow, FlowOK
  <1>2. /\ g \in Seq(FlowLine) /\ Len(g) = Len(f) /\ k \in 1..Len(f) /\ g[k] = l
        /\ \A p \in 1..Len(f) : p # k => g[p] = f[p]
    BY DEF Moved
  <1>3. CASE l.seq = f[k].seq /\ last2 = last
    <2>1. f[k] \in FlowLine
      BY <1>1, <1>2
    <2>2. f[k] = l
      BY <1>3, <2>1 DEF FlowLine
    <2>3. \A p \in 1..Len(f) : g[p] = f[p]
      BY <1>2, <2>2
    <2>4. g = f
      BY <1>1, <1>2, <2>3
    <2> QED BY <1>3, <2>4
  <1>4. CASE /\ Event(f[k]) /\ f[k].seq = 0 /\ l.seq = last + 1 /\ last2 = last + 1
             /\ \A p \in 1..Len(f) : p < k /\ Event(f[p]) => f[p].seq # 0
    <2>1. \A p \in 1..Len(f) : g[p].kind = f[p].kind /\ g[p].val = f[p].val
      BY <1>2
    <2>2. Numbers(f, k, g, last)
      BY <1>2, <1>4, <2>1 DEF Numbers
    <2>3. FlowOK(g, last2, rd) /\ Thin(f, last, g, last2)
      BY <1>1, <1>4, <2>2, NumbersOK
    <2> QED BY <2>3, GoodThin
  <1> QED BY <1>3, <1>4

\* An event that has its number is dropped.
LEMMA OversizedGood ==
    ASSUME NEW f, NEW g, NEW k, NEW l, NEW last, NEW rd, NEW h, NEW c, NEW reqs,
           GoodFlow(f, last, rd, h, c, reqs), Moved(f, k, l, g), l \in FlowLine,
           Event(f[k]), f[k].seq # 0, f[k].kind # "widget",
           l.kind = "dropped", l.val = f[k].val, l.seq = f[k].seq
    PROVE  GoodFlow(g, last, rd, h, c, reqs)
  <1>1. /\ FlowOK(f, last, rd) /\ f \in Seq(FlowLine) /\ last \in Nat /\ Len(f) \in Nat
        /\ \A p \in 1..Len(f) : Saying(f[p].kind, f[p].val)
    BY DEF GoodFlow, FlowOK
  <1>2. /\ g \in Seq(FlowLine) /\ Len(g) = Len(f) /\ k \in 1..Len(f) /\ g[k] = l
        /\ \A p \in 1..Len(f) : p # k => g[p] = f[p]
    BY DEF Moved
  <1>3. \A p \in 1..Len(g) : Saying(g[p].kind, g[p].val)
    <2>1. Saying(g[k].kind, g[k].val)
      BY <1>2 DEF Saying, EventKinds, PlainKinds, Mergeable
    <2> QED BY <1>1, <1>2, <2>1
  <1>4. \A p \in 1..Len(f) : g[p].seq = f[p].seq /\ g[p].val = f[p].val
    BY <1>2
  <1>5. \A p \in 1..Len(f) : g[p].kind = f[p].kind \/ (Event(f[p]) /\ g[p].kind = "dropped")
    BY <1>2
  <1>6. \A p \in 1..Len(f) : Event(f[p]) /\ g[p].kind = "dropped" => p = k
    BY <1>2 DEF Event, EventKinds, PlainKinds, Mergeable
  <1>7. \A p \in 1..Len(f) : f[p].kind = "widget" => g[p].kind # "dropped"
    BY <1>2
  <1>8. Thin(f, last, g, last)
    BY <1>1, <1>2, <1>4, <1>5, <1>6, <1>7 DEF Thin
  <1>9. FlowOK(g, last, rd)
    BY <1>1, <1>2, <1>3, <1>4, <1>8, ThinOK
  <1> QED BY <1>8, <1>9, GoodThin

\* What the pump does with the first entry.
Pumps(w, lines, v, lines2, seq) ==
    LET e == w.queue[1]
    IN  /\ w.queue # <<>> /\ v.queue = Tail(w.queue)
        /\ \/ seq = e.seq /\ v.last = w.last
           \/ IsEvent(e) /\ ~e.dropped /\ e.seq = 0 /\ seq = w.last + 1 /\ v.last = w.last + 1
        /\ IsEvent(e) /\ ~e.dropped => seq # 0
        /\ \/ /\ e.dropped /\ v.last = w.last /\ lines2 = lines
           \/ /\ ~e.dropped /\ IsEvent(e) /\ e.bytes > MaxFrame /\ lines2 = lines
           \/ /\ ~e.dropped
              /\ lines2 = Append(lines, [kind |-> e.kind, val |-> e.val, seq |-> seq])

\* The cases of the pump's step.
LEMMA PumpForm ==
    ASSUME PumpWrite, writer.last \in Nat, writer.queue \in Seq(EntryOf(Words))
    PROVE  \E seq \in Nat : Pumps(writer, wire, writer', wire', seq)
  <1> DEFINE e == writer.queue[1]
             live == IsEvent(e) /\ ~e.dropped
             seq == IF live /\ e.seq = 0 THEN writer.last + 1 ELSE e.seq
             last2 == IF live /\ e.seq = 0 THEN seq ELSE writer.last
             line == [kind |-> e.kind, val |-> e.val, seq |-> seq]
  <1>1. writer.queue # <<>> /\ Head(writer.queue) = e
    BY DEF PumpWrite
  <1>2. e \in EntryOf(Words)
    BY <1>1
  <1>3. /\ writer' = [queue |-> Tail(writer.queue), pending |-> writer.pending - Weight(e),
                      last |-> last2]
        /\ wire' = IF e.dropped \/ (IsEvent(e) /\ e.bytes > MaxFrame) THEN wire
                   ELSE Append(wire, line)
    BY <1>1 DEF PumpWrite
  <1>4. e.seq \in Nat /\ e.dropped \in BOOLEAN
    BY <1>2, EntryFields
  <1> HIDE DEF e
  <1>5. writer'.queue = Tail(writer.queue) /\ writer'.last = last2
    BY <1>3
  <1>6. seq \in Nat /\ (live => seq # 0)
    BY <1>4
  <1>7. \/ seq = e.seq /\ last2 = writer.last
        \/ live /\ e.seq = 0 /\ seq = writer.last + 1 /\ last2 = writer.last + 1
    OBVIOUS
  <1>8. e.dropped => last2 = writer.last
    OBVIOUS
  <1> HIDE DEF seq, last2
  <1>9. Pumps(writer, wire, writer', wire', seq)
    BY <1>1, <1>3, <1>5, <1>6, <1>7, <1>8 DEF Pumps, e
  <1> QED BY <1>6, <1>9
\* A line more on the wire.
LEMMA WireMore ==
    ASSUME NEW lines, WireOK(lines), NEW l \in LineOf(Words), Event(l) => l.seq # 0,
           NEW lines2, lines2 = Append(lines, l)
    PROVE  WireOK(lines2)
  <1>1. lines \in Seq(LineOf(Words)) /\ \A i \in 1..Len(lines) : Event(lines[i]) => lines[i].seq # 0
    BY DEF WireOK
  <1>2. /\ lines2 \in Seq(LineOf(Words)) /\ Len(lines2) = Len(lines) + 1 /\ Len(lines) \in Nat
        /\ lines2[Len(lines) + 1] = l /\ \A i \in 1..Len(lines) : lines2[i] = lines[i]
    BY <1>1
  <1>3. \A i \in 1..Len(lines2) : Event(lines2[i]) => lines2[i].seq # 0
    BY <1>1, <1>2
  <1> QED BY <1>2, <1>3 DEF WireOK

\* A dropped line at k, from whatever was there.
LEMMA Gone ==
    ASSUME NEW f \in Seq(FlowLine), NEW f2, NEW g, NEW k, NEW l, Moved(f, k, l, f2),
           Without(f, k, g)
    PROVE  Without(f2, k, g)
  <1>1. /\ k \in 1..Len(f) /\ Len(f) = Len(g) + 1 /\ Len(f) \in Nat
        /\ \A p \in 1..Len(g) : g[p] = f[Back(k, p)]
    BY DEF Without
  <1>2. Len(f2) = Len(f) /\ \A p \in 1..Len(f) : p # k => f2[p] = f[p]
    BY DEF Moved
  <1>3. Len(g) \in Nat
    BY <1>1
  <1>4. \A p \in 1..Len(g) : Back(k, p) \in 1..Len(f) /\ Back(k, p) # k
    BY <1>3, Backs
  <1>5. \A p \in 1..Len(g) : g[p] = f2[Back(k, p)]
    BY <1>1, <1>2, <1>4
  <1> QED BY <1>1, <1>2, <1>5 DEF Without

\* The pump keeps what is written good, and no number is taken back.
LEMMA PumpGood ==
    ASSUME PumpWrite, NEW h, NEW c, NEW reqs, read \in Nat, read <= writer.last,
           Writing(writer, wire, read, h, c, reqs), MaxFrame \in Nat \ {0}
    PROVE  /\ Writing(writer', wire', read, h, c, reqs)
           /\ writer.last <= writer'.last
  <1> DEFINE w == writer
             v == writer'
             e == w.queue[1]
             f == FlowOf(w, wire)
             g == FlowOf(v, wire')
             k == Len(wire) + 1
  <1>1. /\ Bounded(Words, w) /\ WireOK(wire) /\ w.queue \in Seq(EntryOf(Words))
        /\ wire \in Seq(LineOf(Words)) /\ w.last \in Nat /\ Len(wire) \in Nat
        /\ QueueOK(w.queue, h.frames) /\ GoodFlow(f, w.last, read, h, c, reqs)
        /\ f \in Seq(FlowLine)
    BY WriterParts, FlowLines
  <1>2. PICK seq \in Nat : Pumps(w, wire, v, wire', seq)
    BY <1>1, PumpForm
  <1>3. /\ w.queue # <<>> /\ v.queue = Tail(w.queue)
        /\ \/ seq = e.seq /\ v.last = w.last
           \/ IsEvent(e) /\ ~e.dropped /\ e.seq = 0 /\ seq = w.last + 1 /\ v.last = w.last + 1
        /\ IsEvent(e) /\ ~e.dropped => seq # 0
        /\ \/ /\ e.dropped /\ v.last = w.last /\ wire' = wire
           \/ /\ ~e.dropped /\ IsEvent(e) /\ e.bytes > MaxFrame /\ wire' = wire
           \/ /\ ~e.dropped
              /\ wire' = Append(wire, [kind |-> e.kind, val |-> e.val, seq |-> seq])
    BY <1>2 DEF Pumps
  <1>4. /\ e \in EntryOf(Words) /\ 1 \in 1..Len(w.queue) /\ v.queue \in Seq(EntryOf(Words))
    BY <1>1, <1>3, TailQueue
  <1>5. Bounded(Words, v)
    BY <1>1, PumpBounded
  <1>6. QueueOK(v.queue, h.frames)
    BY <1>1, <1>3, TailOK
  <1>7. f[k] = Line(e) /\ Len(f) = Len(wire) + Len(w.queue) /\ k \in 1..Len(f)
        /\ \A p \in 1..Len(wire) : f[p] = wire[p]
    <2>1. /\ \A i \in 1..Len(w.queue) : f[Len(wire) + i] = Line(w.queue[i])
          /\ Len(f) = Len(wire) + Len(w.queue) /\ \A p \in 1..Len(wire) : f[p] = wire[p]
          /\ Len(w.queue) \in Nat
      BY <1>1, FlowLines
    <2> QED BY <1>1, <1>4, <2>1
  <1>8. /\ e.kind \in EventKinds \cup {"response"} /\ e.val \in Words /\ e.seq \in Nat
        /\ e.dropped \in BOOLEAN
    BY <1>4, EntryFields
  <1>9. \A p \in 1..Len(f) : p < k /\ Event(f[p]) => f[p].seq # 0
    <2>1. \A p \in 1..Len(f) : p < k => p \in 1..Len(wire)
      BY <1>1, <1>7
    <2> QED BY <1>1, <1>7, <2>1 DEF WireOK
  <1>10. e.kind = "widget" => e.bytes = 1
    BY <1>1, <1>4 DEF QueueOK
  <1>11. w.last <= v.last
    BY <1>1, <1>3
  <1> DEFINE l == [kind |-> e.kind, val |-> e.val, seq |-> seq]
             gone == [kind |-> "dropped", val |-> e.val, seq |-> seq]
  <1>12. ~e.dropped => Line(e) = [kind |-> e.kind, val |-> e.val, seq |-> e.seq]
    BY DEF Line
  <1>13. IsEvent(e) <=> e.kind \in EventKinds
    BY <1>8 DEF IsEvent, EventKinds, PlainKinds, Mergeable
  <1>14. ASSUME ~e.dropped, NEW f2, Moved(f, k, l, f2)
         PROVE  GoodFlow(f2, v.last, read, h, c, reqs)
    <2>1. l \in FlowLine /\ l.kind = f[k].kind /\ l.val = f[k].val /\ f[k].seq = e.seq
      BY <1>7, <1>8, <1>12, <1>14 DEF FlowLine
    <2>2. \/ l.seq = f[k].seq /\ v.last = w.last
          \/ Event(f[k]) /\ f[k].seq = 0 /\ l.seq = w.last + 1 /\ v.last = w.last + 1
      <3>1. f[k].seq = e.seq /\ f[k].kind = e.kind
        BY <2>1
      <3> HIDE DEF f, k, v, w, e
      <3> QED BY <1>3, <1>13, <3>1 DEF Event
    <2> HIDE DEF f, k, v, w, l
    <2> QED BY <1>1, <1>9, <1>14, <2>1, <2>2, MovedGood DEF w
  <1>15. CASE e.dropped /\ v.last = w.last /\ wire' = wire
    <2>1. Without(f, k, g) /\ g \in Seq(FlowLine)
      BY <1>1, <1>3, <1>15, GoneFlow
    <2>2. f[k].kind = "dropped"
      BY <1>7, <1>15 DEF Line
    <2>3. GoodFlow(g, w.last, read, h, c, reqs)
      <3> HIDE DEF f, g, k, w
      <3> QED BY <1>1, <2>1, <2>2, GoodFade
    <2> QED BY <1>1, <1>5, <1>6, <1>11, <1>15, <2>3 DEF Writing
  <1>16. CASE ~e.dropped /\ IsEvent(e) /\ e.bytes > MaxFrame /\ wire' = wire
    <2> DEFINE f1 == [p \in 1..Len(f) |-> IF p = k THEN l ELSE f[p]]
               f2 == [p \in 1..Len(f) |-> IF p = k THEN gone ELSE f[p]]
    <2>1. l \in FlowLine /\ gone \in FlowLine
      BY <1>8 DEF FlowLine
    <2> HIDE DEF l, gone, f, k
    <2>2. /\ \A p \in 1..Len(f) : f[p] \in FlowLine
          /\ Len(f) \in Nat
      BY <1>1
    <2>3. f1 \in Seq(FlowLine) /\ Len(f1) = Len(f)
      BY <2>1, <2>2
    <2>4. f2 \in Seq(FlowLine) /\ Len(f2) = Len(f)
      BY <2>1, <2>2
    <2>5. Moved(f, k, l, f1)
      BY <1>7, <2>3 DEF Moved
    <2>6. Moved(f, k, gone, f2)
      BY <1>7, <2>4 DEF Moved
    <2>7. Moved(f1, k, gone, f2)
      BY <1>7, <2>3, <2>4 DEF Moved
    <2>8. GoodFlow(f1, v.last, read, h, c, reqs)
      BY <1>14, <1>16, <2>5 DEF f, k, l
    <2>9. /\ Event(f1[k]) /\ f1[k].seq # 0 /\ f1[k].kind # "widget"
          /\ gone.kind = "dropped" /\ gone.val = f1[k].val /\ gone.seq = f1[k].seq
      <3>1. f1[k] = l
        BY <1>7
      <3>2. /\ l.kind = e.kind /\ l.val = e.val /\ l.seq = seq
            /\ gone.kind = "dropped" /\ gone.val = e.val /\ gone.seq = seq
        BY DEF l, gone
      <3>3. e.kind # "widget"
        BY <1>4, <1>8, <1>10, <1>16
      <3>4. seq # 0
        BY <1>3, <1>16
      <3> HIDE DEF f1, e
      <3> QED BY <1>13, <1>16, <3>1, <3>2, <3>3, <3>4 DEF Event
    <2>10. GoodFlow(f2, v.last, read, h, c, reqs)
      <3> HIDE DEF f1, f2, v
      <3> QED BY <2>1, <2>7, <2>8, <2>9, OversizedGood
    <2>11. Without(f, k, g) /\ g \in Seq(FlowLine)
      BY <1>1, <1>3, <1>16, GoneFlow DEF f, k
    <2>12. f2[k].kind = "dropped"
      BY <1>7 DEF gone
    <2>13. Without(f2, k, g)
      <3> HIDE DEF f2, g
      <3> QED BY <1>1, <2>6, <2>11, Gone
    <2>14. GoodFlow(g, v.last, read, h, c, reqs)
      <3> HIDE DEF f2, g, v
      <3> QED BY <2>10, <2>11, <2>12, <2>13, GoodFade
    <2> QED BY <1>1, <1>5, <1>6, <1>11, <1>16, <2>14 DEF Writing
  <1>17. CASE ~e.dropped /\ wire' = Append(wire, l)
    <2>1. l \in LineOf(Words)
      BY <1>8 DEF LineOf
    <2>2. Moved(f, k, l, g)
      <3> HIDE DEF l
      <3> QED BY <1>1, <1>3, <1>17, <2>1, MovedFlow
    <2>3. WireOK(wire')
      <3>1. Event(l) => l.seq # 0
        BY <1>3, <1>13, <1>17 DEF Event
      <3> HIDE DEF l
      <3> QED BY <1>1, <1>17, <2>1, <3>1, WireMore
    <2>4. GoodFlow(g, v.last, read, h, c, reqs)
      <3> HIDE DEF l, f, g, k
      <3> QED BY <1>14, <1>17, <2>2
    <2> QED BY <1>5, <1>6, <1>11, <2>3, <2>4 DEF Writing
  <1> QED BY <1>3, <1>15, <1>16, <1>17
-----------------------------------------------------------------------------
(* The desktop. *)

View == [base : Nat, at : Nat, tail : Seq(Nat), queue : Nat, widget : Nat,
         frames : Seq(Nat), panel : [asked : Nat, shown : Nat]]

Desktop == [mode : {"live", "hello", "rehydrate", "backoff"}, attempt : 0..MaxAttempts - 1,
            id : Nat, pending : BOOLEAN, desync : BOOLEAN, fatal : BOOLEAN,
            lastSeq : Nat, buffer : Seq(LineOf(Words)), overflow : BOOLEAN, view : View]

\* StreamsContiguous and AttentionShowsWidget of a view.
ViewOK(view) ==
    /\ \A i \in 1..Len(view.tail) : view.tail[i] = view.at + i
    /\ \A i \in 1..Len(view.frames) : view.frames[i] = i
    /\ view.panel.shown = view.panel.asked

\* A view that has only what came with a snapshot.
Installed(view) ==
    view.tail = <<>> /\ view.frames = <<>> /\ view.panel.shown = view.panel.asked

\* Between its steps the loop has taken up every recovery it was asked for; it
\* is desynchronised from a gap or a failure until hello is answered, or until it
\* gives up; what it buffers has been read before the snapshot.
ClientOK(c, rd, last) ==
    /\ c \in Desktop /\ c.pending = FALSE
    /\ c.mode \in {"hello", "backoff"} => c.desync = TRUE
    /\ c.mode \in {"live", "rehydrate"} => c.desync = FALSE
    /\ c.mode = "rehydrate" => Installed(c.view) /\ c.fatal = FALSE
    /\ c.mode # "rehydrate" => c.buffer = <<>>
    /\ \A i \in 1..Len(c.buffer) : c.buffer[i].seq <= rd
    /\ Len(c.buffer) <= BufferLimit
    /\ c.lastSeq <= last
    /\ c.fatal = FALSE => ViewOK(c.view)

\* A snapshot's view is contiguous.
LEMMA InstalledOK ==
    ASSUME NEW view \in View, Installed(view) PROVE ViewOK(view)
  BY DEF Installed, ViewOK, View

\* The fields of the desktop's state.
LEMMA Fields ==
    ASSUME NEW c \in Desktop
    PROVE  /\ c.mode \in {"live", "hello", "rehydrate", "backoff"} /\ c.id \in Nat
           /\ c.attempt \in 0..MaxAttempts - 1 /\ c.pending \in BOOLEAN
           /\ c.desync \in BOOLEAN /\ c.fatal \in BOOLEAN /\ c.overflow \in BOOLEAN
           /\ c.lastSeq \in Nat /\ c.buffer \in Seq(LineOf(Words)) /\ c.view \in View
  BY DEF Desktop

\* The fields of what it shows.
LEMMA ViewFields ==
    ASSUME NEW v \in View
    PROVE  /\ v.base \in Nat /\ v.at \in Nat /\ v.tail \in Seq(Nat) /\ v.queue \in Nat
           /\ v.widget \in Nat /\ v.frames \in Seq(Nat)
           /\ v.panel.asked \in Nat /\ v.panel.shown \in Nat
  BY DEF View

\* The desktop vouches for what it shows and applies what comes.
Synced(c) == c.mode = "live" /\ c.fatal = FALSE

Has(c) == [from |-> c.lastSeq, level |-> c.view.at + Len(c.view.tail),
           chunks |-> Len(c.view.frames), shown |-> c.view.widget, base |-> c.view.base]

\* What the desktop is to the flow.
Desk(c) == [synced |-> Synced(c), reader |-> Has(c), id |-> c.id]

\* Nothing is replayed when everything buffered is covered by the watermark.
LEMMA NothingReplayed ==
    ASSUME NEW c, NEW buffer \in Seq(LineOf(Words)), NEW watermark \in Nat,
           \A i \in 1..Len(buffer) : buffer[i].seq <= watermark
    PROVE  Replayed(c, buffer, watermark) = c
  <1> DEFINE N == Len(buffer)
             after == CHOOSE a : a = [n \in 0..N |->
                          IF n = 0 THEN c
                          ELSE IF buffer[n].seq > watermark
                               THEN HandleEvent(a[n - 1], buffer[n])
                          ELSE a[n - 1]]
             S == {n \in 0..N : after[n] = c}
  <1>1. N \in Nat
    OBVIOUS
  <1>2. \A n \in 1..N : ~(buffer[n].seq > watermark)
    <2>1. \A n \in 1..N : buffer[n] \in LineOf(Words)
      OBVIOUS
    <2>2. \A n \in 1..N : buffer[n].seq \in Nat
      BY <2>1 DEF LineOf
    <2> QED BY <2>2
  <1>3. \E a : a = [n \in 0..N |->
                          IF n = 0 THEN c
                          ELSE IF buffer[n].seq > watermark
                               THEN HandleEvent(a[n - 1], buffer[n])
                          ELSE a[n - 1]]
    <2> DEFINE k == [n \in 0..N |-> c]
    <2> HIDE DEF N
    <2>1. \A n \in 0..N : k[n] = IF n = 0 THEN c
                                ELSE IF buffer[n].seq > watermark
                                     THEN HandleEvent(k[n - 1], buffer[n])
                                ELSE k[n - 1]
      <3>1. \A n \in 0..N : n # 0 => n \in 1..N /\ n - 1 \in 0..N
        BY <1>1
      <3> QED BY <1>1, <1>2, <3>1
    <2>2. k = [n \in 0..N |-> IF n = 0 THEN c
                              ELSE IF buffer[n].seq > watermark
                                   THEN HandleEvent(k[n - 1], buffer[n])
                              ELSE k[n - 1]]
      BY <2>1
    <2> QED BY <2>2
  <1>4. after = [n \in 0..N |->
                          IF n = 0 THEN c
                          ELSE IF buffer[n].seq > watermark
                               THEN HandleEvent(after[n - 1], buffer[n])
                          ELSE after[n - 1]]
    BY <1>3
  <1> HIDE DEF after, N
  <1>5. 0 \in S
    BY <1>1, <1>4
  <1>6. \A n \in 1..N : n - 1 \in S => n \in S
    BY <1>1, <1>2, <1>4
  <1> HIDE DEF S
  <1>7. \A n \in 0..N : n \in S
    BY <1>1, <1>5, <1>6, UpTo
  <1>8. after[N] = c
    BY <1>1, <1>7 DEF S
  <1> QED BY <1>8 DEF Replayed, after, N
\* The desktop reads a line and does not vouch for anything, or no longer.
LEMMA GoodPause ==
    ASSUME NEW f, NEW g, NEW last, NEW rd, NEW rd2, NEW h, NEW c, NEW c2, NEW reqs,
           GoodFlow(f, last, rd, h, c, reqs), Without(f, 1, g), g \in Seq(FlowLine),
           ReadTo(f, 1, rd, rd2),
           c2.id = c.id, ~c2.synced
    PROVE  GoodFlow(g, last, rd2, h, c2, reqs)
  <1>1. Polled(f, reqs, c) /\ Len(g) \in Nat
    BY DEF GoodFlow
  <1>2. Polled(g, reqs, c)
    BY <1>1, WithoutPolled
  <1>3. Polled(g, reqs, c2)
    BY <1>2, SameRequests
  <1> QED BY <1>3, GoodRead

\* The recovery loop makes a request, or the user changes a setting.
LEMMA GoodRequest ==
    ASSUME NEW f, NEW last, NEW rd, NEW h, NEW c, NEW c2, NEW q \in Request, NEW reqs, NEW reqs2,
           GoodFlow(f, last, rd, h, c, reqs), Asks(reqs, q, reqs2), c.id \in Nat, c2.id \in Nat,
           c.id <= c2.id, q.id <= c2.id,
           c2.synced => c.synced /\ c2.reader = c.reader /\ q.method = "settings",
           q.method # "settings" => c.id < q.id,
           q.method = "rehydrate" => Settled(f, reqs)
    PROVE  GoodFlow(f, last, rd, h, c2, reqs2)
  <1>1. FlowOK(f, last, rd) /\ Polled(f, reqs, c) /\ AllFollow(f, last, h, c)
    BY DEF GoodFlow
  <1>2. Polled(f, reqs2, c2)
    BY <1>1, MoreRequests
  <1>3. AllFollow(f, last, h, c2)
    BY <1>1 DEF AllFollow
  <1> QED BY <1>1, <1>2, <1>3 DEF GoodFlow

\* ClientOK, conjunct by conjunct.
LEMMA ClientParts ==
    ASSUME NEW c, NEW rd, NEW last, ClientOK(c, rd, last)
    PROVE  /\ c \in Desktop /\ c.pending = FALSE
           /\ c.mode \in {"hello", "backoff"} => c.desync = TRUE
           /\ c.mode \in {"live", "rehydrate"} => c.desync = FALSE
           /\ c.mode = "rehydrate" => Installed(c.view) /\ c.fatal = FALSE
           /\ c.mode # "rehydrate" => c.buffer = <<>>
           /\ \A i \in 1..Len(c.buffer) : c.buffer[i].seq <= rd
           /\ Len(c.buffer) <= BufferLimit
           /\ c.lastSeq <= last
           /\ c.fatal = FALSE => ViewOK(c.view)
  BY DEF ClientOK

\* What is buffered has been read later too.
LEMMA ReadsOn ==
    ASSUME NEW c, NEW rd \in Nat, NEW last \in Nat, NEW rd2 \in Nat, NEW last2 \in Nat,
           ClientOK(c, rd, last), rd <= rd2, last <= last2
    PROVE  ClientOK(c, rd2, last2)
  <1>1. c \in Desktop
    BY DEF ClientOK
  <1>2. \A i \in 1..Len(c.buffer) : c.buffer[i].seq \in Nat
    <2>1. \A i \in 1..Len(c.buffer) : c.buffer[i] \in LineOf(Words)
      BY <1>1, Fields
    <2> QED BY <2>1 DEF LineOf
  <1>3. \A i \in 1..Len(c.buffer) : c.buffer[i].seq <= rd2
    BY <1>2 DEF ClientOK
  <1>4. c.lastSeq <= last2
    BY <1>1, Fields DEF ClientOK
  <1> QED BY <1>3, <1>4 DEF ClientOK

\* The loop has said hello.
Greets(c, c2, rd, last) ==
    ClientOK(c2, rd, last) /\ c2.id = c.id + 1 /\ c2.mode = "hello"

\* A gap that a live desktop notices starts a recovery at once.
LEMMA GapGreets ==
    ASSUME NEW c, NEW rd, NEW last, ClientOK(c, rd, last), c.mode = "live",
           NEW e, e.seq \in Nat, e.seq <= last
    PROVE  Greets(c, NextRound(Gap(c, e)), rd, last)
  <1> DEFINE d == [c EXCEPT !.lastSeq = e.seq]
             d2 == [d EXCEPT !.desync = TRUE, !.pending = TRUE]
             d3 == [d2 EXCEPT !.pending = FALSE, !.attempt = 0]
             c2 == [d3 EXCEPT !.mode = "hello", !.id = @ + 1]
  <1>1. c \in Desktop /\ c.buffer = <<>> /\ (c.fatal = FALSE => ViewOK(c.view))
    BY ClientParts
  <1>2. 0 \in 0..MaxAttempts - 1
    BY RecoveryAssumption
  <1>3. d2.pending = TRUE
    BY <1>1 DEF Desktop
  <1>4. NextRound(Gap(c, e)) = c2
    BY <1>3 DEF NextRound, Gap, RequestRecovery, Ask
  <1>5. d \in Desktop /\ d.lastSeq = e.seq /\ d.buffer = c.buffer /\ d.view = c.view
        /\ d.fatal = c.fatal /\ d.id = c.id
    BY <1>1 DEF Desktop
  <1> HIDE DEF d
  <1>6. d2 \in Desktop /\ d2.lastSeq = e.seq /\ d2.buffer = c.buffer /\ d2.view = c.view
        /\ d2.fatal = c.fatal /\ d2.id = c.id /\ d2.desync = TRUE
    BY <1>5 DEF Desktop
  <1> HIDE DEF d2
  <1>7. d3 \in Desktop /\ d3.lastSeq = e.seq /\ d3.buffer = c.buffer /\ d3.view = c.view
        /\ d3.fatal = c.fatal /\ d3.id = c.id /\ d3.desync = TRUE /\ d3.pending = FALSE
    BY <1>2, <1>6 DEF Desktop
  <1> HIDE DEF d3
  <1>8. c2 \in Desktop /\ c2.lastSeq = e.seq /\ c2.buffer = c.buffer /\ c2.view = c.view
        /\ c2.fatal = c.fatal /\ c2.id = c.id + 1 /\ c2.desync = TRUE /\ c2.pending = FALSE
        /\ c2.mode = "hello"
    <2>1. d3.id + 1 \in Nat
      BY <1>7, Fields
    <2> QED BY <1>1, <1>7, <2>1 DEF Desktop
  <1> HIDE DEF c2
  <1>9. Len(c2.buffer) = 0 /\ Len(c2.buffer) <= BufferLimit
    BY <1>1, <1>8, RecoveryAssumption
  <1>10. \A i \in 1..Len(c2.buffer) : c2.buffer[i].seq <= rd
    BY <1>9
  <1>11. ClientOK(c2, rd, last)
    BY <1>1, <1>8, <1>9, <1>10 DEF ClientOK
  <1> QED BY <1>4, <1>8, <1>11 DEF Greets

\* A request failed.
LEMMA FailOK ==
    ASSUME NEW c, NEW rd, NEW last, ClientOK(c, rd, last), c.mode \in {"hello", "rehydrate"}
    PROVE  ClientOK(Fail(c), rd, last) /\ Fail(c).id = c.id /\ Fail(c).mode = "backoff"
  <1> DEFINE d == [c EXCEPT !.desync = TRUE, !.fatal = TRUE, !.buffer = <<>>, !.overflow = FALSE]
             m == IF c.mode = "hello" THEN c ELSE d
             c2 == [m EXCEPT !.mode = "backoff"]
  <1>1. c \in Desktop /\ c.pending = FALSE
        /\ (c.mode \in {"hello", "backoff"} => c.desync = TRUE)
        /\ c.lastSeq <= last /\ (c.mode # "rehydrate" => c.buffer = <<>>)
        /\ (c.fatal = FALSE => ViewOK(c.view))
    BY ClientParts
  <1>2. Fail(c) = c2
    BY <1>1 DEF Fail
  <1>3. d \in Desktop /\ d.buffer = <<>> /\ d.desync = TRUE /\ d.fatal = TRUE
        /\ d.pending = c.pending /\ d.lastSeq = c.lastSeq /\ d.view = c.view /\ d.id = c.id
    <2>1. <<>> \in Seq(LineOf(Words))
      OBVIOUS
    <2> QED BY <1>1, <2>1 DEF Desktop
  <1> HIDE DEF d
  <1>4. m \in Desktop /\ m.buffer = <<>> /\ m.desync = TRUE /\ m.pending = FALSE
        /\ m.lastSeq = c.lastSeq /\ m.id = c.id /\ (m.fatal = FALSE => ViewOK(m.view))
    BY <1>1, <1>3
  <1> HIDE DEF m
  <1>5. c2 \in Desktop /\ c2.buffer = <<>> /\ c2.desync = TRUE /\ c2.pending = FALSE
        /\ c2.lastSeq = c.lastSeq /\ c2.id = c.id /\ (c2.fatal = FALSE => ViewOK(c2.view))
        /\ c2.mode = "backoff"
    BY <1>4 DEF Desktop
  <1> HIDE DEF c2
  <1>6. Len(c2.buffer) = 0 /\ Len(c2.buffer) <= BufferLimit
    BY <1>5, RecoveryAssumption
  <1>7. \A i \in 1..Len(c2.buffer) : c2.buffer[i].seq <= rd
    BY <1>6
  <1>8. ClientOK(c2, rd, last)
    BY <1>1, <1>5, <1>6, <1>7 DEF ClientOK
  <1> QED BY <1>2, <1>5, <1>8
\* The empty view is one that was installed.
LEMMA EmptyViewOK ==
    EmptyView \in View /\ Installed(EmptyView) /\ ViewOK(EmptyView)
    /\ EmptyView.at = 0 /\ EmptyView.widget = 0
  <1>1. EmptyView \in View
    <2>1. <<>> \in Seq(Nat)
      OBVIOUS
    <2> QED BY <2>1 DEF EmptyView, View
  <1>2. Installed(EmptyView) /\ EmptyView.at = 0 /\ EmptyView.widget = 0
    BY DEF EmptyView, Installed
  <1> QED BY <1>1, <1>2, InstalledOK

\* hello is answered: a new epoch, and the snapshot is asked for.
LEMMA HelloAsks ==
    ASSUME NEW c, NEW rd, NEW last \in Nat, ClientOK(c, rd, last)
    PROVE  ClientOK(HelloOk(c), rd, last) /\ HelloOk(c).id = c.id + 1
           /\ HelloOk(c).mode = "rehydrate"
  <1> DEFINE d == [c EXCEPT !.desync = FALSE, !.fatal = FALSE, !.lastSeq = 0,
                            !.view = EmptyView, !.buffer = <<>>, !.overflow = FALSE]
             c2 == [d EXCEPT !.mode = "rehydrate", !.id = @ + 1]
  <1>1. c \in Desktop /\ c.pending = FALSE
    BY ClientParts
  <1>2. HelloOk(c) = c2
    BY DEF HelloOk, Ask
  <1>3. /\ d \in Desktop /\ d.desync = FALSE /\ d.fatal = FALSE /\ d.lastSeq = 0
        /\ d.view = EmptyView /\ d.buffer = <<>> /\ d.pending = FALSE /\ d.id = c.id
    <2>1. <<>> \in Seq(LineOf(Words)) /\ EmptyView \in View /\ 0 \in Nat
      BY EmptyViewOK
    <2> HIDE DEF EmptyView
    <2> QED BY <1>1, <2>1 DEF Desktop
  <1> HIDE DEF d
  <1>4. /\ c2 \in Desktop /\ c2.desync = FALSE /\ c2.fatal = FALSE /\ c2.lastSeq = 0
        /\ c2.view = EmptyView /\ c2.buffer = <<>> /\ c2.pending = FALSE /\ c2.id = c.id + 1
        /\ c2.mode = "rehydrate"
    <2>1. d.id + 1 \in Nat
      BY <1>3, Fields
    <2> QED BY <1>3, <2>1 DEF Desktop
  <1> HIDE DEF c2
  <1>5. Len(c2.buffer) = 0 /\ Len(c2.buffer) <= BufferLimit
    BY <1>4, RecoveryAssumption
  <1>6. \A i \in 1..Len(c2.buffer) : c2.buffer[i].seq <= rd
    BY <1>5
  <1>7. ClientOK(c2, rd, last)
    <2>1. Installed(c2.view) /\ ViewOK(c2.view)
      BY <1>4, EmptyViewOK
    <2>2. c2.lastSeq <= last
      BY <1>4
    <2> QED BY <1>4, <1>5, <1>6, <2>1, <2>2 DEF ClientOK
  <1> QED BY <1>2, <1>4, <1>7

\* The view that a snapshot gives.
LEMMA InstalledView ==
    ASSUME NEW r \in Answers, NEW v,
           v = [EmptyView EXCEPT !.base = r.cached, !.at = r.at, !.queue = r.queue]
    PROVE  v \in View /\ Installed(v) /\ v.at = r.at /\ v.base = r.cached /\ v.widget = 0
  <1>1. r.cached \in Nat /\ r.at \in Nat /\ r.queue \in Nat
    BY DEF Answers
  <1>2. EmptyView \in View /\ Installed(EmptyView) /\ EmptyView.widget = 0
    BY EmptyViewOK
  <1>3. v \in View /\ v.tail = EmptyView.tail /\ v.frames = EmptyView.frames
        /\ v.panel = EmptyView.panel /\ v.at = r.at /\ v.base = r.cached
        /\ v.widget = EmptyView.widget
    BY <1>1, <1>2 DEF View
  <1> QED BY <1>2, <1>3 DEF Installed

\* The snapshot is installed; what was buffered is part of it.
Installs(c, r, c2, rd, last) ==
    /\ ClientOK(c2, rd, last)
    /\ \/ c2.id = c.id + 1 /\ c2.mode = "hello"
       \/ c2.id = c.id /\ c2.mode = "live" /\ Has(c2) = Snapshot(r)

\* completeRehydrate and what follows it: live, or hello again.
LEMMA SnapshotInstalls ==
    ASSUME NEW c, NEW rd \in Nat, NEW last \in Nat, NEW r \in Answers, ClientOK(c, rd, last),
           c.mode = "rehydrate", rd <= r.watermark, r.watermark <= last
    PROVE  Installs(c, r, RehydrateOk(c, r), rd, last)
  <1> DEFINE v == [EmptyView EXCEPT !.base = r.cached, !.at = r.at, !.queue = r.queue]
             d == [c EXCEPT !.lastSeq = r.watermark, !.desync = FALSE,
                            !.buffer = <<>>, !.overflow = FALSE, !.view = v]
  <1>1. c \in Desktop /\ c.pending = FALSE /\ c.fatal = FALSE
        /\ \A i \in 1..Len(c.buffer) : c.buffer[i].seq <= rd
    BY ClientParts
  <1>2. r.watermark \in Nat /\ r.at \in Nat
    BY DEF Answers
  <1>3. v \in View /\ Installed(v) /\ v.at = r.at /\ v.base = r.cached /\ v.widget = 0
    BY InstalledView
  <1>4. Install(c, r) = d
    BY DEF Install
  <1> HIDE DEF v
  <1>5. /\ d \in Desktop /\ d.lastSeq = r.watermark /\ d.desync = FALSE /\ d.buffer = <<>>
        /\ d.overflow = FALSE /\ d.view = v /\ d.pending = FALSE /\ d.id = c.id
        /\ d.fatal = FALSE
    <2>1. <<>> \in Seq(LineOf(Words))
      OBVIOUS
    <2> QED BY <1>1, <1>2, <1>3, <2>1 DEF Desktop
  <1> HIDE DEF d
  <1>6. Replayed(d, c.buffer, r.watermark) = d
    <2>1. c.buffer \in Seq(LineOf(Words))
      BY <1>1, Fields
    <2>2. \A i \in 1..Len(c.buffer) : c.buffer[i].seq <= r.watermark
      <3>1. \A i \in 1..Len(c.buffer) : c.buffer[i] \in LineOf(Words)
        BY <2>1
      <3>2. \A i \in 1..Len(c.buffer) : c.buffer[i].seq \in Nat
        BY <3>1 DEF LineOf
      <3> QED BY <1>1, <1>2, <3>2
    <2> QED BY <1>2, <2>1, <2>2, NothingReplayed
  <1>7. RehydrateOk(c, r) = IF c.overflow THEN NextRound(RequestRecovery(d)) ELSE NextRound(d)
    BY <1>4, <1>6 DEF RehydrateOk
  <1>8. CASE c.overflow
    <2> DEFINE d2 == [d EXCEPT !.desync = TRUE, !.pending = TRUE]
               d3 == [d2 EXCEPT !.pending = FALSE, !.attempt = 0]
               c2 == [d3 EXCEPT !.mode = "hello", !.id = @ + 1]
    <2>1. d2 \in Desktop /\ d2.pending = TRUE /\ d2.desync = TRUE /\ d2.lastSeq = r.watermark
          /\ d2.buffer = <<>> /\ d2.view = v /\ d2.id = c.id
      BY <1>5 DEF Desktop
    <2>2. RehydrateOk(c, r) = c2
      BY <1>7, <1>8, <2>1 DEF NextRound, RequestRecovery, Ask
    <2> HIDE DEF d2
    <2>3. d3 \in Desktop /\ d3.pending = FALSE /\ d3.desync = TRUE /\ d3.lastSeq = r.watermark
          /\ d3.buffer = <<>> /\ d3.view = v /\ d3.id = c.id
      <3>1. 0 \in 0..MaxAttempts - 1
        BY RecoveryAssumption
      <3> QED BY <2>1, <3>1 DEF Desktop
    <2> HIDE DEF d3
    <2>4. c2 \in Desktop /\ c2.pending = FALSE /\ c2.desync = TRUE /\ c2.lastSeq = r.watermark
          /\ c2.buffer = <<>> /\ c2.view = v /\ c2.id = c.id + 1 /\ c2.mode = "hello"
      <3>1. d3.id + 1 \in Nat
        BY <2>3, Fields
      <3> QED BY <2>3, <3>1 DEF Desktop
    <2> HIDE DEF c2
    <2>5. Len(c2.buffer) = 0 /\ Len(c2.buffer) <= BufferLimit
      BY <2>4, RecoveryAssumption
    <2>6. \A i \in 1..Len(c2.buffer) : c2.buffer[i].seq <= rd
      BY <2>5
    <2>7. ClientOK(c2, rd, last)
      <3>1. ViewOK(c2.view) /\ c2.lastSeq <= last
        BY <1>3, <2>4, InstalledOK
      <3> QED BY <2>4, <2>5, <2>6, <3>1 DEF ClientOK
    <2> QED BY <2>2, <2>4, <2>7 DEF Installs
  <1>9. CASE ~c.overflow
    <2> DEFINE c2 == [d EXCEPT !.mode = "live"]
    <2>1. RehydrateOk(c, r) = c2
      BY <1>5, <1>7, <1>9 DEF NextRound
    <2>2. c2 \in Desktop /\ c2.pending = FALSE /\ c2.desync = FALSE /\ c2.lastSeq = r.watermark
          /\ c2.buffer = <<>> /\ c2.view = v /\ c2.id = c.id /\ c2.mode = "live"
      BY <1>5 DEF Desktop
    <2> HIDE DEF c2
    <2>5. Len(c2.buffer) = 0 /\ Len(c2.buffer) <= BufferLimit
      BY <2>2, RecoveryAssumption
    <2>6. \A i \in 1..Len(c2.buffer) : c2.buffer[i].seq <= rd
      BY <2>5
    <2>7. ClientOK(c2, rd, last)
      <3>1. ViewOK(c2.view) /\ c2.lastSeq <= last
        BY <1>3, <2>2, InstalledOK
      <3> QED BY <2>2, <2>5, <2>6, <3>1 DEF ClientOK
    <2>8. Has(c2) = Snapshot(r)
      BY <1>2, <1>3, <2>2 DEF Has, Snapshot, Installed
    <2> QED BY <2>1, <2>2, <2>7, <2>8 DEF Installs
  <1> QED BY <1>7, <1>8, <1>9
-----------------------------------------------------------------------------
(* The desktop applies an event. *)

\* u is s and then t.
Joins(s, t, u) == u = s \o t

\* What the reducers do, by the kind of event.
Applied(v, e, v2) ==
    /\ v2 \in View
    /\ e.kind = "delta" => Joins(v.tail, e.val, v2.tail) /\ v2.at = v.at
    /\ e.kind = "snap" => v2.tail = <<>> /\ v2.at = e.val[1] /\ v2.base = e.val[1]
    /\ e.kind # "snap" => v2.base = v.base
    /\ e.kind \notin {"delta", "snap"} => v2.tail = v.tail /\ v2.at = v.at
    /\ e.kind = "frame" => Joins(v.frames, e.val, v2.frames)
    /\ e.kind = "closed" => v2.frames = <<>>
    /\ e.kind \notin {"frame", "closed"} => v2.frames = v.frames
    /\ e.kind = "widget" => v2.widget = e.val[1]
    /\ e.kind # "widget" => v2.widget = v.widget
    /\ e.kind = "attention" => v2.panel.asked = e.val[1] /\ v2.panel.shown = v.widget
    /\ e.kind # "attention" => v2.panel = v.panel

JoinParts(s, t, u) ==
    /\ Len(u) = Len(s) + Len(t) /\ Len(s) \in Nat /\ Len(t) \in Nat
    /\ \A i \in 1..Len(s) : u[i] = s[i]
    /\ \A i \in 1..Len(t) : u[Len(s) + i] = t[i]
    /\ \A i \in 1..Len(u) : \/ i \in 1..Len(s)
                            \/ i - Len(s) \in 1..Len(t) /\ i = Len(s) + (i - Len(s))

\* Joined sequences, position by position.
LEMMA JoinedSeqs ==
    ASSUME NEW s \in Seq(Nat), NEW t \in Seq(Nat), NEW u, Joins(s, t, u)
    PROVE  JoinParts(s, t, u)
  BY DEF Joins, JoinParts

\* The reducers of handleHostEvent do what Applied says.
LEMMA ApplyApplies ==
    ASSUME NEW v \in View, NEW e, Event(e), Saying(e.kind, e.val)
    PROVE  Applied(v, e, Apply(v, e))
  <1> DEFINE v2 == Apply(v, e)
  <1>1. /\ v.base \in Nat /\ v.at \in Nat /\ v.tail \in Seq(Nat) /\ v.queue \in Nat
        /\ v.widget \in Nat /\ v.frames \in Seq(Nat)
    BY ViewFields
  <1>2. e.val \in Seq(Nat)
    BY DEF Saying, Event, Payload
  <1>3. e.kind \in {"delta", "snap", "queue", "widget", "attention"} => e.val[1] \in Nat
    <2>1. ASSUME e.kind \in {"delta", "snap", "queue", "widget", "attention"}
          PROVE  e.val[1] \in Nat
      <3>1. Len(e.val) \in {1, 2}
        BY <2>1 DEF Saying
      <3> QED BY <1>2, <3>1
    <2> QED BY <2>1
  <1>4. CASE e.kind = "delta"
    <2>1. v2 = [v EXCEPT !.tail = @ \o e.val]
      BY <1>4 DEF Apply
    <2>2. v.tail \o e.val \in Seq(Nat)
      BY <1>1, <1>2
    <2>3. v2 \in View /\ v2.tail = v.tail \o e.val /\ v2.at = v.at /\ v2.frames = v.frames
          /\ v2.widget = v.widget /\ v2.base = v.base /\ v2.panel = v.panel
      BY <2>1, <2>2 DEF View
    <2> HIDE DEF v2
    <2>4. Applied(v, e, v2)
      BY <1>4, <2>3 DEF Applied, Joins
    <2> QED BY <2>4 DEF v2
  <1>5. CASE e.kind = "snap"
    <2>1. v2 = [v EXCEPT !.base = e.val[1], !.at = e.val[1], !.tail = <<>>, !.queue = e.val[2]]
      BY <1>5 DEF Apply
    <2>2. e.val[2] \in Nat /\ <<>> \in Seq(Nat)
      <3>1. Len(e.val) = 2
        BY <1>5 DEF Saying
      <3> QED BY <1>2, <3>1
    <2>3. v2 \in View /\ v2.tail = <<>> /\ v2.at = e.val[1] /\ v2.frames = v.frames
          /\ v2.widget = v.widget /\ v2.panel = v.panel /\ v2.base = e.val[1]
      BY <1>3, <1>5, <2>1, <2>2 DEF View
    <2> HIDE DEF v2
    <2>4. Applied(v, e, v2)
      BY <1>5, <2>3 DEF Applied
    <2> QED BY <2>4 DEF v2
  <1>6. CASE e.kind = "queue"
    <2>1. v2 = IF e.val[1] >= v.queue THEN [v EXCEPT !.queue = e.val[1]] ELSE v
      BY <1>6 DEF Apply
    <2>3. v2 \in View /\ v2.tail = v.tail /\ v2.at = v.at /\ v2.frames = v.frames
          /\ v2.widget = v.widget /\ v2.base = v.base /\ v2.panel = v.panel
      BY <1>3, <1>6, <2>1 DEF View
    <2> HIDE DEF v2
    <2>4. Applied(v, e, v2)
      BY <1>6, <2>3 DEF Applied
    <2> QED BY <2>4 DEF v2
  <1>7. CASE e.kind = "widget"
    <2>1. v2 = [v EXCEPT !.widget = e.val[1]]
      BY <1>7 DEF Apply
    <2>3. v2 \in View /\ v2.tail = v.tail /\ v2.at = v.at /\ v2.frames = v.frames
          /\ v2.widget = e.val[1] /\ v2.base = v.base /\ v2.panel = v.panel
      BY <1>3, <1>7, <2>1 DEF View
    <2> HIDE DEF v2
    <2>4. Applied(v, e, v2)
      BY <1>7, <2>3 DEF Applied
    <2> QED BY <2>4 DEF v2
  <1>8. CASE e.kind = "attention"
    <2>1. v2 = [v EXCEPT !.panel = [asked |-> e.val[1], shown |-> v.widget]]
      BY <1>8 DEF Apply
    <2>2. [asked |-> e.val[1], shown |-> v.widget] \in [asked : Nat, shown : Nat]
      BY <1>1, <1>3, <1>8
    <2>3. v2 \in View /\ v2.tail = v.tail /\ v2.at = v.at /\ v2.frames = v.frames
          /\ v2.widget = v.widget /\ v2.base = v.base /\ v2.panel = [asked |-> e.val[1], shown |-> v.widget]
      BY <2>1, <2>2 DEF View
    <2> HIDE DEF v2
    <2>4. Applied(v, e, v2)
      BY <1>8, <2>3 DEF Applied
    <2> QED BY <2>4 DEF v2
  <1>9. CASE e.kind = "frame"
    <2>1. v2 = [v EXCEPT !.frames = @ \o e.val]
      BY <1>9 DEF Apply
    <2>2. v.frames \o e.val \in Seq(Nat)
      BY <1>1, <1>2
    <2>3. v2 \in View /\ v2.tail = v.tail /\ v2.at = v.at /\ v2.frames = v.frames \o e.val
          /\ v2.widget = v.widget /\ v2.base = v.base /\ v2.panel = v.panel
      BY <2>1, <2>2 DEF View
    <2> HIDE DEF v2
    <2>4. Applied(v, e, v2)
      BY <1>9, <2>3 DEF Applied, Joins
    <2> QED BY <2>4 DEF v2
  <1>10. CASE e.kind = "closed"
    <2>1. v2 = [v EXCEPT !.frames = <<>>]
      BY <1>10 DEF Apply
    <2>2. <<>> \in Seq(Nat)
      OBVIOUS
    <2>3. v2 \in View /\ v2.tail = v.tail /\ v2.at = v.at /\ v2.frames = <<>>
          /\ v2.widget = v.widget /\ v2.base = v.base /\ v2.panel = v.panel
      BY <2>1, <2>2 DEF View
    <2> HIDE DEF v2
    <2>4. Applied(v, e, v2)
      BY <1>10, <2>3 DEF Applied
    <2> QED BY <2>4 DEF v2
  <1> QED BY <1>4, <1>5, <1>6, <1>7, <1>8, <1>9, <1>10 DEF Event, EventKinds, PlainKinds, Mergeable

\* What the reader has after line l.
Taken(l, b) ==
    [from |-> IF Event(l) THEN b.from + 1 ELSE b.from,
     level |-> IF Levelled(l) THEN Level(l) ELSE b.level,
     chunks |-> IF l.kind = "frame" THEN l.val[Len(l.val)] ELSE b.chunks,
     shown |-> IF l.kind = "widget" THEN l.val[1] ELSE b.shown,
     base |-> IF Renews(l) THEN Renewed(l) ELSE b.base]

\* A line that follows on what the reader has.
Continues(l, b) ==
    /\ l.kind = "delta" => l.val[1] = b.level + 1
    /\ l.kind = "frame" => \A i \in 1..Len(l.val) : l.val[i] = b.chunks + i
    /\ l.kind = "closed" => b.chunks = 0
    /\ l.kind = "attention" => l.val[1] = b.shown

\* A faithful view stays one, and has what the reader then has.
LEMMA AppliedOK ==
    ASSUME NEW v \in View, NEW v2, NEW e, NEW b, Event(e), Saying(e.kind, e.val),
           Applied(v, e, v2), ViewOK(v), Continues(e, b),
           b.level = v.at + Len(v.tail), b.chunks = Len(v.frames), b.shown = v.widget,
           b.base = v.base
    PROVE  /\ ViewOK(v2)
           /\ Taken(e, b).level = v2.at + Len(v2.tail)
           /\ Taken(e, b).chunks = Len(v2.frames)
           /\ Taken(e, b).shown = v2.widget
           /\ Taken(e, b).base = v2.base
  <1>1. /\ v.at \in Nat /\ v.tail \in Seq(Nat) /\ v.widget \in Nat /\ v.frames \in Seq(Nat)
        /\ v2.at \in Nat /\ v2.tail \in Seq(Nat) /\ v2.frames \in Seq(Nat)
    BY ViewFields DEF Applied
  <1>2. e.val \in Seq(Nat)
    BY DEF Saying, Event, Payload
  <1>3. /\ Taken(e, b).level = IF Levelled(e) THEN Level(e) ELSE b.level
        /\ Taken(e, b).chunks = IF e.kind = "frame" THEN e.val[Len(e.val)] ELSE b.chunks
        /\ Taken(e, b).shown = IF e.kind = "widget" THEN e.val[1] ELSE b.shown
    BY DEF Taken
  <1>4. Levelled(e) <=> e.kind \in {"delta", "snap"}
    BY DEF Levelled, Event, EventKinds, PlainKinds, Mergeable
  <1>5. Level(e) = e.val[1]
    BY DEF Level, Event, EventKinds, PlainKinds, Mergeable
  <1>6. /\ \A i \in 1..Len(v2.tail) : v2.tail[i] = v2.at + i
        /\ Taken(e, b).level = v2.at + Len(v2.tail)
    <2>1. CASE e.kind = "delta"
      <3>1. Joins(v.tail, e.val, v2.tail) /\ v2.at = v.at
        BY <2>1 DEF Applied
      <3>2. Len(e.val) = 1 /\ e.val[1] = v.at + Len(v.tail) + 1
        BY <1>1, <2>1 DEF Saying, Continues
      <3>3. \A i \in 1..Len(v.tail) : v.tail[i] = v.at + i
        BY DEF ViewOK
      <3>4. /\ Len(v2.tail) = Len(v.tail) + 1 /\ v2.tail[Len(v.tail) + 1] = e.val[1]
            /\ \A i \in 1..Len(v.tail) : v2.tail[i] = v.tail[i]
            /\ \A i \in 1..Len(v2.tail) : i \in 1..Len(v.tail) \/ i = Len(v.tail) + 1
            /\ Len(v.tail) \in Nat
        <4>1. /\ Len(v2.tail) = Len(v.tail) + Len(e.val) /\ Len(v.tail) \in Nat
              /\ \A i \in 1..Len(v.tail) : v2.tail[i] = v.tail[i]
              /\ \A i \in 1..Len(e.val) : v2.tail[Len(v.tail) + i] = e.val[i]
          <5>1. JoinParts(v.tail, e.val, v2.tail)
            BY <1>1, <1>2, <3>1, JoinedSeqs
          <5> QED BY <5>1 DEF JoinParts
        <4> QED BY <3>2, <4>1
      <3>7. v.at \in Nat /\ v2.at = v.at
        BY <1>1, <3>1
      <3>5. ASSUME NEW i \in 1..Len(v2.tail) PROVE v2.tail[i] = v2.at + i
        <4>1. CASE i \in 1..Len(v.tail)
          <5>1. v2.tail[i] = v.tail[i] /\ v.tail[i] = v.at + i
            BY <3>3, <3>4, <4>1
          <5> QED BY <3>7, <5>1
        <4>2. CASE i = Len(v.tail) + 1
          <5>1. v2.tail[i] = v.at + Len(v.tail) + 1
            BY <3>2, <3>4, <4>2
          <5>2. Len(v.tail) \in Nat /\ v.at \in Nat
            BY <3>4, <3>7
          <5>3. v.at + Len(v.tail) + 1 = v.at + i
            BY <4>2, <5>2
          <5> QED BY <3>7, <5>1, <5>3
        <4> QED BY <3>4, <4>1, <4>2
      <3>6. v.at + Len(v.tail) + 1 = v2.at + Len(v2.tail)
        BY <3>4, <3>7
      <3> QED BY <1>3, <1>4, <1>5, <2>1, <3>2, <3>5, <3>6
    <2>2. CASE e.kind = "snap"
      <3>1. v2.tail = <<>> /\ v2.at = e.val[1] /\ Len(v2.tail) = 0
        BY <2>2 DEF Applied
      <3> QED BY <1>1, <1>3, <1>4, <1>5, <2>2, <3>1
    <2>3. CASE e.kind \notin {"delta", "snap"}
      <3>1. v2.tail = v.tail /\ v2.at = v.at
        BY <2>3 DEF Applied
      <3> QED BY <1>1, <1>3, <1>4, <2>3, <3>1 DEF ViewOK
    <2> QED BY <2>1, <2>2, <2>3
  <1>7. /\ \A i \in 1..Len(v2.frames) : v2.frames[i] = i
        /\ Taken(e, b).chunks = Len(v2.frames)
    <2>1. CASE e.kind = "frame"
      <3>1. Joins(v.frames, e.val, v2.frames)
        BY <2>1 DEF Applied
      <3>2. e.val # <<>> /\ \A i \in 1..Len(e.val) : e.val[i] = Len(v.frames) + i
        BY <2>1 DEF Saying, Continues
      <3>3. \A i \in 1..Len(v.frames) : v.frames[i] = i
        BY DEF ViewOK
      <3>4. /\ Len(v2.frames) = Len(v.frames) + Len(e.val)
            /\ Len(v.frames) \in Nat /\ Len(e.val) \in Nat
            /\ \A i \in 1..Len(v.frames) : v2.frames[i] = v.frames[i]
            /\ \A i \in 1..Len(e.val) : v2.frames[Len(v.frames) + i] = e.val[i]
            /\ \A i \in 1..Len(v2.frames) :
                  \/ i \in 1..Len(v.frames)
                  \/ i - Len(v.frames) \in 1..Len(e.val) /\ i = Len(v.frames) + (i - Len(v.frames))
        <4>1. JoinParts(v.frames, e.val, v2.frames)
          BY <1>1, <1>2, <3>1, JoinedSeqs
        <4> QED BY <4>1 DEF JoinParts
      <3>5. ASSUME NEW i \in 1..Len(v2.frames) PROVE v2.frames[i] = i
        <4>2. CASE i \in 1..Len(v.frames)
          BY <3>3, <3>4, <4>2
        <4>3. CASE i - Len(v.frames) \in 1..Len(e.val) /\ i = Len(v.frames) + (i - Len(v.frames))
          <5>1. v2.frames[Len(v.frames) + (i - Len(v.frames))] = e.val[i - Len(v.frames)]
            BY <3>4, <4>3
          <5>2. e.val[i - Len(v.frames)] = Len(v.frames) + (i - Len(v.frames))
            BY <3>2, <4>3
          <5> QED BY <4>3, <5>1, <5>2
        <4> QED BY <3>4, <4>2, <4>3
      <3>6. e.val[Len(e.val)] = Len(v2.frames)
        <4>1. Len(e.val) \in 1..Len(e.val)
          BY <1>2, <3>2
        <4> QED BY <3>2, <3>4, <4>1
      <3> QED BY <1>3, <2>1, <3>5, <3>6
    <2>2. CASE e.kind = "closed"
      <3>1. v2.frames = <<>> /\ Len(v2.frames) = 0 /\ b.chunks = 0
        BY <2>2 DEF Applied, Continues
      <3> QED BY <1>3, <2>2, <3>1
    <2>3. CASE e.kind \notin {"frame", "closed"}
      <3>1. v2.frames = v.frames
        BY <2>3 DEF Applied
      <3> QED BY <1>3, <2>3, <3>1 DEF ViewOK
    <2> QED BY <2>1, <2>2, <2>3
  <1>8. v2.panel.shown = v2.panel.asked
    <2>1. CASE e.kind = "attention"
      BY <2>1 DEF Applied, Continues
    <2>2. CASE e.kind # "attention"
      BY <2>2 DEF Applied, ViewOK
    <2> QED BY <2>1, <2>2
  <1>9. Taken(e, b).shown = v2.widget
    BY <1>3 DEF Applied
  <1>10. Taken(e, b).base = v2.base
    <2>1. Renews(e) <=> e.kind = "snap"
      BY DEF Renews, Event, EventKinds, PlainKinds, Mergeable
    <2>2. e.kind = "snap" => Renewed(e) = e.val[1]
      BY DEF Renewed
    <2>3. Taken(e, b).base = IF Renews(e) THEN Renewed(e) ELSE b.base
      BY DEF Taken
    <2> QED BY <2>1, <2>2, <2>3 DEF Applied
  <1> QED BY <1>6, <1>7, <1>8, <1>9, <1>10 DEF ViewOK
-----------------------------------------------------------------------------
(* The desktop reads a line. *)

LEMMA DeskParts ==
    ASSUME NEW c
    PROVE  /\ Desk(c).synced <=> Synced(c)
           /\ Desk(c).reader = Has(c) /\ Desk(c).id = c.id
           /\ Has(c).from = c.lastSeq /\ Has(c).level = c.view.at + Len(c.view.tail)
           /\ Has(c).chunks = Len(c.view.frames) /\ Has(c).shown = c.view.widget
           /\ Has(c).base = c.view.base
  BY DEF Desk, Has, Synced

\* The first line of f is read, and g is the rest.
Taking(f, g, last, rd, rd2, h, c, reqs) ==
    /\ GoodFlow(f, last, rd, h, Desk(c), reqs) /\ ClientOK(c, rd, last)
    /\ Without(f, 1, g) /\ g \in Seq(FlowLine) /\ rd <= last
    /\ f[1].kind # "dropped" /\ (Event(f[1]) => f[1].seq # 0)
    /\ rd2 = IF f[1].kind = "response" THEN rd ELSE f[1].seq

\* What holds when the desktop has taken the line and sent what it asks for.
Took(g, last, rd, h, c, reqs) ==
    ClientOK(c, rd, last) /\ GoodFlow(g, last, rd, h, Desk(c), reqs)

\* What holds of the line that is read, conjunct by conjunct.
LEMMA TakingParts ==
    ASSUME NEW f, NEW g, NEW last, NEW rd, NEW rd2, NEW h, NEW c, NEW reqs,
           Taking(f, g, last, rd, rd2, h, c, reqs)
    PROVE  /\ FlowOK(f, last, rd) /\ AllFollow(f, last, h, Desk(c)) /\ Polled(f, reqs, Desk(c))
           /\ ClientOK(c, rd, last) /\ c \in Desktop /\ c.id \in Nat
           /\ GoodFlow(f, last, rd, h, Desk(c), reqs)
           /\ Without(f, 1, g) /\ g \in Seq(FlowLine)
           /\ f[1] \in FlowLine /\ Saying(f[1].kind, f[1].val) /\ f[1].seq \in Nat
           /\ 1 \in 1..Len(f) /\ Len(f) \in Nat /\ Len(g) \in Nat
           /\ rd \in Nat /\ rd2 \in Nat /\ last \in Nat /\ rd <= rd2 /\ rd2 <= last
           /\ ClientOK(c, rd2, last)
           /\ Event(f[1]) \/ (f[1].kind = "response" /\ f[1].val \in Answers /\ ~Event(f[1]))
           /\ Event(f[1]) => f[1].kind # "response" /\ rd2 = f[1].seq /\ f[1].seq # 0
           /\ f[1].kind = "response" => rd2 = rd
           /\ ReadTo(f, 1, rd, rd2)
           /\ reqs \in Seq(Request)
  <1>1. /\ FlowOK(f, last, rd) /\ AllFollow(f, last, h, Desk(c)) /\ Polled(f, reqs, Desk(c))
        /\ ClientOK(c, rd, last) /\ c \in Desktop
        /\ GoodFlow(f, last, rd, h, Desk(c), reqs) /\ Without(f, 1, g) /\ g \in Seq(FlowLine)
        /\ rd <= last /\ f[1].kind # "dropped" /\ (Event(f[1]) => f[1].seq # 0)
        /\ rd2 = IF f[1].kind = "response" THEN rd ELSE f[1].seq
    BY DEF Taking, GoodFlow, ClientOK
  <1>2. /\ f \in Seq(FlowLine) /\ last \in Nat /\ rd \in Nat
        /\ \A p \in 1..Len(f) : Saying(f[p].kind, f[p].val)
        /\ \A p \in 1..Len(f) : Event(f[p]) /\ f[p].seq # 0 => rd < f[p].seq /\ f[p].seq <= last
    BY <1>1 DEF FlowOK, Rises
  <1>3. 1 \in 1..Len(f)
    BY <1>1 DEF Without
  <1>4. f[1] \in FlowLine /\ Len(f) \in Nat /\ Len(g) \in Nat /\ Saying(f[1].kind, f[1].val)
    BY <1>1, <1>2, <1>3
  <1>5. f[1].kind \in EventKinds \cup {"response", "dropped"} /\ f[1].seq \in Nat
    BY <1>4 DEF FlowLine
  <1>6. /\ Event(f[1]) \/ (f[1].kind = "response" /\ f[1].val \in Answers /\ ~Event(f[1]))
        /\ Event(f[1]) => f[1].kind # "response"
    BY <1>1, <1>4, <1>5 DEF Event, Saying, EventKinds, PlainKinds, Mergeable
  <1>7. /\ Event(f[1]) => rd2 = f[1].seq /\ rd < f[1].seq /\ f[1].seq <= last
        /\ f[1].kind = "response" => rd2 = rd
    BY <1>1, <1>2, <1>3, <1>6
  <1>8. rd2 \in Nat /\ rd <= rd2 /\ rd2 <= last
    BY <1>1, <1>2, <1>5, <1>6, <1>7
  <1>9. ClientOK(c, rd2, last)
    BY <1>1, <1>2, <1>8, ReadsOn
  <1>10. reqs \in Seq(Request) /\ c.id \in Nat
    BY <1>1, Fields DEF Polled
  <1>11. ReadTo(f, 1, rd, rd2)
    BY <1>1, <1>6, <1>7 DEF ReadTo
  <1> QED BY <1>1, <1>2, <1>3, <1>4, <1>5, <1>6, <1>7, <1>8, <1>9, <1>10, <1>11

\* The desktop does not vouch for what it shows after the line.
LEMMA TakePause ==
    ASSUME NEW f, NEW g, NEW last, NEW rd, NEW rd2, NEW h, NEW c, NEW c2, NEW reqs,
           Taking(f, g, last, rd, rd2, h, c, reqs), ClientOK(c2, rd2, last),
           ~Synced(c2), c2.id = c.id
    PROVE  Took(g, last, rd2, h, c2, reqs)
  <1>1. Desk(c2).id = Desk(c).id /\ ~Desk(c2).synced
    BY DeskParts
  <1>2. /\ GoodFlow(f, last, rd, h, Desk(c), reqs) /\ Without(f, 1, g) /\ g \in Seq(FlowLine)
        /\ ReadTo(f, 1, rd, rd2)
    BY TakingParts
  <1>3. GoodFlow(g, last, rd2, h, Desk(c2), reqs)
    BY <1>1, <1>2, GoodPause
  <1> QED BY <1>3 DEF Took

\* One more request.
LEMMA AppendAsks ==
    ASSUME NEW reqs \in Seq(Request), NEW q \in Request, NEW reqs2, reqs2 = Append(reqs, q)
    PROVE  Asks(reqs, q, reqs2)
  BY DEF Asks

\* The desktop asks for something when it has read the line.
LEMMA TakeAsk ==
    ASSUME NEW f, NEW g, NEW last, NEW rd, NEW rd2, NEW h, NEW c, NEW c2, NEW reqs, NEW reqs2,
           Taking(f, g, last, rd, rd2, h, c, reqs), ClientOK(c2, rd2, last),
           c2.id = c.id + 1, c2.mode \in {"hello", "rehydrate"},
           c2.mode = "rehydrate" => Settled(g, reqs),
           reqs2 = Append(reqs, [id |-> c2.id, method |-> c2.mode])
    PROVE  Took(g, last, rd2, h, c2, reqs2)
  <1> DEFINE mid == [synced |-> FALSE, reader |-> Has(c), id |-> c.id]
             q == [id |-> c2.id, method |-> c2.mode]
  <1>1. /\ GoodFlow(f, last, rd, h, Desk(c), reqs) /\ Without(f, 1, g) /\ g \in Seq(FlowLine)
        /\ ReadTo(f, 1, rd, rd2)
        /\ c.id \in Nat /\ reqs \in Seq(Request)
    BY TakingParts
  <1>2. mid.id = c.id /\ mid.id = Desk(c).id /\ ~mid.synced
    BY DeskParts
  <1> HIDE DEF mid
  <1>3. GoodFlow(g, last, rd2, h, mid, reqs)
    BY <1>1, <1>2, GoodPause
  <1>4. q \in Request /\ q.id = c2.id /\ q.method = c2.mode
    BY <1>1 DEF Request
  <1>5. Asks(reqs, q, reqs2)
    BY <1>1, <1>4, AppendAsks
  <1> HIDE DEF q
  <1>6. Desk(c2).id = c2.id /\ ~Desk(c2).synced
    BY DeskParts DEF Synced
  <1>7. GoodFlow(g, last, rd2, h, Desk(c2), reqs2)
    <2>1. mid.id \in Nat /\ Desk(c2).id \in Nat /\ mid.id <= Desk(c2).id
          /\ q.id <= Desk(c2).id /\ (q.method # "settings" => mid.id < q.id)
          /\ (q.method = "rehydrate" => Settled(g, reqs))
      <3>1. mid.id = c.id /\ Desk(c2).id = c.id + 1 /\ q.id = c.id + 1 /\ c.id \in Nat
        BY <1>1, <1>2, <1>4, <1>6
      <3>2. q.method = "rehydrate" => Settled(g, reqs)
        BY <1>4
      <3> QED BY <3>1, <3>2
    <2> QED BY <1>3, <1>4, <1>5, <1>6, <2>1, GoodRequest
  <1> QED BY <1>7 DEF Took
\* A reader who takes the next line has what Taken says.
LEMMA TakenReads ==
    ASSUME NEW l, NEW b, l.kind # "dropped", Event(l) => l.seq = b.from + 1
    PROVE  Reads(l, b, Taken(l, b))
  BY DEF Reads, Taken

\* The i-th chunk of a line whose first follows on z.
LEMMA NthChunk ==
    ASSUME NEW x, NEW y, NEW z \in Nat, NEW i \in Int, x = y + (i - 1), y = z + 1
    PROVE  x = z + i
  OBVIOUS

\* The next event continues what the reader has.
LEMMA ReadContinues ==
    ASSUME NEW f, NEW g, NEW last, NEW rd, NEW h, NEW b,
           FlowOK(f, last, rd), g \in Seq(FlowLine), Without(f, 1, g),
           Follows(f, 0, last, h, b), Event(f[1]), f[1].kind # "dropped",
           f[1].seq = b.from + 1
    PROVE  Continues(f[1], b)
  <1> DEFINE b2 == Taken(f[1], b)
  <1>1. Reads(f[1], b, b2)
    BY TakenReads
  <1> HIDE DEF b2
  <1>2. Follows(g, 0, last, h, b2) /\ Resumes(f[1], b)
    BY <1>1, ReadFollows
  <1>3. 1 \in 1..Len(f) /\ 0 < 1
    BY DEF Without
  <1>4. b.chunks \in Nat /\ (f[1].kind = "frame" =>
            \A i \in 1..Len(f[1].val) : f[1].val[i] = f[1].val[1] + (i - 1))
    BY <1>3 DEF Follows, ChunksFollow, Stream
  <1>5. ASSUME f[1].kind = "frame", NEW i \in 1..Len(f[1].val)
        PROVE  f[1].val[i] = b.chunks + i
    <2>1. f[1].val[i] = f[1].val[1] + (i - 1) /\ f[1].val[1] = b.chunks + 1 /\ i \in Int
      BY <1>2, <1>4, <1>5 DEF Resumes
    <2> QED BY <1>4, <2>1, NthChunk
  <1> QED BY <1>2, <1>5 DEF Continues, Resumes

\* What comes next continues what a desktop has that vouches for it.
LEMMA NextContinues ==
    ASSUME NEW f, NEW g, NEW last, NEW rd, NEW rd2, NEW h, NEW c, NEW reqs,
           Taking(f, g, last, rd, rd2, h, c, reqs), Synced(c), Event(f[1])
    PROVE  /\ c.lastSeq # 0 /\ c.lastSeq < f[1].seq
           /\ f[1].seq = c.lastSeq + 1 => Continues(f[1], Has(c))
  <1> DEFINE b == Has(c)
  <1>1. Follows(f, 0, last, h, b)
    BY TakingParts, DeskParts DEF AllFollow
  <1>2. /\ FlowOK(f, last, rd) /\ g \in Seq(FlowLine) /\ Without(f, 1, g) /\ 1 \in 1..Len(f)
        /\ f[1].seq # 0
    BY TakingParts
  <1>3. b.from = c.lastSeq
    BY DeskParts
  <1>4. f[1].kind # "dropped"
    BY DEF Taking
  <1> HIDE DEF b
  <1>5. /\ b.from \in Nat \ {0} /\ b.from < f[1].seq
    BY <1>1, <1>2 DEF Follows
  <1>6. f[1].seq = c.lastSeq + 1 => Continues(f[1], b)
    BY <1>1, <1>2, <1>3, <1>4, ReadContinues
  <1> QED BY <1>3, <1>5, <1>6 DEF b

\* A desktop that vouches for what it shows shows contiguous streams.
LEMMA SyncedView ==
    ASSUME NEW c, NEW rd, NEW last, ClientOK(c, rd, last), Synced(c)
    PROVE  ViewOK(c.view)
  BY DEF ClientOK, Synced

\* The loop has nothing to take up.
LEMMA NoRound ==
    ASSUME NEW c \in Desktop, c.pending = FALSE, c.mode = "live"
    PROVE  NextRound(c) = c
  <1>1. NextRound(c) = [c EXCEPT !.mode = "live"]
    BY DEF NextRound
  <1>2. [c EXCEPT !.mode = "live"] = c
    BY DEF Desktop
  <1> QED BY <1>1, <1>2

\* The desktop when it has applied an event.
Applying(c, e) == [c EXCEPT !.lastSeq = e.seq, !.view = Apply(c.view, e)]

\* An event is applied.
LEMMA TakeApplied ==
    ASSUME NEW f, NEW g, NEW last, NEW rd, NEW rd2, NEW h, NEW c, NEW c2, NEW reqs,
           Taking(f, g, last, rd, rd2, h, c, reqs), Event(f[1]), c.mode = "live",
           Synced(c) => f[1].seq = c.lastSeq + 1,
           c2 = Applying(c, f[1])
    PROVE  Took(g, last, rd2, h, c2, reqs) /\ NextRound(c2) = c2
  <1> DEFINE l == f[1]
             v == c.view
             v2 == Apply(v, l)
             b == Has(c)
  <1>1. /\ FlowOK(f, last, rd) /\ AllFollow(f, last, h, Desk(c)) /\ Polled(f, reqs, Desk(c))
        /\ GoodFlow(f, last, rd, h, Desk(c), reqs) /\ Len(g) \in Nat
        /\ c \in Desktop /\ Without(f, 1, g) /\ g \in Seq(FlowLine) /\ Saying(l.kind, l.val)
        /\ l.seq \in Nat /\ l.seq <= last /\ ClientOK(c, rd2, last)
        /\ ReadTo(f, 1, rd, rd2)
    BY TakingParts
  <1>2. v \in View
    BY <1>1, Fields
  <1>3. Applied(v, l, v2)
    BY <1>1, <1>2, ApplyApplies
  <1>4. v2 \in View
    BY <1>3 DEF Applied
  <1> HIDE DEF v2
  <1>5. c2 = [c EXCEPT !.lastSeq = l.seq, !.view = v2]
    BY DEF v2, Applying
  <1> HIDE DEF l, v
  <1>6. /\ c2 \in Desktop /\ c2.lastSeq = l.seq /\ c2.view = v2 /\ c2.mode = "live"
        /\ c2.pending = c.pending /\ c2.desync = c.desync /\ c2.fatal = c.fatal
        /\ c2.buffer = c.buffer /\ c2.id = c.id
    BY <1>1, <1>4, <1>5 DEF Desktop
  <1>7. c.pending = FALSE /\ c.desync = FALSE /\ Len(c.buffer) <= BufferLimit
        /\ c.buffer = <<>> /\ (\A i \in 1..Len(c.buffer) : c.buffer[i].seq <= rd2)
        /\ (Synced(c) => ViewOK(v))
    BY <1>1, ClientParts, SyncedView DEF v
  <1>8. CASE Synced(c)
    <2>1. Synced(c) /\ Synced(c2)
      BY <1>6, <1>8 DEF Synced
    <2>2. Continues(l, b) /\ l.seq = c.lastSeq + 1
      BY <2>1, NextContinues DEF l, b
    <2>3. b.level = v.at + Len(v.tail) /\ b.chunks = Len(v.frames) /\ b.shown = v.widget
          /\ b.from = c.lastSeq /\ b.base = v.base
      BY DeskParts DEF v
    <2>4. ViewOK(v2) /\ Taken(l, b).level = v2.at + Len(v2.tail)
          /\ Taken(l, b).chunks = Len(v2.frames) /\ Taken(l, b).shown = v2.widget
          /\ Taken(l, b).base = v2.base
      <3>1. Event(l)
        BY DEF l
      <3>2. ViewOK(v)
        BY <1>7, <1>8
      <3>3. Saying(l.kind, l.val)
        BY <1>1
      <3> HIDE DEF b
      <3> QED BY <1>2, <1>3, <2>2, <2>3, <3>1, <3>2, <3>3, AppliedOK
    <2>5. ClientOK(c2, rd2, last)
      BY <1>1, <1>6, <1>7, <2>4 DEF ClientOK
    <2>6. l.kind # "dropped" /\ Event(l)
      BY DEF Taking, l
    <2>7. Reads(l, b, Has(c2))
      <3>1. Reads(l, b, Taken(l, b))
        BY <2>2, <2>3, <2>6, TakenReads
      <3>2. /\ Has(c2).from = l.seq /\ Has(c2).level = Taken(l, b).level
            /\ Has(c2).chunks = Taken(l, b).chunks /\ Has(c2).shown = Taken(l, b).shown
            /\ Has(c2).base = Taken(l, b).base
        BY <1>6, <2>4, DeskParts
      <3>3. Has(c2).from = Taken(l, b).from
        BY <2>2, <2>3, <2>6, <3>2 DEF Taken
      <3> HIDE DEF b
      <3> QED BY <3>1, <3>2, <3>3 DEF Reads
    <2>8. Polled(g, reqs, Desk(c2))
      <3>1. Polled(g, reqs, Desk(c))
        BY <1>1, WithoutPolled
      <3>2. Desk(c2).id = Desk(c).id /\ Desk(c).synced
        BY <1>6, <2>1, DeskParts
      <3> QED BY <3>1, <3>2, SameRequests
    <2>9. Desk(c).synced /\ Reads(f[1], Desk(c).reader, Desk(c2).reader)
      BY <2>1, <2>7, DeskParts DEF l, b
    <2>10. GoodFlow(g, last, rd2, h, Desk(c2), reqs)
      BY <1>1, <2>8, <2>9, GoodRead
    <2> QED BY <1>6, <1>7, <2>5, <2>10, NoRound DEF Took
  <1>9. CASE ~Synced(c)
    <2>2. ~Synced(c2) /\ c2.fatal # FALSE
      BY <1>6, <1>9 DEF Synced
    <2>1. ClientOK(c2, rd2, last)
      BY <1>1, <1>6, <1>7, <2>2 DEF ClientOK
    <2>3. Took(g, last, rd2, h, c2, reqs)
      BY <1>6, <2>1, <2>2, TakePause
    <2> QED BY <1>6, <1>7, <2>3, NoRound
  <1> QED BY <1>8, <1>9
\* What a settings request returned is shown.
Changed(c, r) ==
    [c EXCEPT !.view.base = r.cached, !.view.at = r.at,
              !.view.tail = <<>>, !.view.queue = r.queue]

\* The fields that a settings response changes, and the others.
LEMMA ChangedFields ==
    ASSUME NEW c \in Desktop, NEW r \in Answers, NEW c2, c2 = Changed(c, r)
    PROVE  /\ c2 \in Desktop /\ c2.mode = c.mode /\ c2.id = c.id /\ c2.pending = c.pending
           /\ c2.desync = c.desync /\ c2.fatal = c.fatal /\ c2.lastSeq = c.lastSeq
           /\ c2.buffer = c.buffer /\ c2.view \in View
           /\ c2.view.at = r.at /\ c2.view.base = r.cached /\ c2.view.tail = <<>>
           /\ c2.view.widget = c.view.widget
           /\ c2.view.frames = c.view.frames /\ c2.view.panel = c.view.panel
  <1> DEFINE v == c.view
             v2 == [v EXCEPT !.base = r.cached, !.at = r.at, !.tail = <<>>, !.queue = r.queue]
  <1>1. r.cached \in Nat /\ r.at \in Nat /\ r.queue \in Nat /\ v \in View
    BY Fields DEF Answers
  <1>2. "view" \in DOMAIN c
    BY DEF Desktop
  <1>3. Changed(c, r) = [c EXCEPT !.view = v2]
    BY <1>2 DEF Changed
  <1>4. <<>> \in Seq(Nat)
    OBVIOUS
  <1> HIDE DEF v
  <1>5. v2 \in View /\ v2.at = r.at /\ v2.base = r.cached /\ v2.tail = <<>>
        /\ v2.widget = v.widget /\ v2.frames = v.frames /\ v2.panel = v.panel
    BY <1>1, <1>4 DEF View
  <1> HIDE DEF v2
  <1>6. /\ c2 \in Desktop /\ c2.mode = c.mode /\ c2.id = c.id /\ c2.pending = c.pending
        /\ c2.desync = c.desync /\ c2.fatal = c.fatal /\ c2.lastSeq = c.lastSeq
        /\ c2.buffer = c.buffer /\ c2.view = v2
    BY <1>3, <1>5 DEF Desktop
  <1> QED BY <1>5, <1>6 DEF v

\* A settings response is shown, in any mode.
LEMMA TakeSettings ==
    ASSUME NEW f, NEW g, NEW last, NEW rd, NEW rd2, NEW h, NEW c, NEW c2, NEW reqs,
           Taking(f, g, last, rd, rd2, h, c, reqs), f[1].kind = "response",
           f[1].val.request.method = "settings", c2 = Changed(c, f[1].val)
    PROVE  Took(g, last, rd2, h, c2, reqs) /\ c2.id = c.id
  <1> DEFINE r == f[1].val
  <1>1. /\ Polled(f, reqs, Desk(c)) /\ GoodFlow(f, last, rd, h, Desk(c), reqs) /\ Len(g) \in Nat
        /\ c \in Desktop /\ Without(f, 1, g) /\ g \in Seq(FlowLine)
        /\ ClientOK(c, rd2, last) /\ r \in Answers /\ ~Event(f[1])
        /\ ReadTo(f, 1, rd, rd2)
    BY TakingParts
  <1>2. /\ c2 \in Desktop /\ c2.mode = c.mode /\ c2.id = c.id /\ c2.pending = c.pending
        /\ c2.desync = c.desync /\ c2.fatal = c.fatal /\ c2.lastSeq = c.lastSeq
        /\ c2.buffer = c.buffer /\ c2.view \in View
        /\ c2.view.at = r.at /\ c2.view.base = r.cached /\ c2.view.tail = <<>>
        /\ c2.view.widget = c.view.widget /\ c2.view.frames = c.view.frames /\ c2.view.panel = c.view.panel
    BY <1>1, ChangedFields
  <1> HIDE DEF r
  <1>3. Installed(c.view) => Installed(c2.view)
    BY <1>2 DEF Installed
  <1>4. ViewOK(c.view) => ViewOK(c2.view)
    BY <1>2 DEF ViewOK
  <1>5. ClientOK(c2, rd2, last)
    BY <1>1, <1>2, <1>3, <1>4 DEF ClientOK
  <1>6. CASE Synced(c)
    <2>1. Polled(g, reqs, Desk(c2))
      <3>1. Polled(g, reqs, Desk(c))
        BY <1>1, WithoutPolled
      <3>2. Desk(c2).id = Desk(c).id /\ Desk(c).synced
        BY <1>2, <1>6, DeskParts
      <3> QED BY <3>1, <3>2, SameRequests
    <2>2. Reads(f[1], Has(c), Has(c2))
      <3>1. /\ Has(c2).from = Has(c).from /\ Has(c2).chunks = Has(c).chunks
            /\ Has(c2).shown = Has(c).shown
        BY <1>2, DeskParts
      <3>2. Has(c2).level = r.at
        <4>1. r.at \in Nat
          BY <1>1 DEF Answers
        <4>2. Has(c2).level = r.at + Len(c2.view.tail) /\ Len(c2.view.tail) = 0
          BY <1>2, DeskParts
        <4> QED BY <4>1, <4>2
      <3>3. Levelled(f[1]) /\ Level(f[1]) = r.at /\ f[1].kind = "response"
        BY DEF Levelled, Level, r
      <3>4. Has(c2).base = IF Renews(f[1]) THEN Renewed(f[1]) ELSE Has(c).base
        <4>1. Renews(f[1]) /\ Renewed(f[1]) = r.cached
          BY DEF Renews, Renewed, r
        <4>2. Has(c2).base = r.cached
          BY <1>2, DeskParts
        <4> QED BY <4>1, <4>2
      <3> QED BY <1>1, <3>1, <3>2, <3>3, <3>4 DEF Reads
    <2>3. Desk(c).synced /\ Reads(f[1], Desk(c).reader, Desk(c2).reader)
      BY <1>6, <2>2, DeskParts
    <2>4. GoodFlow(g, last, rd2, h, Desk(c2), reqs)
      BY <1>1, <2>1, <2>3, GoodRead
    <2> QED BY <1>2, <1>5, <2>4 DEF Took
  <1>7. CASE ~Synced(c)
    <2>1. ~Synced(c2)
      BY <1>2, <1>7 DEF Synced
    <2> QED BY <1>2, <1>5, <2>1, TakePause
  <1> QED BY <1>6, <1>7

\* An event is put in the buffer, or lost to its limit.
LEMMA TakeCapture ==
    ASSUME NEW f, NEW g, NEW last, NEW rd, NEW rd2, NEW h, NEW c, NEW c2, NEW reqs,
           Taking(f, g, last, rd, rd2, h, c, reqs), Event(f[1]), f[1] \in LineOf(Words),
           c.mode = "rehydrate", c2 = Capture(c, f[1])
    PROVE  Took(g, last, rd2, h, c2, reqs) /\ c2.id = c.id
  <1> DEFINE l == f[1]
             q == Append(c.buffer, l)
  <1>1. /\ c \in Desktop /\ ClientOK(c, rd2, last) /\ l.seq = rd2 /\ rd2 \in Nat
    BY TakingParts
  <1>2. /\ c.pending = FALSE /\ c.desync = FALSE /\ Installed(c.view) /\ c.fatal = FALSE
        /\ (\A i \in 1..Len(c.buffer) : c.buffer[i].seq <= rd2)
        /\ Len(c.buffer) <= BufferLimit /\ c.lastSeq <= last /\ ViewOK(c.view)
    BY <1>1, ClientParts
  <1>3. c.buffer \in Seq(LineOf(Words)) /\ BufferLimit \in Nat
    BY <1>1, Fields, RecoveryAssumption
  <1>4. CASE Len(c.buffer) < BufferLimit
    <2>1. c2 = [c EXCEPT !.buffer = q]
      BY <1>4 DEF Capture
    <2>2. /\ q \in Seq(LineOf(Words)) /\ Len(q) = Len(c.buffer) + 1 /\ Len(c.buffer) \in Nat
          /\ q[Len(c.buffer) + 1] = l /\ \A i \in 1..Len(c.buffer) : q[i] = c.buffer[i]
      BY <1>3
    <2> HIDE DEF q, l
    <2>3. (\A i \in 1..Len(q) : q[i].seq <= rd2) /\ Len(q) <= BufferLimit
      BY <1>1, <1>2, <1>3, <1>4, <2>2
    <2>4. /\ c2 \in Desktop /\ c2.buffer = q /\ c2.mode = "rehydrate" /\ c2.id = c.id
          /\ c2.pending = c.pending /\ c2.desync = c.desync /\ c2.fatal = c.fatal
          /\ c2.lastSeq = c.lastSeq /\ c2.view = c.view
      BY <1>1, <2>1, <2>2 DEF Desktop
    <2>5. ClientOK(c2, rd2, last)
      BY <1>2, <2>3, <2>4 DEF ClientOK
    <2>6. ~Synced(c2)
      BY <2>4 DEF Synced
    <2> QED BY <2>4, <2>5, <2>6, TakePause
  <1>5. CASE ~(Len(c.buffer) < BufferLimit)
    <2>1. c2 = [c EXCEPT !.overflow = TRUE]
      BY <1>5 DEF Capture
    <2> HIDE DEF l
    <2>4. /\ c2 \in Desktop /\ c2.buffer = c.buffer /\ c2.mode = "rehydrate" /\ c2.id = c.id
          /\ c2.pending = c.pending /\ c2.desync = c.desync /\ c2.fatal = c.fatal
          /\ c2.lastSeq = c.lastSeq /\ c2.view = c.view
      BY <1>1, <2>1 DEF Desktop
    <2>5. ClientOK(c2, rd2, last)
      BY <1>2, <2>4 DEF ClientOK
    <2>6. ~Synced(c2)
      BY <2>4 DEF Synced
    <2> QED BY <2>4, <2>5, <2>6, TakePause
  <1> QED BY <1>4, <1>5
-----------------------------------------------------------------------------
(* A response arrives. *)

\* The requests when the loop has gone from c to c2: Send.
Sent(c, c2, reqs) ==
    IF c2.id = c.id THEN reqs ELSE Append(reqs, [id |-> c2.id, method |-> c2.mode])

\* The answer to the loop's last request leaves nothing to be answered.
LEMMA LoopAnswered ==
    ASSUME NEW f, NEW g, NEW last, NEW rd, NEW rd2, NEW h, NEW c, NEW reqs,
           Taking(f, g, last, rd, rd2, h, c, reqs), f[1].kind = "response",
           f[1].val.request = [id |-> c.id, method |-> c.mode]
    PROVE  /\ f[1].val \in Answers /\ c.mode \in {"hello", "rehydrate"} /\ Settled(g, reqs)
           /\ ClientOK(c, rd, last) /\ ClientOK(c, rd2, last) /\ rd \in Nat /\ last \in Nat
           /\ rd2 = rd
  <1>1. /\ FlowOK(f, last, rd) /\ Polled(f, reqs, Desk(c)) /\ c \in Desktop /\ c.id \in Nat
        /\ Len(g) \in Nat /\ Without(f, 1, g) /\ f[1].val \in Answers
        /\ ClientOK(c, rd, last) /\ ClientOK(c, rd2, last) /\ rd \in Nat /\ last \in Nat
        /\ rd2 = rd
    BY TakingParts
  <1>2. f[1].val.request \in Request
    BY <1>1 DEF Answers
  <1>3. f[1].val.request.id = c.id /\ f[1].val.request.method = c.mode
    OBVIOUS
  <1>4. c.mode \in {"live", "hello", "rehydrate", "backoff"}
    BY <1>1, Fields
  <1>5. c.mode \in {"hello", "rehydrate"}
    BY <1>2, <1>3, <1>4 DEF Request
  <1>6. Desk(c).id = c.id
    BY DeskParts
  <1>7. Settled(g, reqs)
    BY <1>1, <1>3, <1>5, <1>6, LastAnswered
  <1> QED BY <1>1, <1>5, <1>7

\* hello is answered.
LEMMA TakeHello ==
    ASSUME NEW f, NEW g, NEW last, NEW rd, NEW rd2, NEW h, NEW c, NEW c2, NEW reqs,
           Taking(f, g, last, rd, rd2, h, c, reqs), f[1].kind = "response",
           f[1].val.request = [id |-> c.id, method |-> c.mode], c2 = HelloOk(c)
    PROVE  Took(g, last, rd2, h, c2, Sent(c, c2, reqs))
  <1>1. Settled(g, reqs) /\ ClientOK(c, rd2, last) /\ last \in Nat
    BY LoopAnswered
  <1>2. ClientOK(c2, rd2, last) /\ c2.id = c.id + 1 /\ c2.mode = "rehydrate"
    BY <1>1, HelloAsks
  <1>3. c.id \in Nat
    BY TakingParts
  <1>4. Sent(c, c2, reqs) = Append(reqs, [id |-> c2.id, method |-> c2.mode])
    BY <1>2, <1>3 DEF Sent
  <1> DEFINE reqs2 == Sent(c, c2, reqs)
  <1> HIDE DEF reqs2
  <1>5. reqs2 = Append(reqs, [id |-> c2.id, method |-> c2.mode])
    BY <1>4 DEF reqs2
  <1>6. Took(g, last, rd2, h, c2, reqs2)
    BY <1>1, <1>2, <1>5, TakeAsk
  <1> QED BY <1>6 DEF reqs2

\* The snapshot arrives.
LEMMA TakeSnapshot ==
    ASSUME NEW f, NEW g, NEW last, NEW rd, NEW rd2, NEW h, NEW c, NEW c2, NEW reqs,
           Taking(f, g, last, rd, rd2, h, c, reqs), f[1].kind = "response",
           f[1].val.request = [id |-> c.id, method |-> c.mode], f[1].val.ok,
           c.mode = "rehydrate", c2 = RehydrateOk(c, f[1].val)
    PROVE  Took(g, last, rd2, h, c2, Sent(c, c2, reqs))
  <1> DEFINE r == f[1].val
             reqs2 == Sent(c, c2, reqs)
  <1>1. /\ Settled(g, reqs) /\ ClientOK(c, rd, last) /\ ClientOK(c, rd2, last)
        /\ last \in Nat /\ rd \in Nat /\ rd2 = rd /\ r \in Answers
    BY LoopAnswered
  <1>2. /\ FlowOK(f, last, rd) /\ 1 \in 1..Len(f) /\ c.id \in Nat /\ Len(g) \in Nat
        /\ Polled(f, reqs, Desk(c)) /\ Without(f, 1, g) /\ g \in Seq(FlowLine)
        /\ GoodFlow(f, last, rd, h, Desk(c), reqs)
        /\ ReadTo(f, 1, rd, rd2)
    BY TakingParts
  <1>3. Mark(f[1])
    BY DEF Mark
  <1>4. rd <= r.watermark /\ r.watermark <= last
    BY <1>2, <1>3 DEF FlowOK, MarksSealed
  <1> HIDE DEF r
  <1>5. Installs(c, r, c2, rd, last)
    BY <1>1, <1>4, SnapshotInstalls DEF r
  <1>6. ClientOK(c2, rd2, last)
    BY <1>1, <1>5 DEF Installs
  <1>7. CASE c2.id = c.id + 1 /\ c2.mode = "hello"
    <2>1. Sent(c, c2, reqs) = Append(reqs, [id |-> c2.id, method |-> c2.mode])
      BY <1>2, <1>7 DEF Sent
    <2> HIDE DEF reqs2
    <2>2. reqs2 = Append(reqs, [id |-> c2.id, method |-> c2.mode])
      BY <2>1 DEF reqs2
    <2>3. Took(g, last, rd2, h, c2, reqs2)
      BY <1>6, <1>7, <2>2, TakeAsk
    <2> QED BY <2>3 DEF reqs2
  <1>8. CASE c2.id = c.id /\ c2.mode = "live" /\ Has(c2) = Snapshot(r)
    <2>1. Sent(c, c2, reqs) = reqs
      BY <1>8 DEF Sent
    <2>2. Polled(g, reqs, Desk(c))
      BY <1>2, WithoutPolled
    <2>3. Desk(c2).id = Desk(c).id
      BY <1>8, DeskParts
    <2>4. Polled(g, reqs, Desk(c2))
      BY <1>1, <2>2, <2>3, SameRequests
    <2>5. Desk(c2).reader = Snapshot(f[1].val)
      BY <1>8, DeskParts DEF r
    <2>6. GoodFlow(g, last, rd2, h, Desk(c2), reqs)
      BY <1>2, <1>3, <2>4, <2>5, GoodRead
    <2> QED BY <1>6, <2>1, <2>6 DEF Took
  <1> QED BY <1>5, <1>7, <1>8 DEF Installs

\* A settings request's response.
LEMMA SettingsAnswer ==
    ASSUME NEW c \in Desktop, NEW r, r.request.method = "settings"
    PROVE  Answer(c, r) = Changed(c, r)
  <1> DEFINE a == Changed(c, r)
  <1>1. Answer(c, r) = CASE r.request.method = "settings" -> a
                         [] r.request = [id |-> c.id, method |-> c.mode] ->
                               IF ~r.ok THEN Fail(c)
                               ELSE IF c.mode = "hello" THEN HelloOk(c) ELSE RehydrateOk(c, r)
                         [] OTHER -> c
    BY DEF Answer, Changed
  <1> HIDE DEF a
  <1>2. c.mode # "settings"
    BY Fields
  <1>3. r.request # [id |-> c.id, method |-> c.mode]
    BY <1>2
  <1>4. Answer(c, r) = a
    BY <1>1, <1>3
  <1> QED BY <1>4 DEF a

\* Any response.
LEMMA TakeAnswer ==
    ASSUME NEW f, NEW g, NEW last, NEW rd, NEW rd2, NEW h, NEW c, NEW c2, NEW reqs,
           Taking(f, g, last, rd, rd2, h, c, reqs), f[1].kind = "response",
           c2 = Answer(c, f[1].val)
    PROVE  Took(g, last, rd2, h, c2, Sent(c, c2, reqs))
  <1> DEFINE r == f[1].val
             reqs2 == Sent(c, c2, reqs)
  <1>1. /\ Polled(f, reqs, Desk(c)) /\ 1 \in 1..Len(f) /\ ClientOK(c, rd2, last)
        /\ c \in Desktop
    BY TakingParts
  <1>2. CASE r.request.method = "settings"
    <2>1. c2 = Changed(c, r)
      BY <1>1, <1>2, SettingsAnswer
    <2>2. Took(g, last, rd2, h, c2, reqs) /\ c2.id = c.id
      BY <1>2, <2>1, TakeSettings
    <2> QED BY <2>2 DEF Sent
  <1>3. CASE /\ r.request.method # "settings"
             /\ r.request = [id |-> c.id, method |-> c.mode]
    <2>1. /\ c.mode \in {"hello", "rehydrate"} /\ ClientOK(c, rd2, last)
      BY <1>3, LoopAnswered
    <2>2. CASE ~r.ok
      <3>1. c2 = Fail(c)
        BY <1>3, <2>2 DEF Answer
      <3>2. ClientOK(c2, rd2, last) /\ c2.id = c.id /\ c2.mode = "backoff"
        BY <2>1, <3>1, FailOK
      <3>3. ~Synced(c2)
        BY <3>2 DEF Synced
      <3>4. Took(g, last, rd2, h, c2, reqs)
        BY <3>2, <3>3, TakePause
      <3> QED BY <3>2, <3>4 DEF Sent
    <2>3. CASE r.ok /\ c.mode = "hello"
      <3>1. c2 = HelloOk(c)
        BY <1>3, <2>3 DEF Answer
      <3> QED BY <1>3, <3>1, TakeHello
    <2>4. CASE r.ok /\ c.mode = "rehydrate"
      <3>1. c2 = RehydrateOk(c, r)
        BY <1>3, <2>4 DEF Answer
      <3> QED BY <1>3, <2>4, <3>1, TakeSnapshot
    <2> QED BY <2>1, <2>2, <2>3, <2>4
  <1>4. CASE /\ r.request.method # "settings"
             /\ r.request # [id |-> c.id, method |-> c.mode]
    <2>1. c2 = c
      BY <1>4 DEF Answer
    <2>2. ~Synced(c)
      BY <1>1, <1>4, DeskParts DEF Polled
    <2>3. Took(g, last, rd2, h, c2, reqs)
      BY <1>1, <2>1, <2>2, TakePause
    <2> QED BY <2>1, <2>3 DEF Sent
  <1> QED BY <1>2, <1>3, <1>4
-----------------------------------------------------------------------------
(* An event arrives. *)

\* A live desktop sees a gap: it says hello.
LEMMA TakeGap ==
    ASSUME NEW f, NEW g, NEW last, NEW rd, NEW rd2, NEW h, NEW c, NEW c2, NEW reqs,
           Taking(f, g, last, rd, rd2, h, c, reqs), Event(f[1]), c.mode = "live",
           c2 = NextRound(Gap(c, f[1]))
    PROVE  Took(g, last, rd2, h, c2, Sent(c, c2, reqs))
  <1> DEFINE reqs2 == Sent(c, c2, reqs)
  <1>1. /\ ClientOK(c, rd2, last) /\ f[1].seq \in Nat /\ rd2 = f[1].seq /\ rd2 <= last
        /\ c.id \in Nat
    BY TakingParts
  <1>2. Greets(c, c2, rd2, last)
    BY <1>1, GapGreets
  <1>3. ClientOK(c2, rd2, last) /\ c2.id = c.id + 1 /\ c2.mode = "hello"
    BY <1>2 DEF Greets
  <1>4. Sent(c, c2, reqs) = Append(reqs, [id |-> c2.id, method |-> c2.mode])
    BY <1>1, <1>3 DEF Sent
  <1> HIDE DEF reqs2
  <1>5. reqs2 = Append(reqs, [id |-> c2.id, method |-> c2.mode])
    BY <1>4 DEF reqs2
  <1>6. Took(g, last, rd2, h, c2, reqs2)
    BY <1>3, <1>5, TakeAsk
  <1> QED BY <1>6 DEF reqs2

\* What handleHostEvent does with an event.
LEMMA HandleCases ==
    ASSUME NEW c, NEW e, c.lastSeq \in Nat, e.seq \in Nat
    PROVE  /\ c.desync \/ (c.lastSeq > 0 /\ e.seq <= c.lastSeq) => HandleEvent(c, e) = c
           /\ ~c.desync /\ c.lastSeq > 0 /\ e.seq > c.lastSeq + 1 => HandleEvent(c, e) = Gap(c, e)
           /\ ~c.desync /\ (c.lastSeq = 0 \/ e.seq = c.lastSeq + 1) =>
                 HandleEvent(c, e) = Applying(c, e)
  <1> DEFINE a == Applying(c, e)
             b == Gap(c, e)
  <1>1. HandleEvent(c, e) =
            CASE c.desync \/ (c.lastSeq > 0 /\ e.seq <= c.lastSeq) -> c
              [] ~c.desync /\ c.lastSeq > 0 /\ e.seq > c.lastSeq + 1 -> b
              [] OTHER -> a
    BY DEF HandleEvent, Applying
  <1> HIDE DEF a, b
  <1>2. /\ c.desync \/ (c.lastSeq > 0 /\ e.seq <= c.lastSeq) => HandleEvent(c, e) = c
        /\ ~c.desync /\ c.lastSeq > 0 /\ e.seq > c.lastSeq + 1 => HandleEvent(c, e) = b
        /\ ~c.desync /\ (c.lastSeq = 0 \/ e.seq = c.lastSeq + 1) => HandleEvent(c, e) = a
    BY <1>1
  <1> QED BY <1>2 DEF a, b

\* A live desktop applies an event, skips one it has, or sees a gap.
LEMMA TakeLive ==
    ASSUME NEW f, NEW g, NEW last, NEW rd, NEW rd2, NEW h, NEW c, NEW c2, NEW reqs,
           Taking(f, g, last, rd, rd2, h, c, reqs), Event(f[1]), c.mode = "live",
           c2 = NextRound(HandleEvent(c, f[1]))
    PROVE  Took(g, last, rd2, h, c2, Sent(c, c2, reqs))
  <1> DEFINE e == f[1]
  <1>1. /\ c \in Desktop /\ ClientOK(c, rd2, last) /\ e.seq \in Nat
    BY TakingParts
  <1>2. /\ c.lastSeq \in Nat /\ c.desync = FALSE /\ c.pending = FALSE
        /\ NextRound(c) = c
    BY <1>1, Fields, ClientParts, NoRound
  <1>3. Synced(c) => c.lastSeq # 0 /\ c.lastSeq < e.seq
    BY NextContinues
  <1> HIDE DEF e
  <1>4. CASE c.lastSeq > 0 /\ e.seq <= c.lastSeq
    <2>1. HandleEvent(c, e) = c
      BY <1>1, <1>2, <1>4, HandleCases
    <2>2. ~Synced(c)
      BY <1>1, <1>2, <1>3, <1>4
    <2>3. c2 = c
      BY <1>2, <2>1 DEF e
    <2>4. Took(g, last, rd2, h, c2, reqs)
      BY <1>1, <2>2, <2>3, TakePause
    <2> QED BY <2>3, <2>4 DEF Sent
  <1>5. CASE c.lastSeq > 0 /\ e.seq > c.lastSeq + 1
    <2>1. HandleEvent(c, e) = Gap(c, e)
      BY <1>1, <1>2, <1>5, HandleCases
    <2>2. c2 = NextRound(Gap(c, f[1]))
      BY <2>1 DEF e
    <2> QED BY <2>2, TakeGap
  <1>6. CASE c.lastSeq = 0 \/ e.seq = c.lastSeq + 1
    <2>1. HandleEvent(c, e) = Applying(c, e)
      BY <1>1, <1>2, <1>6, HandleCases
    <2> DEFINE d == Applying(c, e)
    <2>2. Synced(c) => e.seq = c.lastSeq + 1
      BY <1>3, <1>6
    <2>3. Synced(c) => f[1].seq = c.lastSeq + 1
      BY <2>2 DEF e
    <2>4. c2 = NextRound(d)
      BY <2>1 DEF e
    <2>5. d = Applying(c, f[1])
      BY DEF e
    <2>6. d.id = c.id
      BY <1>1 DEF Applying, Desktop
    <2> HIDE DEF d
    <2>7. Took(g, last, rd2, h, d, reqs) /\ NextRound(d) = d
      BY <2>3, <2>5, TakeApplied
    <2> QED BY <2>4, <2>6, <2>7 DEF Sent
  <1> QED BY <1>1, <1>2, <1>4, <1>5, <1>6

\* Any line: handleLine, and what the loop asks for.
LEMMA TakeLine ==
    ASSUME NEW f, NEW g, NEW last, NEW rd, NEW rd2, NEW h, NEW c, NEW c2, NEW reqs,
           Taking(f, g, last, rd, rd2, h, c, reqs), f[1] \in LineOf(Words),
           c2 = Receive(c, f[1])
    PROVE  Took(g, last, rd2, h, c2, Sent(c, c2, reqs))
  <1>1. /\ c \in Desktop /\ ClientOK(c, rd2, last) /\ f[1].seq \in Nat
        /\ Event(f[1]) \/ (f[1].kind = "response" /\ f[1].val \in Answers /\ ~Event(f[1]))
        /\ Event(f[1]) => f[1].kind # "response" /\ rd2 = f[1].seq /\ f[1].seq # 0
    BY TakingParts
  <1>2. CASE f[1].kind = "response"
    <2>1. c2 = Answer(c, f[1].val)
      BY <1>2 DEF Receive
    <2> QED BY <1>2, <2>1, TakeAnswer
  <1>3. CASE Event(f[1]) /\ c.mode = "rehydrate"
    <2>1. c2 = Capture(c, f[1])
      BY <1>1, <1>3 DEF Receive
    <2>2. Took(g, last, rd2, h, c2, reqs) /\ c2.id = c.id
      BY <1>3, <2>1, TakeCapture
    <2> QED BY <2>2 DEF Sent
  <1>4. CASE Event(f[1]) /\ c.mode = "live"
    <2>1. c2 = NextRound(HandleEvent(c, f[1]))
      BY <1>1, <1>4 DEF Receive
    <2> QED BY <1>4, <2>1, TakeLive
  <1>5. CASE Event(f[1]) /\ c.mode \in {"hello", "backoff"}
    <2>1. c2 = HandleEvent(c, f[1])
      BY <1>1, <1>5 DEF Receive
    <2>2. c.desync = TRUE /\ c.lastSeq \in Nat
      BY <1>1, <1>5, ClientParts, Fields
    <2>3. c2 = c
      BY <1>1, <2>1, <2>2, HandleCases
    <2>4. ~Synced(c2)
      BY <1>5, <2>3 DEF Synced
    <2>5. Took(g, last, rd2, h, c2, reqs)
      BY <1>1, <2>3, <2>4, TakePause
    <2> QED BY <2>3, <2>5 DEF Sent
  <1> QED BY <1>1, <1>2, <1>3, <1>4, <1>5, Fields
-----------------------------------------------------------------------------
(* The inductive invariant. *)

HostState == [log : Nat, cached : Nat, shared : BOOLEAN,
              queue : Nat, widget : Nat, frames : Nat]

\* What is on its way follows on what the desktop has, and the desktop's state is
\* one it has between its steps.
Streaming(w, lines, rd, h, c, reqs) ==
    /\ h \in HostState /\ rd \in Nat \ {0} /\ rd <= w.last
    /\ ClientOK(c, rd, w.last)
    /\ Writing(w, lines, rd, h, Desk(c), reqs)

EsInv == Streaming(writer, wire, read, host, client, requests)

\* The invariant, conjunct by conjunct.
LEMMA InvParts ==
    ASSUME NEW w, NEW lines, NEW rd, NEW h, NEW c, NEW reqs, Streaming(w, lines, rd, h, c, reqs)
    PROVE  /\ h \in HostState /\ rd \in Nat /\ rd # 0 /\ rd <= w.last /\ w.last \in Nat
           /\ h.log \in Nat /\ h.cached \in Nat /\ h.shared \in BOOLEAN
           /\ h.queue \in Nat /\ h.widget \in Nat /\ h.frames \in Nat
           /\ ClientOK(c, rd, w.last) /\ c \in Desktop
           /\ Writing(w, lines, rd, h, Desk(c), reqs)
           /\ Bounded(Words, w) /\ Sound(Words, w)
           /\ w \in WriterOf(Words) /\ w.queue \in Seq(EntryOf(Words))
           /\ lines \in Seq(LineOf(Words)) /\ WireOK(lines)
           /\ reqs \in Seq(Request)
           /\ GoodFlow(FlowOf(w, lines), w.last, rd, h, Desk(c), reqs)
  <1>1. /\ Bounded(Words, w) /\ Sound(Words, w) /\ WireOK(lines) /\ w.last \in Nat
        /\ w.queue \in Seq(EntryOf(Words)) /\ lines \in Seq(LineOf(Words))
        /\ GoodFlow(FlowOf(w, lines), w.last, rd, h, Desk(c), reqs)
        /\ Writing(w, lines, rd, h, Desk(c), reqs)
    BY WriterParts DEF Streaming
  <1>2. reqs \in Seq(Request)
    BY <1>1 DEF GoodFlow, Polled
  <1>3. w \in WriterOf(Words)
    BY <1>1 DEF Sound
  <1>4. ClientOK(c, rd, w.last) /\ c \in Desktop
    BY DEF Streaming, ClientOK
  <1>5. h \in HostState /\ rd \in Nat /\ rd # 0 /\ rd <= w.last
    BY DEF Streaming
  <1>6. /\ h.log \in Nat /\ h.cached \in Nat /\ h.shared \in BOOLEAN
        /\ h.queue \in Nat /\ h.widget \in Nat /\ h.frames \in Nat
    BY <1>5 DEF HostState
  <1> QED BY <1>1, <1>2, <1>3, <1>4, <1>5, <1>6

\* The Host says something.
LEMMA SaysOn ==
    ASSUME NEW w, NEW lines, NEW rd, NEW h, NEW c, NEW reqs, Streaming(w, lines, rd, h, c, reqs),
           NEW w2, NEW h2 \in HostState, NEW reqs2, w.last <= w2.last,
           Writing(w2, lines, rd, h2, Desk(c), reqs2)
    PROVE  Streaming(w2, lines, rd, h2, c, reqs2)
  <1>1. rd \in Nat /\ rd # 0 /\ rd <= w.last /\ w.last \in Nat /\ ClientOK(c, rd, w.last)
    BY InvParts
  <1>2. w2.last \in Nat
    BY WriterParts
  <1>3. ClientOK(c, rd, w2.last)
    BY <1>1, <1>2, ReadsOn
  <1> QED BY <1>1, <1>2, <1>3 DEF Streaming

\* An event that is no attention request.
LEMMA EventSaid ==
    ASSUME NEW w, NEW lines, NEW rd, NEW h, NEW c, NEW reqs, Streaming(w, lines, rd, h, c, reqs),
           NEW kind \in EventKinds, kind # "attention", NEW val \in Payload, Saying(kind, val),
           NEW h2 \in HostState, Announces(kind, val, h, h2)
    PROVE  Streaming(EnqueueEvent(w, kind, val, 1), lines, rd, h2, c, reqs)
  <1> DEFINE w2 == EnqueueEvent(w, kind, val, 1)
  <1>1. /\ Bounded(Words, w) /\ h.frames \in Nat
        /\ Writing(w, lines, rd, h, Desk(c), reqs)
    BY InvParts
  <1>2. Keeps(w, w2)
    BY <1>1, EnqueueEventBounded DEF Words
  <1>3. w.last <= w2.last
    BY <1>2 DEF Keeps
  <1>4. Writing(w2, lines, rd, h2, Desk(c), reqs)
    BY <1>1, EnqueueGood
  <1> HIDE DEF w2
  <1>5. Streaming(w2, lines, rd, h2, c, reqs)
    BY <1>3, <1>4, SaysOn
  <1> QED BY <1>5 DEF w2

\* An attention request for the widget that was said last.
LEMMA AttentionSaid ==
    ASSUME NEW w, NEW lines, NEW rd, NEW h, NEW c, NEW reqs, Streaming(w, lines, rd, h, c, reqs),
           NEW val \in Payload, Len(val) = 1, \E k : Replaceable(w, val, k)
    PROVE  Streaming(EnqueueEvent(w, "attention", val, 1), lines, rd, h, c, reqs)
  <1> DEFINE w2 == EnqueueEvent(w, "attention", val, 1)
  <1>1. /\ Bounded(Words, w) /\ h.log \in Nat /\ h.frames \in Nat /\ h.widget \in Nat
        /\ h \in HostState /\ Writing(w, lines, rd, h, Desk(c), reqs)
    BY InvParts
  <1>2. "attention" \in EventKinds
    BY DEF EventKinds
  <1>3. Keeps(w, w2)
    BY <1>1, <1>2, EnqueueEventBounded DEF Words
  <1>4. w.last <= w2.last
    BY <1>3 DEF Keeps
  <1>5. Writing(w2, lines, rd, h, Desk(c), reqs)
    BY <1>1, AttentionGood
  <1> HIDE DEF w2
  <1>6. Streaming(w2, lines, rd, h, c, reqs)
    BY <1>1, <1>4, <1>5, SaysOn
  <1> QED BY <1>6 DEF w2

\* The pending queue of a snapshot that waits.
LEMMA PendingSet ==
    ASSUME NEW w, NEW lines, NEW rd, NEW h, NEW c, NEW reqs, Streaming(w, lines, rd, h, c, reqs),
           NEW version \in Nat
    PROVE  Streaming(SetPending(w, version), lines, rd, h, c, reqs)
  <1> DEFINE w2 == SetPending(w, version)
  <1>1. /\ w \in WriterOf(Words) /\ w.last \in Nat /\ h \in HostState
        /\ Writing(w, lines, rd, h, Desk(c), reqs)
    BY InvParts
  <1>2. w2 = w \/ \E k : Repended(w, w2, k)
    BY <1>1, SetPendingForm
  <1>3. w2.last = w.last
    BY <1>2 DEF Repended
  <1>4. Writing(w2, lines, rd, h, Desk(c), reqs)
    BY <1>1, PendingGood
  <1> HIDE DEF w2
  <1>5. Streaming(w2, lines, rd, h, c, reqs)
    BY <1>1, <1>3, <1>4, SaysOn
  <1> QED BY <1>5 DEF w2

\* A response that is no snapshot.
LEMMA AnswerSaid ==
    ASSUME NEW w, NEW lines, NEW rd, NEW h, NEW c, NEW reqs, Streaming(w, lines, rd, h, c, reqs),
           NEW val \in Answers, ~(val.request.method = "rehydrate" /\ val.ok),
           val.at = h.log, val.request = reqs[1], NEW reqs2, Behind(reqs, reqs2),
           NEW h2 \in HostState, h2.log = h.log, h2.frames = h.frames, h2.widget = h.widget,
           h2.cached = IF val.request.method = "settings" THEN val.cached ELSE h.cached
    PROVE  Streaming(EnqueueResponse(w, val), lines, rd, h2, c, reqs2)
  <1> DEFINE w2 == EnqueueResponse(w, val)
  <1>1. /\ Bounded(Words, w) /\ h.log \in Nat /\ h.frames \in Nat /\ h.widget \in Nat
        /\ Writing(w, lines, rd, h, Desk(c), reqs)
    BY InvParts
  <1>2. Keeps(w, w2)
    BY <1>1, EnqueueResponseBounded DEF Words
  <1>3. w.last <= w2.last
    BY <1>2 DEF Keeps
  <1>4. Writing(w2, lines, rd, h2, Desk(c), reqs2)
    BY <1>1, PushAnswer
  <1> HIDE DEF w2
  <1>5. Streaming(w2, lines, rd, h2, c, reqs2)
    BY <1>3, <1>4, SaysOn
  <1> QED BY <1>5 DEF w2

\* The first request and the rest.
LEMMA TailBehind ==
    ASSUME NEW reqs \in Seq(Request), reqs # <<>>
    PROVE  Behind(reqs, Tail(reqs)) /\ Head(reqs) = reqs[1] /\ Head(reqs) \in Request
  BY DEF Behind
-----------------------------------------------------------------------------
(* Steps of the Host. *)

\* agent.event
LEMMA DeltaKeeps == ASSUME EsInv, EmitDelta PROVE EsInv'
  <1> DEFINE val == <<host.log + 1>>
  <1>1. host \in HostState /\ host.log \in Nat /\ host.frames \in Nat /\ host.widget \in Nat
    BY InvParts DEF EsInv
  <1>2. /\ writer' = EnqueueEvent(writer, "delta", val, 1)
        /\ host' = [host EXCEPT !.log = @ + 1] /\ "delta" \in EventKinds
        /\ UNCHANGED <<wire, read, requests, client>>
    BY DEF EmitDelta, Emit, EventKinds, PlainKinds
  <1>3. /\ host' \in HostState /\ host'.log = host.log + 1 /\ host'.cached = host.cached
        /\ host'.frames = host.frames /\ host'.widget = host.widget
    BY <1>1, <1>2 DEF HostState
  <1>4. val \in Payload /\ val[1] = host'.log /\ Saying("delta", val)
    BY <1>1, <1>3 DEF Payload, Saying
  <1> HIDE DEF val
  <1>5. Announces("delta", val, host, host')
    BY <1>1, <1>3, <1>4 DEF Announces
  <1> QED BY <1>2, <1>3, <1>4, <1>5, EventSaid DEF EsInv

\* session.snapshot
LEMMA SnapKeeps == ASSUME EsInv, EmitSnap PROVE EsInv'
  <1> DEFINE val == <<host.log, host.queue>>
  <1>1. /\ host \in HostState /\ host.log \in Nat /\ host.frames \in Nat
        /\ host.widget \in Nat /\ host.queue \in Nat
    BY InvParts DEF EsInv
  <1>2. /\ writer' = EnqueueEvent(writer, "snap", val, 1)
        /\ host' = [host EXCEPT !.cached = host.log, !.shared = TRUE]
        /\ "snap" \in EventKinds
        /\ UNCHANGED <<wire, read, requests, client>>
    BY DEF EmitSnap, Emit, EventKinds, PlainKinds
  <1>3. /\ host' \in HostState /\ host'.log = host.log /\ host'.cached = host.log
        /\ host'.frames = host.frames /\ host'.widget = host.widget
    BY <1>1, <1>2 DEF HostState
  <1>4. val \in Payload /\ val[1] = host.log /\ Saying("snap", val)
    BY <1>1, <1>3 DEF Payload, Saying
  <1> HIDE DEF val
  <1>5. Announces("snap", val, host, host')
    BY <1>1, <1>3, <1>4 DEF Announces
  <1> QED BY <1>2, <1>3, <1>4, <1>5, EventSaid DEF EsInv

\* agent.queueChanged, and the snapshot that waits
LEMMA QueueKeeps == ASSUME EsInv, EmitQueue PROVE EsInv'
  <1> DEFINE version == host.queue + 1
             val == <<version>>
             mid == SetPending(writer, version)
  <1>1. /\ host \in HostState /\ host.log \in Nat /\ host.frames \in Nat
        /\ host.widget \in Nat /\ host.queue \in Nat
    BY InvParts DEF EsInv
  <1>2. /\ writer' = EnqueueEvent(mid, "queue", val, 1)
        /\ host' = [host EXCEPT !.queue = version] /\ "queue" \in EventKinds
        /\ UNCHANGED <<wire, read, requests, client>>
    BY DEF EmitQueue, EventKinds, Mergeable
  <1>3. version \in Nat
    BY <1>1
  <1>4. /\ host' \in HostState /\ host'.log = host.log /\ host'.cached = host.cached
        /\ host'.frames = host.frames /\ host'.widget = host.widget
    BY <1>1, <1>2, <1>3 DEF HostState
  <1>5. val \in Payload /\ Saying("queue", val)
    BY <1>3 DEF Payload, Saying
  <1>6. Streaming(mid, wire, read, host, client, requests)
    BY <1>3, PendingSet DEF EsInv
  <1> HIDE DEF val, mid
  <1>7. Announces("queue", val, host, host')
    BY <1>1, <1>4 DEF Announces
  <1> QED BY <1>2, <1>4, <1>5, <1>6, <1>7, EventSaid DEF EsInv

\* What a new widget says, alone or with attention for it.
LEMMA WidgetSaid ==
    ASSUME EsInv, NEW h2, h2 = [host EXCEPT !.widget = @ + 1]
    PROVE  /\ h2 \in HostState /\ "widget" \in EventKinds
           /\ <<host.widget + 1>> \in Payload
           /\ Saying("widget", <<host.widget + 1>>)
           /\ Announces("widget", <<host.widget + 1>>, host, h2)
  <1>1. host \in HostState /\ host.log \in Nat /\ host.frames \in Nat /\ host.widget \in Nat
    BY InvParts DEF EsInv
  <1>2. /\ h2 \in HostState /\ h2.log = host.log /\ h2.cached = host.cached
        /\ h2.frames = host.frames /\ h2.widget = host.widget + 1
    BY <1>1 DEF HostState
  <1>3. <<host.widget + 1>> \in Payload /\ Len(<<host.widget + 1>>) = 1
        /\ <<host.widget + 1>>[1] = h2.widget
    BY <1>1, <1>2 DEF Payload
  <1>4. Saying("widget", <<host.widget + 1>>)
    BY <1>3 DEF Saying
  <1>5. Announces("widget", <<host.widget + 1>>, host, h2)
    BY <1>1, <1>2, <1>3 DEF Announces
  <1>6. "widget" \in EventKinds
    BY DEF EventKinds, Mergeable
  <1> QED BY <1>2, <1>3, <1>4, <1>5, <1>6

\* extensionUi.widget
LEMMA WidgetKeeps == ASSUME EsInv, EmitWidget PROVE EsInv'
  <1>1. /\ writer' = EnqueueEvent(writer, "widget", <<host.widget + 1>>, 1)
        /\ host' = [host EXCEPT !.widget = @ + 1]
        /\ UNCHANGED <<wire, read, requests, client>>
    BY DEF EmitWidget, Emit
  <1> DEFINE val == <<host.widget + 1>>
  <1>2. /\ host' \in HostState /\ "widget" \in EventKinds /\ val \in Payload
        /\ Saying("widget", val) /\ Announces("widget", val, host, host')
    BY <1>1, WidgetSaid
  <1>3. writer' = EnqueueEvent(writer, "widget", val, 1)
    BY <1>1
  <1> HIDE DEF val
  <1> QED BY <1>1, <1>2, <1>3, EventSaid DEF EsInv

\* extensionUi.widget and extensionUi.attention
LEMMA AttentionKeeps == ASSUME EsInv, EmitAttention PROVE EsInv'
  <1> DEFINE val == <<host.widget + 1>>
             mid == EnqueueEvent(writer, "widget", val, 1)
  <1>1. /\ writer' = EnqueueEvent(mid, "attention", val, 1)
        /\ host' = [host EXCEPT !.widget = @ + 1]
        /\ UNCHANGED <<wire, read, requests, client>>
    BY DEF EmitAttention
  <1>2. /\ host' \in HostState /\ "widget" \in EventKinds /\ val \in Payload
        /\ Saying("widget", val) /\ Announces("widget", val, host, host')
    BY <1>1, WidgetSaid
  <1>3. Len(val) = 1
    OBVIOUS
  <1> HIDE DEF val
  <1>4. Streaming(mid, wire, read, host', client, requests)
    BY <1>2, EventSaid DEF EsInv
  <1>5. Writing(writer, wire, read, host, Desk(client), requests)
    BY InvParts DEF EsInv
  <1>6. \E k : Replaceable(mid, val, k)
    BY <1>2, <1>5, WidgetReplaceable
  <1> HIDE DEF mid
  <1>7. Streaming(EnqueueEvent(mid, "attention", val, 1), wire, read, host', client, requests)
    BY <1>2, <1>3, <1>4, <1>6, AttentionSaid
  <1> QED BY <1>1, <1>7 DEF EsInv

\* extensionUi.customFrame
LEMMA FrameKeeps == ASSUME EsInv, EmitFrame PROVE EsInv'
  <1> DEFINE val == <<host.frames + 1>>
  <1>1. host \in HostState /\ host.log \in Nat /\ host.frames \in Nat /\ host.widget \in Nat
    BY InvParts DEF EsInv
  <1>2. /\ writer' = EnqueueEvent(writer, "frame", val, 1)
        /\ host' = [host EXCEPT !.frames = @ + 1] /\ "frame" \in EventKinds
        /\ UNCHANGED <<wire, read, requests, client>>
    BY DEF EmitFrame, Emit, EventKinds, Mergeable
  <1>3. /\ host' \in HostState /\ host'.frames = host.frames + 1
        /\ host'.log = host.log /\ host'.cached = host.cached /\ host'.widget = host.widget
    BY <1>1, <1>2 DEF HostState
  <1>4. val \in Payload /\ val = <<host'.frames>> /\ Saying("frame", val)
    BY <1>1, <1>3 DEF Payload, Saying
  <1> HIDE DEF val
  <1>5. Announces("frame", val, host, host')
    BY <1>1, <1>3, <1>4 DEF Announces
  <1> QED BY <1>2, <1>3, <1>4, <1>5, EventSaid DEF EsInv

\* Responses to the first request.
LEMMA Refused ==
    ASSUME NEW request \in Request, host \in HostState, NEW r, r = Reply(request, FALSE, 0)
    PROVE  r \in Answers /\ r.request = request /\ ~r.ok /\ r.at = host.log
  BY DEF Reply, Answers, HostState

\* system.hello
LEMMA HelloKeeps == ASSUME EsInv, HostHello PROVE EsInv'
  <1> DEFINE val == Reply(Head(requests), TRUE, 0)
             rest == Tail(requests)
  <1>1. host \in HostState /\ requests \in Seq(Request)
    BY InvParts DEF EsInv
  <1>2. /\ requests # <<>> /\ Head(requests).method = "hello"
        /\ writer' = EnqueueResponse(writer, val) /\ requests' = rest
        /\ UNCHANGED <<wire, read, host, client>>
    BY DEF HostHello
  <1>3. Behind(requests, rest) /\ Head(requests) = requests[1] /\ Head(requests) \in Request
    BY <1>1, <1>2, TailBehind
  <1>4. val \in Answers /\ val.request = requests[1] /\ val.at = host.log
        /\ val.request.method = "hello"
    <2>1. val = Reply(Head(requests), TRUE, 0)
      OBVIOUS
    <2> HIDE DEF val
    <2>2. 0 \in Nat
      OBVIOUS
    <2>3. val \in Answers /\ val.request = Head(requests) /\ val.ok /\ val.at = host.log
      BY <1>1, <1>3, <2>1, <2>2 DEF Reply, Answers, HostState
    <2> QED BY <1>2, <1>3, <2>3
  <1> HIDE DEF val, rest
  <1>5. Streaming(EnqueueResponse(writer, val), wire, read, host, client, rest)
    BY <1>1, <1>3, <1>4, AnswerSaid DEF EsInv
  <1> QED BY <1>2, <1>5 DEF EsInv

\* system.rehydrate that fails
LEMMA RefuseKeeps == ASSUME EsInv, HostRefuse PROVE EsInv'
  <1> DEFINE val == Reply(Head(requests), FALSE, 0)
             rest == Tail(requests)
  <1>1. host \in HostState /\ requests \in Seq(Request)
    BY InvParts DEF EsInv
  <1>2. /\ requests # <<>> /\ Head(requests).method = "rehydrate"
        /\ writer' = EnqueueResponse(writer, val) /\ requests' = rest
        /\ UNCHANGED <<wire, read, host, client>>
    BY DEF HostRefuse
  <1>3. Behind(requests, rest) /\ Head(requests) = requests[1] /\ Head(requests) \in Request
    BY <1>1, <1>2, TailBehind
  <1>4. /\ val \in Answers /\ val.request = requests[1] /\ val.at = host.log /\ ~val.ok
        /\ val.request.method = "rehydrate"
    BY <1>1, <1>2, <1>3, Refused
  <1> HIDE DEF val, rest
  <1>5. Streaming(EnqueueResponse(writer, val), wire, read, host, client, rest)
    BY <1>1, <1>3, <1>4, AnswerSaid DEF EsInv
  <1> QED BY <1>2, <1>5 DEF EsInv

\* A response with a rebuilt snapshot.
LEMMA RebuiltFields ==
    ASSUME NEW r \in Answers, NEW n \in Nat, NEW r2, r2 = [r EXCEPT !.cached = n]
    PROVE  r2 \in Answers /\ r2.request = r.request /\ r2.at = r.at /\ r2.cached = n
  BY DEF Answers

\* agent.setAutoCompaction and its like
LEMMA SettingsKeeps == ASSUME EsInv, HostSettings PROVE EsInv'
  <1> DEFINE val == [Reply(Head(requests), TRUE, 0) EXCEPT !.cached = host.log]
             rest == Tail(requests)
  <1>1. host \in HostState /\ host.log \in Nat /\ requests \in Seq(Request)
    BY InvParts DEF EsInv
  <1>2. /\ requests # <<>> /\ Head(requests).method = "settings"
        /\ writer' = EnqueueResponse(writer, val) /\ requests' = rest
        /\ host' = [host EXCEPT !.cached = host.log, !.shared = FALSE]
        /\ UNCHANGED <<wire, read, client>>
    BY DEF HostSettings
  <1>3. Behind(requests, rest) /\ Head(requests) = requests[1] /\ Head(requests) \in Request
    BY <1>1, <1>2, TailBehind
  <1>4. val \in Answers /\ val.request = requests[1] /\ val.at = host.log
        /\ val.request.method = "settings" /\ val.cached = host.log
    <2> DEFINE first == Reply(Head(requests), TRUE, 0)
    <2>1. first \in Answers /\ first.request = requests[1] /\ first.at = host.log
      <3>1. first = Reply(Head(requests), TRUE, 0)
        OBVIOUS
      <3> HIDE DEF first
      <3>2. 0 \in Nat
        OBVIOUS
      <3>3. first \in Answers /\ first.request = Head(requests) /\ first.ok
            /\ first.at = host.log
        BY <1>1, <1>3, <3>1, <3>2 DEF Reply, Answers, HostState
      <3> QED BY <1>3, <3>3
    <2> HIDE DEF first
    <2>2. /\ val \in Answers /\ val.request = first.request /\ val.at = first.at
          /\ val.cached = host.log
      BY <1>1, <2>1, RebuiltFields DEF first
    <2> QED BY <1>2, <1>3, <2>1, <2>2
  <1>5. /\ host' \in HostState /\ host'.log = host.log /\ host'.cached = host.log
        /\ host'.frames = host.frames /\ host'.widget = host.widget
    BY <1>1, <1>2 DEF HostState
  <1> HIDE DEF val, rest
  <1>6. Streaming(EnqueueResponse(writer, val), wire, read, host', client, rest)
    BY <1>3, <1>4, <1>5, AnswerSaid DEF EsInv
  <1> QED BY <1>2, <1>6 DEF EsInv

\* What is said again leaves no number unused.
LEMMA ReplayOn ==
    ASSUME NEW w, Bounded(Words, w), host.widget \in Nat
    PROVE  w.last <= Replay(w).last
  <1> DEFINE closed == IF host.frames = 0 THEN w ELSE EnqueueEvent(w, "closed", <<>>, 1)
             said == EnqueueEvent(closed, "widget", <<host.widget>>, 1)
  <1>1. /\ <<>> \in Payload /\ <<host.widget>> \in Payload
        /\ "closed" \in EventKinds /\ "widget" \in EventKinds
    BY DEF Payload, EventKinds, Mergeable, PlainKinds
  <1>2. Keeps(w, EnqueueEvent(w, "closed", <<>>, 1))
        /\ Bounded(Words, EnqueueEvent(w, "closed", <<>>, 1))
    BY <1>1, EnqueueEventBounded DEF Words
  <1>3. w.last \in Nat
    BY DEF Bounded, Sound, WriterOf
  <1>4. Bounded(Words, closed) /\ w.last <= closed.last
    BY <1>2, <1>3 DEF Keeps
  <1>5. Replay(w) = IF host.widget = 0 THEN closed ELSE said
    BY DEF Replay
  <1> HIDE DEF closed
  <1>6. Keeps(closed, said) /\ Bounded(Words, said)
    BY <1>1, <1>4, EnqueueEventBounded DEF Words
  <1>7. closed.last <= said.last
    BY <1>6 DEF Keeps
  <1>8. closed.last \in Nat /\ said.last \in Nat
    BY <1>4, <1>6 DEF Bounded, Sound, WriterOf
  <1> QED BY <1>3, <1>4, <1>5, <1>7, <1>8

\* system.rehydrate, with the barrier and what is said again after it
LEMMA RehydrateKeeps == ASSUME EsInv, HostRehydrate PROVE EsInv'
  <1> DEFINE val == Reply(Head(requests), TRUE, Sealed(writer).last)
             rest == Tail(requests)
             mid == EnqueueBarrier(writer, val)
  <1>1. /\ host \in HostState /\ host.log \in Nat /\ host.widget \in Nat
        /\ requests \in Seq(Request) /\ read # 0 /\ read <= writer.last
        /\ writer.last \in Nat /\ Bounded(Words, writer)
        /\ Writing(writer, wire, read, host, Desk(client), requests)
    BY InvParts DEF EsInv
  <1>2. /\ requests # <<>> /\ Head(requests).method = "rehydrate"
        /\ writer' = Replay(mid) /\ requests' = rest
        /\ host' = [host EXCEPT !.frames = 0]
        /\ UNCHANGED <<wire, read, client>>
    BY DEF HostRehydrate
  <1>3. Behind(requests, rest) /\ Head(requests) = requests[1] /\ Head(requests) \in Request
    BY <1>1, <1>2, TailBehind
  <1>4. Bounded(Words, Sealed(writer)) /\ Sealing(writer, Sealed(writer))
    BY <1>1, SealedForm
  <1>5. Sealed(writer).last \in Nat
    BY <1>4 DEF Bounded, Sound, WriterOf
  <1>6. writer.last <= Sealed(writer).last
    <2>1. Cardinality(Open(writer.queue)) \in Nat
      <3>1. writer.queue \in Seq(EntryOf(Words))
        BY InvParts DEF EsInv
      <3> QED BY <3>1, Ranks
    <2> QED BY <1>1, <1>4, <2>1 DEF Sealing
  <1>7. /\ val \in Answers /\ val.request = requests[1]
        /\ val.at = host.log /\ val.cached = host.cached
        /\ val.request.method = "rehydrate" /\ val.ok /\ val.watermark = Sealed(writer).last
    <2>1. val = Reply(Head(requests), TRUE, Sealed(writer).last)
      OBVIOUS
    <2> HIDE DEF val
    <2>2. /\ val \in Answers /\ val.request = Head(requests) /\ val.ok
          /\ val.watermark = Sealed(writer).last
          /\ val.at = host.log /\ val.cached = host.cached
      BY <1>1, <1>3, <1>5, <2>1 DEF Reply, Answers, HostState
    <2> QED BY <1>2, <1>3, <2>2
  <1>8. /\ host' \in HostState /\ host'.log = host.log /\ host'.cached = host.cached
        /\ host'.frames = 0 /\ host'.widget = host.widget
    BY <1>1, <1>2 DEF HostState
  <1> HIDE DEF val, rest
  <1>9. Keeps(Sealed(writer), mid) /\ Bounded(Words, mid)
    BY <1>4, <1>7, EnqueueResponseBounded DEF EnqueueBarrier, Words
  <1>10. Writing(mid, wire, read, Fresher(host), Desk(client), rest)
    BY <1>1, <1>3, <1>7, BarrierGood
  <1> HIDE DEF mid
  <1>11. Writing(Replay(mid), wire, read, host', Desk(client), rest)
    BY <1>1, <1>8, <1>10, ReplayGood
  <1>12. mid.last <= Replay(mid).last
    BY <1>1, <1>9, ReplayOn
  <1>13. Sealed(writer).last <= mid.last
    BY <1>9 DEF Keeps
  <1>14. mid.last \in Nat /\ Replay(mid).last \in Nat
    <2>1. mid.last \in Nat
      BY <1>9 DEF Bounded, Sound, WriterOf
    <2>2. Replay(mid).last \in Nat
      BY <1>11, WriterParts
    <2> QED BY <2>1, <2>2
  <1>15. writer.last <= Replay(mid).last
    BY <1>1, <1>5, <1>6, <1>12, <1>13, <1>14
  <1>16. Streaming(Replay(mid), wire, read, host', client, rest)
    BY <1>8, <1>11, <1>15, SaysOn DEF EsInv
  <1> QED BY <1>2, <1>16 DEF EsInv

\* The pump writes an entry, or skips it.
LEMMA PumpKeeps == ASSUME EsInv, PumpStep PROVE EsInv'
  <1>1. /\ host \in HostState /\ read \in Nat /\ read # 0 /\ read <= writer.last
        /\ writer.last \in Nat /\ ClientOK(client, read, writer.last)
        /\ Writing(writer, wire, read, host, Desk(client), requests)
    BY InvParts DEF EsInv
  <1>2. PumpWrite /\ UNCHANGED <<host, requests, client>> /\ MaxFrame \in Nat \ {0}
        /\ read' = read
    BY WatermarkAssumption DEF PumpStep, PumpWrite
  <1>3. /\ Writing(writer', wire', read, host, Desk(client), requests)
        /\ writer.last <= writer'.last
    BY <1>1, <1>2, PumpGood
  <1>4. writer'.last \in Nat
    BY <1>3, WriterParts
  <1>5. ClientOK(client, read, writer'.last)
    BY <1>1, <1>3, <1>4, ReadsOn
  <1>6. Streaming(writer', wire', read, host, client, requests)
    BY <1>1, <1>3, <1>4, <1>5 DEF Streaming
  <1> QED BY <1>2, <1>6 DEF EsInv
-----------------------------------------------------------------------------
(* Steps of the desktop. *)

\* The wire without its first line.
LEMMA WireRead ==
    ASSUME NEW lines, WireOK(lines), lines # <<>>, NEW rest, rest = Tail(lines)
    PROVE  /\ WireOK(rest) /\ rest \in Seq(LineOf(Words)) /\ Len(lines) = Len(rest) + 1
           /\ \A i \in 1..Len(rest) : rest[i] = lines[i + 1]
           /\ Head(lines) = lines[1] /\ lines[1] \in LineOf(Words) /\ 1 \in 1..Len(lines)
           /\ Event(lines[1]) => lines[1].seq # 0
  <1>1. lines \in Seq(LineOf(Words)) /\ Len(lines) \in Nat
    BY DEF WireOK
  <1>2. /\ rest \in Seq(LineOf(Words)) /\ Len(lines) = Len(rest) + 1 /\ Len(rest) \in Nat
        /\ \A i \in 1..Len(rest) : rest[i] = lines[i + 1] /\ i + 1 \in 1..Len(lines)
        /\ Head(lines) = lines[1] /\ lines[1] \in LineOf(Words) /\ 1 \in 1..Len(lines)
    BY <1>1
  <1>3. \A i \in 1..Len(rest) : Event(rest[i]) => rest[i].seq # 0
    BY <1>2 DEF WireOK
  <1>4. Event(lines[1]) => lines[1].seq # 0
    BY <1>2 DEF WireOK
  <1> QED BY <1>2, <1>3, <1>4 DEF WireOK

\* The flow without its first line.
LEMMA ReadFlow ==
    ASSUME NEW w, w.queue \in Seq(EntryOf(Words)), NEW lines, WireOK(lines), lines # <<>>
    PROVE  /\ Without(FlowOf(w, lines), 1, FlowOf(w, Tail(lines)))
           /\ FlowOf(w, Tail(lines)) \in Seq(FlowLine) /\ FlowOf(w, lines)[1] = lines[1]
  <1> DEFINE rest == Tail(lines)
             f == FlowOf(w, lines)
             g == FlowOf(w, rest)
  <1>1. /\ rest \in Seq(LineOf(Words)) /\ Len(lines) = Len(rest) + 1
        /\ \A i \in 1..Len(rest) : rest[i] = lines[i + 1]
        /\ 1 \in 1..Len(lines)
    BY WireRead
  <1>2. lines \in Seq(LineOf(Words))
    BY DEF WireOK
  <1>3. /\ Len(f) = Len(lines) + Len(w.queue) /\ Len(lines) \in Nat /\ Len(w.queue) \in Nat
        /\ \A i \in 1..Len(lines) : f[i] = lines[i]
        /\ \A i \in 1..Len(w.queue) : f[Len(lines) + i] = Line(w.queue[i])
    BY <1>2, FlowLines
  <1>4. /\ g \in Seq(FlowLine) /\ Len(g) = Len(rest) + Len(w.queue) /\ Len(rest) \in Nat
        /\ \A i \in 1..Len(rest) : g[i] = rest[i]
        /\ \A i \in 1..Len(w.queue) : g[Len(rest) + i] = Line(w.queue[i])
    BY <1>1, FlowLines
  <1> HIDE DEF f, g, rest
  <1>5. \A p \in 1..Len(g) : g[p] = f[Back(1, p)]
    <2> TAKE p \in 1..Len(g)
    <2>1. Back(1, p) = p + 1
      BY <1>4 DEF Back
    <2>2. CASE p \in 1..Len(rest)
      <3>1. g[p] = lines[p + 1] /\ p + 1 \in 1..Len(lines)
        BY <1>1, <1>3, <1>4, <2>2
      <3> QED BY <1>3, <2>1, <3>1
    <2>3. CASE p \notin 1..Len(rest)
      <3> DEFINE i == p - Len(rest)
      <3>1. i \in 1..Len(w.queue) /\ p = Len(rest) + i /\ p + 1 = Len(lines) + i
        BY <1>1, <1>3, <1>4, <2>3
      <3> HIDE DEF i
      <3>2. g[p] = Line(w.queue[i])
        BY <1>4, <3>1
      <3>3. f[p + 1] = Line(w.queue[i])
        BY <1>3, <3>1
      <3> QED BY <2>1, <3>2, <3>3
    <2> QED BY <2>2, <2>3
  <1>6. 1 \in 1..Len(f) /\ Len(f) = Len(g) + 1
    <2>1. Len(lines) = Len(rest) + 1
      BY <1>1
    <2>2. Len(f) = Len(lines) + Len(w.queue) /\ Len(g) = Len(rest) + Len(w.queue)
          /\ Len(rest) \in Nat /\ Len(w.queue) \in Nat
      BY <1>3, <1>4
    <2>3. \A a, b \in Nat : 1 \in 1..a + 1 + b /\ a + 1 + b = a + b + 1
      OBVIOUS
    <2> DEFINE a == Len(rest)
               b == Len(w.queue)
    <2> HIDE DEF a, b
    <2>4. Len(f) = a + 1 + b /\ Len(g) = a + b /\ a \in Nat /\ b \in Nat
      BY <2>1, <2>2 DEF a, b
    <2> QED BY <2>3, <2>4
  <1>7. f[1] = lines[1]
    BY <1>1, <1>3
  <1> QED BY <1>4, <1>5, <1>6, <1>7 DEF Without, f, g, rest

\* A line of the wire is no dropped entry.
LEMMA LineKind ==
    ASSUME NEW l \in LineOf(Words)
    PROVE  l.kind # "dropped" /\ (l.kind = "response" \/ Event(l)) /\ l.seq \in Nat
  BY DEF LineOf, Event, EventKinds, PlainKinds, Mergeable

\* The desktop reads a line.
LEMMA ReceiveKeeps == ASSUME EsInv, ClientReceive PROVE EsInv'
  <1> DEFINE f == FlowOf(writer, wire)
             rest == Tail(wire)
             g == FlowOf(writer, rest)
  <1>1. /\ host \in HostState /\ read \in Nat /\ read # 0 /\ read <= writer.last
        /\ writer.last \in Nat /\ ClientOK(client, read, writer.last)
        /\ writer.queue \in Seq(EntryOf(Words)) /\ WireOK(wire)
        /\ Writing(writer, wire, read, host, Desk(client), requests)
        /\ GoodFlow(f, writer.last, read, host, Desk(client), requests)
    BY InvParts DEF EsInv
  <1>2. /\ wire # <<>> /\ wire' = rest /\ UNCHANGED <<writer, host>>
        /\ read' = IF Head(wire).kind = "response" THEN read ELSE Head(wire).seq
        /\ client' = Receive(client, Head(wire))
    BY DEF ClientReceive, PeerRead
  <1>3. requests' = Sent(client, client', requests)
    BY DEF ClientReceive, Send, Sent
  <1>4. /\ WireOK(rest) /\ Head(wire) = wire[1] /\ wire[1] \in LineOf(Words)
        /\ Event(wire[1]) => wire[1].seq # 0
    BY <1>1, <1>2, WireRead
  <1>5. Without(f, 1, g) /\ g \in Seq(FlowLine) /\ f[1] = wire[1]
    <2> HIDE DEF f, g, rest
    <2>2. writer.queue \in Seq(EntryOf(Words)) /\ WireOK(wire) /\ wire # <<>>
      BY <1>1, <1>2
    <2>3. /\ Without(FlowOf(writer, wire), 1, FlowOf(writer, Tail(wire)))
          /\ FlowOf(writer, Tail(wire)) \in Seq(FlowLine) /\ FlowOf(writer, wire)[1] = wire[1]
      BY <2>2, ReadFlow
    <2> QED BY <2>3 DEF f, g, rest
  <1>6. f[1] \in LineOf(Words) /\ f[1].kind # "dropped" /\ (Event(f[1]) => f[1].seq # 0)
    BY <1>4, <1>5, LineKind
  <1>7. read' = IF f[1].kind = "response" THEN read ELSE f[1].seq
    BY <1>2, <1>4, <1>5
  <1> HIDE DEF f, g, rest
  <1>8. Taking(f, g, writer.last, read, read', host, client, requests)
    BY <1>1, <1>5, <1>6, <1>7 DEF Taking
  <1>9. client' = Receive(client, f[1])
    BY <1>2, <1>4, <1>5
  <1>10. Took(g, writer.last, read', host, client', Sent(client, client', requests))
    BY <1>6, <1>8, <1>9, TakeLine
  <1>11. read' \in Nat /\ read <= read' /\ read' <= writer.last
    BY <1>8, TakingParts
  <1>12. /\ ClientOK(client', read', writer.last)
         /\ GoodFlow(g, writer.last, read', host, Desk(client'), requests')
    BY <1>3, <1>10 DEF Took
  <1>13. Writing(writer, rest, read', host, Desk(client'), requests')
    BY <1>1, <1>4, <1>12 DEF Writing, g
  <1>14. read' \in Nat \ {0}
    BY <1>1, <1>11
  <1>15. Streaming(writer, rest, read', host, client', requests')
    BY <1>1, <1>11, <1>12, <1>13, <1>14 DEF Streaming
  <1> QED BY <1>2, <1>15 DEF EsInv

\* The desktop stops vouching for what it shows, or goes on not doing so.
LEMMA StopsVouching ==
    ASSUME NEW c2, EsInv, ClientOK(c2, read, writer.last), c2.id = client.id, ~Synced(c2)
    PROVE  Streaming(writer, wire, read, host, c2, requests)
  <1> DEFINE f == FlowOf(writer, wire)
  <1>1. /\ host \in HostState /\ read \in Nat /\ read # 0 /\ read <= writer.last
        /\ Writing(writer, wire, read, host, Desk(client), requests)
        /\ GoodFlow(f, writer.last, read, host, Desk(client), requests)
        /\ client \in Desktop
    BY InvParts DEF EsInv
  <1> HIDE DEF f
  <1>2. Desk(c2).id = Desk(client).id /\ ~Desk(c2).synced
    BY DeskParts
  <1>3. Polled(f, requests, Desk(c2))
    BY <1>1, <1>2, SameRequests DEF GoodFlow
  <1>4. AllFollow(f, writer.last, host, Desk(c2))
    BY <1>1, <1>2 DEF GoodFlow, AllFollow
  <1>5. GoodFlow(f, writer.last, read, host, Desk(c2), requests)
    BY <1>1, <1>3, <1>4 DEF GoodFlow
  <1>6. Writing(writer, wire, read, host, Desk(c2), requests)
    BY <1>1, <1>5 DEF Writing, f
  <1> QED BY <1>1, <1>6 DEF Streaming

\* hello or system.rehydrate times out.
LEMMA TimeoutKeeps == ASSUME EsInv, ClientTimeout PROVE EsInv'
  <1>1. ClientOK(client, read, writer.last)
    BY InvParts DEF EsInv
  <1>2. /\ client.mode \in {"hello", "rehydrate"} /\ client' = Fail(client)
        /\ UNCHANGED <<writer, wire, read, host>>
        /\ client'.id = client.id => requests' = requests
    BY DEF ClientTimeout, Send, outVars
  <1>3. /\ ClientOK(client', read, writer.last) /\ client'.id = client.id
        /\ client'.mode = "backoff"
    BY <1>1, <1>2, FailOK
  <1>4. ~Synced(client')
    BY <1>3 DEF Synced
  <1>5. Streaming(writer, wire, read, host, client', requests)
    BY <1>3, <1>4, StopsVouching
  <1> QED BY <1>2, <1>3, <1>5 DEF EsInv

\* The desktop makes a request: its loop does, or the user changes a setting.
LEMMA Requests ==
    ASSUME EsInv, NEW c2, ClientOK(c2, read, writer.last), NEW q \in Request, NEW reqs2,
           reqs2 = Append(requests, q), q.id <= c2.id, q.method # "rehydrate",
           client.id <= c2.id, c2 = client \/ ~Synced(c2),
           c2 = client => q.method = "settings", q.method # "settings" => client.id < q.id
    PROVE  Streaming(writer, wire, read, host, c2, reqs2)
  <1> DEFINE f == FlowOf(writer, wire)
  <1>1. /\ host \in HostState /\ read \in Nat /\ read # 0 /\ read <= writer.last
        /\ Writing(writer, wire, read, host, Desk(client), requests)
        /\ GoodFlow(f, writer.last, read, host, Desk(client), requests)
        /\ client \in Desktop /\ requests \in Seq(Request)
    BY InvParts DEF EsInv
  <1>2. client.id \in Nat /\ c2.id \in Nat
    BY <1>1, Fields, ClientParts
  <1>3. Asks(requests, q, reqs2)
    BY <1>1, AppendAsks
  <1>4. /\ Desk(client).id = client.id /\ Desk(c2).id = c2.id
        /\ Desk(c2).synced <=> Synced(c2)
    BY DeskParts
  <1>5. Desk(c2).synced => /\ Desk(client).synced /\ Desk(c2).reader = Desk(client).reader
                           /\ q.method = "settings"
    BY <1>4
  <1> HIDE DEF f
  <1>6. GoodFlow(f, writer.last, read, host, Desk(c2), reqs2)
    BY <1>1, <1>2, <1>3, <1>4, <1>5, GoodRequest
  <1>7. Writing(writer, wire, read, host, Desk(c2), reqs2)
    BY <1>1, <1>6 DEF Writing, f
  <1> QED BY <1>1, <1>7 DEF Streaming

\* A setting of the session is changed.
LEMMA ClientSettingsKeeps == ASSUME EsInv, ClientSettings PROVE EsInv'
  <1> DEFINE q == [id |-> client.id, method |-> "settings"]
  <1>1. ClientOK(client, read, writer.last) /\ client.id \in Nat
    BY InvParts, Fields DEF EsInv
  <1>2. q \in Request /\ q.id = client.id /\ q.method = "settings"
    BY <1>1 DEF Request
  <1>3. requests' = Append(requests, q) /\ UNCHANGED <<writer, wire, read, host, client>>
    BY DEF ClientSettings
  <1> HIDE DEF q
  <1>4. requests' = Append(requests, q) /\ q.id <= client.id /\ client.id <= client.id
    BY <1>1, <1>2, <1>3
  <1>5. Streaming(writer, wire, read, host, client, requests')
    BY <1>1, <1>2, <1>4, Requests
  <1> QED BY <1>3, <1>5 DEF EsInv

\* The next attempt.
Attempting(c) == Ask([c EXCEPT !.attempt = @ + 1], "hello")

\* It says hello with a new request.
LEMMA AttemptOK ==
    ASSUME NEW c, NEW rd, NEW last, ClientOK(c, rd, last), c.mode = "backoff",
           c.attempt + 1 < MaxAttempts, NEW c2, c2 = Attempting(c)
    PROVE  ClientOK(c2, rd, last) /\ c2.id = c.id + 1 /\ c2.mode = "hello"
  <1> DEFINE d == [c EXCEPT !.attempt = @ + 1]
  <1>1. /\ c \in Desktop /\ c.pending = FALSE /\ c.desync = TRUE /\ c.buffer = <<>>
        /\ c.lastSeq <= last
        /\ c.fatal = FALSE => ViewOK(c.view)
        /\ \A i \in 1..Len(c.buffer) : c.buffer[i].seq <= rd
        /\ Len(c.buffer) <= BufferLimit
    BY ClientParts
  <1>2. c.attempt \in 0..MaxAttempts - 1 /\ MaxAttempts \in Nat \ {0} /\ c.id \in Nat
    BY <1>1, Fields, RecoveryAssumption
  <1>3. c.attempt + 1 \in 0..MaxAttempts - 1
    BY <1>2
  <1>4. /\ d \in Desktop /\ d.pending = c.pending /\ d.desync = c.desync
        /\ d.buffer = c.buffer /\ d.lastSeq = c.lastSeq /\ d.fatal = c.fatal
        /\ d.view = c.view /\ d.id = c.id
    BY <1>1, <1>3 DEF Desktop
  <1> HIDE DEF d
  <1>5. c2 = [d EXCEPT !.mode = "hello", !.id = @ + 1] /\ d.id + 1 \in Nat
    BY <1>2, <1>4 DEF Ask, Attempting, d
  <1>6. /\ c2 \in Desktop /\ c2.pending = d.pending /\ c2.desync = d.desync
        /\ c2.buffer = d.buffer /\ c2.lastSeq = d.lastSeq /\ c2.fatal = d.fatal
        /\ c2.view = d.view /\ c2.id = d.id + 1 /\ c2.mode = "hello"
    BY <1>2, <1>4, <1>5 DEF Desktop
  <1>7. ClientOK(c2, rd, last)
    BY <1>1, <1>4, <1>6 DEF ClientOK
  <1> QED BY <1>4, <1>6, <1>7

\* After the last attempt the desktop shows that it cannot recover.
GivingUp(c) == [c EXCEPT !.mode = "live", !.desync = FALSE, !.fatal = TRUE]

\* settleHostFailure
LEMMA SettledOK ==
    ASSUME NEW c, NEW rd, NEW last, ClientOK(c, rd, last), c.mode = "backoff",
           NEW c2, c2 = GivingUp(c)
    PROVE  ClientOK(c2, rd, last) /\ c2.id = c.id /\ ~Synced(c2)
  <1>1. /\ c \in Desktop /\ c.pending = FALSE /\ c.buffer = <<>>
        /\ c.lastSeq <= last
        /\ \A i \in 1..Len(c.buffer) : c.buffer[i].seq <= rd
        /\ Len(c.buffer) <= BufferLimit
    BY ClientParts
  <1>2. /\ c2 \in Desktop /\ c2.pending = c.pending /\ c2.desync = FALSE
        /\ c2.buffer = c.buffer /\ c2.lastSeq = c.lastSeq /\ c2.fatal = TRUE
        /\ c2.id = c.id /\ c2.mode = "live"
    BY <1>1 DEF Desktop, GivingUp
  <1>3. ClientOK(c2, rd, last)
    BY <1>1, <1>2 DEF ClientOK
  <1> QED BY <1>2, <1>3 DEF Synced

\* A back-off timer fires.
LEMMA RetryKeeps == ASSUME EsInv, ClientRetry PROVE EsInv'
  <1>1. /\ ClientOK(client, read, writer.last) /\ client.id \in Nat /\ client \in Desktop
        /\ client.pending = FALSE /\ client.attempt \in 0..MaxAttempts - 1
    BY InvParts, Fields, ClientParts DEF EsInv
  <1>2. /\ client.mode = "backoff" /\ UNCHANGED <<writer, wire, read, host>>
        /\ requests' = Sent(client, client', requests)
    BY DEF ClientRetry, Send, Sent, outVars
  <1>3. client' = CASE client.attempt + 1 < MaxAttempts -> Attempting(client)
                    [] client.attempt + 1 = MaxAttempts /\ client.pending -> NextRound(client)
                    [] OTHER -> GivingUp(client)
    BY DEF ClientRetry, Attempting, GivingUp
  <1>4. MaxAttempts \in Nat
    BY RecoveryAssumption
  <1>5. CASE client.attempt + 1 < MaxAttempts
    <2>2. client' = Attempting(client)
      BY <1>1, <1>3, <1>4, <1>5
    <2>3. ClientOK(client', read, writer.last) /\ client'.id = client.id + 1
          /\ client'.mode = "hello"
      BY <1>1, <1>2, <1>5, <2>2, AttemptOK
    <2> DEFINE q == [id |-> client'.id, method |-> client'.mode]
    <2>4. q \in Request /\ q.id = client'.id /\ q.method = "hello"
      BY <1>1, <2>3 DEF Request
    <2>5. requests' = Append(requests, q)
      BY <1>1, <1>2, <2>3 DEF Sent
    <2>6. ~Synced(client') /\ client' # client
      BY <1>1, <2>3 DEF Synced
    <2> HIDE DEF q
    <2>7. q.id <= client'.id /\ client.id <= client'.id /\ client.id < q.id
      BY <1>1, <2>3, <2>4
    <2>8. Streaming(writer, wire, read, host, client', requests')
      BY <2>3, <2>4, <2>5, <2>6, <2>7, Requests
    <2> QED BY <1>2, <2>8 DEF EsInv
  <1>6. CASE ~(client.attempt + 1 < MaxAttempts)
    <2>2. client' = GivingUp(client)
      BY <1>1, <1>3, <1>4, <1>6
    <2>3. ClientOK(client', read, writer.last) /\ client'.id = client.id /\ ~Synced(client')
      BY <1>1, <1>2, <2>2, SettledOK
    <2>4. requests' = requests
      BY <1>2, <2>3 DEF Sent
    <2>5. Streaming(writer, wire, read, host, client', requests)
      BY <2>3, StopsVouching
    <2> QED BY <1>2, <2>4, <2>5 DEF EsInv
  <1> QED BY <1>5, <1>6
-----------------------------------------------------------------------------
(* The initial states. *)

\* Nothing is on its way, and the desktop has recovered or says hello.
Starting(w, c, reqs) ==
    /\ w = [queue |-> <<>>, pending |-> 0, last |-> w.last] /\ w.last \in Nat \ {0}
    /\ c \in Desktop /\ c.id = 0 /\ c.pending = FALSE /\ c.fatal = FALSE
    /\ c.lastSeq = w.last /\ c.buffer = <<>> /\ c.view = EmptyView
    /\ \/ c.mode = "live" /\ c.desync = FALSE /\ reqs = <<>>
       \/ c.mode = "hello" /\ c.desync = TRUE /\ reqs = <<[id |-> 0, method |-> "hello"]>>

\* Nothing is on its way.
LEMMA FirstFlow ==
    ASSUME NEW w, w.queue = <<>>
    PROVE  FlowOf(w, <<>>) = <<>>
  BY DEF FlowOf

\* At most a hello is to be answered.
LEMMA FirstPolled ==
    ASSUME NEW f, Len(f) = 0, NEW c, c.id = 0, NEW reqs,
           reqs = <<>> \/ (reqs = <<[id |-> 0, method |-> "hello"]>> /\ ~c.synced)
    PROVE  Polled(f, reqs, c)
  <1>1. CASE reqs = <<>>
    <2>1. reqs \in Seq(Request) /\ Len(reqs) = 0
      BY <1>1
    <2> QED BY <2>1 DEF Polled
  <1>2. CASE reqs = <<[id |-> 0, method |-> "hello"]>> /\ ~c.synced
    <2> DEFINE q == [id |-> 0, method |-> "hello"]
    <2>1. q \in Request /\ q.id = 0
      BY DEF Request
    <2> HIDE DEF q
    <2>2. reqs \in Seq(Request) /\ Len(reqs) = 1 /\ reqs[1] = q
      BY <1>2, <2>1 DEF q
    <2>3. \A i \in 1..Len(reqs) : i = 1
      BY <2>2
    <2>4. \A i, j \in 1..Len(reqs) : ~(i < j)
      BY <2>3
    <2>5. \A i \in 1..Len(reqs) : reqs[i].id <= c.id
      BY <2>1, <2>2, <2>3
    <2> QED BY <1>2, <2>2, <2>4, <2>5 DEF Polled
  <1> QED BY <1>1, <1>2

\* The desktop is in a state it has between its steps.
LEMMA FirstClient ==
    ASSUME NEW w, NEW c, NEW reqs, Starting(w, c, reqs)
    PROVE  ClientOK(c, w.last, w.last)
  <1>1. ViewOK(EmptyView)
    BY EmptyViewOK
  <1>2. c.buffer = <<>> /\ Len(c.buffer) = 0 /\ 0 <= BufferLimit
    BY RecoveryAssumption DEF Starting
  <1>3. (\A i \in 1..Len(c.buffer) : c.buffer[i].seq <= w.last) /\ Len(c.buffer) <= BufferLimit
    BY <1>2
  <1>4. c.lastSeq <= w.last
    BY DEF Starting
  <1> QED BY <1>1, <1>2, <1>3, <1>4 DEF Starting, ClientOK

\* Nothing is lacked by a desktop that has recovered.
LEMMA FirstWriting ==
    ASSUME NEW w, NEW h, NEW c, NEW reqs, Starting(w, c, reqs),
           h.log = 0, h.cached = 0, h.frames = 0, h.widget = 0
    PROVE  Writing(w, <<>>, w.last, h, Desk(c), reqs)
  <1> DEFINE f == FlowOf(w, <<>>)
  <1>1. w.last \in Nat \ {0} /\ w.queue = <<>> /\ w = [queue |-> <<>>, pending |-> 0, last |-> w.last]
    BY DEF Starting
  <1>2. f = <<>>
    BY <1>1, FirstFlow
  <1> HIDE DEF f
  <1>3. f \in Seq(FlowLine) /\ Len(f) = 0
    BY <1>2
  <1>4. FlowOK(f, w.last, w.last)
    BY <1>1, <1>3 DEF FlowOK, Rises, MarksSealed
  <1>5. /\ c.lastSeq = w.last /\ c.view.base = 0 /\ c.view.at = 0 /\ Len(c.view.tail) = 0
        /\ Len(c.view.frames) = 0 /\ c.view.widget = 0
    BY DEF Starting, EmptyView
  <1>6. /\ Has(c).from = w.last /\ Has(c).level = 0 /\ Has(c).chunks = 0 /\ Has(c).shown = 0
        /\ Has(c).base = 0
    BY <1>5 DEF Has
  <1>7. Follows(f, 0, w.last, h, Has(c))
    <2>1. Follows(f, Len(f), w.last, h, Has(c))
      BY <1>1, <1>4, <1>6, NewReader
    <2> QED BY <1>3, <2>1
  <1>8. AllFollow(f, w.last, h, Desk(c))
    <2>1. Follows(f, 0, w.last, h, Desk(c).reader)
      BY <1>7, DeskParts
    <2>2. \A r \in 1..Len(f) : FALSE
      BY <1>3
    <2> QED BY <2>1, <2>2 DEF AllFollow
  <1>9. Polled(f, reqs, Desk(c))
    <2>1. c.mode = "hello" => ~Desk(c).synced
      BY DeskParts DEF Synced
    <2>2. Desk(c).id = 0
      BY DeskParts DEF Starting
    <2>3. reqs = <<>> \/ (reqs = <<[id |-> 0, method |-> "hello"]>> /\ ~Desk(c).synced)
      BY <2>1 DEF Starting
    <2> QED BY <1>3, <2>2, <2>3, FirstPolled
  <1>10. Bounded(Words, w)
    BY <1>1, EmptyBounded
  <1>11. QueueOK(w.queue, h.frames)
    BY <1>1 DEF QueueOK
  <1>12. WireOK(<<>>)
    BY DEF WireOK
  <1> QED BY <1>4, <1>8, <1>9, <1>10, <1>11, <1>12 DEF Writing, GoodFlow, f

\* The desktop of the initial states is one of its states.
LEMMA FirstDesktop ==
    ASSUME NEW gap \in BOOLEAN, NEW last \in Nat, NEW c,
           c = [mode |-> IF gap THEN "hello" ELSE "live", attempt |-> 0,
                id |-> 0, pending |-> FALSE, desync |-> gap, fatal |-> FALSE,
                lastSeq |-> last, buffer |-> <<>>, overflow |-> FALSE,
                view |-> EmptyView]
    PROVE  c \in Desktop
  <1>1. EmptyView \in View /\ 0 \in 0..MaxAttempts - 1 /\ <<>> \in Seq(LineOf(Words))
    BY EmptyViewOK, RecoveryAssumption
  <1> QED BY <1>1 DEF Desktop

\* The initial states satisfy the invariant.
LEMMA EsStart == EsInit => EsInv
  <1> SUFFICES ASSUME EsInit PROVE EsInv
    OBVIOUS
  <1> DEFINE ClientOf(gap, last) ==
                 [mode |-> IF gap THEN "hello" ELSE "live", attempt |-> 0,
                  id |-> 0, pending |-> FALSE, desync |-> gap, fatal |-> FALSE,
                  lastSeq |-> last, buffer |-> <<>>, overflow |-> FALSE,
                  view |-> EmptyView]
  <1>1. PICK gap \in BOOLEAN :
            LET last == IF gap THEN 3 ELSE 1
            IN  /\ writer = [EmptyWriter EXCEPT !.last = last]
                /\ wire = <<>> /\ read = last
                /\ host = [log |-> 0, cached |-> 0, shared |-> FALSE,
                           queue |-> 0, widget |-> 0, frames |-> 0]
                /\ requests = IF gap THEN <<[id |-> 0, method |-> "hello"]>> ELSE <<>>
                /\ client = ClientOf(gap, last)
    BY DEF EsInit
  <1> DEFINE last == IF gap THEN 3 ELSE 1
  <1>2. last \in Nat \ {0}
    OBVIOUS
  <1>3. /\ writer = [EmptyWriter EXCEPT !.last = last] /\ wire = <<>> /\ read = last
        /\ host = [log |-> 0, cached |-> 0, shared |-> FALSE,
                   queue |-> 0, widget |-> 0, frames |-> 0]
        /\ requests = IF gap THEN <<[id |-> 0, method |-> "hello"]>> ELSE <<>>
        /\ client = ClientOf(gap, last)
    BY <1>1
  <1> HIDE DEF last
  <1>4. writer = [queue |-> <<>>, pending |-> 0, last |-> last] /\ writer.last = last
    BY <1>3 DEF EmptyWriter
  <1>5. client \in Desktop
    BY <1>2, <1>3, FirstDesktop
  <1>6. /\ client.id = 0 /\ client.pending = FALSE /\ client.fatal = FALSE
        /\ client.lastSeq = last /\ client.buffer = <<>> /\ client.view = EmptyView
        /\ gap => client.mode = "hello" /\ client.desync = TRUE
        /\ ~gap => client.mode = "live" /\ client.desync = FALSE
    BY <1>3
  <1>7. Starting(writer, client, requests)
    BY <1>2, <1>3, <1>4, <1>5, <1>6 DEF Starting
  <1>8. host \in HostState /\ host.log = 0 /\ host.cached = 0 /\ host.frames = 0 /\ host.widget = 0
    BY <1>3 DEF HostState
  <1>9. read = writer.last /\ read \in Nat \ {0} /\ read <= writer.last
    BY <1>2, <1>3, <1>4
  <1>10. ClientOK(client, writer.last, writer.last)
    BY <1>7, FirstClient
  <1>11. Writing(writer, <<>>, writer.last, host, Desk(client), requests)
    BY <1>7, <1>8, FirstWriting
  <1> QED BY <1>3, <1>8, <1>9, <1>10, <1>11 DEF EsInv, Streaming
-----------------------------------------------------------------------------
(* The theorems. *)

LEMMA EsSame == ASSUME EsInv, UNCHANGED esVars PROVE EsInv'
  BY DEF EsInv, esVars, outVars

\* Every step keeps the invariant.
LEMMA EsStep == EsInv /\ [EsNext]_esVars => EsInv'
  <1> SUFFICES ASSUME EsInv, [EsNext]_esVars PROVE EsInv'
    OBVIOUS
  <1>1. CASE SessionEmits
    BY <1>1, DeltaKeeps, SnapKeeps, QueueKeeps, WidgetKeeps, AttentionKeeps, FrameKeeps
       DEF SessionEmits
  <1>2. CASE HostAnswers
    BY <1>2, HelloKeeps, RehydrateKeeps, RefuseKeeps, SettingsKeeps DEF HostAnswers
  <1>3. CASE PumpStep
    BY <1>3, PumpKeeps
  <1>4. CASE ClientReceive
    BY <1>4, ReceiveKeeps
  <1>5. CASE ClientTimeout
    BY <1>5, TimeoutKeeps
  <1>6. CASE ClientRetry
    BY <1>6, RetryKeeps
  <1>7. CASE ClientSettings
    BY <1>7, ClientSettingsKeeps
  <1>8. CASE UNCHANGED esVars
    BY <1>8, EsSame
  <1> QED BY <1>1, <1>2, <1>3, <1>4, <1>5, <1>6, <1>7, <1>8 DEF EsNext

\* The invariant implies the shapes.
LEMMA EsInvTypes == EsInv => EsTypeOK
  <1> SUFFICES ASSUME EsInv PROVE EsTypeOK
    OBVIOUS
  <1>1. /\ host \in HostState /\ read <= writer.last /\ requests \in Seq(Request)
        /\ ClientOK(client, read, writer.last) /\ client \in Desktop
    BY InvParts DEF EsInv
  <1>2. Len(client.buffer) <= BufferLimit /\ client.lastSeq <= writer.last
    BY <1>1, ClientParts
  <1>3. /\ client.mode \in {"live", "hello", "rehydrate", "backoff"}
        /\ client.attempt \in 0..MaxAttempts - 1
        /\ client.pending \in BOOLEAN /\ client.desync \in BOOLEAN
        /\ client.fatal \in BOOLEAN /\ client.overflow \in BOOLEAN
    BY <1>1, Fields
  <1>4. {client.pending, client.desync, client.fatal, client.overflow} \subseteq BOOLEAN
    BY <1>3
  <1> QED BY <1>1, <1>2, <1>3, <1>4 DEF EsTypeOK, HostState, Request

\* A desktop that vouches for what it shows shows what was said.
LEMMA VouchedView ==
    ASSUME EsInv, Vouched
    PROVE  ViewOK(client.view) /\ client.view \in View
  <1>1. ClientOK(client, read, writer.last) /\ client \in Desktop
    BY InvParts DEF EsInv
  <1>2. client.fatal \in BOOLEAN /\ client.view \in View
    BY <1>1, Fields
  <1>3. client.fatal = FALSE
    BY <1>2 DEF Vouched
  <1> QED BY <1>1, <1>2, <1>3, ClientParts

\* Types and bounds of the desktop's and the Host's states.
THEOREM EsTypes == EsSpec => []EsTypeOK
  <1> QED BY EsStart, EsStep, EsInvTypes, PTL DEF EsSpec

\* Every delta after the installed snapshot is applied once, in order, and
\* every chunk of an open panel: whatever is coalesced, shed, sealed, buffered
\* or answered late.
THEOREM StreamsAlways == EsSpec => []StreamsContiguous
  <1>1. EsInv => StreamsContiguous
    <2> SUFFICES ASSUME EsInv, Vouched
                 PROVE  /\ \A i \in DOMAIN client.view.tail :
                              client.view.tail[i] = client.view.at + i
                        /\ \A i \in DOMAIN client.view.frames : client.view.frames[i] = i
      BY DEF StreamsContiguous
    <2>1. ViewOK(client.view) /\ client.view \in View
      BY VouchedView
    <2>2. client.view.tail \in Seq(Nat) /\ client.view.frames \in Seq(Nat)
      BY <2>1, ViewFields
    <2>3. /\ DOMAIN client.view.tail = 1..Len(client.view.tail)
          /\ DOMAIN client.view.frames = 1..Len(client.view.frames)
      BY <2>2
    <2> QED BY <2>1, <2>3 DEF ViewOK
  <1> QED BY EsStart, EsStep, <1>1, PTL DEF EsSpec

\* An attention request opens the widget it was made for.
THEOREM AttentionAlways == EsSpec => []AttentionShowsWidget
  <1>1. EsInv => AttentionShowsWidget
    BY VouchedView DEF AttentionShowsWidget, ViewOK
  <1> QED BY EsStart, EsStep, <1>1, PTL DEF EsSpec

\* A desktop that has read everything and vouches for it shows the snapshot the
\* Host has cached, every delta since the position that snapshot stands for, and
\* the widget and the panel of the Host.
THEOREM ConvergedAlways == EsSpec => []Converged
  <1>1. EsInv => Converged
    <2> SUFFICES ASSUME EsInv, CaughtUp
                 PROVE  /\ client.view.at + Len(client.view.tail) = host.log
                        /\ client.view.base = host.cached
                        /\ client.view.widget = host.widget
                        /\ Len(client.view.frames) = host.frames
      BY DEF Converged
    <2>1. /\ ClientOK(client, read, writer.last) /\ client \in Desktop
          /\ writer.last \in Nat /\ writer.queue \in Seq(EntryOf(Words))
          /\ wire \in Seq(LineOf(Words))
          /\ GoodFlow(FlowOf(writer, wire), writer.last, read, host, Desk(client), requests)
      BY InvParts DEF EsInv
    <2>2. client.fatal \in BOOLEAN
      BY <2>1, Fields
    <2>3. Synced(client) /\ client.lastSeq = writer.last
      BY <2>2 DEF CaughtUp, Vouched, Synced
    <2>4. writer.queue = <<>> /\ wire = <<>>
      BY DEF CaughtUp
    <2> DEFINE f == FlowOf(writer, wire)
    <2>5. Len(f) = 0
      <3>1. Len(f) = Len(wire) + Len(writer.queue)
        BY <2>1, FlowLines
      <3>2. Len(wire) = 0 /\ Len(writer.queue) = 0
        BY <2>4
      <3> QED BY <3>1, <3>2
    <2> HIDE DEF f
    <2>6. Follows(f, 0, writer.last, host, Has(client))
      BY <2>1, <2>3, DeskParts DEF GoodFlow, AllFollow, f
    <2>7. Has(client).from = writer.last
      BY <2>3, DeskParts
    <2>8. /\ Has(client).level = host.log /\ Has(client).chunks = host.frames
          /\ Has(client).shown = host.widget /\ Has(client).base = host.cached
      BY <2>1, <2>5, <2>6, <2>7, NothingFollows
    <2> QED BY <2>8, DeskParts
  <1> QED BY EsStart, EsStep, <1>1, PTL DEF EsSpec
=============================================================================
