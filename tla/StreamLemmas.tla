---------------------------- MODULE StreamLemmas ----------------------------
(***************************************************************************)
(* What EventStream keeps for any limits, and any number of events.        *)
(*                                                                         *)
(* The argument is about the lines on their way to the desktop, the wire   *)
(* and then the queue.  Someone who has the stream up to some number, the  *)
(* desktop or the snapshot that answers its recovery, lacks an item only   *)
(* if it is on its way, or if a number before what follows it is missing,  *)
(* which the desktop will notice.                                          *)
(***************************************************************************)
EXTENDS EventStream, OutboundQueueProofs

-----------------------------------------------------------------------------
(* Lines on their way. *)

Request == [id : Nat, method : {"hello", "rehydrate", "settings"}]

Answers == [request : Request, ok : BOOLEAN, watermark : Nat,
            cached : Nat, at : Nat, queue : Nat]

\* What lines carry.
Words == Payload \cup Answers

FlowLine == [kind : EventKinds \cup {"response", "dropped"}, val : Words, seq : Nat]

Line(e) == [kind |-> IF e.dropped THEN "dropped" ELSE e.kind, val |-> e.val, seq |-> e.seq]

FlowOf(w, lines) == lines \o [i \in DOMAIN w.queue |-> Line(w.queue[i])]

Flow == FlowOf(writer, wire)

Event(l) == l.kind \in EventKinds

\* The answer to a recovery: everything before it is part of its snapshot.
Mark(l) == l.kind = "response" /\ l.val.request.method = "rehydrate" /\ l.val.ok

\* What a line carries, by its kind.
Saying(kind, val) ==
    /\ kind = "response" => val \in Answers
    /\ kind \in EventKinds => val \in Payload
    /\ kind \in {"delta", "queue", "widget", "attention"} => Len(val) = 1
    /\ kind = "snap" => Len(val) = 2
    /\ kind = "frame" => val # <<>>

\* Numbers go up, and what has none comes after what has.
Rises(f, last, rd) ==
    /\ \A p \in 1..Len(f) : Event(f[p]) /\ f[p].seq # 0 => rd < f[p].seq /\ f[p].seq <= last
    /\ \A p, q \in 1..Len(f) :
          p < q /\ Event(f[p]) /\ Event(f[q]) /\ f[q].seq # 0 =>
              f[p].seq # 0 /\ f[p].seq < f[q].seq

\* A snapshot's watermark covers what comes before it.
MarksSealed(f, last, rd) ==
    \A r \in 1..Len(f) : Mark(f[r]) =>
        /\ rd <= f[r].val.watermark /\ f[r].val.watermark <= last
        /\ \A q \in 1..Len(f) : q < r /\ Event(f[q]) =>
              f[q].seq # 0 /\ f[q].seq <= f[r].val.watermark

FlowOK(f, last, rd) ==
    /\ f \in Seq(FlowLine) /\ last \in Nat /\ rd \in Nat
    /\ \A p \in 1..Len(f) : Saying(f[p].kind, f[p].val)
    /\ Rises(f, last, rd)
    /\ MarksSealed(f, last, rd)

-----------------------------------------------------------------------------
(* A stream of numbered items: it[p] are the items of line p.  A reader has *)
(* the events up to number "from" and the items up to "low".                *)

\* A number is missing before whatever follows item c.
Missed(f, it, last, from, c) ==
    \E n \in 1..last :
        /\ from < n
        /\ \A p \in 1..Len(f) : Event(f[p]) => f[p].seq # n
        /\ \A p \in 1..Len(f) : \A x \in it[p] : f[p].seq # 0 /\ c < x => n < f[p].seq

Stream(f, it, last, from, low, top, need) ==
    /\ low \in Nat /\ top \in Nat /\ low <= top /\ from \in Nat /\ from <= last
    /\ it \in [1..Len(f) -> SUBSET Nat]
    /\ \A p \in 1..Len(f) : \A x \in it[p] :
          /\ Event(f[p]) /\ low < x /\ x <= top
          /\ f[p].seq # 0 => from < f[p].seq
    /\ \A p, q \in 1..Len(f) : p < q => \A x \in it[p], y \in it[q] : x < y
    /\ need \subseteq low + 1..top
    /\ \A c \in need : \/ \E p \in 1..Len(f) : c \in it[p]
                       \/ Missed(f, it, last, from, c)

\* Lines lose events, or get numbers; what is lost leaves a number missing.
Thin(f, last, g, last2) ==
    /\ Len(g) = Len(f) /\ last <= last2
    /\ \A p \in 1..Len(f) :
          /\ g[p].kind = f[p].kind \/ (Event(f[p]) /\ g[p].kind = "dropped")
          /\ \/ g[p].val = f[p].val \/ f[p].kind \in {"queue", "dropped"}
             \/ f[p].kind = "snap" /\ g[p].val[1] = f[p].val[1]
          /\ g[p].seq # f[p].seq => f[p].seq = 0 /\ last < g[p].seq
    /\ (\E p \in 1..Len(f) : Event(f[p]) /\ g[p].kind = "dropped" /\ f[p].seq = 0)
          => /\ last < last2
             /\ \A q \in 1..Len(f) : Event(g[q]) => g[q].seq <= last
    /\ \A p, q \in 1..Len(f) : p < q /\ f[p].kind = "widget" /\ g[p].kind = "dropped"
          => g[q].kind # "attention"

\* A stream survives the loss of lines.
LEMMA ThinStream ==
    ASSUME NEW f, NEW g, NEW last, NEW last2, NEW rd, NEW from, NEW low, NEW top, NEW need,
           NEW it, NEW it2, FlowOK(f, last, rd), g \in Seq(FlowLine), last2 \in Nat,
           Thin(f, last, g, last2), Stream(f, it, last, from, low, top, need),
           it2 \in [1..Len(f) -> SUBSET Nat],
           \A p \in 1..Len(f) : it2[p] = IF g[p].kind = f[p].kind THEN it[p] ELSE {}
    PROVE  Stream(g, it2, last2, from, low, top, need)
  <1>1. /\ Len(f) \in Nat /\ Len(g) = Len(f) /\ last \in Nat /\ last2 \in Nat /\ last <= last2
        /\ low \in Nat /\ top \in Nat /\ from \in Nat /\ from <= last
    BY DEF FlowOK, Thin, Stream
  <1>2. \A p \in 1..Len(f) : f[p].seq \in Nat /\ g[p].seq \in Nat
    <2>1. \A p \in 1..Len(f) : f[p] \in FlowLine /\ g[p] \in FlowLine
      BY <1>1 DEF FlowOK
    <2> QED BY <2>1 DEF FlowLine
  <1>3. ASSUME NEW p \in 1..Len(f), g[p].seq # f[p].seq
        PROVE  f[p].seq = 0 /\ last < g[p].seq
    BY <1>3 DEF Thin
  <1>4. ASSUME NEW p \in 1..Len(f), NEW x \in it2[p]
        PROVE  /\ x \in it[p] /\ g[p].kind = f[p].kind /\ Event(g[p]) /\ Event(f[p])
               /\ x \in Nat /\ low < x /\ x <= top
    BY <1>1, <1>4 DEF Stream, Event
  <1>5. ASSUME NEW p \in 1..Len(f), NEW x \in it2[p], g[p].seq # 0
        PROVE  from < g[p].seq
    <2>1. CASE g[p].seq = f[p].seq
      BY <1>4, <1>5, <2>1 DEF Stream
    <2>2. CASE g[p].seq # f[p].seq
      BY <1>1, <1>2, <1>3, <2>2
    <2> QED BY <2>1, <2>2
  <1>6. ASSUME NEW p \in 1..Len(f), NEW q \in 1..Len(f), p < q, NEW x \in it2[p], NEW y \in it2[q]
        PROVE  x < y
    BY <1>4, <1>6 DEF Stream
  <1>7. ASSUME NEW c \in need, Missed(f, it, last, from, c)
        PROVE  Missed(g, it2, last2, from, c)
    <2>1. PICK n \in 1..last :
              /\ from < n
              /\ \A p \in 1..Len(f) : Event(f[p]) => f[p].seq # n
              /\ \A p \in 1..Len(f) : \A x \in it[p] : f[p].seq # 0 /\ c < x => n < f[p].seq
      BY <1>7 DEF Missed
    <2>2. ASSUME NEW p \in 1..Len(f), Event(g[p]) PROVE g[p].seq # n
      <3>1. Event(f[p])
        BY <2>2, <1>1 DEF Thin, Event, EventKinds, PlainKinds, Mergeable
      <3> QED BY <1>1, <1>2, <1>3, <2>1, <3>1
    <2>3. ASSUME NEW p \in 1..Len(f), NEW x \in it2[p], g[p].seq # 0, c < x
          PROVE  n < g[p].seq
      <3>1. CASE g[p].seq = f[p].seq
        BY <1>4, <2>1, <2>3, <3>1
      <3>2. CASE g[p].seq # f[p].seq
        BY <1>1, <1>2, <1>3, <3>2
      <3> QED BY <3>1, <3>2
    <2>4. n \in 1..last2
      BY <1>1
    <2> QED BY <1>1, <2>1, <2>2, <2>3, <2>4 DEF Missed
  <1>8. ASSUME NEW c \in need, NEW p \in 1..Len(f), c \in it[p], g[p].kind # f[p].kind
        PROVE  Missed(g, it2, last2, from, c)
    <2>1. /\ Event(f[p]) /\ g[p].kind = "dropped" /\ c \in Nat
          /\ f[p].seq # 0 => from < f[p].seq
      BY <1>1, <1>8 DEF Thin, Stream
    <2>2. ASSUME NEW q \in 1..Len(f), NEW x \in it2[q], c < x PROVE p < q /\ Event(f[q])
      <3>1. x \in it[q] /\ x \in Nat /\ Event(f[q]) /\ g[q].kind = f[q].kind
        BY <1>4, <2>2
      <3>2. p # q
        BY <1>8, <3>1
      <3>3. ~(q < p)
        <4>1. SUFFICES ASSUME q < p PROVE FALSE
          OBVIOUS
        <4>2. x < c
          BY <1>8, <3>1, <4>1 DEF Stream
        <4> QED BY <2>1, <2>2, <3>1, <4>2
      <3> QED BY <1>1, <3>1, <3>2, <3>3
    <2>3. CASE f[p].seq # 0
      <3> DEFINE n == f[p].seq
      <3>1. n \in 1..last2 /\ n <= last /\ from < n
        BY <1>1, <1>2, <2>1, <2>3 DEF FlowOK, Rises
      <3>2. ASSUME NEW q \in 1..Len(f), Event(g[q]) PROVE g[q].seq # n
        <4>1. Event(f[q]) /\ p # q
          BY <2>1, <3>2, <1>1 DEF Thin, Event, EventKinds, PlainKinds, Mergeable
        <4>2. f[q].seq # n
          <5>1. CASE p < q
            BY <1>2, <2>1, <2>3, <4>1, <5>1 DEF FlowOK, Rises
          <5>2. CASE q < p
            BY <1>2, <2>1, <2>3, <4>1, <5>2 DEF FlowOK, Rises
          <5> QED BY <1>1, <4>1, <5>1, <5>2
        <4> QED BY <1>1, <1>2, <1>3, <3>1, <4>2
      <3>3. ASSUME NEW q \in 1..Len(f), NEW x \in it2[q], g[q].seq # 0, c < x
            PROVE  n < g[q].seq
        <4>1. p < q /\ Event(f[q])
          BY <2>2, <3>3
        <4>2. CASE f[q].seq # 0
          <5>1. n < f[q].seq
            BY <2>1, <4>1, <4>2 DEF FlowOK, Rises
          <5> QED BY <1>3, <4>2, <5>1
        <4>3. CASE f[q].seq = 0
          BY <1>1, <1>2, <1>3, <3>1, <3>3, <4>3
        <4> QED BY <4>2, <4>3
      <3> HIDE DEF n
      <3> QED BY <1>1, <3>1, <3>2, <3>3 DEF Missed
    <2>4. CASE f[p].seq = 0
      <3>1. /\ last < last2
            /\ \A q \in 1..Len(f) : Event(g[q]) => g[q].seq <= last
        BY <2>1, <2>4 DEF Thin
      <3> DEFINE n == last + 1
      <3>2. n \in 1..last2 /\ from < n
        BY <1>1, <3>1
      <3>3. ASSUME NEW q \in 1..Len(f), Event(g[q]) PROVE g[q].seq # n
        BY <1>1, <1>2, <3>1, <3>3
      <3>4. ASSUME NEW q \in 1..Len(f), NEW x \in it2[q], g[q].seq # 0, c < x
            PROVE  n < g[q].seq
        <4>1. p < q /\ Event(f[q]) /\ Event(g[q])
          BY <1>4, <2>2, <3>4
        <4>2. f[q].seq = 0
          BY <2>1, <2>4, <4>1 DEF FlowOK, Rises
        <4>3. last < g[q].seq /\ g[q].seq <= last
          BY <1>3, <3>1, <3>4, <4>1, <4>2
        <4> QED BY <1>1, <1>2, <4>3
      <3> HIDE DEF n
      <3> QED BY <1>1, <3>2, <3>3, <3>4 DEF Missed
    <2> QED BY <2>3, <2>4
  <1>9. ASSUME NEW c \in need
        PROVE  (\E p \in 1..Len(g) : c \in it2[p]) \/ Missed(g, it2, last2, from, c)
    <2>1. CASE Missed(f, it, last, from, c)
      BY <1>7, <2>1
    <2>2. CASE \E p \in 1..Len(f) : c \in it[p]
      <3>1. PICK p \in 1..Len(f) : c \in it[p]
        BY <2>2
      <3>2. CASE g[p].kind = f[p].kind
        BY <1>1, <3>1, <3>2
      <3>3. CASE g[p].kind # f[p].kind
        BY <1>8, <3>1, <3>3
      <3> QED BY <3>2, <3>3
    <2> QED BY <2>1, <2>2 DEF Stream
  <1>10. low <= top /\ from <= last2 /\ need \subseteq low + 1..top
    BY <1>1 DEF Stream
  <1> QED BY <1>1, <1>4, <1>5, <1>6, <1>9, <1>10 DEF Stream

\* A stream survives a line at the end, whatever new items it carries.
LEMMA AppendStream ==
    ASSUME NEW f, NEW g, NEW last, NEW from, NEW low, NEW top, NEW top2, NEW need,
           NEW need2, NEW it, NEW it2,
           Len(f) \in Nat, last \in Nat, Len(g) = Len(f) + 1,
           \A p \in 1..Len(f) : g[p] = f[p], g[Len(f) + 1].seq = 0,
           Stream(f, it, last, from, low, top, need),
           top2 \in Nat, top <= top2,
           it2 \in [1..Len(f) + 1 -> SUBSET Nat],
           \A p \in 1..Len(f) : it2[p] = it[p],
           \A x \in it2[Len(f) + 1] : Event(g[Len(f) + 1]) /\ top < x /\ x <= top2,
           \A c \in need2 : c \in need \/ c \in it2[Len(f) + 1]
    PROVE  Stream(g, it2, last, from, low, top2, need2)
  <1> DEFINE N == Len(f)
             X == it2[N + 1]
  <1>1. /\ N \in Nat /\ Len(g) = N + 1 /\ \A p \in 1..N : g[p] = f[p]
        /\ X \in SUBSET Nat
        /\ low \in Nat /\ top \in Nat /\ low <= top /\ from \in Nat /\ from <= last
    BY DEF Stream
  <1>2. \A p \in 1..N + 1 : p \in 1..N \/ p = N + 1
    BY <1>1
  <1>3. ASSUME NEW p \in 1..N + 1, NEW x \in it2[p]
        PROVE  /\ Event(g[p]) /\ low < x /\ x <= top2 /\ x \in Nat
               /\ g[p].seq # 0 => from < g[p].seq
    <2>1. CASE p \in 1..N
      <3>1. x \in it[p] /\ g[p] = f[p] /\ x \in Nat
        BY <1>1, <1>3, <2>1
      <3>2. Event(f[p]) /\ low < x /\ x <= top /\ (f[p].seq # 0 => from < f[p].seq)
        BY <2>1, <3>1 DEF Stream
      <3> QED BY <1>1, <3>1, <3>2
    <2>2. CASE p = N + 1
      <3>1. x \in X /\ x \in Nat
        BY <1>1, <1>3, <2>2
      <3> QED BY <1>1, <2>2, <3>1
    <2> QED BY <1>2, <2>1, <2>2
  <1>4. ASSUME NEW p \in 1..N + 1, NEW q \in 1..N + 1, p < q, NEW x \in it2[p], NEW y \in it2[q]
        PROVE  x < y
    <2>1. p \in 1..N /\ x \in it[p] /\ x \in Nat
      BY <1>1, <1>4
    <2>2. CASE q \in 1..N
      BY <1>4, <2>1, <2>2 DEF Stream
    <2>3. CASE q = N + 1
      <3>1. y \in X /\ y \in Nat /\ x <= top
        BY <1>4, <2>1, <2>3 DEF Stream
      <3> QED BY <1>1, <2>1, <3>1
    <2> QED BY <1>2, <2>2, <2>3
  <1>5. ASSUME NEW c \in need2
        PROVE  (\E p \in 1..N + 1 : c \in it2[p]) \/ Missed(g, it2, last, from, c)
    <2>1. CASE c \in X
      BY <1>1, <2>1
    <2>2. CASE c \in need /\ \E p \in 1..N : c \in it[p]
      BY <1>1, <2>2
    <2>3. CASE c \in need /\ Missed(f, it, last, from, c)
      <3>1. PICK n \in 1..last :
                /\ from < n
                /\ \A p \in 1..N : Event(f[p]) => f[p].seq # n
                /\ \A p \in 1..N : \A x \in it[p] : f[p].seq # 0 /\ c < x => n < f[p].seq
        BY <2>3 DEF Missed
      <3>2. \A p \in 1..N + 1 : Event(g[p]) => g[p].seq # n
        BY <1>1, <1>2, <3>1
      <3>3. \A p \in 1..N + 1 : \A x \in it2[p] : g[p].seq # 0 /\ c < x => n < g[p].seq
        BY <1>1, <1>2, <3>1
      <3> HIDE DEF N
      <3> QED BY <1>1, <3>1, <3>2, <3>3 DEF Missed
    <2> QED BY <1>5, <2>1, <2>2, <2>3 DEF Stream
  <1>6. need2 \subseteq low + 1..top2
    <2>1. ASSUME NEW c \in need2 PROVE c \in low + 1..top2
      <3>1. CASE c \in X
        BY <1>1, <3>1
      <3>2. CASE c \in need
        BY <1>1, <3>2 DEF Stream
      <3> QED BY <2>1, <3>1, <3>2
    <2> QED BY <2>1
  <1>7. low <= top2 /\ it2 \in [1..Len(g) -> SUBSET Nat]
    BY <1>1
  <1> HIDE DEF N
  <1> QED BY <1>1, <1>3, <1>4, <1>5, <1>6, <1>7 DEF Stream

\* A stream survives new items of a line that has no number, and that nothing
\* of the stream follows.
LEMMA MergeStream ==
    ASSUME NEW f, NEW g, NEW k \in 1..Len(f), NEW last, NEW from, NEW low, NEW top, NEW top2,
           NEW need, NEW need2, NEW it, NEW it2,
           Len(f) \in Nat, Len(g) = Len(f), last \in Nat, f[k].seq = 0, Event(f[k]),
           \A p \in 1..Len(f) : g[p].kind = f[p].kind /\ g[p].seq = f[p].seq,
           Stream(f, it, last, from, low, top, need),
           top2 \in Nat, top <= top2,
           it2 \in [1..Len(f) -> SUBSET Nat],
           \A p \in 1..Len(f) : p # k => it2[p] = it[p],
           \A p \in 1..Len(f) : k < p => it[p] = {},
           \A x \in it2[k] : x \in it[k] \/ (top < x /\ x <= top2),
           \A c \in need2 : c \in it2[k] \/ (c \in need /\ c \notin it[k])
    PROVE  Stream(g, it2, last, from, low, top2, need2)
  <1> DEFINE N == Len(f)
  <1>1. low \in Nat /\ top \in Nat /\ low <= top /\ from \in Nat /\ from <= last
    BY DEF Stream
  <1>2. ASSUME NEW p \in 1..N, NEW x \in it2[p]
        PROVE  /\ Event(g[p]) /\ low < x /\ x <= top2 /\ x \in Nat
               /\ g[p].seq # 0 => from < g[p].seq
    <2>1. CASE x \in it[p]
      <3>1. Event(f[p]) /\ low < x /\ x <= top /\ (f[p].seq # 0 => from < f[p].seq)
        BY <2>1 DEF Stream
      <3> QED BY <1>1, <1>2, <3>1 DEF Event
    <2>2. CASE x \notin it[p]
      <3>1. p = k /\ top < x /\ x <= top2 /\ x \in Nat
        BY <1>2, <2>2
      <3> QED BY <1>1, <3>1 DEF Event
    <2> QED BY <2>1, <2>2
  <1>3. ASSUME NEW p \in 1..N, NEW q \in 1..N, p < q, NEW x \in it2[p], NEW y \in it2[q]
        PROVE  x < y
    <2>1. p # k
      BY <1>3
    <2>2. x \in it[p] /\ x \in Nat /\ x <= top
      BY <1>3, <2>1 DEF Stream
    <2>3. CASE y \in it[q]
      BY <1>3, <2>2, <2>3 DEF Stream
    <2>4. CASE y \notin it[q]
      <3>1. top < y /\ y \in Nat
        BY <1>3, <2>4
      <3> QED BY <1>1, <2>2, <3>1
    <2> QED BY <2>3, <2>4
  <1>4. ASSUME NEW c \in need2
        PROVE  (\E p \in 1..N : c \in it2[p]) \/ Missed(g, it2, last, from, c)
    <2>1. CASE c \in it2[k]
      BY <2>1
    <2>2. CASE c \in need /\ \E p \in 1..N : p # k /\ c \in it[p]
      BY <2>2
    <2>3. CASE c \in need /\ Missed(f, it, last, from, c)
      <3>1. PICK n \in 1..last :
                /\ from < n
                /\ \A p \in 1..N : Event(f[p]) => f[p].seq # n
                /\ \A p \in 1..N : \A x \in it[p] : f[p].seq # 0 /\ c < x => n < f[p].seq
        BY <2>3 DEF Missed
      <3>2. \A p \in 1..N : Event(g[p]) => g[p].seq # n
        BY <3>1 DEF Event
      <3>3. \A p \in 1..N : \A x \in it2[p] : g[p].seq # 0 /\ c < x => n < g[p].seq
        BY <3>1
      <3> HIDE DEF N
      <3> QED BY <3>1, <3>2, <3>3 DEF Missed, N
    <2> QED BY <1>4, <2>1, <2>2, <2>3 DEF Stream
  <1>5. need2 \subseteq low + 1..top2
    <2>1. ASSUME NEW c \in need2 PROVE c \in low + 1..top2
      <3>1. CASE c \in it2[k]
        BY <1>1, <1>2, <3>1
      <3>2. CASE c \in need
        BY <1>1, <3>2 DEF Stream
      <3> QED BY <2>1, <3>1, <3>2
    <2> QED BY <2>1
  <1>6. low <= top2 /\ it2 \in [1..Len(g) -> SUBSET Nat]
    BY <1>1
  <1> HIDE DEF N
  <1> QED BY <1>1, <1>2, <1>3, <1>4, <1>5, <1>6 DEF Stream, N

\* A stream is the same when its lines' kinds, numbers and items are.
LEMMA SameStream ==
    ASSUME NEW f, NEW g, NEW last, NEW from, NEW low, NEW top, NEW need, NEW it, NEW it2,
           Len(f) \in Nat, Len(g) = Len(f),
           \A p \in 1..Len(f) : g[p].kind = f[p].kind /\ g[p].seq = f[p].seq,
           Stream(f, it, last, from, low, top, need),
           it2 \in [1..Len(f) -> SUBSET Nat], \A p \in 1..Len(f) : it2[p] = it[p]
    PROVE  Stream(g, it2, last, from, low, top, need)
  <1>1. it2 = it
    BY DEF Stream
  <1>2. \A p \in 1..Len(f) : Event(g[p]) <=> Event(f[p])
    BY DEF Event
  <1>3. \A c : Missed(f, it, last, from, c) => Missed(g, it2, last, from, c)
    BY <1>1, <1>2 DEF Missed
  <1> QED BY <1>1, <1>2, <1>3 DEF Stream

\* Where a line was before the one at k went.
Back(k, p) == IF p < k THEN p ELSE p + 1

\* g is f without line k.
Without(f, k, g) ==
    /\ k \in 1..Len(f) /\ Len(f) = Len(g) + 1
    /\ \A p \in 1..Len(g) : g[p] = f[Back(k, p)]

\* A line goes: it carried nothing, or a reader has taken it, who was then at
\* the number before the line's, and has what it carried.
LEMMA ShiftStream ==
    ASSUME NEW f, NEW g, NEW k, NEW last, NEW rd, NEW from, NEW from2, NEW low, NEW low2,
           NEW top, NEW need, NEW need2, NEW it, NEW it2,
           FlowOK(f, last, rd), g \in Seq(FlowLine), Without(f, k, g),
           Stream(f, it, last, from, low, top, need),
           \/ from2 = from
           \/ k = 1 /\ Event(f[1]) /\ f[1].seq = from + 1 /\ from2 = from + 1,
           low2 \in Nat, low2 <= top,
           \A p \in 1..Len(f) : p # k => \A x \in it[p] : low2 < x,
           \A c \in need2 : c \in need /\ c \notin it[k] /\ low2 < c,
           it2 \in [1..Len(g) -> SUBSET Nat],
           \A p \in 1..Len(g) : it2[p] = it[Back(k, p)]
    PROVE  Stream(g, it2, last, from2, low2, top, need2)
  <1> DEFINE M == Len(g)
  <1>1. /\ M \in Nat /\ Len(f) = M + 1 /\ k \in 1..M + 1
        /\ low \in Nat /\ top \in Nat /\ from \in Nat /\ from <= last /\ last \in Nat
    BY DEF Stream, FlowOK, Without
  <1>2. \A p \in 1..M + 1 : f[p].seq \in Nat
    <2>1. \A p \in 1..M + 1 : f[p] \in FlowLine
      BY <1>1 DEF FlowOK
    <2> QED BY <2>1 DEF FlowLine
  <1>3. ASSUME NEW p \in 1..M
        PROVE  /\ Back(k, p) \in 1..M + 1 /\ Back(k, p) # k /\ g[p] = f[Back(k, p)]
               /\ it2[p] = it[Back(k, p)]
               /\ \A q \in 1..M : p < q => Back(k, p) < Back(k, q)
               /\ k = 1 => 1 < Back(k, p)
    BY <1>1 DEF Back, Without
  <1>4. ASSUME NEW p \in 1..M + 1, p # k PROVE \E q \in 1..M : p = Back(k, q)
    <2>1. CASE p < k
      <3>1. p \in 1..M /\ p = Back(k, p)
        BY <1>1, <2>1 DEF Back
      <3> QED BY <3>1
    <2>2. CASE k < p
      <3>1. p - 1 \in 1..M /\ p = Back(k, p - 1)
        BY <1>1, <2>2 DEF Back
      <3> QED BY <3>1
    <2> QED BY <1>1, <1>4, <2>1, <2>2
  <1>5. from2 \in Nat /\ from2 <= last /\ from <= from2
    <2>1. CASE from2 = from
      BY <1>1, <2>1
    <2>2. CASE k = 1 /\ Event(f[1]) /\ f[1].seq = from + 1 /\ from2 = from + 1
      <3>1. f[1].seq # 0 /\ 1 \in 1..Len(f)
        BY <1>1, <2>2
      <3>2. f[1].seq <= last
        BY <2>2, <3>1 DEF FlowOK, Rises
      <3> QED BY <1>1, <2>2, <3>2
    <2> QED BY <2>1, <2>2
  <1>6. ASSUME NEW p \in 1..M + 1, p # k, NEW x \in it[p], f[p].seq # 0 PROVE from2 < f[p].seq
    <2>1. Event(f[p]) /\ from < f[p].seq
      BY <1>1, <1>6 DEF Stream
    <2>2. CASE from2 = from
      BY <2>1, <2>2
    <2>3. CASE k = 1 /\ Event(f[1]) /\ f[1].seq = from + 1 /\ from2 = from + 1
      <3>1. 1 < p /\ 1 \in 1..Len(f)
        BY <1>1, <1>6, <2>3
      <3>2. f[1].seq < f[p].seq
        BY <1>1, <1>6, <2>1, <2>3, <3>1 DEF FlowOK, Rises
      <3> QED BY <2>3, <3>2
    <2> QED BY <2>2, <2>3
  <1>7. ASSUME NEW p \in 1..M, NEW x \in it2[p]
        PROVE  /\ Event(g[p]) /\ low2 < x /\ x <= top
               /\ g[p].seq # 0 => from2 < g[p].seq
    <2>1. Back(k, p) \in 1..Len(f) /\ x \in it[Back(k, p)] /\ Back(k, p) # k
      BY <1>1, <1>3, <1>7
    <2>2. Event(f[Back(k, p)]) /\ x <= top /\ low2 < x
      BY <2>1 DEF Stream
    <2> QED BY <1>1, <1>3, <1>6, <2>1, <2>2
  <1>8. ASSUME NEW p \in 1..M, NEW q \in 1..M, p < q, NEW x \in it2[p], NEW y \in it2[q]
        PROVE  x < y
    <2>1. /\ Back(k, p) \in 1..Len(f) /\ x \in it[Back(k, p)]
          /\ Back(k, q) \in 1..Len(f) /\ y \in it[Back(k, q)]
          /\ Back(k, p) < Back(k, q)
      BY <1>1, <1>3, <1>8
    <2> QED BY <2>1 DEF Stream
  <1>9. ASSUME NEW c \in need2
        PROVE  (\E p \in 1..M : c \in it2[p]) \/ Missed(g, it2, last, from2, c)
    <2>1. CASE \E p \in 1..M + 1 : c \in it[p]
      <3>1. PICK p \in 1..M + 1 : c \in it[p]
        BY <2>1
      <3>2. p # k
        BY <1>9, <3>1
      <3>3. PICK q \in 1..M : p = Back(k, q)
        BY <1>4, <3>2
      <3> QED BY <1>3, <3>1, <3>3
    <2>2. CASE Missed(f, it, last, from, c)
      <3>1. PICK n \in 1..last :
                /\ from < n
                /\ \A p \in 1..M + 1 : Event(f[p]) => f[p].seq # n
                /\ \A p \in 1..M + 1 : \A x \in it[p] : f[p].seq # 0 /\ c < x => n < f[p].seq
        BY <1>1, <2>2 DEF Missed
      <3>2. from2 < n
        <4>1. CASE from2 = from
          BY <3>1, <4>1
        <4>2. CASE k = 1 /\ Event(f[1]) /\ f[1].seq = from + 1 /\ from2 = from + 1
          <5>1. f[1].seq # n
            BY <1>1, <3>1, <4>2
          <5> QED BY <1>1, <3>1, <4>2, <5>1
        <4> QED BY <4>1, <4>2
      <3>3. \A p \in 1..M : Event(g[p]) => g[p].seq # n
        BY <1>3, <3>1
      <3>4. \A p \in 1..M : \A x \in it2[p] : g[p].seq # 0 /\ c < x => n < g[p].seq
        BY <1>3, <3>1
      <3> QED BY <3>1, <3>2, <3>3, <3>4 DEF Missed
    <2>3. c \in need
      BY <1>9
    <2> QED BY <1>1, <2>1, <2>2, <2>3 DEF Stream
  <1>10. need2 \subseteq low2 + 1..top
    <2>1. ASSUME NEW c \in need2 PROVE c \in low2 + 1..top
      <3>1. c \in low + 1..top /\ low2 < c
        BY <2>1 DEF Stream
      <3> QED BY <1>1, <3>1
    <2> QED BY <2>1
  <1> HIDE DEF M
  <1> QED BY <1>5, <1>7, <1>8, <1>9, <1>10 DEF Stream, M

\* What a reader takes next follows on what he has.
LEMMA NextItem ==
    ASSUME NEW f, NEW last, NEW from, NEW low, NEW top, NEW need, NEW it,
           Stream(f, it, last, from, low, top, need),
           Len(f) \in Nat \ {0}, f[1].seq = from + 1, NEW x \in it[1], NEW c \in need, c < x
    PROVE  c \in it[1]
  <1>1. 1 \in 1..Len(f) /\ from \in Nat /\ from # f[1].seq /\ f[1].seq # 0
    BY DEF Stream
  <1>2. CASE \E p \in 1..Len(f) : c \in it[p]
    <2>1. PICK p \in 1..Len(f) : c \in it[p]
      BY <1>2
    <2>2. CASE p = 1
      BY <2>1, <2>2
    <2>3. CASE 1 < p
      <3>1. x < c /\ x \in Nat /\ c \in Nat
        BY <1>1, <2>1, <2>3 DEF Stream
      <3> QED BY <3>1
    <2> QED BY <2>2, <2>3
  <1>3. ~Missed(f, it, last, from, c)
    <2>1. SUFFICES ASSUME NEW n \in 1..last, from < n, n < f[1].seq PROVE FALSE
      BY <1>1 DEF Missed
    <2> QED BY <1>1, <2>1
  <1> QED BY <1>2, <1>3 DEF Stream

-----------------------------------------------------------------------------
(* What follows a reader: the lines after the r-th, which is 0 for one who  *)
(* reads from the first line on, or the position of a snapshot.             *)

Deltas(f, r) ==
    [p \in 1..Len(f) |-> IF r < p /\ f[p].kind = "delta" THEN {f[p].val[1]} ELSE {}]
Chunks(f, r) ==
    [p \in 1..Len(f) |-> IF r < p /\ f[p].kind = "frame"
                         THEN {f[p].val[i] : i \in 1..Len(f[p].val)} ELSE {}]
Widgets(f, r) ==
    [p \in 1..Len(f) |-> IF r < p /\ f[p].kind = "widget" THEN {f[p].val[1]} ELSE {}]

\* What a reader with the items up to low needs of those up to top: all, or the last.
Between(low, top) == low + 1..top
Newest(low, top) == IF low = top THEN {} ELSE {top}

\* Deltas of the transcript that were said when the line was.
Levelled(l) == l.kind \in {"delta", "snap", "response"}
Level(l) == IF l.kind = "response" THEN l.val.at ELSE l.val[1]

\* The transcript: snapshots say how many deltas there were.
DeltasFollow(f, r, last, log, from, level) ==
    /\ Stream(f, Deltas(f, r), last, from, level, log, Between(level, log))
    /\ \A p \in 1..Len(f) : r < p /\ Levelled(f[p]) =>
          level <= Level(f[p]) /\ Level(f[p]) <= log
    /\ \A p, q \in 1..Len(f) : r < p /\ p < q /\ Levelled(f[p]) /\ Levelled(f[q]) =>
          /\ Level(f[p]) <= Level(f[q])
          /\ f[q].kind = "delta" => Level(f[p]) < Level(f[q])

\* The chunks of the open panel.
ChunksFollow(f, r, last, frames, from, chunks) ==
    /\ Stream(f, Chunks(f, r), last, from, chunks, frames, Between(chunks, frames))
    /\ \A p \in 1..Len(f) : r < p /\ f[p].kind = "frame" =>
          \A i \in 1..Len(f[p].val) : f[p].val[i] = f[p].val[1] + (i - 1)
    /\ \A q \in 1..Len(f) : r < q /\ f[q].kind = "closed" =>
          chunks = 0 /\ \A p \in 1..Len(f) : r < p /\ p < q => f[p].kind # "frame"

\* Line p is the last widget before line q.
WidgetBefore(f, r, p, q) ==
    /\ r < p /\ p < q /\ f[p].kind = "widget"
    /\ \A o \in 1..Len(f) : p < o /\ o < q => f[o].kind # "widget"

\* The widget, whose last version is all that matters, and attention for it.
WidgetsFollow(f, r, last, widget, from, shown) ==
    /\ Stream(f, Widgets(f, r), last, from, shown, widget,
              Newest(shown, widget))
    /\ \A q \in 1..Len(f) : r < q /\ f[q].kind = "attention" =>
          \/ \E p \in 1..Len(f) : WidgetBefore(f, r, p, q) /\ f[p].val[1] = f[q].val[1]
          \/ /\ \A p \in 1..Len(f) : r < p /\ p < q => f[p].kind # "widget"
             /\ f[q].val[1] = shown

\* Lines with which the Host renewed its cached snapshot, and what that held then.
Renews(l) ==
    l.kind = "snap" \/ (l.kind = "response" /\ l.val.request.method = "settings")
Renewed(l) == IF l.kind = "snap" THEN l.val[1] ELSE l.val.cached

\* A number the reader does not have is missing.
Hole(f, last, from) ==
    \E n \in 1..last : from < n /\ \A p \in 1..Len(f) : Event(f[p]) => f[p].seq # n

\* The snapshot a reader shows: the Host's, or one that is renewed on the way.
CachesFollow(f, r, last, cached, from, base) ==
    \/ Hole(f, last, from)
    \/ \E p \in 1..Len(f) : /\ r < p /\ Renews(f[p]) /\ Renewed(f[p]) = cached
                           /\ \A q \in 1..Len(f) : p < q => ~Renews(f[q])
    \/ base = cached /\ \A p \in 1..Len(f) : r < p => ~Renews(f[p])

\* What a reader has: numbers, deltas, those of the snapshot shown, chunks, and
\* the widget's version.
Follows(f, r, last, h, b) ==
    /\ r \in Nat /\ r <= Len(f) /\ b.from \in Nat \ {0} /\ b.from <= last
    /\ \A p \in 1..Len(f) : r < p /\ Event(f[p]) /\ f[p].seq # 0 => b.from < f[p].seq
    /\ DeltasFollow(f, r, last, h.log, b.from, b.level)
    /\ ChunksFollow(f, r, last, h.frames, b.from, b.chunks)
    /\ WidgetsFollow(f, r, last, h.widget, b.from, b.shown)
    /\ CachesFollow(f, r, last, h.cached, b.from, b.base)

\* The items of a line are numbers, and few lines carry any.
LEMMA Items ==
    ASSUME NEW f \in Seq(FlowLine), \A p \in 1..Len(f) : Saying(f[p].kind, f[p].val), NEW r
    PROVE  /\ Deltas(f, r) \in [1..Len(f) -> SUBSET Nat]
           /\ Chunks(f, r) \in [1..Len(f) -> SUBSET Nat]
           /\ Widgets(f, r) \in [1..Len(f) -> SUBSET Nat]
  <1>1. ASSUME NEW p \in 1..Len(f)
        PROVE  /\ f[p].kind \in {"delta", "widget", "frame"} =>
                     f[p].val \in Seq(Nat)
               /\ f[p].kind \in {"delta", "widget"} => f[p].val[1] \in Nat
    <2>1. f[p].kind \in {"delta", "widget", "frame"} => f[p].val \in Seq(Nat)
      BY DEF Saying, EventKinds, PlainKinds, Mergeable, Payload
    <2>2. f[p].kind \in {"delta", "widget"} => Len(f[p].val) = 1
      BY DEF Saying
    <2> QED BY <2>1, <2>2
  <1>2. \A p \in 1..Len(f) : f[p].kind = "frame" => \A i \in 1..Len(f[p].val) : f[p].val[i] \in Nat
    BY <1>1
  <1> QED BY <1>1, <1>2 DEF Deltas, Chunks, Widgets

\* The kinds and values that a thinned flow keeps.
LEMMA ThinLines ==
    ASSUME NEW f, NEW g, NEW last, NEW last2, NEW p \in 1..Len(f), Thin(f, last, g, last2)
    PROVE  /\ g[p].kind = f[p].kind \/ (Event(f[p]) /\ g[p].kind = "dropped")
           /\ Event(g[p]) => Event(f[p]) /\ g[p].kind = f[p].kind
           /\ g[p].kind = "response" <=> f[p].kind = "response"
           /\ f[p].kind \notin {"queue", "snap", "dropped"} => g[p].val = f[p].val
           /\ f[p].kind \notin {"queue", "dropped"} /\ ~(g[p].val = f[p].val) =>
                 g[p].val[1] = f[p].val[1]
  BY DEF Thin, Event, EventKinds, PlainKinds, Mergeable

\* A missing number stays missing, and what is lost leaves one.
LEMMA ThinHole ==
    ASSUME NEW f, NEW g, NEW last, NEW last2, NEW rd, NEW from \in Nat,
           FlowOK(f, last, rd), g \in Seq(FlowLine), last2 \in Nat,
           Thin(f, last, g, last2), from <= last
    PROVE  /\ Hole(f, last, from) => Hole(g, last2, from)
           /\ \A p \in 1..Len(f) :
                 /\ Event(f[p]) /\ g[p].kind = "dropped"
                 /\ f[p].seq # 0 => from < f[p].seq
                 => Hole(g, last2, from)
  <1>1. /\ Len(f) \in Nat /\ Len(g) = Len(f) /\ last <= last2 /\ last \in Nat
        /\ \A p \in 1..Len(f) : Event(g[p]) => Event(f[p])
    <2>1. Len(f) \in Nat /\ Len(g) = Len(f) /\ last <= last2 /\ last \in Nat
      BY DEF Thin, FlowOK
    <2>2. \A p \in 1..Len(f) : Event(g[p]) => Event(f[p])
      BY ThinLines
    <2> QED BY <2>1, <2>2
  <1>2. \A p \in 1..Len(f) : f[p].seq \in Nat /\ g[p].seq \in Nat
    <2>1. \A p \in 1..Len(f) : f[p] \in FlowLine /\ g[p] \in FlowLine
      BY <1>1 DEF FlowOK
    <2> QED BY <2>1 DEF FlowLine
  <1>3. ASSUME NEW n \in 1..last, from < n,
               \A p \in 1..Len(f) : Event(f[p]) /\ Event(g[p]) => f[p].seq # n
        PROVE  Hole(g, last2, from)
    <2>1. ASSUME NEW p \in 1..Len(f), Event(g[p]) PROVE g[p].seq # n
      <3>1. f[p].seq # n
        BY <1>1, <1>3, <2>1
      <3>2. g[p].seq # f[p].seq => last < g[p].seq
        BY DEF Thin
      <3> QED BY <1>1, <1>2, <3>1, <3>2
    <2> QED BY <1>1, <1>3, <2>1 DEF Hole
  <1>4. Hole(f, last, from) => Hole(g, last2, from)
    BY <1>3 DEF Hole
  <1>5. ASSUME NEW p \in 1..Len(f), Event(f[p]), g[p].kind = "dropped",
               f[p].seq # 0 => from < f[p].seq
        PROVE  Hole(g, last2, from)
    <2>1. CASE f[p].seq = 0
      <3>1. last < last2 /\ \A q \in 1..Len(f) : Event(g[q]) => g[q].seq <= last
        BY <1>1, <1>5, <2>1 DEF Thin
      <3>2. last + 1 \in 1..last2 /\ from < last + 1
        BY <1>1, <3>1
      <3>3. \A q \in 1..Len(g) : Event(g[q]) => g[q].seq # last + 1
        BY <1>1, <1>2, <3>1
      <3> QED BY <3>2, <3>3 DEF Hole
    <2>2. CASE f[p].seq # 0
      <3>1. f[p].seq <= last /\ from < f[p].seq
        BY <1>5, <2>2 DEF FlowOK, Rises
      <3>2. ASSUME NEW q \in 1..Len(f), Event(f[q]), Event(g[q]) PROVE f[q].seq # f[p].seq
        <4>1. p # q
          BY <1>5, <3>2 DEF Event, EventKinds, PlainKinds, Mergeable
        <4>2. p < q \/ q < p
          BY <1>1, <4>1
        <4>3. CASE p < q
          BY <1>2, <1>5, <2>2, <3>2, <4>3 DEF FlowOK, Rises
        <4>4. CASE q < p
          BY <1>2, <1>5, <2>2, <3>2, <4>4 DEF FlowOK, Rises
        <4> QED BY <4>2, <4>3, <4>4
      <3>3. f[p].seq \in 1..last
        BY <1>1, <1>2, <2>2, <3>1
      <3> QED BY <1>3, <3>1, <3>2, <3>3
    <2> QED BY <2>1, <2>2
  <1> QED BY <1>4, <1>5

\* So does the snapshot, which is renewed, or a number is missing.
LEMMA ThinCaches ==
    ASSUME NEW f, NEW g, NEW last, NEW last2, NEW rd, NEW r \in Nat, NEW cached,
           NEW from \in Nat, NEW base,
           FlowOK(f, last, rd), g \in Seq(FlowLine), last2 \in Nat,
           Thin(f, last, g, last2), from <= last,
           \A p \in 1..Len(f) : r < p /\ Event(f[p]) /\ f[p].seq # 0 => from < f[p].seq,
           CachesFollow(f, r, last, cached, from, base)
    PROVE  CachesFollow(g, r, last2, cached, from, base)
  <1>1. Len(f) \in Nat /\ Len(g) = Len(f)
    BY DEF Thin, FlowOK
  <1>2. Hole(f, last, from) => Hole(g, last2, from)
    BY ThinHole
  <1>3. ASSUME NEW p \in 1..Len(f)
        PROVE  /\ Renews(g[p]) => Renews(f[p]) /\ Renewed(g[p]) = Renewed(f[p])
               /\ Renews(f[p]) => Renews(g[p]) \/ (Event(f[p]) /\ g[p].kind = "dropped")
    <2>1. /\ g[p].kind = f[p].kind \/ (Event(f[p]) /\ g[p].kind = "dropped")
          /\ f[p].kind \notin {"queue", "snap", "dropped"} => g[p].val = f[p].val
          /\ f[p].kind \notin {"queue", "dropped"} /\ ~(g[p].val = f[p].val) =>
                g[p].val[1] = f[p].val[1]
      BY ThinLines
    <2>2. CASE g[p].kind = "dropped" /\ Event(f[p])
      BY <2>2 DEF Renews
    <2>3. CASE g[p].kind = f[p].kind /\ f[p].kind = "snap"
      <3>1. g[p].val[1] = f[p].val[1]
        BY <2>1, <2>3
      <3> QED BY <2>3, <3>1 DEF Renews, Renewed
    <2>4. CASE g[p].kind = f[p].kind /\ f[p].kind = "response"
      BY <2>1, <2>4 DEF Renews, Renewed
    <2>5. CASE g[p].kind = f[p].kind /\ f[p].kind \notin {"snap", "response"}
      BY <2>5 DEF Renews
    <2> QED BY <2>1, <2>2, <2>3, <2>4, <2>5
  <1>4. ASSUME NEW p \in 1..Len(f), r < p, Renews(f[p]), Renewed(f[p]) = cached,
               \A q \in 1..Len(f) : p < q => ~Renews(f[q])
        PROVE  CachesFollow(g, r, last2, cached, from, base)
    <2>1. CASE Renews(g[p])
      BY <1>1, <1>3, <1>4, <2>1 DEF CachesFollow
    <2>2. CASE Event(f[p]) /\ g[p].kind = "dropped"
      <3>1. Hole(g, last2, from)
        BY <1>4, <2>2, ThinHole
      <3> QED BY <3>1 DEF CachesFollow
    <2> QED BY <1>3, <1>4, <2>1, <2>2
  <1>5. CASE base = cached /\ \A p \in 1..Len(f) : r < p => ~Renews(f[p])
    BY <1>1, <1>3, <1>5 DEF CachesFollow
  <1> QED BY <1>2, <1>4, <1>5 DEF CachesFollow

\* A reader's stream survives the loss of lines, since it leaves numbers missing.
LEMMA ThinFollows ==
    ASSUME NEW f, NEW g, NEW last, NEW last2, NEW rd, NEW r, NEW h, NEW b,
           FlowOK(f, last, rd), g \in Seq(FlowLine), last2 \in Nat,
           \A p \in 1..Len(g) : Saying(g[p].kind, g[p].val),
           Thin(f, last, g, last2), Follows(f, r, last, h, b)
    PROVE  Follows(g, r, last2, h, b)
  <1>1. /\ f \in Seq(FlowLine) /\ Len(g) = Len(f) /\ last <= last2 /\ last \in Nat
        /\ \A p \in 1..Len(f) : Saying(f[p].kind, f[p].val)
    BY DEF Thin, FlowOK
  <1>2. \A p \in 1..Len(f) : f[p].seq \in Nat /\ g[p].seq \in Nat
    <2>1. \A p \in 1..Len(f) : f[p] \in FlowLine /\ g[p] \in FlowLine
      BY <1>1
    <2> QED BY <2>1 DEF FlowLine
  <1>3. /\ r \in Nat /\ r <= Len(g) /\ b.from \in Nat \ {0} /\ b.from <= last /\ b.from <= last2
    BY <1>1 DEF Follows
  <1>4. ASSUME NEW p \in 1..Len(f), r < p, Event(g[p]), g[p].seq # 0
        PROVE  b.from < g[p].seq
    <2>1. Event(f[p])
      BY <1>4, ThinLines
    <2>2. CASE g[p].seq = f[p].seq
      BY <1>4, <2>1, <2>2 DEF Follows
    <2>3. CASE g[p].seq # f[p].seq
      BY <1>1, <1>2, <1>3, <2>3 DEF Thin
    <2> QED BY <2>2, <2>3
  <1>5. /\ Deltas(g, r) \in [1..Len(f) -> SUBSET Nat]
        /\ Chunks(g, r) \in [1..Len(f) -> SUBSET Nat]
        /\ Widgets(g, r) \in [1..Len(f) -> SUBSET Nat]
    BY <1>1, Items
  <1>6. ASSUME NEW p \in 1..Len(f)
        PROVE  /\ Deltas(g, r)[p] = IF g[p].kind = f[p].kind THEN Deltas(f, r)[p] ELSE {}
               /\ Chunks(g, r)[p] = IF g[p].kind = f[p].kind THEN Chunks(f, r)[p] ELSE {}
               /\ Widgets(g, r)[p] = IF g[p].kind = f[p].kind THEN Widgets(f, r)[p] ELSE {}
    <2>1. /\ g[p].kind = f[p].kind \/ g[p].kind = "dropped"
          /\ f[p].kind \notin {"queue", "snap", "dropped"} => g[p].val = f[p].val
      BY ThinLines
    <2>2. f[p].kind \in {"delta", "frame", "widget"} => g[p].val = f[p].val
      BY <2>1
    <2> QED BY <1>1, <2>1, <2>2 DEF Deltas, Chunks, Widgets
  <1>7. DeltasFollow(g, r, last2, h.log, b.from, b.level)
    <2>1. Stream(g, Deltas(g, r), last2, b.from, b.level, h.log, Between(b.level, h.log))
      <3>1. Stream(f, Deltas(f, r), last, b.from, b.level, h.log, Between(b.level, h.log))
        BY DEF Follows, DeltasFollow
      <3> QED BY <1>5, <1>6, <3>1, ThinStream
    <2>2. ASSUME NEW p \in 1..Len(f), Levelled(g[p])
          PROVE  Levelled(f[p]) /\ Level(g[p]) = Level(f[p]) /\ g[p].kind = f[p].kind
      <3>1. g[p].kind = f[p].kind /\ f[p].kind \notin {"queue", "dropped"}
        <4>1. g[p].kind = f[p].kind \/ g[p].kind = "dropped"
          BY ThinLines
        <4> QED BY <2>2, <4>1 DEF Levelled
      <3>2. f[p].kind # "snap" => g[p].val = f[p].val
        BY <3>1, ThinLines
      <3>3. g[p].val = f[p].val \/ g[p].val[1] = f[p].val[1]
        BY <3>1, ThinLines
      <3> QED BY <2>2, <3>1, <3>2, <3>3 DEF Levelled, Level
    <2> QED BY <1>1, <2>1, <2>2 DEF Follows, DeltasFollow
  <1>8. ChunksFollow(g, r, last2, h.frames, b.from, b.chunks)
    <2>1. Stream(g, Chunks(g, r), last2, b.from, b.chunks, h.frames, Between(b.chunks, h.frames))
      <3>1. Stream(f, Chunks(f, r), last, b.from, b.chunks, h.frames, Between(b.chunks, h.frames))
        BY DEF Follows, ChunksFollow
      <3> QED BY <1>5, <1>6, <3>1, ThinStream
    <2>2. \A p \in 1..Len(f) : g[p].kind = "frame" => f[p].kind = "frame" /\ g[p].val = f[p].val
      BY ThinLines
    <2>3. \A p \in 1..Len(f) : g[p].kind = "closed" => f[p].kind = "closed"
      BY ThinLines
    <2>4. \A p \in 1..Len(f) : g[p].kind = "frame" =>
              \A i \in 1..Len(g[p].val) :
                  r < p => g[p].val[i] = g[p].val[1] + (i - 1)
      BY <2>2 DEF Follows, ChunksFollow
    <2>5. \A q \in 1..Len(g) : r < q /\ g[q].kind = "closed" =>
              b.chunks = 0 /\ \A p \in 1..Len(g) : r < p /\ p < q => g[p].kind # "frame"
      BY <1>1, <2>2, <2>3 DEF Follows, ChunksFollow
    <2> QED BY <1>1, <2>1, <2>4, <2>5 DEF ChunksFollow
  <1>9. WidgetsFollow(g, r, last2, h.widget, b.from, b.shown)
    <2>1. Stream(g, Widgets(g, r), last2, b.from, b.shown, h.widget,
                 Newest(b.shown, h.widget))
      <3>1. Stream(f, Widgets(f, r), last, b.from, b.shown, h.widget,
                   Newest(b.shown, h.widget))
        BY DEF Follows, WidgetsFollow
      <3> QED BY <1>5, <1>6, <3>1, ThinStream
    <2>2. \A p \in 1..Len(f) : g[p].kind = "widget" => f[p].kind = "widget"
      BY ThinLines
    <2>3. ASSUME NEW q \in 1..Len(f), r < q, g[q].kind = "attention"
          PROVE  \/ \E p \in 1..Len(g) : WidgetBefore(g, r, p, q) /\ g[p].val[1] = g[q].val[1]
                 \/ /\ \A p \in 1..Len(g) : r < p /\ p < q => g[p].kind # "widget"
                    /\ g[q].val[1] = b.shown
      <3>1. f[q].kind = "attention" /\ g[q].val = f[q].val
        BY <2>3, ThinLines
      <3>2. CASE /\ \A p \in 1..Len(f) : r < p /\ p < q => f[p].kind # "widget"
                 /\ f[q].val[1] = b.shown
        BY <1>1, <2>2, <3>1, <3>2
      <3>3. ASSUME NEW p \in 1..Len(f), WidgetBefore(f, r, p, q), f[p].val[1] = f[q].val[1]
            PROVE  WidgetBefore(g, r, p, q) /\ g[p].val[1] = g[q].val[1]
        <4>1. f[p].kind = "widget"
          BY <3>3 DEF WidgetBefore
        <4>2. g[p].kind = "widget"
          <5>1. p < q /\ q \in 1..Len(f)
            BY <3>3 DEF WidgetBefore
          <5>2. g[p].kind # "dropped"
            BY <2>3, <4>1, <5>1 DEF Thin
          <5> QED BY <4>1, <5>2, ThinLines
        <4>3. g[p].val = f[p].val
          BY <4>1, ThinLines
        <4> QED BY <1>1, <2>2, <3>1, <3>3, <4>2, <4>3 DEF WidgetBefore
      <3> QED BY <1>1, <2>3, <3>1, <3>2, <3>3 DEF Follows, WidgetsFollow
    <2> QED BY <1>1, <2>1, <2>3 DEF WidgetsFollow
  <1>10. CachesFollow(g, r, last2, h.cached, b.from, b.base)
    <2>1. /\ CachesFollow(f, r, last, h.cached, b.from, b.base) /\ r \in Nat
          /\ \A p \in 1..Len(f) : r < p /\ Event(f[p]) /\ f[p].seq # 0 => b.from < f[p].seq
      BY DEF Follows
    <2> QED BY <1>1, <1>3, <2>1, ThinCaches
  <1> QED BY <1>1, <1>3, <1>4, <1>7, <1>8, <1>9, <1>10 DEF Follows

\* g is f with one more line.
Longer(f, l, g) ==
    /\ g \in Seq(FlowLine) /\ Len(g) = Len(f) + 1 /\ g[Len(f) + 1] = l
    /\ \A p \in 1..Len(f) : g[p] = f[p]

\* What a new line may say, as the session goes from h to h2.
NewLine(f, r, l, h, h2) ==
    /\ h2.log \in Nat /\ h2.frames \in Nat /\ h2.widget \in Nat
    /\ IF l.kind = "delta" THEN h2.log = h.log + 1 /\ l.val[1] = h2.log ELSE h2.log = h.log
    /\ l.kind = "snap" => l.val[1] = h.log
    /\ l.kind = "response" => l.val.at = h.log
    /\ h2.cached = IF Renews(l) THEN Renewed(l) ELSE h.cached
    /\ IF l.kind = "frame" THEN h2.frames = h.frames + 1 /\ l.val = <<h2.frames>>
       ELSE h2.frames = h.frames
    /\ l.kind = "closed" => h.frames = 0
    /\ IF l.kind = "widget" THEN h.widget < h2.widget /\ l.val[1] = h2.widget
       ELSE h2.widget = h.widget
    /\ l.kind = "attention" =>
          \E p \in 1..Len(f) : /\ r < p /\ f[p].kind = "widget" /\ f[p].val[1] = l.val[1]
                               /\ \A o \in 1..Len(f) : p < o => f[o].kind # "widget"

\* The snapshot the reader shows, when a line comes.
LEMMA AppendCaches ==
    ASSUME NEW f, NEW l, NEW g, NEW last, NEW r \in Nat, NEW cached, NEW cached2,
           NEW from, NEW base, Len(f) \in Nat, r <= Len(f), l.seq = 0, Longer(f, l, g),
           CachesFollow(f, r, last, cached, from, base),
           cached2 = IF Renews(l) THEN Renewed(l) ELSE cached
    PROVE  CachesFollow(g, r, last, cached2, from, base)
  <1>1. /\ Len(g) = Len(f) + 1 /\ g[Len(f) + 1] = l /\ \A p \in 1..Len(f) : g[p] = f[p]
        /\ \A p \in 1..Len(g) : p \in 1..Len(f) \/ p = Len(f) + 1
        /\ Len(f) + 1 \in 1..Len(g) /\ r < Len(f) + 1
        /\ \A p \in 1..Len(f) : p \in 1..Len(g)
        /\ \A p \in 1..Len(g) : ~(Len(f) + 1 < p)
    BY DEF Longer
  <1>2. CASE Renews(l)
    BY <1>1, <1>2 DEF CachesFollow
  <1>3. CASE ~Renews(l)
    <2>1. Hole(f, last, from) => Hole(g, last, from)
      BY <1>1 DEF Hole
    <2>2. \A p \in 1..Len(f) :
              (\A q \in 1..Len(f) : p < q => ~Renews(f[q]))
              => \A q \in 1..Len(g) : p < q => ~Renews(g[q])
      BY <1>1, <1>3
    <2>3. (\A p \in 1..Len(f) : r < p => ~Renews(f[p]))
          => \A p \in 1..Len(g) : r < p => ~Renews(g[p])
      BY <1>1, <1>3
    <2> QED BY <1>1, <1>3, <2>1, <2>2, <2>3 DEF CachesFollow
  <1> QED BY <1>2, <1>3

\* A reader's stream survives a line at the end.
LEMMA AppendFollows ==
    ASSUME NEW f, NEW l, NEW g, NEW last, NEW rd, NEW r, NEW h, NEW h2, NEW b,
           FlowOK(f, last, rd), l \in FlowLine, l.seq = 0, Saying(l.kind, l.val),
           Longer(f, l, g), Follows(f, r, last, h, b), NewLine(f, r, l, h, h2)
    PROVE  Follows(g, r, last, h2, b)
  <1>1. /\ f \in Seq(FlowLine) /\ last \in Nat /\ Len(f) \in Nat /\ g \in Seq(FlowLine)
        /\ Len(f) + 1 \in 1..Len(g)
        /\ Len(g) = Len(f) + 1 /\ g[Len(f) + 1] = l /\ \A p \in 1..Len(f) : g[p] = f[p]
        /\ \A p \in 1..Len(f) : Saying(f[p].kind, f[p].val)
        /\ \A p \in 1..Len(f) + 1 : p \in 1..Len(f) \/ p = Len(f) + 1
    BY DEF FlowOK, Longer
  <1>2. /\ r \in Nat /\ r <= Len(f) /\ b.from \in Nat \ {0} /\ b.from <= last
    BY DEF Follows
  <1>3. \A p \in 1..Len(f) + 1 : r < p /\ Event(g[p]) /\ g[p].seq # 0 => b.from < g[p].seq
    BY <1>1 DEF Follows
  <1>4. \A p \in 1..Len(f) + 1 : Saying(g[p].kind, g[p].val)
    BY <1>1
  <1>5. /\ Deltas(g, r) \in [1..Len(f) + 1 -> SUBSET Nat]
        /\ Chunks(g, r) \in [1..Len(f) + 1 -> SUBSET Nat]
        /\ Widgets(g, r) \in [1..Len(f) + 1 -> SUBSET Nat]
    BY <1>1, <1>4, Items
  <1>6. /\ \A p \in 1..Len(f) : Deltas(g, r)[p] = Deltas(f, r)[p]
        /\ \A p \in 1..Len(f) : Chunks(g, r)[p] = Chunks(f, r)[p]
        /\ \A p \in 1..Len(f) : Widgets(g, r)[p] = Widgets(f, r)[p]
    <2>1. \A p \in 1..Len(f) : p \in 1..Len(g) /\ g[p] = f[p]
      BY <1>1
    <2>2. \A p \in 1..Len(f) : Deltas(g, r)[p] = Deltas(f, r)[p]
      BY <2>1 DEF Deltas
    <2>3. \A p \in 1..Len(f) : Chunks(g, r)[p] = Chunks(f, r)[p]
      <3> SUFFICES ASSUME NEW p \in 1..Len(f) PROVE Chunks(g, r)[p] = Chunks(f, r)[p]
        OBVIOUS
      <3>1. p \in 1..Len(g) /\ g[p] = f[p]
        BY <2>1
      <3>2. Chunks(f, r)[p] = IF r < p /\ f[p].kind = "frame"
                              THEN {f[p].val[i] : i \in 1..Len(f[p].val)} ELSE {}
        BY DEF Chunks
      <3>3. Chunks(g, r)[p] = IF r < p /\ g[p].kind = "frame"
                              THEN {g[p].val[i] : i \in 1..Len(g[p].val)} ELSE {}
        BY <3>1 DEF Chunks
      <3> QED BY <3>1, <3>2, <3>3
    <2>4. \A p \in 1..Len(f) : Widgets(g, r)[p] = Widgets(f, r)[p]
      BY <2>1 DEF Widgets
    <2> QED BY <2>2, <2>3, <2>4
  <1>7. /\ Deltas(g, r)[Len(f) + 1] = IF l.kind = "delta" THEN {l.val[1]} ELSE {}
        /\ Chunks(g, r)[Len(f) + 1] = IF l.kind = "frame"
                                 THEN {l.val[i] : i \in 1..Len(l.val)} ELSE {}
        /\ Widgets(g, r)[Len(f) + 1] = IF l.kind = "widget" THEN {l.val[1]} ELSE {}
    <2>1. Len(f) + 1 \in 1..Len(g) /\ g[Len(f) + 1] = l /\ r < Len(f) + 1
      BY <1>1, <1>2
    <2> QED BY <2>1 DEF Deltas, Chunks, Widgets
  <1>12. /\ Len(f) \in Nat /\ last \in Nat /\ Len(g) = Len(f) + 1
         /\ \A p \in 1..Len(f) : g[p] = f[p]
         /\ g[Len(f) + 1].seq = 0
    BY <1>1
  <1>8. DeltasFollow(g, r, last, h2.log, b.from, b.level)
    <2>1. Stream(f, Deltas(f, r), last, b.from, b.level, h.log, Between(b.level, h.log))
      BY DEF Follows, DeltasFollow
    <2>2. /\ h.log \in Nat /\ b.level \in Nat /\ b.level <= h.log /\ h2.log \in Nat
          /\ IF l.kind = "delta" THEN h2.log = h.log + 1 /\ l.val[1] = h2.log
             ELSE h2.log = h.log
          /\ l.kind = "snap" => l.val[1] = h.log
          /\ l.kind = "response" => l.val.at = h.log
      BY <2>1 DEF NewLine, Stream
    <2>3. Stream(g, Deltas(g, r), last, b.from, b.level, h2.log, Between(b.level, h2.log))
      <3>1. /\ \A x \in Deltas(g, r)[Len(f) + 1] :
                   Event(g[Len(f) + 1]) /\ h.log < x /\ x <= h2.log
            /\ \A c \in Between(b.level, h2.log) :
                   c \in Between(b.level, h.log) \/ c \in Deltas(g, r)[Len(f) + 1]
            /\ h.log <= h2.log
        BY <1>1, <1>7, <2>2 DEF Between, Event, EventKinds, PlainKinds
      <3> QED BY <1>5, <1>6, <1>12, <2>1, <2>2, <3>1, AppendStream
    <2>4. Levelled(l) => Level(l) = h2.log /\ h.log <= Level(l)
                         /\ (l.kind = "delta" => h.log < Level(l))
      BY <2>2 DEF Levelled, Level
    <2>5. \A p \in 1..Len(f) : r < p /\ Levelled(f[p]) => b.level <= Level(f[p]) /\ Level(f[p]) <= h.log
      BY DEF Follows, DeltasFollow
    <2>6. \A p \in 1..Len(f) : Levelled(f[p]) => Level(f[p]) \in Nat
      <3> SUFFICES ASSUME NEW p \in 1..Len(f), Levelled(f[p]) PROVE Level(f[p]) \in Nat
        OBVIOUS
      <3>1. CASE f[p].kind = "response"
        <4>1. f[p].val \in Answers
          BY <1>1, <3>1 DEF Saying
        <4> QED BY <3>1, <4>1 DEF Level, Answers
      <3>2. CASE f[p].kind # "response"
        <4>1. f[p].kind \in {"delta", "snap"}
          BY <3>2 DEF Levelled
        <4>2. f[p].val \in Seq(Nat) /\ Len(f[p].val) \in {1, 2}
          BY <1>1, <4>1 DEF Saying, EventKinds, PlainKinds, Payload
        <4>3. f[p].val[1] \in Nat
          BY <4>2
        <4> QED BY <3>2, <4>3 DEF Level
      <3> QED BY <3>1, <3>2
    <2>7. \A p \in 1..Len(f) + 1 : r < p /\ Levelled(g[p]) =>
              b.level <= Level(g[p]) /\ Level(g[p]) <= h2.log
      BY <1>1, <2>2, <2>4, <2>5, <2>6
    <2>8. \A p, q \in 1..Len(f) + 1 : r < p /\ p < q /\ Levelled(g[p]) /\ Levelled(g[q]) =>
              /\ Level(g[p]) <= Level(g[q])
              /\ g[q].kind = "delta" => Level(g[p]) < Level(g[q])
      <3> SUFFICES ASSUME NEW p \in 1..Len(f) + 1, NEW q \in 1..Len(f) + 1, r < p, p < q,
                          Levelled(g[p]), Levelled(g[q])
                   PROVE  /\ Level(g[p]) <= Level(g[q])
                          /\ g[q].kind = "delta" => Level(g[p]) < Level(g[q])
        OBVIOUS
      <3>1. p \in 1..Len(f) /\ g[p] = f[p]
        BY <1>1
      <3>2. CASE q \in 1..Len(f)
        BY <1>1, <3>1, <3>2 DEF Follows, DeltasFollow
      <3>3. CASE q = Len(f) + 1
        BY <1>1, <2>2, <2>4, <2>5, <2>6, <3>1, <3>3
      <3> QED BY <1>1, <3>2, <3>3
    <2> QED BY <1>1, <2>3, <2>7, <2>8 DEF DeltasFollow
  <1>9. ChunksFollow(g, r, last, h2.frames, b.from, b.chunks)
    <2>1. Stream(f, Chunks(f, r), last, b.from, b.chunks, h.frames, Between(b.chunks, h.frames))
      BY DEF Follows, ChunksFollow
    <2>2. /\ h.frames \in Nat /\ b.chunks \in Nat /\ b.chunks <= h.frames /\ h2.frames \in Nat
          /\ IF l.kind = "frame" THEN h2.frames = h.frames + 1 /\ l.val = <<h2.frames>>
             ELSE h2.frames = h.frames
          /\ l.kind = "closed" => h.frames = 0
      BY <2>1 DEF NewLine, Stream
    <2>3. Stream(g, Chunks(g, r), last, b.from, b.chunks, h2.frames, Between(b.chunks, h2.frames))
      <3>1. l.kind = "frame" => Chunks(g, r)[Len(f) + 1] = {h2.frames}
        <4>1. SUFFICES ASSUME l.kind = "frame"
                       PROVE  Chunks(g, r)[Len(f) + 1] = {h2.frames}
          OBVIOUS
        <4>2. l.val = <<h2.frames>>
          BY <2>2, <4>1
        <4>3. Len(l.val) = 1 /\ l.val[1] = h2.frames
          BY <4>2
        <4>4. Chunks(g, r)[Len(f) + 1] = {l.val[i] : i \in {1}}
          BY <1>7, <4>1, <4>3
        <4> QED BY <4>3, <4>4
      <3>2. l.kind # "frame" => Chunks(g, r)[Len(f) + 1] = {}
        BY <1>7
      <3>3. /\ \A x \in Chunks(g, r)[Len(f) + 1] :
                   Event(g[Len(f) + 1]) /\ h.frames < x /\ x <= h2.frames
            /\ \A c \in Between(b.chunks, h2.frames) :
                   c \in Between(b.chunks, h.frames) \/ c \in Chunks(g, r)[Len(f) + 1]
            /\ h.frames <= h2.frames
        BY <1>1, <2>2, <3>1, <3>2 DEF Between, Event, EventKinds, Mergeable
      <3> QED BY <1>5, <1>6, <1>12, <2>1, <2>2, <3>3, AppendStream
    <2>4. l.kind = "frame" => \A i \in 1..Len(l.val) : l.val[i] = l.val[1] + (i - 1)
      BY <2>2
    <2>5. \A p \in 1..Len(f) + 1 : r < p /\ g[p].kind = "frame" =>
              \A i \in 1..Len(g[p].val) : g[p].val[i] = g[p].val[1] + (i - 1)
      BY <1>1, <2>4 DEF Follows, ChunksFollow
    <2>6. ASSUME h.frames = 0, NEW p \in 1..Len(f), r < p PROVE f[p].kind # "frame"
      <3>1. SUFFICES ASSUME f[p].kind = "frame" PROVE FALSE
        OBVIOUS
      <3>2. f[p].val \in Seq(Nat) /\ f[p].val # <<>>
        BY <1>1, <3>1 DEF Saying, EventKinds, Mergeable, Payload
      <3>3. 1 \in 1..Len(f[p].val)
        BY <3>2
      <3>4. f[p].val[1] \in Chunks(f, r)[p]
        BY <2>6, <3>1, <3>3 DEF Chunks
      <3>5. f[p].val[1] \in Nat
        BY <3>2, <3>3
      <3> QED BY <2>1, <2>2, <2>6, <3>4, <3>5 DEF Stream
    <2>7. \A q \in 1..Len(f) + 1 : r < q /\ g[q].kind = "closed" =>
              b.chunks = 0 /\ \A p \in 1..Len(f) + 1 : r < p /\ p < q => g[p].kind # "frame"
      <3> SUFFICES ASSUME NEW q \in 1..Len(f) + 1, r < q, g[q].kind = "closed"
                   PROVE  b.chunks = 0 /\ \A p \in 1..Len(f) + 1 : r < p /\ p < q => g[p].kind # "frame"
        OBVIOUS
      <3>1. CASE q \in 1..Len(f)
        BY <1>1, <3>1 DEF Follows, ChunksFollow
      <3>2. CASE q = Len(f) + 1
        BY <1>1, <2>2, <2>6, <3>2
      <3> QED BY <1>1, <3>1, <3>2
    <2> QED BY <1>1, <2>3, <2>5, <2>7 DEF ChunksFollow
  <1>10. WidgetsFollow(g, r, last, h2.widget, b.from, b.shown)
    <2>1. Stream(f, Widgets(f, r), last, b.from, b.shown, h.widget,
                 Newest(b.shown, h.widget))
      BY DEF Follows, WidgetsFollow
    <2>2. /\ h.widget \in Nat /\ b.shown \in Nat /\ b.shown <= h.widget /\ h2.widget \in Nat
          /\ IF l.kind = "widget" THEN h.widget < h2.widget /\ l.val[1] = h2.widget
             ELSE h2.widget = h.widget
      BY <2>1 DEF NewLine, Stream
    <2>3. Stream(g, Widgets(g, r), last, b.from, b.shown, h2.widget,
                 Newest(b.shown, h2.widget))
      <3>1. /\ \A x \in Widgets(g, r)[Len(f) + 1] :
                   Event(g[Len(f) + 1]) /\ h.widget < x /\ x <= h2.widget
            /\ \A c \in Newest(b.shown, h2.widget) :
                   \/ c \in Newest(b.shown, h.widget)
                   \/ c \in Widgets(g, r)[Len(f) + 1]
            /\ h.widget <= h2.widget
        BY <1>1, <1>7, <2>2 DEF Newest, Event, EventKinds, Mergeable
      <3> QED BY <1>5, <1>6, <1>12, <2>1, <2>2, <3>1, AppendStream
    <2>4. ASSUME NEW q \in 1..Len(f) + 1, r < q, g[q].kind = "attention"
          PROVE  \/ \E p \in 1..Len(f) + 1 : WidgetBefore(g, r, p, q) /\ g[p].val[1] = g[q].val[1]
                 \/ /\ \A p \in 1..Len(f) + 1 : r < p /\ p < q => g[p].kind # "widget"
                    /\ g[q].val[1] = b.shown
      <3>1. CASE q \in 1..Len(f)
        <4>1. \/ \E p \in 1..Len(f) : WidgetBefore(f, r, p, q) /\ f[p].val[1] = f[q].val[1]
              \/ /\ \A p \in 1..Len(f) : r < p /\ p < q => f[p].kind # "widget"
                 /\ f[q].val[1] = b.shown
          BY <1>1, <2>4, <3>1 DEF Follows, WidgetsFollow
        <4>2. ASSUME NEW p \in 1..Len(f), WidgetBefore(f, r, p, q), f[p].val[1] = f[q].val[1]
              PROVE  WidgetBefore(g, r, p, q) /\ g[p].val[1] = g[q].val[1]
          BY <1>1, <3>1, <4>2 DEF WidgetBefore
        <4> QED BY <1>1, <3>1, <4>1, <4>2
      <3>2. CASE q = Len(f) + 1
        <4>1. PICK p \in 1..Len(f) : /\ r < p /\ f[p].kind = "widget" /\ f[p].val[1] = l.val[1]
                                /\ \A o \in 1..Len(f) : p < o => f[o].kind # "widget"
          BY <1>1, <2>4, <3>2 DEF NewLine
        <4>2. WidgetBefore(g, r, p, q) /\ g[p].val[1] = g[q].val[1]
          BY <1>1, <3>2, <4>1 DEF WidgetBefore
        <4> QED BY <4>2
      <3> QED BY <1>1, <3>1, <3>2
    <2> QED BY <1>1, <2>3, <2>4 DEF WidgetsFollow
  <1>11. r <= Len(g)
    BY <1>1, <1>2
  <1>13. CachesFollow(g, r, last, h2.cached, b.from, b.base)
    <2>1. /\ CachesFollow(f, r, last, h.cached, b.from, b.base)
          /\ h2.cached = IF Renews(l) THEN Renewed(l) ELSE h.cached
      BY DEF Follows, NewLine
    <2> QED BY <1>1, <1>2, <2>1, AppendCaches
  <1> QED BY <1>1, <1>2, <1>3, <1>8, <1>9, <1>10, <1>11, <1>13 DEF Follows

\* g is f with another value in line k, which has no number.
Replaced(f, k, g) ==
    /\ g \in Seq(FlowLine) /\ Len(g) = Len(f) /\ k \in 1..Len(f)
    /\ Event(f[k]) /\ f[k].seq = 0
    /\ \A p \in 1..Len(f) : g[p].kind = f[p].kind /\ g[p].seq = f[p].seq
    /\ \A p \in 1..Len(f) : p # k => g[p] = f[p]

\* The snapshot the reader shows, when what is replaced is none.
LEMMA ReplacedCaches ==
    ASSUME NEW f, NEW g, NEW k, NEW last, NEW r, NEW cached, NEW from, NEW base,
           Replaced(f, k, g), f[k].kind \in {"frame", "widget"},
           CachesFollow(f, r, last, cached, from, base)
    PROVE  CachesFollow(g, r, last, cached, from, base)
  <1>1. /\ 1..Len(g) = 1..Len(f)
        /\ \A p \in 1..Len(f) : g[p].kind = f[p].kind /\ g[p].seq = f[p].seq
        /\ \A p \in 1..Len(f) : f[p].kind \notin {"frame", "widget"} => g[p] = f[p]
    BY DEF Replaced
  <1>2. ASSUME NEW p \in 1..Len(f)
        PROVE  /\ Renews(f[p]) => Renews(g[p]) /\ Renewed(g[p]) = Renewed(f[p])
               /\ Renews(g[p]) => Renews(f[p])
    <2>1. Renews(f[p]) \/ Renews(g[p]) => g[p] = f[p]
      BY <1>1 DEF Renews
    <2> QED BY <2>1, Zenon
  <1>3. Hole(f, last, from) => Hole(g, last, from)
    BY <1>1 DEF Hole, Event
  <1>4. ASSUME NEW p \in 1..Len(f), r < p, Renews(f[p]), Renewed(f[p]) = cached,
               \A q \in 1..Len(f) : p < q => ~Renews(f[q])
        PROVE  CachesFollow(g, r, last, cached, from, base)
    <2>1. Renews(g[p]) /\ Renewed(g[p]) = cached
      BY <1>2, <1>4, Zenon
    <2>2. \A q \in 1..Len(g) : p < q => ~Renews(g[q])
      BY <1>1, <1>2, <1>4, Zenon
    <2> QED BY <1>1, <1>4, <2>1, <2>2, Zenon DEF CachesFollow
  <1>5. CASE base = cached /\ \A p \in 1..Len(f) : r < p => ~Renews(f[p])
    <2>1. \A p \in 1..Len(g) : r < p => ~Renews(g[p])
      BY <1>1, <1>2, <1>5, Zenon
    <2> QED BY <1>5, <2>1, Zenon DEF CachesFollow
  <1>6. Hole(f, last, from) => CachesFollow(g, r, last, cached, from, base)
    BY <1>3 DEF CachesFollow
  <1> QED BY <1>4, <1>5, <1>6 DEF CachesFollow

\* v is u with x at the end.
Joined(u, v, x) ==
    /\ u \in Seq(Nat) /\ v \in Seq(Nat) /\ Len(v) = Len(u) + 1 /\ v[Len(v)] = x
    /\ \A i \in 1..Len(u) : v[i] = u[i]

\* A reader's stream survives a chunk more in the last line of chunks.
LEMMA JoinFollows ==
    ASSUME NEW f, NEW g, NEW k, NEW last, NEW rd, NEW r, NEW h, NEW h2, NEW b,
           FlowOK(f, last, rd), Replaced(f, k, g), Follows(f, r, last, h, b), r < k,
           f[k].kind = "frame", \A p \in 1..Len(f) : k < p => f[p].kind # "frame",
           f[k].val[Len(f[k].val)] = h.frames, 
           Joined(f[k].val, g[k].val, h2.frames),
           h2.log = h.log, h2.frames = h.frames + 1, h2.widget = h.widget,
           h2.cached = h.cached
    PROVE  Follows(g, r, last, h2, b)
  <1>1. /\ f \in Seq(FlowLine) /\ last \in Nat /\ Len(f) \in Nat /\ g \in Seq(FlowLine)
        /\ Len(g) = Len(f) /\ k \in 1..Len(f)
        /\ \A p \in 1..Len(f) : Saying(f[p].kind, f[p].val)
    BY DEF FlowOK, Replaced
  <1>2. /\ r \in Nat /\ r <= Len(f) /\ b.from \in Nat \ {0} /\ b.from <= last
    BY DEF Follows
  <1>3. /\ h.frames \in Nat /\ h2.frames \in Nat /\ h2.frames = h.frames + 1
    BY DEF Follows, ChunksFollow, Stream
  <1>4. /\ \A p \in 1..Len(f) : g[p].kind = f[p].kind /\ g[p].seq = f[p].seq
        /\ \A p \in 1..Len(f) : f[p].kind # "frame" => g[p] = f[p]
        /\ \A p \in 1..Len(f) : p # k => g[p] = f[p]
    BY DEF Replaced
  <1>5. \A p \in 1..Len(g) : r < p /\ Event(g[p]) /\ g[p].seq # 0 => b.from < g[p].seq
    BY <1>1, <1>4 DEF Follows, Event
  <1>6. /\ f[k].val \in Seq(Nat) /\ Len(f[k].val) \in Nat \ {0}
        /\ g[k].val \in Seq(Nat) /\ Len(g[k].val) = Len(f[k].val) + 1
        /\ g[k].val[Len(g[k].val)] = h2.frames
        /\ \A i \in 1..Len(f[k].val) : g[k].val[i] = f[k].val[i]
    <2>1. f[k].val \in Seq(Nat) /\ f[k].val # <<>>
      BY <1>1 DEF Saying, EventKinds, Mergeable, Payload
    <2>2. Len(f[k].val) \in Nat \ {0}
      BY <2>1
    <2> QED BY <2>1, <2>2 DEF Joined
  <1>7. \A p \in 1..Len(g) : Saying(g[p].kind, g[p].val)
    <2> SUFFICES ASSUME NEW p \in 1..Len(f) PROVE Saying(g[p].kind, g[p].val)
      BY <1>1
    <2>1. CASE p # k
      BY <1>1, <1>4, <2>1
    <2>2. CASE p = k
      <3>1. g[k].kind = "frame" /\ g[k].val \in Seq(Nat)
        BY <1>1, <1>4, <1>6
      <3>2. g[k].val # <<>>
        BY <1>6
      <3> QED BY <2>2, <3>1, <3>2 DEF Saying, Payload
    <2> QED BY <2>1, <2>2
  <1>8. DeltasFollow(g, r, last, h2.log, b.from, b.level)
    <2>1. Deltas(g, r) \in [1..Len(f) -> SUBSET Nat]
      BY <1>1, <1>7, Items
    <2>2. \A p \in 1..Len(f) : Deltas(g, r)[p] = Deltas(f, r)[p]
      BY <1>1, <1>4 DEF Deltas
    <2>3. Stream(g, Deltas(g, r), last, b.from, b.level, h.log, Between(b.level, h.log))
      <3>1. Stream(f, Deltas(f, r), last, b.from, b.level, h.log, Between(b.level, h.log))
        BY DEF Follows, DeltasFollow
      <3> QED BY <1>1, <1>4, <2>1, <2>2, <3>1, SameStream
    <2>4. \A p \in 1..Len(f) : Levelled(g[p]) => Levelled(f[p]) /\ g[p] = f[p]
      BY <1>4 DEF Levelled
    <2> QED BY <1>1, <2>3, <2>4 DEF Follows, DeltasFollow
  <1>9. ChunksFollow(g, r, last, h2.frames, b.from, b.chunks)
    <2>1. Stream(f, Chunks(f, r), last, b.from, b.chunks, h.frames, Between(b.chunks, h.frames))
      BY DEF Follows, ChunksFollow
    <2>2. Chunks(g, r) \in [1..Len(f) -> SUBSET Nat]
      BY <1>1, <1>7, Items
    <2>3. \A p \in 1..Len(f) : p # k => Chunks(g, r)[p] = Chunks(f, r)[p]
      <3> SUFFICES ASSUME NEW p \in 1..Len(f), p # k PROVE Chunks(g, r)[p] = Chunks(f, r)[p]
        OBVIOUS
      <3>1. p \in 1..Len(g) /\ g[p] = f[p]
        BY <1>1, <1>4
      <3>2. Chunks(f, r)[p] = IF r < p /\ f[p].kind = "frame"
                              THEN {f[p].val[i] : i \in 1..Len(f[p].val)} ELSE {}
        BY DEF Chunks
      <3>3. Chunks(g, r)[p] = IF r < p /\ g[p].kind = "frame"
                              THEN {g[p].val[i] : i \in 1..Len(g[p].val)} ELSE {}
        BY <3>1 DEF Chunks
      <3> QED BY <3>1, <3>2, <3>3
    <2>4. \A p \in 1..Len(f) : k < p => Chunks(f, r)[p] = {}
      BY DEF Chunks
    <2>5. /\ Chunks(f, r)[k] = {f[k].val[i] : i \in 1..Len(f[k].val)}
          /\ Chunks(g, r)[k] = {g[k].val[i] : i \in 1..Len(g[k].val)}
      BY <1>1, <1>4 DEF Chunks
    <2>6. \A x \in Chunks(g, r)[k] : x \in Chunks(f, r)[k] \/ x = h2.frames
      <3> SUFFICES ASSUME NEW i \in 1..Len(g[k].val)
                   PROVE  g[k].val[i] \in Chunks(f, r)[k] \/ g[k].val[i] = h2.frames
        BY <2>5
      <3>1. CASE i \in 1..Len(f[k].val)
        BY <1>6, <2>5, <3>1
      <3>2. CASE i \notin 1..Len(f[k].val)
        <4>1. i = Len(g[k].val)
          BY <1>6, <3>2
        <4> QED BY <1>6, <4>1
      <3> QED BY <3>1, <3>2
    <2>7. \A x \in Chunks(f, r)[k] : x \in Chunks(g, r)[k]
      <3> SUFFICES ASSUME NEW i \in 1..Len(f[k].val)
                   PROVE  f[k].val[i] \in Chunks(g, r)[k]
        BY <2>5
      <3>1. i \in 1..Len(g[k].val) /\ g[k].val[i] = f[k].val[i]
        BY <1>6
      <3> QED BY <2>5, <3>1
    <2>8. h2.frames \in Chunks(g, r)[k]
      <3>1. Len(g[k].val) \in 1..Len(g[k].val)
        BY <1>6
      <3> QED BY <1>6, <2>5, <3>1
    <2>9. b.chunks \in Nat /\ b.chunks <= h.frames /\ h.frames <= h2.frames
      BY <1>3, <2>1 DEF Stream
    <2>10. \A c \in Between(b.chunks, h2.frames) :
              \/ c \in Chunks(g, r)[k]
              \/ c \in Between(b.chunks, h.frames) /\ c \notin Chunks(f, r)[k]
      <3> SUFFICES ASSUME NEW c \in Between(b.chunks, h2.frames), c \notin Chunks(g, r)[k]
                   PROVE  c \in Between(b.chunks, h.frames) /\ c \notin Chunks(f, r)[k]
        OBVIOUS
      <3>1. c # h2.frames
        BY <2>8
      <3>2. c \in Between(b.chunks, h.frames)
        BY <1>3, <2>9, <3>1 DEF Between
      <3> QED BY <2>7, <3>2
    <2>11. \A x \in Chunks(g, r)[k] : x \in Chunks(f, r)[k] \/ (h.frames < x /\ x <= h2.frames)
      BY <1>3, <2>6
    <2>12. k \in 1..Len(f) /\ Event(f[k]) /\ f[k].seq = 0
      BY DEF Replaced
    <2>13. Stream(g, Chunks(g, r), last, b.from, b.chunks, h2.frames, Between(b.chunks, h2.frames))
      BY <1>1, <1>3, <1>4, <2>1, <2>2, <2>3, <2>4, <2>9, <2>10, <2>11, <2>12, MergeStream
    <2>14. ASSUME NEW p \in 1..Len(f), r < p, g[p].kind = "frame", NEW i \in 1..Len(g[p].val)
           PROVE  g[p].val[i] = g[p].val[1] + (i - 1)
      <3>1. CASE p # k
        BY <1>4, <2>14, <3>1 DEF Follows, ChunksFollow
      <3>2. CASE p = k
        <4>1. \A j \in 1..Len(f[k].val) : f[k].val[j] = f[k].val[1] + (j - 1)
          BY <2>14, <3>2, <1>1 DEF Follows, ChunksFollow
        <4>2. h.frames = f[k].val[1] + (Len(f[k].val) - 1) /\ g[k].val[1] = f[k].val[1]
              /\ f[k].val[1] \in Nat
          <5>1. Len(f[k].val) \in 1..Len(f[k].val) /\ 1 \in 1..Len(f[k].val)
            BY <1>6
          <5>2. h.frames = f[k].val[1] + (Len(f[k].val) - 1)
            BY <4>1, <5>1
          <5>3. f[k].val[1] \in Nat
            BY <1>6, <5>1
          <5>4. g[k].val[1] = f[k].val[1]
            BY <1>6, <5>1
          <5> QED BY <5>2, <5>3, <5>4
        <4>3. CASE i \in 1..Len(f[k].val)
          BY <1>6, <3>2, <4>1, <4>2, <4>3
        <4>4. CASE i = Len(f[k].val) + 1
          <5>1. g[k].val[i] = h2.frames
            BY <1>6, <4>4
          <5>2. h2.frames = f[k].val[1] + (i - 1)
            <6> DEFINE N == Len(f[k].val)
            <6>1. N \in Nat /\ h.frames = f[k].val[1] + (N - 1) /\ f[k].val[1] \in Nat /\ i = N + 1
              BY <1>6, <4>2, <4>4
            <6> HIDE DEF N
            <6> QED BY <1>3, <6>1
          <5> QED BY <3>2, <4>2, <5>1, <5>2
        <4> QED BY <1>6, <2>14, <3>2, <4>3, <4>4
      <3> QED BY <3>1, <3>2
    <2>15. \A q \in 1..Len(g) : r < q /\ g[q].kind = "closed" =>
              b.chunks = 0 /\ \A p \in 1..Len(g) : r < p /\ p < q => g[p].kind # "frame"
      BY <1>1, <1>4 DEF Follows, ChunksFollow
    <2> QED BY <1>1, <2>13, <2>14, <2>15 DEF ChunksFollow
  <1>10. WidgetsFollow(g, r, last, h2.widget, b.from, b.shown)
    <2>1. Widgets(g, r) \in [1..Len(f) -> SUBSET Nat]
      BY <1>1, <1>7, Items
    <2>2. \A p \in 1..Len(f) : Widgets(g, r)[p] = Widgets(f, r)[p]
      BY <1>1, <1>4 DEF Widgets
    <2>3. Stream(g, Widgets(g, r), last, b.from, b.shown, h.widget, Newest(b.shown, h.widget))
      <3>1. Stream(f, Widgets(f, r), last, b.from, b.shown, h.widget, Newest(b.shown, h.widget))
        BY DEF Follows, WidgetsFollow
      <3> QED BY <1>1, <1>4, <2>1, <2>2, <3>1, SameStream
    <2>4. \A p \in 1..Len(f) : g[p].kind \in {"widget", "attention"} => g[p] = f[p]
      BY <1>4
    <2>5. ASSUME NEW q \in 1..Len(g), r < q, g[q].kind = "attention"
          PROVE  \/ \E p \in 1..Len(g) : WidgetBefore(g, r, p, q) /\ g[p].val[1] = g[q].val[1]
                 \/ /\ \A p \in 1..Len(g) : r < p /\ p < q => g[p].kind # "widget"
                    /\ g[q].val[1] = b.shown
      <3>1. \/ \E p \in 1..Len(f) : WidgetBefore(f, r, p, q) /\ f[p].val[1] = f[q].val[1]
            \/ /\ \A p \in 1..Len(f) : r < p /\ p < q => f[p].kind # "widget"
               /\ f[q].val[1] = b.shown
        BY <1>1, <1>4, <2>5 DEF Follows, WidgetsFollow
      <3>2. ASSUME NEW p \in 1..Len(f), WidgetBefore(f, r, p, q), f[p].val[1] = f[q].val[1]
            PROVE  WidgetBefore(g, r, p, q) /\ g[p].val[1] = g[q].val[1]
        BY <1>1, <1>4, <2>4, <2>5, <3>2 DEF WidgetBefore
      <3> QED BY <1>1, <1>4, <2>4, <2>5, <3>1, <3>2
    <2> QED BY <1>1, <2>3, <2>5 DEF WidgetsFollow
  <1>11. CachesFollow(g, r, last, h2.cached, b.from, b.base)
    <2>1. CachesFollow(f, r, last, h.cached, b.from, b.base)
      BY DEF Follows
    <2> QED BY <2>1, ReplacedCaches
  <1> QED BY <1>1, <1>2, <1>5, <1>8, <1>9, <1>10, <1>11 DEF Follows

\* A reader's stream survives a new version in the last widget.
LEMMA UpdateFollows ==
    ASSUME NEW f, NEW g, NEW k, NEW last, NEW rd, NEW r, NEW h, NEW h2, NEW b,
           FlowOK(f, last, rd), Replaced(f, k, g), Follows(f, r, last, h, b), r < k,
           f[k].kind = "widget", Saying("widget", g[k].val), g[k].val[1] = h2.widget,
           \A p \in 1..Len(f) : k < p => f[p].kind \notin {"widget", "attention"},
           h2.log = h.log, h2.frames = h.frames, h2.widget \in Nat, h.widget < h2.widget,
           h2.cached = h.cached
    PROVE  Follows(g, r, last, h2, b)
  <1>1. /\ f \in Seq(FlowLine) /\ last \in Nat /\ Len(f) \in Nat /\ g \in Seq(FlowLine)
        /\ Len(g) = Len(f) /\ k \in 1..Len(f)
        /\ \A p \in 1..Len(f) : Saying(f[p].kind, f[p].val)
    BY DEF FlowOK, Replaced
  <1>2. /\ r \in Nat /\ r <= Len(f) /\ b.from \in Nat \ {0} /\ b.from <= last
    BY DEF Follows
  <1>4. /\ \A p \in 1..Len(f) : g[p].kind = f[p].kind /\ g[p].seq = f[p].seq
        /\ \A p \in 1..Len(f) : f[p].kind # "widget" => g[p] = f[p]
        /\ \A p \in 1..Len(f) : p # k => g[p] = f[p]
    BY DEF Replaced
  <1>5. \A p \in 1..Len(g) : r < p /\ Event(g[p]) /\ g[p].seq # 0 => b.from < g[p].seq
    BY <1>1, <1>4 DEF Follows, Event
  <1>6. \A p \in 1..Len(g) : Saying(g[p].kind, g[p].val)
    <2> SUFFICES ASSUME NEW p \in 1..Len(f) PROVE Saying(g[p].kind, g[p].val)
      BY <1>1
    <2>1. CASE p # k
      BY <1>1, <1>4, <2>1
    <2>2. CASE p = k
      BY <1>4, <2>2
    <2> QED BY <2>1, <2>2
  <1>7. /\ Deltas(g, r) \in [1..Len(f) -> SUBSET Nat]
        /\ Chunks(g, r) \in [1..Len(f) -> SUBSET Nat]
        /\ Widgets(g, r) \in [1..Len(f) -> SUBSET Nat]
    BY <1>1, <1>6, Items
  <1>8. DeltasFollow(g, r, last, h2.log, b.from, b.level)
    <2>1. \A p \in 1..Len(f) : Deltas(g, r)[p] = Deltas(f, r)[p]
      BY <1>1, <1>4 DEF Deltas
    <2>2. Stream(g, Deltas(g, r), last, b.from, b.level, h.log, Between(b.level, h.log))
      <3>1. Stream(f, Deltas(f, r), last, b.from, b.level, h.log, Between(b.level, h.log))
        BY DEF Follows, DeltasFollow
      <3> QED BY <1>1, <1>4, <1>7, <2>1, <3>1, SameStream
    <2>3. \A p \in 1..Len(f) : Levelled(g[p]) => Levelled(f[p]) /\ g[p] = f[p]
      BY <1>4 DEF Levelled
    <2> QED BY <1>1, <2>2, <2>3 DEF Follows, DeltasFollow
  <1>9. ChunksFollow(g, r, last, h2.frames, b.from, b.chunks)
    <2>1. \A p \in 1..Len(f) : Chunks(g, r)[p] = Chunks(f, r)[p]
      <3> SUFFICES ASSUME NEW p \in 1..Len(f) PROVE Chunks(g, r)[p] = Chunks(f, r)[p]
        OBVIOUS
      <3>1. /\ p \in 1..Len(g) /\ g[p].kind = f[p].kind
            /\ f[p].kind # "widget" => g[p] = f[p]
        BY <1>1, <1>4
      <3>2. Chunks(f, r)[p] = IF r < p /\ f[p].kind = "frame"
                              THEN {f[p].val[i] : i \in 1..Len(f[p].val)} ELSE {}
        BY DEF Chunks
      <3>3. Chunks(g, r)[p] = IF r < p /\ g[p].kind = "frame"
                              THEN {g[p].val[i] : i \in 1..Len(g[p].val)} ELSE {}
        BY <3>1 DEF Chunks
      <3> QED BY <3>1, <3>2, <3>3
    <2>2. Stream(g, Chunks(g, r), last, b.from, b.chunks, h.frames, Between(b.chunks, h.frames))
      <3>1. Stream(f, Chunks(f, r), last, b.from, b.chunks, h.frames, Between(b.chunks, h.frames))
        BY DEF Follows, ChunksFollow
      <3> QED BY <1>1, <1>4, <1>7, <2>1, <3>1, SameStream
    <2>3. \A p \in 1..Len(f) : g[p].kind = "frame" => f[p].kind = "frame" /\ g[p] = f[p]
      BY <1>4
    <2>4. \A q \in 1..Len(g) : r < q /\ g[q].kind = "closed" =>
              b.chunks = 0 /\ \A p \in 1..Len(g) : r < p /\ p < q => g[p].kind # "frame"
      BY <1>1, <1>4 DEF Follows, ChunksFollow
    <2>5. \A p \in 1..Len(g) : r < p /\ g[p].kind = "frame" =>
              \A i \in 1..Len(g[p].val) : g[p].val[i] = g[p].val[1] + (i - 1)
      BY <1>1, <2>3 DEF Follows, ChunksFollow
    <2> QED BY <1>1, <2>2, <2>4, <2>5 DEF ChunksFollow
  <1>10. WidgetsFollow(g, r, last, h2.widget, b.from, b.shown)
    <2>1. Stream(f, Widgets(f, r), last, b.from, b.shown, h.widget, Newest(b.shown, h.widget))
      BY DEF Follows, WidgetsFollow
    <2>2. \A p \in 1..Len(f) : p # k => Widgets(g, r)[p] = Widgets(f, r)[p]
      BY <1>1, <1>4 DEF Widgets
    <2>3. \A p \in 1..Len(f) : k < p => Widgets(f, r)[p] = {}
      BY DEF Widgets
    <2>4. Widgets(g, r)[k] = {h2.widget}
      BY <1>1, <1>4 DEF Widgets
    <2>5. b.shown \in Nat /\ h.widget \in Nat /\ h.widget <= h2.widget
      BY <2>1 DEF Stream
    <2>6. \A c \in Newest(b.shown, h2.widget) :
              \/ c \in Widgets(g, r)[k]
              \/ c \in Newest(b.shown, h.widget) /\ c \notin Widgets(f, r)[k]
      BY <2>4 DEF Newest
    <2>7. \A x \in Widgets(g, r)[k] : x \in Widgets(f, r)[k] \/ (h.widget < x /\ x <= h2.widget)
      BY <2>4
    <2>8. k \in 1..Len(f) /\ Event(f[k]) /\ f[k].seq = 0
      BY DEF Replaced
    <2>9. Stream(g, Widgets(g, r), last, b.from, b.shown, h2.widget, Newest(b.shown, h2.widget))
      <3>1. /\ Len(f) \in Nat /\ Len(g) = Len(f) /\ last \in Nat
            /\ Widgets(g, r) \in [1..Len(f) -> SUBSET Nat]
            /\ \A p \in 1..Len(f) : g[p].kind = f[p].kind /\ g[p].seq = f[p].seq
        BY <1>1, <1>4, <1>7
      <3> QED BY <2>1, <2>2, <2>3, <2>5, <2>6, <2>7, <2>8, <3>1, MergeStream, SMTT(60)
    <2>10. ASSUME NEW q \in 1..Len(g), r < q, g[q].kind = "attention"
           PROVE  \/ \E p \in 1..Len(g) : WidgetBefore(g, r, p, q) /\ g[p].val[1] = g[q].val[1]
                  \/ /\ \A p \in 1..Len(g) : r < p /\ p < q => g[p].kind # "widget"
                     /\ g[q].val[1] = b.shown
      <3>1. q \in 1..Len(f) /\ f[q].kind = "attention" /\ g[q] = f[q] /\ q < k
        BY <1>1, <1>4, <2>10
      <3>2. \/ \E p \in 1..Len(f) : WidgetBefore(f, r, p, q) /\ f[p].val[1] = f[q].val[1]
            \/ /\ \A p \in 1..Len(f) : r < p /\ p < q => f[p].kind # "widget"
               /\ f[q].val[1] = b.shown
        BY <2>10, <3>1 DEF Follows, WidgetsFollow
      <3>3. ASSUME NEW p \in 1..Len(f), WidgetBefore(f, r, p, q), f[p].val[1] = f[q].val[1]
            PROVE  WidgetBefore(g, r, p, q) /\ g[p].val[1] = g[q].val[1]
        <4>1. p # k
          BY <1>1, <3>1, <3>3 DEF WidgetBefore
        <4> QED BY <1>1, <1>4, <3>1, <3>3, <4>1 DEF WidgetBefore
      <3> QED BY <1>1, <1>4, <3>1, <3>2, <3>3
    <2> QED BY <1>1, <2>9, <2>10 DEF WidgetsFollow
  <1>11. CachesFollow(g, r, last, h2.cached, b.from, b.base)
    <2>1. CachesFollow(f, r, last, h.cached, b.from, b.base)
      BY DEF Follows
    <2> QED BY <2>1, ReplacedCaches
  <1> QED BY <1>1, <1>2, <1>5, <1>8, <1>9, <1>10, <1>11 DEF Follows

\* Positions before and after line k goes.
LEMMA Backs ==
    ASSUME NEW f, NEW g, NEW k, Without(f, k, g), Len(g) \in Nat
    PROVE  /\ \A p \in 1..Len(g) : /\ Back(k, p) \in 1..Len(f) /\ Back(k, p) # k
                                   /\ g[p] = f[Back(k, p)]
           /\ \A p, q \in 1..Len(g) : p < q <=> Back(k, p) < Back(k, q)
           /\ \A p \in 1..Len(f) : p # k => \E q \in 1..Len(g) : p = Back(k, q)
  <1>1. \A p \in 1..Len(g) : /\ Back(k, p) \in 1..Len(f) /\ Back(k, p) # k
                             /\ g[p] = f[Back(k, p)]
    BY DEF Back, Without
  <1>2. \A p, q \in 1..Len(g) : p < q <=> Back(k, p) < Back(k, q)
    BY DEF Back, Without
  <1>3. ASSUME NEW p \in 1..Len(f), p # k PROVE \E q \in 1..Len(g) : p = Back(k, q)
    <2>1. CASE p < k
      <3>1. p \in 1..Len(g) /\ p = Back(k, p)
        BY <2>1 DEF Back, Without
      <3> QED BY <3>1
    <2>2. CASE k < p
      <3>1. p - 1 \in 1..Len(g) /\ p = Back(k, p - 1)
        BY <2>2 DEF Back, Without
      <3> QED BY <3>1
    <2> QED BY <1>3, <2>1, <2>2 DEF Without
  <1> QED BY <1>1, <1>2, <1>3

\* The lines a reader has before it when line k goes.
Ahead(k, r) == IF k <= r THEN r - 1 ELSE r

\* The snapshot a reader shows, when a line goes that he has passed, that renews
\* none, or with which he renews what he shows.
LEMMA WithoutCaches ==
    ASSUME NEW f, NEW g, NEW k, NEW last, NEW r \in Nat, NEW r2 \in Nat, NEW cached,
           NEW from \in Nat, NEW from2 \in Nat, NEW base, NEW base2,
           Len(f) \in Nat, Len(g) \in Nat, Without(f, k, g),
           \A p \in 1..Len(g) : r2 < p <=> r < Back(k, p),
           \/ from2 = from
           \/ k \in 1..Len(f) /\ Event(f[k]) /\ f[k].seq = from2 /\ from2 = from + 1,
           Renews(f[k]) => k <= r \/ k = 1,
           base2 = IF r < k /\ Renews(f[k]) THEN Renewed(f[k]) ELSE base,
           CachesFollow(f, r, last, cached, from, base)
    PROVE  CachesFollow(g, r2, last, cached, from2, base2)
  <1>1. /\ k \in 1..Len(f) /\ k \in Nat
        /\ \A p \in 1..Len(g) : /\ Back(k, p) \in 1..Len(f) /\ Back(k, p) # k
                                /\ g[p] = f[Back(k, p)]
        /\ \A p, q \in 1..Len(g) : p < q <=> Back(k, p) < Back(k, q)
        /\ \A p \in 1..Len(f) : p # k => \E q \in 1..Len(g) : p = Back(k, q)
    <2>1. k \in 1..Len(f) /\ k \in Nat
      BY DEF Without
    <2> QED BY <2>1, Backs, SMTT(60)
  <1>2. CASE Hole(f, last, from)
    <2>1. PICK n \in 1..last : from < n /\ \A p \in 1..Len(f) : Event(f[p]) => f[p].seq # n
      BY <1>2 DEF Hole
    <2>2. from2 < n
      BY <2>1
    <2>3. \A p \in 1..Len(g) : Event(g[p]) => g[p].seq # n
      BY <1>1, <2>1
    <2> QED BY <2>1, <2>2, <2>3 DEF Hole, CachesFollow
  <1>3. ASSUME NEW p \in 1..Len(f), r < p, Renews(f[p]), Renewed(f[p]) = cached,
               \A q \in 1..Len(f) : p < q => ~Renews(f[q])
        PROVE  CachesFollow(g, r2, last, cached, from2, base2)
    <2>1. CASE p = k
      <3>1. ASSUME NEW q \in 1..Len(g), r2 < q, Renews(g[q]) PROVE FALSE
        <4>1. k = 1 /\ Back(k, q) \in 1..Len(f) /\ Back(k, q) # k
          BY <1>1, <1>3, <2>1
        <4>2. p < Back(k, q)
          BY <2>1, <4>1
        <4> QED BY <1>1, <1>3, <3>1, <4>1, <4>2
      <3> QED BY <1>3, <2>1, <3>1 DEF CachesFollow
    <2>2. CASE p # k
      <3>1. PICK o \in 1..Len(g) : p = Back(k, o)
        BY <1>1, <2>2
      <3>2. r2 < o /\ Renews(g[o]) /\ Renewed(g[o]) = cached
        BY <1>1, <1>3, <3>1
      <3>3. \A q \in 1..Len(g) : o < q => ~Renews(g[q])
        BY <1>1, <1>3, <3>1
      <3> QED BY <3>2, <3>3 DEF CachesFollow
    <2> QED BY <2>1, <2>2
  <1>4. CASE base = cached /\ \A p \in 1..Len(f) : r < p => ~Renews(f[p])
    BY <1>1, <1>4 DEF CachesFollow
  <1> QED BY <1>2, <1>3, <1>4 DEF CachesFollow

\* Nothing is lost to a reader with a line he has passed, or that is dropped.
LEMMA FadeFollows ==
    ASSUME NEW f, NEW g, NEW k, NEW last, NEW rd, NEW r, NEW h, NEW b,
           FlowOK(f, last, rd), g \in Seq(FlowLine), Without(f, k, g),
           k <= r \/ f[k].kind = "dropped", Follows(f, r, last, h, b)
    PROVE  Follows(g, Ahead(k, r), last, h, b)
  <1> DEFINE s == Ahead(k, r)
  <1>1. /\ f \in Seq(FlowLine) /\ last \in Nat /\ Len(f) \in Nat /\ Len(g) \in Nat
        /\ k \in 1..Len(f) /\ Len(f) = Len(g) + 1
        /\ \A p \in 1..Len(f) : Saying(f[p].kind, f[p].val)
    BY DEF FlowOK, Without
  <1>2. /\ r \in Nat /\ r <= Len(f) /\ b.from \in Nat \ {0} /\ b.from <= last
    BY DEF Follows
  <1>3. s \in Nat /\ s <= Len(g)
    BY <1>1, <1>2 DEF Ahead
  <1>4. /\ \A p \in 1..Len(g) : /\ Back(k, p) \in 1..Len(f) /\ Back(k, p) # k
                                /\ g[p] = f[Back(k, p)]
        /\ \A p, q \in 1..Len(g) : p < q <=> Back(k, p) < Back(k, q)
        /\ \A p \in 1..Len(f) : p # k => \E q \in 1..Len(g) : p = Back(k, q)
    BY <1>1, Backs
  <1>5. \A p \in 1..Len(g) : s < p <=> r < Back(k, p)
    BY <1>1, <1>2 DEF Ahead, Back
  <1> HIDE DEF s
  <1>6. \A p \in 1..Len(g) : s < p /\ Event(g[p]) /\ g[p].seq # 0 => b.from < g[p].seq
    BY <1>4, <1>5 DEF Follows
  <1>7. \A p \in 1..Len(g) : Saying(g[p].kind, g[p].val)
    BY <1>1, <1>4
  <1>8. /\ Deltas(g, s) \in [1..Len(g) -> SUBSET Nat]
        /\ Chunks(g, s) \in [1..Len(g) -> SUBSET Nat]
        /\ Widgets(g, s) \in [1..Len(g) -> SUBSET Nat]
    BY <1>7, Items
  <1>9. /\ Deltas(f, r)[k] = {} /\ Chunks(f, r)[k] = {} /\ Widgets(f, r)[k] = {}
    BY <1>1, <1>2 DEF Deltas, Chunks, Widgets
  <1>10. ASSUME NEW p \in 1..Len(g)
         PROVE  /\ Deltas(g, s)[p] = Deltas(f, r)[Back(k, p)]
                /\ Chunks(g, s)[p] = Chunks(f, r)[Back(k, p)]
                /\ Widgets(g, s)[p] = Widgets(f, r)[Back(k, p)]
    <2> DEFINE q == Back(k, p)
    <2>1. q \in 1..Len(f) /\ g[p] = f[q] /\ (s < p <=> r < q)
      BY <1>4, <1>5
    <2> HIDE DEF q
    <2>2. Deltas(g, s)[p] = Deltas(f, r)[q]
      BY <2>1 DEF Deltas
    <2>3. Widgets(g, s)[p] = Widgets(f, r)[q]
      BY <2>1 DEF Widgets
    <2>4. Chunks(g, s)[p] = Chunks(f, r)[q]
      BY <2>1 DEF Chunks
    <2> QED BY <2>2, <2>3, <2>4 DEF q
  <1>11. DeltasFollow(g, s, last, h.log, b.from, b.level)
    <2>1. Stream(f, Deltas(f, r), last, b.from, b.level, h.log, Between(b.level, h.log))
      BY DEF Follows, DeltasFollow
    <2>2. b.level \in Nat /\ b.level <= h.log /\ b.from = b.from
      BY <2>1 DEF Stream
    <2>3. \A p \in 1..Len(f) : p # k => \A x \in Deltas(f, r)[p] : b.level < x
      BY <2>1 DEF Stream
    <2>4. \A c \in Between(b.level, h.log) :
              c \in Between(b.level, h.log) /\ c \notin Deltas(f, r)[k] /\ b.level < c
      BY <1>9, <2>2, <2>1 DEF Between, Stream
    <2>5. Stream(g, Deltas(g, s), last, b.from, b.level, h.log, Between(b.level, h.log))
      <3>1. /\ Deltas(g, s) \in [1..Len(g) -> SUBSET Nat]
            /\ \A p \in 1..Len(g) : Deltas(g, s)[p] = Deltas(f, r)[Back(k, p)]
        BY <1>8, <1>10
      <3> QED BY <2>1, <2>2, <2>3, <2>4, <3>1, ShiftStream, SMTT(60)
    <2>6. \A p \in 1..Len(g) : s < p /\ Levelled(g[p]) =>
              b.level <= Level(g[p]) /\ Level(g[p]) <= h.log
      BY <1>4, <1>5 DEF Follows, DeltasFollow
    <2>7. \A p, q \in 1..Len(g) : s < p /\ p < q /\ Levelled(g[p]) /\ Levelled(g[q]) =>
              /\ Level(g[p]) <= Level(g[q])
              /\ g[q].kind = "delta" => Level(g[p]) < Level(g[q])
      BY <1>4, <1>5 DEF Follows, DeltasFollow
    <2> QED BY <2>5, <2>6, <2>7 DEF DeltasFollow
  <1>12. ChunksFollow(g, s, last, h.frames, b.from, b.chunks)
    <2>1. Stream(f, Chunks(f, r), last, b.from, b.chunks, h.frames, Between(b.chunks, h.frames))
      BY DEF Follows, ChunksFollow
    <2>2. b.chunks \in Nat /\ b.chunks <= h.frames /\ b.from = b.from
      BY <2>1 DEF Stream
    <2>3. \A p \in 1..Len(f) : p # k => \A x \in Chunks(f, r)[p] : b.chunks < x
      BY <2>1 DEF Stream
    <2>4. \A c \in Between(b.chunks, h.frames) :
              c \in Between(b.chunks, h.frames) /\ c \notin Chunks(f, r)[k] /\ b.chunks < c
      BY <1>9, <2>2, <2>1 DEF Between, Stream
    <2>5. Stream(g, Chunks(g, s), last, b.from, b.chunks, h.frames, Between(b.chunks, h.frames))
      <3>1. /\ Chunks(g, s) \in [1..Len(g) -> SUBSET Nat]
            /\ \A p \in 1..Len(g) : Chunks(g, s)[p] = Chunks(f, r)[Back(k, p)]
        BY <1>8, <1>10
      <3> QED BY <2>1, <2>2, <2>3, <2>4, <3>1, ShiftStream, SMTT(60)
    <2>6. \A p \in 1..Len(g) : s < p /\ g[p].kind = "frame" =>
              \A i \in 1..Len(g[p].val) : g[p].val[i] = g[p].val[1] + (i - 1)
      BY <1>4, <1>5 DEF Follows, ChunksFollow
    <2>7. \A q \in 1..Len(g) : s < q /\ g[q].kind = "closed" =>
              b.chunks = 0 /\ \A p \in 1..Len(g) : s < p /\ p < q => g[p].kind # "frame"
      BY <1>4, <1>5 DEF Follows, ChunksFollow
    <2> QED BY <2>5, <2>6, <2>7 DEF ChunksFollow
  <1>13. WidgetsFollow(g, s, last, h.widget, b.from, b.shown)
    <2>1. Stream(f, Widgets(f, r), last, b.from, b.shown, h.widget, Newest(b.shown, h.widget))
      BY DEF Follows, WidgetsFollow
    <2>2. b.shown \in Nat /\ h.widget \in Nat /\ b.shown <= h.widget /\ b.from = b.from
      BY <2>1 DEF Stream
    <2>3. \A p \in 1..Len(f) : p # k => \A x \in Widgets(f, r)[p] : b.shown < x
      BY <2>1 DEF Stream
    <2>4. \A c \in Newest(b.shown, h.widget) :
              c \in Newest(b.shown, h.widget) /\ c \notin Widgets(f, r)[k] /\ b.shown < c
      BY <1>9, <2>2 DEF Newest
    <2>5. Stream(g, Widgets(g, s), last, b.from, b.shown, h.widget, Newest(b.shown, h.widget))
      <3>1. /\ Widgets(g, s) \in [1..Len(g) -> SUBSET Nat]
            /\ \A p \in 1..Len(g) : Widgets(g, s)[p] = Widgets(f, r)[Back(k, p)]
        BY <1>8, <1>10
      <3> QED BY <2>1, <2>2, <2>3, <2>4, <3>1, ShiftStream, SMTT(60)
    <2>6. ASSUME NEW q \in 1..Len(g), s < q, g[q].kind = "attention"
          PROVE  \/ \E p \in 1..Len(g) : WidgetBefore(g, s, p, q) /\ g[p].val[1] = g[q].val[1]
                 \/ /\ \A p \in 1..Len(g) : s < p /\ p < q => g[p].kind # "widget"
                    /\ g[q].val[1] = b.shown
      <3> DEFINE t == Back(k, q)
      <3>1. t \in 1..Len(f) /\ r < t /\ f[t] = g[q]
        BY <1>4, <1>5, <2>6
      <3>2. \/ \E p \in 1..Len(f) : WidgetBefore(f, r, p, t) /\ f[p].val[1] = f[t].val[1]
            \/ /\ \A p \in 1..Len(f) : r < p /\ p < t => f[p].kind # "widget"
               /\ f[t].val[1] = b.shown
        BY <2>6, <3>1 DEF Follows, WidgetsFollow
      <3>3. ASSUME NEW p \in 1..Len(f), WidgetBefore(f, r, p, t), f[p].val[1] = f[t].val[1]
            PROVE  \E o \in 1..Len(g) : WidgetBefore(g, s, o, q) /\ g[o].val[1] = g[q].val[1]
        <4>1. p # k
          BY <1>1, <1>2, <3>3 DEF WidgetBefore
        <4>2. PICK o \in 1..Len(g) : p = Back(k, o)
          BY <1>4, <4>1
        <4>3. s < o /\ o < q /\ g[o] = f[p]
          BY <1>4, <1>5, <3>3, <4>2 DEF WidgetBefore
        <4>4. \A i \in 1..Len(g) : o < i /\ i < q => g[i].kind # "widget"
          BY <1>4, <3>3, <4>2 DEF WidgetBefore
        <4> QED BY <3>1, <3>3, <4>3, <4>4 DEF WidgetBefore
      <3>4. ASSUME \A p \in 1..Len(f) : r < p /\ p < t => f[p].kind # "widget"
            PROVE  \A p \in 1..Len(g) : s < p /\ p < q => g[p].kind # "widget"
        BY <1>4, <1>5, <3>4
      <3> HIDE DEF t
      <3> QED BY <3>1, <3>2, <3>3, <3>4
    <2> QED BY <2>5, <2>6 DEF WidgetsFollow
  <1>14. CachesFollow(g, s, last, h.cached, b.from, b.base)
    <2>1. CachesFollow(f, r, last, h.cached, b.from, b.base)
      BY DEF Follows
    <2>2. ~(r < k /\ Renews(f[k])) /\ (Renews(f[k]) => k <= r)
      BY <1>1, <1>2 DEF Renews
    <2>3. b.from \in Nat
      BY <1>2
    <2> QED BY <1>1, <1>2, <1>3, <1>5, <2>1, <2>2, <2>3, WithoutCaches
  <1> QED BY <1>2, <1>3, <1>6, <1>11, <1>12, <1>13, <1>14 DEF Follows, s

-----------------------------------------------------------------------------
(* The reader takes the first line. *)

\* What the reader has after line l, when l is the next number or an answer.
Reads(l, b, b2) ==
    /\ l.kind # "dropped"
    /\ Event(l) => l.seq = b.from + 1
    /\ b2.from = IF Event(l) THEN b.from + 1 ELSE b.from
    /\ b2.level = IF Levelled(l) THEN Level(l) ELSE b.level
    /\ b2.chunks = IF l.kind = "frame" THEN l.val[Len(l.val)] ELSE b.chunks
    /\ b2.shown = IF l.kind = "widget" THEN l.val[1] ELSE b.shown
    /\ b2.base = IF Renews(l) THEN Renewed(l) ELSE b.base

\* Line l is what follows on what he has.
Resumes(l, b) ==
    /\ l.kind = "delta" => l.val[1] = b.level + 1
    /\ l.kind = "frame" => l.val[1] = b.chunks + 1
    /\ l.kind = "closed" => b.chunks = 0
    /\ l.kind = "attention" => l.val[1] = b.shown

\* What he takes follows on what he has, and the rest follows on that.
LEMMA ReadFollows ==
    ASSUME NEW f, NEW g, NEW last, NEW rd, NEW h, NEW b, NEW b2,
           FlowOK(f, last, rd), g \in Seq(FlowLine), Without(f, 1, g),
           Follows(f, 0, last, h, b), Reads(f[1], b, b2)
    PROVE  Follows(g, 0, last, h, b2) /\ Resumes(f[1], b)
  <1>1. /\ f \in Seq(FlowLine) /\ Len(f) \in Nat /\ Len(g) \in Nat /\ last \in Nat
        /\ 1 \in 1..Len(f) /\ Len(f) = Len(g) + 1 /\ Len(f) \in Nat \ {0}
        /\ \A p \in 1..Len(f) : Saying(f[p].kind, f[p].val)
        /\ \A p \in 1..Len(f) : f[p].seq \in Nat
    <2>1. \A p \in 1..Len(f) : f[p] \in FlowLine
      BY DEF FlowOK
    <2>2. \A p \in 1..Len(f) : f[p].seq \in Nat
      BY <2>1 DEF FlowLine
    <2> QED BY <2>2 DEF FlowOK, Without
  <1>2. \A p \in 1..Len(g) : /\ Back(1, p) = p + 1 /\ p + 1 \in 1..Len(f)
                             /\ g[p] = f[p + 1]
    BY <1>1 DEF Without, Back
  <1>3. \A p \in 1..Len(g) : Saying(g[p].kind, g[p].val)
    BY <1>1, <1>2
  <1>4. \A p \in 1..Len(f) : p # 1 => p - 1 \in 1..Len(g) /\ g[p - 1] = f[p] /\ p = (p - 1) + 1
    BY <1>1, <1>2
  <1>5. /\ b.from \in Nat \ {0} /\ b.from <= last
        /\ \A p \in 1..Len(f) : Event(f[p]) /\ f[p].seq # 0 => b.from < f[p].seq
    BY <1>1 DEF Follows
  <1>6. /\ b2.from = b.from \/ (1 = 1 /\ Event(f[1]) /\ f[1].seq = b.from + 1 /\ b2.from = b.from + 1)
        /\ b2.from \in Nat \ {0} /\ b2.from <= last
    <2>1. CASE Event(f[1])
      <3>1. f[1].seq = b.from + 1 /\ b2.from = b.from + 1
        BY <2>1 DEF Reads
      <3>2. f[1].seq # 0
        BY <1>5, <3>1
      <3>3. f[1].seq <= last
        BY <1>1, <2>1, <3>2 DEF FlowOK, Rises
      <3> QED BY <1>5, <2>1, <3>1, <3>3
    <2>2. CASE ~Event(f[1])
      BY <1>5, <2>2 DEF Reads
    <2> QED BY <2>1, <2>2
  <1>7. ASSUME NEW p \in 1..Len(g), Event(g[p]), g[p].seq # 0
        PROVE  b2.from < g[p].seq
    <2>1. Event(f[p + 1]) /\ f[p + 1].seq # 0 /\ g[p].seq = f[p + 1].seq /\ p + 1 \in 1..Len(f) /\ 1 < p + 1
      BY <1>1, <1>2, <1>7
    <2>2. b.from < f[p + 1].seq
      BY <1>5, <2>1
    <2>3. CASE b2.from = b.from
      BY <2>1, <2>2, <2>3
    <2>4. CASE Event(f[1]) /\ f[1].seq = b.from + 1 /\ b2.from = b.from + 1
      <3>1. f[1].seq < f[p + 1].seq
        BY <1>1, <2>1, <2>4 DEF FlowOK, Rises
      <3> QED BY <2>1, <2>4, <3>1
    <2> QED BY <1>6, <2>3, <2>4
  <1>8. /\ Deltas(g, 0) \in [1..Len(g) -> SUBSET Nat]
        /\ Chunks(g, 0) \in [1..Len(g) -> SUBSET Nat]
        /\ Widgets(g, 0) \in [1..Len(g) -> SUBSET Nat]
    BY <1>3, Items
  <1>9. ASSUME NEW p \in 1..Len(g)
        PROVE  /\ Deltas(g, 0)[p] = Deltas(f, 0)[Back(1, p)]
               /\ Chunks(g, 0)[p] = Chunks(f, 0)[Back(1, p)]
               /\ Widgets(g, 0)[p] = Widgets(f, 0)[Back(1, p)]
    <2>1. /\ Back(1, p) \in 1..Len(f) /\ g[p] = f[Back(1, p)] /\ 0 < p /\ 0 < Back(1, p)
      BY <1>1, <1>2
    <2>2. Deltas(g, 0)[p] = Deltas(f, 0)[Back(1, p)]
      BY <2>1 DEF Deltas
    <2>3. Widgets(g, 0)[p] = Widgets(f, 0)[Back(1, p)]
      BY <2>1 DEF Widgets
    <2>4. Chunks(g, 0)[p] = Chunks(f, 0)[Back(1, p)]
      BY <2>1 DEF Chunks
    <2> QED BY <2>2, <2>3, <2>4
  <1>10. /\ Deltas(f, 0)[1] = IF f[1].kind = "delta" THEN {f[1].val[1]} ELSE {}
         /\ Chunks(f, 0)[1] = IF f[1].kind = "frame"
                              THEN {f[1].val[i] : i \in 1..Len(f[1].val)} ELSE {}
         /\ Widgets(f, 0)[1] = IF f[1].kind = "widget" THEN {f[1].val[1]} ELSE {}
    BY <1>1 DEF Deltas, Chunks, Widgets
  <1>11. ASSUME f[1].kind \in EventKinds PROVE f[1].seq = b.from + 1
    BY <1>11 DEF Reads, Event
  <1>12. /\ DeltasFollow(g, 0, last, h.log, b2.from, b2.level)
         /\ f[1].kind = "delta" => f[1].val[1] = b.level + 1
    <2>1. Stream(f, Deltas(f, 0), last, b.from, b.level, h.log, Between(b.level, h.log))
      BY DEF Follows, DeltasFollow
    <2>2. b.level \in Nat /\ h.log \in Nat /\ b.level <= h.log
      BY <2>1 DEF Stream
    <2>3. ASSUME f[1].kind = "delta"
          PROVE  f[1].val[1] \in Nat /\ f[1].val[1] = b.level + 1
      <3>1. f[1].val[1] \in Deltas(f, 0)[1]
        BY <1>10, <2>3
      <3>2. f[1].val[1] \in Nat /\ b.level < f[1].val[1] /\ f[1].val[1] <= h.log
        BY <1>1, <2>1, <3>1 DEF Stream
      <3>3. ~(b.level + 1 < f[1].val[1])
        <4>1. SUFFICES ASSUME b.level + 1 < f[1].val[1] PROVE FALSE
          OBVIOUS
        <4>2. b.level + 1 \in Between(b.level, h.log)
          BY <2>2, <3>2, <4>1 DEF Between
        <4>3. f[1].seq = b.from + 1
          BY <1>11, <2>3 DEF EventKinds, PlainKinds
        <4>4. b.level + 1 \in Deltas(f, 0)[1]
          BY <1>1, <2>1, <3>1, <4>1, <4>2, <4>3, NextItem
        <4> QED BY <1>10, <2>3, <3>2, <4>1, <4>4
      <3> QED BY <2>2, <3>2, <3>3
    <2>4. Levelled(f[1]) => Level(f[1]) \in Nat
      <3>1. CASE f[1].kind = "delta"
        BY <2>3, <3>1 DEF Level
      <3>2. CASE f[1].kind = "snap"
        <4>1. f[1].val \in Seq(Nat) /\ Len(f[1].val) = 2
          BY <1>1, <3>2 DEF Saying, EventKinds, PlainKinds, Payload
        <4> QED BY <3>2, <4>1 DEF Level
      <3>3. CASE f[1].kind = "response"
        <4>1. f[1].val \in Answers
          BY <1>1, <3>3 DEF Saying
        <4> QED BY <3>3, <4>1 DEF Level, Answers
      <3> QED BY <3>1, <3>2, <3>3 DEF Levelled
    <2>5. Levelled(f[1]) => b.level <= Level(f[1]) /\ Level(f[1]) <= h.log
      BY <1>1 DEF Follows, DeltasFollow
    <2>6. b2.level \in Nat /\ b2.level <= h.log /\ b.level <= b2.level
      BY <2>2, <2>4, <2>5 DEF Reads
    <2>7. ASSUME NEW p \in 1..Len(f), p # 1, Levelled(f[p])
          PROVE  b2.level <= Level(f[p]) /\ Level(f[p]) <= h.log
                 /\ (f[p].kind = "delta" => b2.level < Level(f[p]))
      <3>1. 1 < p /\ 0 < p /\ 1 \in 1..Len(f)
        BY <1>1, <2>7
      <3>2. b.level <= Level(f[p]) /\ Level(f[p]) <= h.log
        BY <2>7, <3>1 DEF Follows, DeltasFollow
      <3>3. Levelled(f[1]) => /\ Level(f[1]) <= Level(f[p])
                              /\ f[p].kind = "delta" => Level(f[1]) < Level(f[p])
        BY <2>7, <3>1 DEF Follows, DeltasFollow
      <3>4. f[p].kind = "delta" => b.level < Level(f[p])
        <4>1. SUFFICES ASSUME f[p].kind = "delta" PROVE b.level < Level(f[p])
          OBVIOUS
        <4>2. Level(f[p]) \in Deltas(f, 0)[p]
          BY <4>1, <3>1 DEF Deltas, Level
        <4> QED BY <2>1, <4>2 DEF Stream
      <3> QED BY <3>2, <3>3, <3>4 DEF Reads
    <2>8. \A p \in 1..Len(f) : p # 1 => \A x \in Deltas(f, 0)[p] : b2.level < x
      <3> SUFFICES ASSUME NEW p \in 1..Len(f), p # 1, NEW x \in Deltas(f, 0)[p]
                   PROVE  b2.level < x
        OBVIOUS
      <3>1. f[p].kind = "delta" /\ x = f[p].val[1]
        BY DEF Deltas
      <3> QED BY <2>7, <3>1 DEF Levelled, Level
    <2>9. \A c \in Between(b2.level, h.log) :
              c \in Between(b.level, h.log) /\ c \notin Deltas(f, 0)[1] /\ b2.level < c
      <3> SUFFICES ASSUME NEW c \in Between(b2.level, h.log)
                   PROVE  c \in Between(b.level, h.log) /\ c \notin Deltas(f, 0)[1] /\ b2.level < c
        OBVIOUS
      <3>1. c \in Nat /\ b2.level < c /\ c <= h.log
        BY <2>6 DEF Between
      <3>2. c \in Between(b.level, h.log)
        BY <2>2, <2>6, <3>1 DEF Between
      <3>3. c \notin Deltas(f, 0)[1]
        <4>1. CASE f[1].kind = "delta"
          <5>1. b2.level = f[1].val[1]
            BY <4>1 DEF Reads, Levelled, Level
          <5> QED BY <1>10, <2>6, <3>1, <4>1, <5>1
        <4> QED BY <1>10, <4>1
      <3> QED BY <3>1, <3>2, <3>3
    <2>10. Stream(g, Deltas(g, 0), last, b2.from, b2.level, h.log, Between(b2.level, h.log))
      BY <1>6, <1>8, <1>9, <2>1, <2>6, <2>8, <2>9, ShiftStream
    <2>11. \A p \in 1..Len(g) : 0 < p /\ Levelled(g[p]) =>
              b2.level <= Level(g[p]) /\ Level(g[p]) <= h.log
      BY <1>1, <1>2, <2>7
    <2>12. ASSUME NEW p \in 1..Len(g), NEW q \in 1..Len(g), p < q, Levelled(g[p]), Levelled(g[q])
           PROVE  /\ Level(g[p]) <= Level(g[q])
                  /\ g[q].kind = "delta" => Level(g[p]) < Level(g[q])
      <3>1. /\ g[p] = f[p + 1] /\ g[q] = f[q + 1] /\ p + 1 \in 1..Len(f) /\ q + 1 \in 1..Len(f)
            /\ p + 1 < q + 1 /\ 0 < p + 1
        BY <1>1, <1>2, <2>12
      <3> QED BY <2>12, <3>1 DEF Follows, DeltasFollow
    <2> QED BY <2>3, <2>10, <2>11, <2>12 DEF DeltasFollow
  <1>13. /\ ChunksFollow(g, 0, last, h.frames, b2.from, b2.chunks)
         /\ f[1].kind = "frame" => f[1].val[1] = b.chunks + 1
         /\ f[1].kind = "closed" => b.chunks = 0
    <2>1. Stream(f, Chunks(f, 0), last, b.from, b.chunks, h.frames, Between(b.chunks, h.frames))
      BY DEF Follows, ChunksFollow
    <2>2. b.chunks \in Nat /\ h.frames \in Nat /\ b.chunks <= h.frames
      BY <2>1 DEF Stream
    <2>3. ASSUME f[1].kind = "frame"
          PROVE  /\ Len(f[1].val) \in Nat \ {0} /\ f[1].val[1] = b.chunks + 1
                 /\ \A i \in 1..Len(f[1].val) : f[1].val[i] = b.chunks + i
                 /\ f[1].val[Len(f[1].val)] = b.chunks + Len(f[1].val)
                 /\ b.chunks + Len(f[1].val) <= h.frames
      <3>1. f[1].val \in Seq(Nat) /\ f[1].val # <<>>
        BY <1>1, <2>3 DEF Saying, EventKinds, Mergeable, Payload
      <3>2. Len(f[1].val) \in Nat \ {0} /\ 1 \in 1..Len(f[1].val) /\ Len(f[1].val) \in 1..Len(f[1].val)
        BY <3>1
      <3>3. \A i \in 1..Len(f[1].val) : f[1].val[i] \in Chunks(f, 0)[1]
        BY <1>10, <2>3
      <3>4. \A i \in 1..Len(f[1].val) :
               f[1].val[i] \in Nat /\ b.chunks < f[1].val[i] /\ f[1].val[i] <= h.frames
        BY <1>1, <2>1, <3>1, <3>3 DEF Stream
      <3>5. \A i \in 1..Len(f[1].val) : f[1].val[i] = f[1].val[1] + (i - 1)
        BY <1>1, <2>3 DEF Follows, ChunksFollow
      <3>6. ~(b.chunks + 1 < f[1].val[1])
        <4>1. SUFFICES ASSUME b.chunks + 1 < f[1].val[1] PROVE FALSE
          OBVIOUS
        <4>2. b.chunks + 1 \in Between(b.chunks, h.frames)
          BY <2>2, <3>2, <3>4, <4>1 DEF Between
        <4>3. f[1].seq = b.from + 1
          BY <1>11, <2>3 DEF EventKinds, Mergeable
        <4>4. f[1].val[1] \in Chunks(f, 0)[1]
          BY <3>2, <3>3
        <4>5. b.chunks + 1 \in Chunks(f, 0)[1]
          BY <1>1, <2>1, <4>1, <4>2, <4>3, <4>4, NextItem
        <4>6. PICK i \in 1..Len(f[1].val) : f[1].val[i] = b.chunks + 1
          BY <1>10, <2>3, <4>5
        <4>7. f[1].val[i] = f[1].val[1] + (i - 1) /\ i >= 1
          BY <3>5
        <4> QED BY <2>2, <3>2, <3>4, <4>1, <4>6, <4>7
      <3>7. f[1].val[1] = b.chunks + 1
        BY <2>2, <3>2, <3>4, <3>6
      <3>8. \A i \in 1..Len(f[1].val) : f[1].val[i] = b.chunks + i
        BY <2>2, <3>2, <3>5, <3>7
      <3>9. f[1].val[Len(f[1].val)] = b.chunks + Len(f[1].val) /\ f[1].val[Len(f[1].val)] <= h.frames
        BY <3>2, <3>4, <3>8
      <3> QED BY <3>2, <3>7, <3>8, <3>9
    <2>4. /\ b2.chunks \in Nat /\ b2.chunks <= h.frames /\ b.chunks <= b2.chunks
          /\ f[1].kind = "frame" => b2.chunks = b.chunks + Len(f[1].val)
          /\ f[1].kind # "frame" => b2.chunks = b.chunks
      BY <2>2, <2>3 DEF Reads
    <2>5. \A p \in 1..Len(f) : p # 1 => \A x \in Chunks(f, 0)[p] : b2.chunks < x
      <3> SUFFICES ASSUME NEW p \in 1..Len(f), p # 1, NEW x \in Chunks(f, 0)[p]
                   PROVE  b2.chunks < x
        OBVIOUS
      <3>1. b.chunks < x /\ 1 < p /\ 1 \in 1..Len(f)
        BY <1>1, <2>1 DEF Stream
      <3>2. CASE f[1].kind = "frame"
        <4>1. f[1].val[Len(f[1].val)] \in Chunks(f, 0)[1]
          BY <1>10, <2>3, <3>2
        <4>2. f[1].val[Len(f[1].val)] < x
          BY <2>1, <3>1, <4>1 DEF Stream
        <4> QED BY <2>3, <2>4, <3>2, <4>2
      <3> QED BY <2>4, <3>1, <3>2
    <2>6. \A c \in Between(b2.chunks, h.frames) :
              c \in Between(b.chunks, h.frames) /\ c \notin Chunks(f, 0)[1] /\ b2.chunks < c
      <3> SUFFICES ASSUME NEW c \in Between(b2.chunks, h.frames)
                   PROVE  c \in Between(b.chunks, h.frames) /\ c \notin Chunks(f, 0)[1] /\ b2.chunks < c
        OBVIOUS
      <3>1. c \in Nat /\ b2.chunks < c /\ c <= h.frames
        BY <2>4 DEF Between
      <3>2. c \in Between(b.chunks, h.frames)
        BY <2>2, <2>4, <3>1 DEF Between
      <3>3. c \notin Chunks(f, 0)[1]
        <4>1. CASE f[1].kind = "frame"
          <5>1. \A i \in 1..Len(f[1].val) : f[1].val[i] <= b2.chunks
            BY <2>2, <2>3, <2>4, <4>1
          <5>2. \A i \in 1..Len(f[1].val) : f[1].val[i] # c
            BY <2>2, <2>3, <2>4, <3>1, <4>1
          <5> QED BY <1>10, <4>1, <5>2
        <4> QED BY <1>10, <4>1
      <3> QED BY <3>1, <3>2, <3>3
    <2>7. Stream(g, Chunks(g, 0), last, b2.from, b2.chunks, h.frames, Between(b2.chunks, h.frames))
      BY <1>6, <1>8, <1>9, <2>1, <2>4, <2>5, <2>6, ShiftStream
    <2>8. ASSUME NEW p \in 1..Len(g), g[p].kind = "frame"
          PROVE  \A i \in 1..Len(g[p].val) : g[p].val[i] = g[p].val[1] + (i - 1)
      <3>1. p + 1 \in 1..Len(f) /\ 0 < p + 1 /\ g[p] = f[p + 1] /\ f[p + 1].kind = "frame"
        BY <1>1, <1>2, <2>8
      <3>2. \A i \in 1..Len(f[p + 1].val) : f[p + 1].val[i] = f[p + 1].val[1] + (i - 1)
        BY <3>1 DEF Follows, ChunksFollow
      <3> QED BY <3>1, <3>2
    <2>9. f[1].kind = "closed" => b.chunks = 0
      BY <1>1 DEF Follows, ChunksFollow
    <2>10. ASSUME NEW q \in 1..Len(g), g[q].kind = "closed"
           PROVE  b2.chunks = 0 /\ \A p \in 1..Len(g) : 0 < p /\ p < q => g[p].kind # "frame"
      <3>1. /\ q + 1 \in 1..Len(f) /\ f[q + 1].kind = "closed" /\ 0 < q + 1 /\ 1 < q + 1
        BY <1>1, <1>2, <2>10
      <3>2. b.chunks = 0 /\ \A p \in 1..Len(f) : 0 < p /\ p < q + 1 => f[p].kind # "frame"
        BY <3>1 DEF Follows, ChunksFollow
      <3>3. f[1].kind # "frame"
        BY <1>1, <3>1, <3>2
      <3>4. ASSUME NEW p \in 1..Len(g), p < q PROVE g[p].kind # "frame"
        <4>1. p + 1 \in 1..Len(f) /\ 0 < p + 1 /\ p + 1 < q + 1 /\ g[p] = f[p + 1]
          BY <1>1, <1>2, <3>4
        <4> QED BY <3>2, <4>1
      <3> QED BY <2>4, <3>2, <3>3, <3>4
    <2> QED BY <2>3, <2>7, <2>8, <2>9, <2>10 DEF ChunksFollow
  <1>14. /\ WidgetsFollow(g, 0, last, h.widget, b2.from, b2.shown)
         /\ f[1].kind = "attention" => f[1].val[1] = b.shown
    <2>1. Stream(f, Widgets(f, 0), last, b.from, b.shown, h.widget, Newest(b.shown, h.widget))
      BY DEF Follows, WidgetsFollow
    <2>2. b.shown \in Nat /\ h.widget \in Nat /\ b.shown <= h.widget
      BY <2>1 DEF Stream
    <2>3. ASSUME f[1].kind = "widget"
          PROVE  f[1].val[1] \in Nat /\ b.shown < f[1].val[1] /\ f[1].val[1] <= h.widget
      <3>1. f[1].val[1] \in Widgets(f, 0)[1]
        BY <1>10, <2>3
      <3> QED BY <1>1, <2>1, <3>1 DEF Stream
    <2>4. /\ b2.shown \in Nat /\ b2.shown <= h.widget /\ b.shown <= b2.shown
          /\ f[1].kind = "widget" => b2.shown = f[1].val[1]
          /\ f[1].kind # "widget" => b2.shown = b.shown
      BY <2>2, <2>3 DEF Reads
    <2>5. \A p \in 1..Len(f) : p # 1 => \A x \in Widgets(f, 0)[p] : b2.shown < x
      <3> SUFFICES ASSUME NEW p \in 1..Len(f), p # 1, NEW x \in Widgets(f, 0)[p]
                   PROVE  b2.shown < x
        OBVIOUS
      <3>1. b.shown < x /\ 1 < p /\ 1 \in 1..Len(f)
        BY <1>1, <2>1 DEF Stream
      <3>2. CASE f[1].kind = "widget"
        <4>1. f[1].val[1] \in Widgets(f, 0)[1]
          BY <1>10, <3>2
        <4>2. f[1].val[1] < x
          BY <2>1, <3>1, <4>1 DEF Stream
        <4> QED BY <2>4, <3>2, <4>2
      <3> QED BY <2>4, <3>1, <3>2
    <2>6. \A c \in Newest(b2.shown, h.widget) :
              c \in Newest(b.shown, h.widget) /\ c \notin Widgets(f, 0)[1] /\ b2.shown < c
      <3> SUFFICES ASSUME NEW c \in Newest(b2.shown, h.widget)
                   PROVE  c \in Newest(b.shown, h.widget) /\ c \notin Widgets(f, 0)[1] /\ b2.shown < c
        OBVIOUS
      <3>1. c = h.widget /\ b2.shown # h.widget
        BY DEF Newest
      <3>2. b2.shown < c /\ c \in Newest(b.shown, h.widget)
        BY <2>2, <2>4, <3>1 DEF Newest
      <3> QED BY <1>10, <2>4, <3>2
    <2>7. Stream(g, Widgets(g, 0), last, b2.from, b2.shown, h.widget, Newest(b2.shown, h.widget))
      BY <1>6, <1>8, <1>9, <2>1, <2>4, <2>5, <2>6, ShiftStream
    <2>8. ASSUME NEW q \in 1..Len(f), f[q].kind = "attention"
          PROVE  \/ \E p \in 1..Len(f) : WidgetBefore(f, 0, p, q) /\ f[p].val[1] = f[q].val[1]
                 \/ /\ \A p \in 1..Len(f) : 0 < p /\ p < q => f[p].kind # "widget"
                    /\ f[q].val[1] = b.shown
      BY <2>8 DEF Follows, WidgetsFollow
    <2>9. f[1].kind = "attention" => f[1].val[1] = b.shown
      <3>1. SUFFICES ASSUME f[1].kind = "attention" PROVE f[1].val[1] = b.shown
        OBVIOUS
      <3>2. ~\E p \in 1..Len(f) : WidgetBefore(f, 0, p, 1)
        BY DEF WidgetBefore
      <3> QED BY <1>1, <2>8, <3>1, <3>2
    <2>10. ASSUME NEW q \in 1..Len(g), g[q].kind = "attention"
           PROVE  \/ \E p \in 1..Len(g) : WidgetBefore(g, 0, p, q) /\ g[p].val[1] = g[q].val[1]
                  \/ /\ \A p \in 1..Len(g) : 0 < p /\ p < q => g[p].kind # "widget"
                     /\ g[q].val[1] = b2.shown
      <3>1. /\ q + 1 \in 1..Len(f) /\ f[q + 1].kind = "attention" /\ g[q] = f[q + 1] /\ 1 < q + 1
        BY <1>1, <1>2, <2>10
      <3>2. CASE /\ \A p \in 1..Len(f) : 0 < p /\ p < q + 1 => f[p].kind # "widget"
                 /\ f[q + 1].val[1] = b.shown
        <4>1. f[1].kind # "widget"
          BY <1>1, <3>1, <3>2
        <4>2. ASSUME NEW p \in 1..Len(g), p < q PROVE g[p].kind # "widget"
          BY <1>1, <1>2, <3>2, <4>2
        <4> QED BY <2>4, <3>1, <3>2, <4>1, <4>2
      <3>3. ASSUME NEW p \in 1..Len(f), WidgetBefore(f, 0, p, q + 1), f[p].val[1] = f[q + 1].val[1],
                   p # 1
            PROVE  WidgetBefore(g, 0, p - 1, q) /\ g[p - 1].val[1] = g[q].val[1] /\ p - 1 \in 1..Len(g)
        <4>3. p - 1 \in 1..Len(g) /\ g[p - 1] = f[p]
          BY <1>4, <3>3
        <4>4. 0 < p /\ p < q + 1 /\ f[p].kind = "widget"
          BY <3>3 DEF WidgetBefore
        <4>1. p - 1 \in 1..Len(g) /\ g[p - 1] = f[p] /\ 0 < p - 1 /\ p - 1 < q /\ f[p].kind = "widget"
          BY <1>1, <4>3, <4>4
        <4>2. ASSUME NEW o \in 1..Len(g), p - 1 < o, o < q PROVE g[o].kind # "widget"
          <5>1. o + 1 \in 1..Len(f) /\ p < o + 1 /\ o + 1 < q + 1 /\ g[o] = f[o + 1]
            BY <1>1, <1>2, <4>2
          <5> QED BY <3>3, <5>1 DEF WidgetBefore
        <4> QED BY <3>1, <3>3, <4>1, <4>2 DEF WidgetBefore
      <3>4. ASSUME WidgetBefore(f, 0, 1, q + 1), f[1].val[1] = f[q + 1].val[1]
            PROVE  /\ \A p \in 1..Len(g) : 0 < p /\ p < q => g[p].kind # "widget"
                   /\ g[q].val[1] = b2.shown
        <4>1. f[1].kind = "widget"
          BY <3>4 DEF WidgetBefore
        <4>2. ASSUME NEW p \in 1..Len(g), p < q PROVE g[p].kind # "widget"
          <5>1. p + 1 \in 1..Len(f) /\ 1 < p + 1 /\ p + 1 < q + 1 /\ g[p] = f[p + 1]
            BY <1>1, <1>2, <4>2
          <5> QED BY <3>4, <5>1 DEF WidgetBefore
        <4> QED BY <2>4, <3>1, <3>4, <4>1, <4>2
      <3> QED BY <2>8, <3>1, <3>2, <3>3, <3>4
    <2> QED BY <2>7, <2>9, <2>10 DEF WidgetsFollow
  <1>15. 0 \in Nat /\ 0 <= Len(g)
    BY <1>1
  <1>16. CachesFollow(g, 0, last, h.cached, b2.from, b2.base)
    <2>1. CachesFollow(f, 0, last, h.cached, b.from, b.base)
      BY DEF Follows
    <2>2. \A p \in 1..Len(g) : 0 < p <=> 0 < Back(1, p)
      BY <1>2
    <2>3. b2.base = IF 0 < 1 /\ Renews(f[1]) THEN Renewed(f[1]) ELSE b.base
      BY DEF Reads
    <2>4. \/ b2.from = b.from
          \/ 1 \in 1..Len(f) /\ Event(f[1]) /\ f[1].seq = b2.from /\ b2.from = b.from + 1
      BY <1>1, <1>6
    <2>5. b.from \in Nat /\ b2.from \in Nat
      BY <1>5, <1>6
    <2> QED BY <1>1, <2>1, <2>2, <2>3, <2>4, <2>5, WithoutCaches
  <1> QED BY <1>6, <1>7, <1>12, <1>13, <1>14, <1>15, <1>16 DEF Follows, Resumes

-----------------------------------------------------------------------------
(* The order of a flow through the steps it takes. *)

\* No number changes, and lines are at most dropped.
LEMMA ThinOK ==
    ASSUME NEW f, NEW g, NEW last, NEW last2, NEW rd, FlowOK(f, last, rd),
           g \in Seq(FlowLine), last2 \in Nat, Thin(f, last, g, last2),
           \A p \in 1..Len(g) : Saying(g[p].kind, g[p].val),
           \A p \in 1..Len(f) : g[p].seq = f[p].seq
    PROVE  FlowOK(g, last2, rd)
  <1>1. /\ Len(g) = Len(f) /\ Len(f) \in Nat /\ last \in Nat /\ rd \in Nat /\ last <= last2
        /\ \A p \in 1..Len(f) : f[p].seq \in Nat
    <2>1. \A p \in 1..Len(f) : f[p] \in FlowLine
      BY DEF FlowOK
    <2> QED BY <2>1 DEF FlowOK, Thin, FlowLine
  <1>2. \A p \in 1..Len(f) : Event(g[p]) => Event(f[p])
    BY ThinLines
  <1>3. \A p \in 1..Len(f) : Mark(g[p]) => Mark(f[p]) /\ g[p].val = f[p].val
    <2> SUFFICES ASSUME NEW p \in 1..Len(f), Mark(g[p]) PROVE Mark(f[p]) /\ g[p].val = f[p].val
      OBVIOUS
    <2>1. f[p].kind = "response"
      BY ThinLines DEF Mark
    <2>2. g[p].val = f[p].val
      BY <2>1, ThinLines
    <2> QED BY <2>1, <2>2 DEF Mark
  <1>4. Rises(g, last2, rd)
    <2>1. \A p \in 1..Len(g) : Event(g[p]) /\ g[p].seq # 0 => rd < g[p].seq /\ g[p].seq <= last2
      BY <1>1, <1>2 DEF FlowOK, Rises
    <2>2. \A p, q \in 1..Len(g) :
              p < q /\ Event(g[p]) /\ Event(g[q]) /\ g[q].seq # 0 =>
                  g[p].seq # 0 /\ g[p].seq < g[q].seq
      BY <1>1, <1>2 DEF FlowOK, Rises
    <2> QED BY <2>1, <2>2 DEF Rises
  <1>5. MarksSealed(g, last2, rd)
    <2> SUFFICES ASSUME NEW r \in 1..Len(g), Mark(g[r])
                 PROVE  /\ rd <= g[r].val.watermark /\ g[r].val.watermark <= last2
                        /\ \A q \in 1..Len(g) : q < r /\ Event(g[q]) =>
                              g[q].seq # 0 /\ g[q].seq <= g[r].val.watermark
      BY DEF MarksSealed
    <2>1. Mark(f[r]) /\ g[r].val = f[r].val /\ r \in 1..Len(f)
      BY <1>1, <1>3
    <2>2. /\ rd <= f[r].val.watermark /\ f[r].val.watermark <= last
          /\ \A q \in 1..Len(f) : q < r /\ Event(f[q]) =>
                f[q].seq # 0 /\ f[q].seq <= f[r].val.watermark
      BY <2>1 DEF FlowOK, MarksSealed
    <2>3. f[r].val.watermark \in Nat
      <3>1. f[r].val \in Answers
        BY <2>1 DEF FlowOK, Saying, Mark
      <3> QED BY <3>1 DEF Answers
    <2> QED BY <1>1, <1>2, <2>1, <2>2, <2>3
  <1> QED BY <1>1, <1>4, <1>5 DEF FlowOK

\* A line comes that has no number, and that seals what is before it if it is a
\* snapshot.
LEMMA LongerOK ==
    ASSUME NEW f, NEW l, NEW g, NEW last, NEW rd, FlowOK(f, last, rd), Longer(f, l, g),
           l \in FlowLine, l.seq = 0, Saying(l.kind, l.val),
           Mark(l) => /\ rd <= l.val.watermark /\ l.val.watermark <= last
                      /\ \A q \in 1..Len(f) : Event(f[q]) =>
                            f[q].seq # 0 /\ f[q].seq <= l.val.watermark
    PROVE  FlowOK(g, last, rd)
  <1>1. /\ Len(f) \in Nat /\ Len(g) = Len(f) + 1 /\ g[Len(f) + 1] = l
        /\ \A p \in 1..Len(f) : g[p] = f[p]
        /\ g \in Seq(FlowLine) /\ last \in Nat /\ rd \in Nat
        /\ \A p \in 1..Len(g) : p \in 1..Len(f) \/ p = Len(f) + 1
    BY DEF FlowOK, Longer
  <1>2. \A p \in 1..Len(g) : Saying(g[p].kind, g[p].val)
    BY <1>1 DEF FlowOK
  <1>3. Rises(g, last, rd)
    <2>1. ASSUME NEW p \in 1..Len(g), Event(g[p]), g[p].seq # 0
          PROVE  rd < g[p].seq /\ g[p].seq <= last /\ p \in 1..Len(f)
      <3>1. p \in 1..Len(f)
        BY <1>1, <2>1
      <3> QED BY <1>1, <2>1, <3>1 DEF FlowOK, Rises
    <2>2. ASSUME NEW p \in 1..Len(g), NEW q \in 1..Len(g), p < q, Event(g[p]), Event(g[q]), g[q].seq # 0
          PROVE  g[p].seq # 0 /\ g[p].seq < g[q].seq
      <3>1. q \in 1..Len(f)
        BY <2>1, <2>2
      <3>2. p \in 1..Len(f)
        BY <1>1, <2>2, <3>1
      <3> QED BY <1>1, <2>2, <3>1, <3>2 DEF FlowOK, Rises
    <2> QED BY <2>1, <2>2 DEF Rises
  <1>4. MarksSealed(g, last, rd)
    <2> SUFFICES ASSUME NEW r \in 1..Len(g), Mark(g[r])
                 PROVE  /\ rd <= g[r].val.watermark /\ g[r].val.watermark <= last
                        /\ \A q \in 1..Len(g) : q < r /\ Event(g[q]) =>
                              g[q].seq # 0 /\ g[q].seq <= g[r].val.watermark
      BY DEF MarksSealed
    <2>1. CASE r \in 1..Len(f)
      <3>1. \A q \in 1..Len(g) : q < r => q \in 1..Len(f)
        BY <1>1, <2>1
      <3> QED BY <1>1, <2>1, <3>1 DEF FlowOK, MarksSealed
    <2>2. CASE r = Len(f) + 1
      <3>1. \A q \in 1..Len(g) : q < r => q \in 1..Len(f) /\ g[q] = f[q]
        BY <1>1, <2>2
      <3> QED BY <1>1, <2>2, <3>1
    <2> QED BY <1>1, <2>1, <2>2
  <1> QED BY <1>1, <1>2, <1>3, <1>4 DEF FlowOK

\* A line without a number gets another value.
LEMMA ReplacedOK ==
    ASSUME NEW f, NEW g, NEW k, NEW last, NEW rd, FlowOK(f, last, rd), Replaced(f, k, g),
           Saying(g[k].kind, g[k].val)
    PROVE  /\ FlowOK(g, last, rd)
           /\ \A r \in 1..Len(f) : Mark(f[r]) => r < k
           /\ \A r \in 1..Len(g) : Mark(g[r]) => Mark(f[r]) /\ g[r] = f[r]
           /\ \A r \in 1..Len(g) : g[r].kind = "response" => f[r].kind = "response" /\ g[r] = f[r]
  <1>1. /\ Len(g) = Len(f) /\ Len(f) \in Nat /\ k \in 1..Len(f) /\ Event(f[k]) /\ f[k].seq = 0
        /\ \A p \in 1..Len(f) : g[p].kind = f[p].kind /\ g[p].seq = f[p].seq
        /\ \A p \in 1..Len(f) : p # k => g[p] = f[p]
        /\ g \in Seq(FlowLine) /\ last \in Nat /\ rd \in Nat
    BY DEF FlowOK, Replaced
  <1>2. g[k].kind # "response" /\ f[k].kind # "response"
    BY <1>1 DEF Event, EventKinds, PlainKinds, Mergeable
  <1>3. \A r \in 1..Len(f) : Mark(f[r]) => r < k
    <2> SUFFICES ASSUME NEW r \in 1..Len(f), Mark(f[r]), ~(r < k) PROVE FALSE
      OBVIOUS
    <2>1. r # k
      BY <1>2 DEF Mark
    <2>2. k < r
      BY <1>1, <2>1
    <2> QED BY <1>1, <2>2 DEF FlowOK, MarksSealed
  <1>4. \A r \in 1..Len(g) : g[r].kind = "response" => f[r].kind = "response" /\ g[r] = f[r]
    BY <1>1, <1>2
  <1>5. \A r \in 1..Len(g) : Mark(g[r]) => Mark(f[r]) /\ g[r] = f[r]
    BY <1>4 DEF Mark
  <1>6. \A p \in 1..Len(g) : Saying(g[p].kind, g[p].val)
    BY <1>1 DEF FlowOK
  <1>7. \A p \in 1..Len(g) : Event(g[p]) <=> Event(f[p])
    BY <1>1 DEF Event
  <1>8. Rises(g, last, rd)
    BY <1>1, <1>7 DEF FlowOK, Rises
  <1>9. MarksSealed(g, last, rd)
    <2> SUFFICES ASSUME NEW r \in 1..Len(g), Mark(g[r])
                 PROVE  /\ rd <= g[r].val.watermark /\ g[r].val.watermark <= last
                        /\ \A q \in 1..Len(g) : q < r /\ Event(g[q]) =>
                              g[q].seq # 0 /\ g[q].seq <= g[r].val.watermark
      BY DEF MarksSealed
    <2>1. Mark(f[r]) /\ g[r] = f[r] /\ r \in 1..Len(f)
      BY <1>1, <1>5
    <2> QED BY <1>1, <1>7, <2>1 DEF FlowOK, MarksSealed
  <1> QED BY <1>1, <1>3, <1>4, <1>5, <1>6, <1>8, <1>9 DEF FlowOK

\* The number that has been read when line k goes: it may be read then.
ReadTo(f, k, rd, rd2) ==
    rd2 = rd \/ (k = 1 /\ Event(f[1]) /\ f[1].seq # 0 /\ rd2 = f[1].seq)

\* A line goes, which may be the first one, and is then read.
LEMMA WithoutOK ==
    ASSUME NEW f, NEW g, NEW k, NEW last, NEW rd, NEW rd2, FlowOK(f, last, rd),
           Without(f, k, g), g \in Seq(FlowLine),
           ReadTo(f, k, rd, rd2)
    PROVE  FlowOK(g, last, rd2) /\ rd <= rd2 /\ (rd <= last => rd2 <= last)
  <1>1. /\ Len(g) \in Nat /\ Len(f) = Len(g) + 1 /\ k \in 1..Len(f) /\ last \in Nat /\ rd \in Nat
        /\ \A p \in 1..Len(f) : f[p].seq \in Nat
    <2>1. \A p \in 1..Len(f) : f[p] \in FlowLine
      BY DEF FlowOK
    <2>2. \A p \in 1..Len(f) : f[p].seq \in Nat
      BY <2>1 DEF FlowLine
    <2> QED BY <2>2 DEF FlowOK, Without
  <1>2. /\ \A p \in 1..Len(g) : Back(k, p) \in 1..Len(f) /\ Back(k, p) # k /\ g[p] = f[Back(k, p)]
        /\ \A p, q \in 1..Len(g) : p < q <=> Back(k, p) < Back(k, q)
    BY <1>1, Backs
  <1>3. rd2 = rd \/ (k = 1 /\ Event(f[1]) /\ f[1].seq # 0 /\ rd2 = f[1].seq)
    BY DEF ReadTo
  <1>4. rd2 \in Nat /\ (rd2 # rd => rd <= rd2 /\ rd2 <= last)
    BY <1>1, <1>3 DEF FlowOK, Rises
  <1>5. ASSUME NEW p \in 1..Len(g), Event(g[p]), g[p].seq # 0
        PROVE  rd2 < g[p].seq /\ g[p].seq <= last
    <2>1. rd < g[p].seq /\ g[p].seq <= last
      BY <1>2, <1>5 DEF FlowOK, Rises
    <2>2. CASE k = 1 /\ Event(f[1]) /\ f[1].seq # 0 /\ rd2 = f[1].seq
      <3>1. 1 \in 1..Len(f) /\ 1 < Back(k, p)
        BY <1>1, <1>2, <2>2
      <3> QED BY <1>2, <1>5, <2>1, <2>2, <3>1 DEF FlowOK, Rises
    <2> QED BY <1>3, <2>1, <2>2
  <1>6. ASSUME NEW p \in 1..Len(g), NEW q \in 1..Len(g), p < q, Event(g[p]), Event(g[q]), g[q].seq # 0
        PROVE  g[p].seq # 0 /\ g[p].seq < g[q].seq
    BY <1>2, <1>6 DEF FlowOK, Rises
  <1>7. Rises(g, last, rd2)
    BY <1>5, <1>6 DEF Rises
  <1>8. MarksSealed(g, last, rd2)
    <2> SUFFICES ASSUME NEW r \in 1..Len(g), Mark(g[r])
                 PROVE  /\ rd2 <= g[r].val.watermark /\ g[r].val.watermark <= last
                        /\ \A q \in 1..Len(g) : q < r /\ Event(g[q]) =>
                              g[q].seq # 0 /\ g[q].seq <= g[r].val.watermark
      BY DEF MarksSealed
    <2>1. Back(k, r) \in 1..Len(f) /\ Mark(f[Back(k, r)]) /\ g[r] = f[Back(k, r)]
      BY <1>2
    <2>2. /\ rd <= f[Back(k, r)].val.watermark /\ f[Back(k, r)].val.watermark <= last
          /\ \A q \in 1..Len(f) : q < Back(k, r) /\ Event(f[q]) =>
                f[q].seq # 0 /\ f[q].seq <= f[Back(k, r)].val.watermark
      BY <2>1 DEF FlowOK, MarksSealed
    <2>3. rd2 <= g[r].val.watermark
      <3>1. CASE k = 1 /\ Event(f[1]) /\ f[1].seq # 0 /\ rd2 = f[1].seq
        <4>1. 1 \in 1..Len(f) /\ 1 < Back(k, r)
          BY <1>1, <1>2, <3>1
        <4> QED BY <2>1, <2>2, <3>1, <4>1
      <3> QED BY <1>3, <2>1, <2>2, <3>1
    <2> QED BY <1>2, <2>1, <2>2, <2>3
  <1>9. \A p \in 1..Len(g) : Saying(g[p].kind, g[p].val)
    BY <1>2 DEF FlowOK
  <1> QED BY <1>1, <1>4, <1>7, <1>8, <1>9 DEF FlowOK

\* g is f with the next number on its line k, the first event without one.
Numbers(f, k, g, last) ==
    /\ g \in Seq(FlowLine) /\ Len(g) = Len(f) /\ k \in 1..Len(f)
    /\ Event(f[k]) /\ f[k].seq = 0 /\ g[k].seq = last + 1
    /\ \A p \in 1..Len(f) : p < k /\ Event(f[p]) => f[p].seq # 0
    /\ \A p \in 1..Len(f) : g[p].kind = f[p].kind /\ g[p].val = f[p].val
    /\ \A p \in 1..Len(f) : p # k => g[p] = f[p]

\* The first event without a number gets the next one.
LEMMA NumbersOK ==
    ASSUME NEW f, NEW g, NEW k, NEW last, NEW rd, FlowOK(f, last, rd), rd <= last,
           Numbers(f, k, g, last)
    PROVE  FlowOK(g, last + 1, rd) /\ Thin(f, last, g, last + 1)
  <1>1. /\ Len(g) = Len(f) /\ Len(f) \in Nat /\ k \in 1..Len(f) /\ Event(f[k]) /\ f[k].seq = 0
        /\ g[k].seq = last + 1
        /\ \A p \in 1..Len(f) : p < k /\ Event(f[p]) => f[p].seq # 0
        /\ \A p \in 1..Len(f) : g[p].kind = f[p].kind /\ g[p].val = f[p].val
        /\ \A p \in 1..Len(f) : p # k => g[p] = f[p]
        /\ g \in Seq(FlowLine) /\ last \in Nat /\ rd \in Nat
    BY DEF FlowOK, Numbers
  <1>2. \A p \in 1..Len(f) : f[p].seq \in Nat
    <2>1. \A p \in 1..Len(f) : f[p] \in FlowLine
      BY DEF FlowOK
    <2> QED BY <2>1 DEF FlowLine
  <1>3. \A p \in 1..Len(g) : /\ Event(g[p]) <=> Event(f[p])
                             /\ Mark(g[p]) <=> Mark(f[p])
    BY <1>1 DEF Event, Mark
  <1>4. \A p \in 1..Len(g) : Saying(g[p].kind, g[p].val)
    BY <1>1 DEF FlowOK
  <1>5. \A p \in 1..Len(f) : k < p /\ Event(f[p]) => f[p].seq = 0
    BY <1>1 DEF FlowOK, Rises
  <1>6. \A p \in 1..Len(g) : Event(g[p]) /\ g[p].seq # 0 =>
            rd < g[p].seq /\ g[p].seq <= last + 1
    <2> SUFFICES ASSUME NEW p \in 1..Len(g), Event(g[p]), g[p].seq # 0
                 PROVE  rd < g[p].seq /\ g[p].seq <= last + 1
      OBVIOUS
    <2>1. CASE p = k
      BY <1>1, <2>1
    <2>2. CASE p # k
      <3>1. rd < f[p].seq /\ f[p].seq <= last
        BY <1>1, <1>3, <2>2 DEF FlowOK, Rises
      <3> QED BY <1>1, <1>2, <2>2, <3>1
    <2> QED BY <2>1, <2>2
  <1>7. ASSUME NEW p \in 1..Len(g), NEW q \in 1..Len(g), p < q, Event(g[p]), Event(g[q]), g[q].seq # 0
        PROVE  g[p].seq # 0 /\ g[p].seq < g[q].seq
    <2>1. ~(k < q)
      BY <1>1, <1>3, <1>5, <1>7
    <2>2. p # k /\ g[p] = f[p] /\ p < k
      BY <1>1, <1>7, <2>1
    <2>3. f[p].seq # 0 /\ f[p].seq <= last
      BY <1>1, <1>3, <1>7, <2>2 DEF FlowOK, Rises
    <2>4. CASE q = k
      BY <1>1, <1>2, <2>2, <2>3, <2>4
    <2>5. CASE q # k
      BY <1>1, <1>3, <1>7, <2>2, <2>5 DEF FlowOK, Rises
    <2> QED BY <2>4, <2>5
  <1>8. Rises(g, last + 1, rd)
    BY <1>6, <1>7 DEF Rises
  <1>9. MarksSealed(g, last + 1, rd)
    <2> SUFFICES ASSUME NEW r \in 1..Len(g), Mark(g[r])
                 PROVE  /\ rd <= g[r].val.watermark /\ g[r].val.watermark <= last + 1
                        /\ \A q \in 1..Len(g) : q < r /\ Event(g[q]) =>
                              g[q].seq # 0 /\ g[q].seq <= g[r].val.watermark
      BY DEF MarksSealed
    <2>1. Mark(f[r]) /\ g[r].val = f[r].val /\ r \in 1..Len(f)
      BY <1>1, <1>3
    <2>2. /\ rd <= f[r].val.watermark /\ f[r].val.watermark <= last
          /\ \A q \in 1..Len(f) : q < r /\ Event(f[q]) =>
                f[q].seq # 0 /\ f[q].seq <= f[r].val.watermark
      BY <2>1 DEF FlowOK, MarksSealed
    <2>3. ~(k < r)
      BY <1>1, <2>2
    <2>4. f[r].val.watermark \in Nat
      <3>1. f[r].val \in Answers
        BY <2>1 DEF FlowOK, Saying, Mark
      <3> QED BY <3>1 DEF Answers
    <2>5. \A q \in 1..Len(g) : q < r => q # k /\ g[q] = f[q]
      BY <1>1, <2>3
    <2> QED BY <1>1, <1>3, <2>1, <2>2, <2>4, <2>5
  <1>10. \A p \in 1..Len(f) : ~(Event(f[p]) /\ g[p].kind = "dropped")
    BY <1>1 DEF Event, EventKinds, PlainKinds, Mergeable
  <1>11. Thin(f, last, g, last + 1)
    <2>1. \A p, q \in 1..Len(f) : p < q /\ f[p].kind = "widget" /\ g[p].kind = "dropped"
              => g[q].kind # "attention"
      BY <1>1
    <2>2. \A p \in 1..Len(f) : g[p].seq # f[p].seq => f[p].seq = 0 /\ last < g[p].seq
      BY <1>1
    <2> QED BY <1>1, <1>10, <2>1, <2>2 DEF Thin
  <1> QED BY <1>1, <1>4, <1>8, <1>9, <1>11 DEF FlowOK

-----------------------------------------------------------------------------
(* All the readers of a flow, and the questions it answers.  What the        *)
(* desktop is to the flow: c.synced is TRUE while it vouches for what it     *)
(* shows, c.reader is what it has, c.id its last request.                    *)

\* Who installs a snapshot has its deltas, no panel and no widget.
Snapshot(v) ==
    [from |-> v.watermark, level |-> v.at, base |-> v.cached, chunks |-> 0, shown |-> 0]

AllFollow(f, last, h, c) ==
    /\ c.synced => Follows(f, 0, last, h, c.reader)
    /\ \A r \in 1..Len(f) : Mark(f[r]) => Follows(f, r, last, h, Snapshot(f[r].val))

\* Of two requests the recovery loop made, a before b: b has the higher number,
\* and is not for a snapshot, since that is asked for when all is answered.
InTurn(a, b) ==
    a.method # "settings" /\ b.method # "settings" => a.id < b.id /\ b.method # "rehydrate"

Polled(f, reqs, c) ==
    /\ reqs \in Seq(Request)
    /\ \A p \in 1..Len(f) : f[p].kind = "response" =>
          /\ f[p].val.request.id <= c.id
          /\ c.synced => f[p].val.request.method = "settings"
    /\ \A i \in 1..Len(reqs) :
          reqs[i].id <= c.id /\ (c.synced => reqs[i].method = "settings")
    /\ \A p, q \in 1..Len(f) : p < q /\ f[p].kind = "response" /\ f[q].kind = "response" =>
          InTurn(f[p].val.request, f[q].val.request)
    /\ \A p \in 1..Len(f) : f[p].kind = "response" =>
          \A j \in 1..Len(reqs) : InTurn(f[p].val.request, reqs[j])
    /\ \A i, j \in 1..Len(reqs) : i < j => InTurn(reqs[i], reqs[j])

GoodFlow(f, last, rd, h, c, reqs) ==
    FlowOK(f, last, rd) /\ AllFollow(f, last, h, c) /\ Polled(f, reqs, c)

\* Where the responses stay, so do the questions.
LEMMA SamePolled ==
    ASSUME NEW f, NEW g, NEW reqs, NEW c, Polled(f, reqs, c), Len(g) = Len(f),
           \A p \in 1..Len(f) : g[p].kind = "response" =>
               f[p].kind = "response" /\ g[p].val = f[p].val
    PROVE  Polled(g, reqs, c)
  BY DEF Polled

\* Lines are dropped, or numbered.
LEMMA GoodThin ==
    ASSUME NEW f, NEW g, NEW last, NEW last2, NEW rd, NEW h, NEW c, NEW reqs,
           GoodFlow(f, last, rd, h, c, reqs), FlowOK(g, last2, rd), Thin(f, last, g, last2)
    PROVE  GoodFlow(g, last2, rd, h, c, reqs)
  <1>1. /\ FlowOK(f, last, rd) /\ AllFollow(f, last, h, c) /\ Polled(f, reqs, c)
        /\ g \in Seq(FlowLine) /\ last2 \in Nat /\ Len(g) = Len(f)
        /\ \A p \in 1..Len(g) : Saying(g[p].kind, g[p].val)
    BY DEF GoodFlow, FlowOK, Thin
  <1>2. \A p \in 1..Len(f) : g[p].kind = "response" =>
            f[p].kind = "response" /\ g[p].val = f[p].val
    <2> SUFFICES ASSUME NEW p \in 1..Len(f), g[p].kind = "response"
                 PROVE  f[p].kind = "response" /\ g[p].val = f[p].val
      OBVIOUS
    <2>1. f[p].kind = "response"
      BY <1>1, ThinLines
    <2>2. f[p].kind \notin {"queue", "snap", "dropped"} => g[p].val = f[p].val
      BY ThinLines
    <2> QED BY <2>1, <2>2
  <1>3. Polled(g, reqs, c)
    BY <1>1, <1>2, SamePolled
  <1>4. c.synced => Follows(g, 0, last2, h, c.reader)
    <2> SUFFICES ASSUME c.synced PROVE Follows(g, 0, last2, h, c.reader)
      OBVIOUS
    <2>1. Follows(f, 0, last, h, c.reader)
      BY <1>1 DEF AllFollow
    <2> QED BY <1>1, <2>1, ThinFollows
  <1>5. ASSUME NEW r \in 1..Len(g), Mark(g[r])
        PROVE  Follows(g, r, last2, h, Snapshot(g[r].val))
    <2>1. r \in 1..Len(f) /\ Mark(f[r]) /\ g[r].val = f[r].val
      BY <1>1, <1>2, <1>5 DEF Mark
    <2>2. Follows(f, r, last, h, Snapshot(f[r].val))
      BY <1>1, <2>1 DEF AllFollow
    <2>3. Follows(g, r, last2, h, Snapshot(f[r].val))
      BY <1>1, <2>2, ThinFollows
    <2> QED BY <2>1, <2>3
  <1> QED BY <1>3, <1>4, <1>5 DEF GoodFlow, AllFollow

\* An event comes.
LEMMA GoodEvent ==
    ASSUME NEW f, NEW l, NEW g, NEW last, NEW rd, NEW h, NEW h2, NEW c, NEW reqs,
           GoodFlow(f, last, rd, h, c, reqs), Longer(f, l, g), l \in FlowLine, l.seq = 0,
           Event(l), Saying(l.kind, l.val),
           \A r \in 0..Len(f) : r = 0 \/ Mark(f[r]) => NewLine(f, r, l, h, h2)
    PROVE  GoodFlow(g, last, rd, h2, c, reqs)
  <1>1. /\ FlowOK(f, last, rd) /\ AllFollow(f, last, h, c) /\ Polled(f, reqs, c)
        /\ l.kind # "response" /\ Len(f) \in Nat /\ Len(g) = Len(f) + 1
        /\ g[Len(f) + 1] = l /\ \A p \in 1..Len(f) : g[p] = f[p]
        /\ \A p \in 1..Len(g) : p \in 1..Len(f) \/ p = Len(f) + 1
    BY DEF GoodFlow, FlowOK, Longer, Event, EventKinds, PlainKinds, Mergeable
  <1>2. FlowOK(g, last, rd)
    BY <1>1, LongerOK DEF Mark
  <1>3. \A p \in 1..Len(g) : g[p].kind = "response" => p \in 1..Len(f) /\ g[p] = f[p]
    BY <1>1
  <1>4. Polled(g, reqs, c)
    BY <1>1, <1>3 DEF Polled
  <1>5. c.synced => Follows(g, 0, last, h2, c.reader)
    <2> SUFFICES ASSUME c.synced PROVE Follows(g, 0, last, h2, c.reader)
      OBVIOUS
    <2>1. Follows(f, 0, last, h, c.reader) /\ NewLine(f, 0, l, h, h2)
      BY <1>1 DEF AllFollow
    <2> QED BY <1>1, <2>1, AppendFollows
  <1>6. ASSUME NEW r \in 1..Len(g), Mark(g[r])
        PROVE  Follows(g, r, last, h2, Snapshot(g[r].val))
    <2>1. r \in 1..Len(f) /\ Mark(f[r]) /\ g[r] = f[r]
      BY <1>3, <1>6 DEF Mark
    <2>2. Follows(f, r, last, h, Snapshot(f[r].val))
      BY <1>1, <2>1 DEF AllFollow
    <2>3. r \in 0..Len(f)
      BY <2>1
    <2>4. NewLine(f, r, l, h, h2)
      BY <2>1, <2>3
    <2>5. Follows(g, r, last, h2, Snapshot(f[r].val))
      BY <1>1, <2>2, <2>4, AppendFollows
    <2> QED BY <2>1, <2>5
  <1> QED BY <1>2, <1>4, <1>5, <1>6 DEF GoodFlow, AllFollow

\* What is behind the first of some requests.
Behind(reqs, reqs2) ==
    /\ reqs2 \in Seq(Request) /\ Len(reqs) = Len(reqs2) + 1
    /\ \A i \in 1..Len(reqs2) : reqs2[i] = reqs[i + 1]

\* The first request is answered.
LEMMA AnswerPolled ==
    ASSUME NEW f, NEW l, NEW g, NEW c, NEW reqs, NEW reqs2, Len(f) \in Nat,
           Polled(f, reqs, c), Longer(f, l, g), l.kind = "response",
           l.val.request = reqs[1], Behind(reqs, reqs2)
    PROVE  Polled(g, reqs2, c)
  <1>1. /\ Len(g) = Len(f) + 1 /\ g[Len(f) + 1] = l /\ \A p \in 1..Len(f) : g[p] = f[p]
        /\ \A p \in 1..Len(g) : p \in 1..Len(f) \/ p = Len(f) + 1
    BY DEF Longer
  <1>2. /\ reqs2 \in Seq(Request) /\ Len(reqs2) \in Nat /\ 1 \in 1..Len(reqs)
        /\ \A i \in 1..Len(reqs2) : i + 1 \in 1..Len(reqs) /\ reqs2[i] = reqs[i + 1] /\ 1 < i + 1
    BY DEF Behind
  <1>3. /\ reqs[1].id <= c.id /\ (c.synced => reqs[1].method = "settings")
        /\ \A i \in 1..Len(reqs2) :
              /\ reqs2[i].id <= c.id /\ (c.synced => reqs2[i].method = "settings")
              /\ InTurn(reqs[1], reqs2[i])
    BY <1>2 DEF Polled
  <1>4. \A p \in 1..Len(g) : g[p].kind = "response" =>
            /\ g[p].val.request.id <= c.id
            /\ c.synced => g[p].val.request.method = "settings"
    BY <1>1, <1>3 DEF Polled
  <1>5. \A p, q \in 1..Len(g) : p < q /\ g[p].kind = "response" /\ g[q].kind = "response" =>
            InTurn(g[p].val.request, g[q].val.request)
    <2> SUFFICES ASSUME NEW p \in 1..Len(g), NEW q \in 1..Len(g), p < q,
                        g[p].kind = "response", g[q].kind = "response"
                 PROVE  InTurn(g[p].val.request, g[q].val.request)
      OBVIOUS
    <2>1. p \in 1..Len(f) /\ g[p] = f[p]
      BY <1>1
    <2>2. CASE q \in 1..Len(f)
      BY <1>1, <2>1, <2>2 DEF Polled
    <2>3. CASE q = Len(f) + 1
      BY <1>1, <1>2, <2>1, <2>3 DEF Polled
    <2> QED BY <1>1, <2>2, <2>3
  <1>6. ASSUME NEW p \in 1..Len(g), g[p].kind = "response", NEW j \in 1..Len(reqs2)
        PROVE  InTurn(g[p].val.request, reqs2[j])
    <2>1. CASE p \in 1..Len(f)
      BY <1>1, <1>2, <1>6, <2>1 DEF Polled
    <2>2. CASE p = Len(f) + 1
      BY <1>1, <1>3, <2>2
    <2> QED BY <1>1, <2>1, <2>2
  <1>7. \A i, j \in 1..Len(reqs2) : i < j => InTurn(reqs2[i], reqs2[j])
    <2> SUFFICES ASSUME NEW i \in 1..Len(reqs2), NEW j \in 1..Len(reqs2), i < j
                 PROVE  InTurn(reqs2[i], reqs2[j])
      OBVIOUS
    <2>1. i + 1 \in 1..Len(reqs) /\ j + 1 \in 1..Len(reqs) /\ i + 1 < j + 1
      BY <1>2
    <2> QED BY <1>2, <2>1 DEF Polled
  <1> QED BY <1>2, <1>3, <1>4, <1>5, <1>6, <1>7 DEF Polled

\* An answer comes that is no snapshot.
LEMMA GoodAnswer ==
    ASSUME NEW f, NEW l, NEW g, NEW last, NEW rd, NEW h, NEW h2, NEW c, NEW reqs, NEW reqs2,
           GoodFlow(f, last, rd, h, c, reqs), Longer(f, l, g), l \in FlowLine, l.seq = 0,
           l.kind = "response", Saying(l.kind, l.val), ~Mark(l), l.val.at = h.log,
           l.val.request = reqs[1], Behind(reqs, reqs2),
           h.log \in Nat, h.frames \in Nat, h.widget \in Nat,
           h2.log = h.log, h2.frames = h.frames, h2.widget = h.widget,
           h2.cached = IF Renews(l) THEN Renewed(l) ELSE h.cached
    PROVE  GoodFlow(g, last, rd, h2, c, reqs2)
  <1>1. /\ FlowOK(f, last, rd) /\ AllFollow(f, last, h, c) /\ Polled(f, reqs, c)
        /\ Len(f) \in Nat /\ Len(g) = Len(f) + 1
        /\ g[Len(f) + 1] = l /\ \A p \in 1..Len(f) : g[p] = f[p]
        /\ \A p \in 1..Len(g) : p \in 1..Len(f) \/ p = Len(f) + 1
    BY DEF GoodFlow, FlowOK, Longer
  <1>2. FlowOK(g, last, rd)
    BY <1>1, LongerOK
  <1>3. \A r \in 1..Len(g) : Mark(g[r]) => r \in 1..Len(f) /\ Mark(f[r]) /\ g[r] = f[r]
    BY <1>1
  <1>4. Polled(g, reqs2, c)
    BY <1>1, AnswerPolled
  <1>5. \A r : NewLine(f, r, l, h, h2)
    BY DEF NewLine
  <1>6. c.synced => Follows(g, 0, last, h2, c.reader)
    <2> SUFFICES ASSUME c.synced PROVE Follows(g, 0, last, h2, c.reader)
      OBVIOUS
    <2>1. Follows(f, 0, last, h, c.reader) /\ NewLine(f, 0, l, h, h2)
      BY <1>1, <1>5 DEF AllFollow
    <2> QED BY <1>1, <2>1, AppendFollows
  <1>7. ASSUME NEW r \in 1..Len(g), Mark(g[r])
        PROVE  Follows(g, r, last, h2, Snapshot(g[r].val))
    <2>1. r \in 1..Len(f) /\ Mark(f[r]) /\ g[r] = f[r]
      BY <1>3, <1>7
    <2>2. Follows(f, r, last, h, Snapshot(f[r].val)) /\ NewLine(f, r, l, h, h2)
      BY <1>1, <1>5, <2>1 DEF AllFollow
    <2>3. Follows(g, r, last, h2, Snapshot(f[r].val))
      BY <1>1, <2>2, AppendFollows
    <2> QED BY <2>1, <2>3
  <1> QED BY <1>2, <1>4, <1>6, <1>7 DEF GoodFlow, AllFollow

\* A chunk is joined to the last line of chunks, or a version replaces the one
\* in the last widget: no snapshot comes after what has no number.
LEMMA GoodMerge ==
    ASSUME NEW f, NEW g, NEW k, NEW last, NEW rd, NEW h, NEW h2, NEW c, NEW reqs,
           GoodFlow(f, last, rd, h, c, reqs), Replaced(f, k, g), Saying(g[k].kind, g[k].val),
           h2.log = h.log, h2.cached = h.cached,
           \/ /\ f[k].kind = "frame" /\ \A p \in 1..Len(f) : k < p => f[p].kind # "frame"
              /\ f[k].val[Len(f[k].val)] = h.frames /\ Joined(f[k].val, g[k].val, h2.frames)
              /\ h2.frames = h.frames + 1 /\ h2.widget = h.widget
           \/ /\ f[k].kind = "widget" /\ g[k].val[1] = h2.widget
              /\ \A p \in 1..Len(f) : k < p => f[p].kind \notin {"widget", "attention"}
              /\ h2.frames = h.frames /\ h2.widget \in Nat /\ h.widget < h2.widget
    PROVE  GoodFlow(g, last, rd, h2, c, reqs)
  <1>1. /\ FlowOK(f, last, rd) /\ AllFollow(f, last, h, c) /\ Polled(f, reqs, c)
        /\ Len(g) = Len(f) /\ k \in 1..Len(f) /\ g[k].kind = f[k].kind
    BY DEF GoodFlow, Replaced
  <1>2. /\ FlowOK(g, last, rd)
        /\ \A r \in 1..Len(f) : Mark(f[r]) => r < k
        /\ \A r \in 1..Len(g) : Mark(g[r]) => Mark(f[r]) /\ g[r] = f[r]
        /\ \A r \in 1..Len(g) : g[r].kind = "response" => f[r].kind = "response" /\ g[r] = f[r]
    BY <1>1, ReplacedOK
  <1>3. Polled(g, reqs, c)
    BY <1>1, <1>2, SamePolled
  <1>4. ASSUME NEW r, NEW b, r < k, Follows(f, r, last, h, b)
        PROVE  Follows(g, r, last, h2, b)
    <2>1. CASE /\ f[k].kind = "frame" /\ \A p \in 1..Len(f) : k < p => f[p].kind # "frame"
               /\ f[k].val[Len(f[k].val)] = h.frames /\ Joined(f[k].val, g[k].val, h2.frames)
               /\ h2.frames = h.frames + 1 /\ h2.widget = h.widget
      BY <1>1, <1>4, <2>1, JoinFollows
    <2>2. CASE /\ f[k].kind = "widget" /\ g[k].val[1] = h2.widget
               /\ \A p \in 1..Len(f) : k < p => f[p].kind \notin {"widget", "attention"}
               /\ h2.frames = h.frames /\ h2.widget \in Nat /\ h.widget < h2.widget
      <3>1. Saying("widget", g[k].val)
        BY <1>1, <2>2
      <3> QED BY <1>1, <1>4, <2>2, <3>1, UpdateFollows
    <2> QED BY <2>1, <2>2
  <1>5. c.synced => Follows(g, 0, last, h2, c.reader)
    BY <1>1, <1>4 DEF AllFollow
  <1>6. ASSUME NEW r \in 1..Len(g), Mark(g[r])
        PROVE  Follows(g, r, last, h2, Snapshot(g[r].val))
    <2>1. r \in 1..Len(f) /\ Mark(f[r]) /\ g[r] = f[r] /\ r < k
      BY <1>1, <1>2, <1>6
    <2>2. Follows(f, r, last, h, Snapshot(f[r].val))
      BY <1>1, <2>1 DEF AllFollow
    <2>3. Follows(g, r, last, h2, Snapshot(f[r].val))
      BY <1>4, <2>1, <2>2
    <2> QED BY <2>1, <2>3
  <1> QED BY <1>2, <1>3, <1>5, <1>6 DEF GoodFlow, AllFollow

\* A line goes: fewer answers are on their way.
LEMMA WithoutPolled ==
    ASSUME NEW f, NEW g, NEW k, NEW c, NEW reqs, Len(g) \in Nat,
           Without(f, k, g), Polled(f, reqs, c)
    PROVE  Polled(g, reqs, c)
  <1>1. /\ \A p \in 1..Len(g) : Back(k, p) \in 1..Len(f) /\ g[p] = f[Back(k, p)]
        /\ \A p, q \in 1..Len(g) : p < q <=> Back(k, p) < Back(k, q)
    BY Backs, SMTT(60)
  <1> QED BY <1>1 DEF Polled

\* Marks are passed as lines go before them.
LEMMA PassedMarks ==
    ASSUME NEW f, NEW g, NEW k, NEW last, NEW rd, NEW h, NEW c,
           FlowOK(f, last, rd), g \in Seq(FlowLine), Without(f, k, g), AllFollow(f, last, h, c),
           k = 1 \/ f[k].kind = "dropped", NEW r \in 1..Len(g), Mark(g[r])
    PROVE  Follows(g, r, last, h, Snapshot(g[r].val))
  <1>1. Len(g) \in Nat /\ Len(f) = Len(g) + 1 /\ k \in 1..Len(f)
    BY DEF Without
  <1>2. Back(k, r) \in 1..Len(f) /\ g[r] = f[Back(k, r)] /\ r \in Nat /\ k \in Nat
    BY <1>1, Backs
  <1>3. Follows(f, Back(k, r), last, h, Snapshot(g[r].val))
    BY <1>2 DEF AllFollow
  <1>4. Ahead(k, Back(k, r)) = r /\ (k = 1 => k <= Back(k, r))
    BY <1>1, <1>2 DEF Ahead, Back
  <1>5. Follows(g, Ahead(k, Back(k, r)), last, h, Snapshot(g[r].val))
    BY <1>3, <1>4, FadeFollows
  <1> QED BY <1>4, <1>5

\* A dropped line goes.
LEMMA GoodFade ==
    ASSUME NEW f, NEW g, NEW k, NEW last, NEW rd, NEW h, NEW c, NEW reqs,
           GoodFlow(f, last, rd, h, c, reqs), Without(f, k, g), g \in Seq(FlowLine),
           f[k].kind = "dropped"
    PROVE  GoodFlow(g, last, rd, h, c, reqs)
  <1>1. /\ FlowOK(f, last, rd) /\ AllFollow(f, last, h, c) /\ Polled(f, reqs, c)
        /\ Len(g) \in Nat /\ k \in 1..Len(f) /\ Len(f) \in Nat
    BY DEF GoodFlow, FlowOK, Without
  <1>2. FlowOK(g, last, rd)
    BY <1>1, WithoutOK DEF ReadTo
  <1>3. Polled(g, reqs, c)
    BY <1>1, WithoutPolled
  <1>4. c.synced => Follows(g, 0, last, h, c.reader)
    <2> SUFFICES ASSUME c.synced PROVE Follows(g, 0, last, h, c.reader)
      OBVIOUS
    <2>1. Follows(f, 0, last, h, c.reader)
      BY <1>1 DEF AllFollow
    <2>2. Ahead(k, 0) = 0
      BY <1>1 DEF Ahead
    <2>3. Follows(g, Ahead(k, 0), last, h, c.reader)
      BY <1>1, <2>1, FadeFollows
    <2> QED BY <2>2, <2>3
  <1>5. \A r \in 1..Len(g) : Mark(g[r]) => Follows(g, r, last, h, Snapshot(g[r].val))
    BY <1>1, PassedMarks
  <1> QED BY <1>2, <1>3, <1>4, <1>5 DEF GoodFlow, AllFollow

\* The first line is read: the reader takes it, or installs the snapshot it is.
LEMMA GoodRead ==
    ASSUME NEW f, NEW g, NEW last, NEW rd, NEW rd2, NEW h, NEW c, NEW c2, NEW reqs, NEW reqs2,
           GoodFlow(f, last, rd, h, c, reqs), Without(f, 1, g), g \in Seq(FlowLine),
           ReadTo(f, 1, rd, rd2),
           c2.synced => \/ c.synced /\ Reads(f[1], c.reader, c2.reader)
                        \/ Mark(f[1]) /\ c2.reader = Snapshot(f[1].val),
           Polled(g, reqs2, c2)
    PROVE  GoodFlow(g, last, rd2, h, c2, reqs2)
  <1>1. /\ FlowOK(f, last, rd) /\ AllFollow(f, last, h, c)
        /\ Len(g) \in Nat /\ 1 \in 1..Len(f) /\ Len(f) \in Nat
    BY DEF GoodFlow, FlowOK, Without
  <1>2. FlowOK(g, last, rd2)
    BY <1>1, WithoutOK
  <1>3. c2.synced => Follows(g, 0, last, h, c2.reader)
    <2> SUFFICES ASSUME c2.synced PROVE Follows(g, 0, last, h, c2.reader)
      OBVIOUS
    <2>1. CASE c.synced /\ Reads(f[1], c.reader, c2.reader)
      <3>1. Follows(f, 0, last, h, c.reader)
        BY <1>1, <2>1 DEF AllFollow
      <3> QED BY <1>1, <2>1, <3>1, ReadFollows
    <2>2. CASE Mark(f[1]) /\ c2.reader = Snapshot(f[1].val)
      <3>1. Follows(f, 1, last, h, Snapshot(f[1].val))
        BY <1>1, <2>2 DEF AllFollow
      <3>2. Ahead(1, 1) = 0 /\ 1 <= 1
        BY DEF Ahead
      <3>3. Follows(g, Ahead(1, 1), last, h, Snapshot(f[1].val))
        BY <1>1, <3>1, <3>2, FadeFollows
      <3> QED BY <2>2, <3>2, <3>3
    <2> QED BY <2>1, <2>2
  <1>4. \A r \in 1..Len(g) : Mark(g[r]) => Follows(g, r, last, h, Snapshot(g[r].val))
    BY <1>1, PassedMarks
  <1> QED BY <1>2, <1>3, <1>4 DEF GoodFlow, AllFollow

\* Nothing is to be answered but requests that change settings.
Settled(f, reqs) ==
    /\ \A p \in 1..Len(f) : f[p].kind = "response" => f[p].val.request.method = "settings"
    /\ \A i \in 1..Len(reqs) : reqs[i].method = "settings"

\* When the last request of the recovery loop is answered, no other is open.
LEMMA LastAnswered ==
    ASSUME NEW f, NEW g, NEW last, NEW rd, NEW c, NEW reqs, c.id \in Nat, FlowOK(f, last, rd),
           Len(g) \in Nat, Without(f, 1, g), Polled(f, reqs, c), f[1].kind = "response",
           f[1].val.request.id = c.id, f[1].val.request.method # "settings"
    PROVE  Settled(g, reqs)
  <1>1. /\ 1 \in 1..Len(f) /\ Len(f) = Len(g) + 1
        /\ \A p \in 1..Len(g) : Back(1, p) \in 1..Len(f) /\ g[p] = f[Back(1, p)] /\ 1 < Back(1, p)
    BY Backs DEF Without, Back
  <1>2. ASSUME NEW p \in 1..Len(g), g[p].kind = "response", g[p].val.request.method # "settings"
        PROVE  FALSE
    <2> DEFINE q == Back(1, p)
    <2>1. q \in 1..Len(f) /\ g[p] = f[q] /\ 1 < q
      BY <1>1
    <2>2. f[q].val.request.id <= c.id /\ InTurn(f[1].val.request, f[q].val.request)
      BY <1>1, <1>2, <2>1 DEF Polled
    <2>3. f[q].val \in Answers
      BY <1>2, <2>1 DEF FlowOK, Saying
    <2>4. f[q].val.request.id \in Nat
      BY <2>3 DEF Answers, Request
    <2> HIDE DEF q
    <2> QED BY <1>2, <2>1, <2>2, <2>4 DEF InTurn
  <1>3. ASSUME NEW i \in 1..Len(reqs), reqs[i].method # "settings"
        PROVE  FALSE
    <2>1. reqs[i] \in Request /\ reqs[i].id <= c.id /\ InTurn(f[1].val.request, reqs[i])
      BY <1>1, <1>3 DEF Polled
    <2> QED BY <1>3, <2>1 DEF InTurn, Request
  <1> QED BY <1>2, <1>3 DEF Settled

\* The desktop stops vouching, or begins to when no other request is open.
LEMMA SameRequests ==
    ASSUME NEW f, NEW c, NEW c2, NEW reqs, Polled(f, reqs, c),
           c2.id = c.id, c2.synced => c.synced \/ Settled(f, reqs)
    PROVE  Polled(f, reqs, c2)
  BY DEF Polled, Settled

\* reqs2 is reqs with one request more.
Asks(reqs, q, reqs2) ==
    /\ reqs2 \in Seq(Request) /\ Len(reqs2) = Len(reqs) + 1 /\ reqs2[Len(reqs) + 1] = q
    /\ \A i \in 1..Len(reqs) : reqs2[i] = reqs[i]

\* One more request.
LEMMA MoreRequests ==
    ASSUME NEW f, NEW last, NEW rd, NEW c, NEW c2, NEW q \in Request, NEW reqs, NEW reqs2,
           FlowOK(f, last, rd),
           Polled(f, reqs, c), Asks(reqs, q, reqs2), c.id \in Nat, c2.id \in Nat,
           c.id <= c2.id, q.id <= c2.id,
           c2.synced => c.synced /\ q.method = "settings",
           q.method # "settings" => c.id < q.id,
           q.method = "rehydrate" => Settled(f, reqs)
    PROVE  Polled(f, reqs2, c2)
  <1>1. /\ reqs2 \in Seq(Request) /\ Len(reqs) \in Nat
        /\ Len(reqs2) = Len(reqs) + 1 /\ reqs2[Len(reqs) + 1] = q
        /\ \A i \in 1..Len(reqs) : reqs2[i] = reqs[i]
        /\ \A i \in 1..Len(reqs2) : i \in 1..Len(reqs) \/ i = Len(reqs) + 1
    BY DEF Asks, Polled
  <1>2. \A i \in 1..Len(reqs) : reqs[i] \in Request /\ reqs[i].id \in Nat /\ reqs[i].id <= c.id
    <2>1. \A i \in 1..Len(reqs) : reqs[i] \in Request /\ reqs[i].id <= c.id
      BY DEF Polled
    <2> QED BY <2>1 DEF Request
  <1>3. \A p \in 1..Len(f) : f[p].kind = "response" =>
            f[p].val.request.id \in Nat /\ f[p].val.request.id <= c.id
    <2>1. \A p \in 1..Len(f) : f[p].kind = "response" => f[p].val.request \in Request
      <3>1. \A p \in 1..Len(f) : f[p].kind = "response" => f[p].val \in Answers
        BY DEF FlowOK, Saying
      <3> QED BY <3>1 DEF Answers
    <2> QED BY <2>1 DEF Polled, Request
  <1>4. q.id \in Nat
    BY DEF Request
  <1>5. \A i \in 1..Len(reqs) : InTurn(reqs[i], q)
    BY <1>2, <1>4 DEF InTurn, Settled
  <1>6. \A p \in 1..Len(f) : f[p].kind = "response" => InTurn(f[p].val.request, q)
    BY <1>3, <1>4 DEF InTurn, Settled
  <1>7. \A p \in 1..Len(f) : f[p].kind = "response" =>
          /\ f[p].val.request.id <= c2.id
          /\ c2.synced => f[p].val.request.method = "settings"
    BY <1>3 DEF Polled
  <1>8. \A i \in 1..Len(reqs2) :
          reqs2[i].id <= c2.id /\ (c2.synced => reqs2[i].method = "settings")
    BY <1>1, <1>2 DEF Polled
  <1>9. \A p \in 1..Len(f) : f[p].kind = "response" =>
          \A j \in 1..Len(reqs2) : InTurn(f[p].val.request, reqs2[j])
    BY <1>1, <1>6 DEF Polled
  <1>10. ASSUME NEW i \in 1..Len(reqs2), NEW j \in 1..Len(reqs2), i < j
         PROVE  InTurn(reqs2[i], reqs2[j])
    <2>1. i \in 1..Len(reqs)
      BY <1>1, <1>10
    <2>2. CASE j \in 1..Len(reqs)
      BY <1>1, <1>10, <2>1, <2>2 DEF Polled
    <2>3. CASE j = Len(reqs) + 1
      BY <1>1, <1>5, <2>1, <2>3
    <2> QED BY <1>1, <2>2, <2>3
  <1> QED BY <1>1, <1>7, <1>8, <1>9, <1>10 DEF Polled

-----------------------------------------------------------------------------
(* A new reader, and one who has read everything. *)

\* Behind the last line nothing is lacked by who has all the deltas and shows the
\* cached snapshot, when no panel is open, and no widget is counted yet.
LEMMA NewReader ==
    ASSUME NEW f, NEW last, NEW rd, NEW h, NEW b, FlowOK(f, last, rd),
           b.from \in Nat \ {0}, b.from <= last, h.log \in Nat, b.level = h.log,
           h.frames = 0, b.chunks = 0, h.widget = 0, b.shown = 0, b.base = h.cached
    PROVE  Follows(f, Len(f), last, h, b)
  <1>1. /\ f \in Seq(FlowLine) /\ Len(f) \in Nat /\ last \in Nat
        /\ \A p \in 1..Len(f) : Saying(f[p].kind, f[p].val) /\ ~(Len(f) < p)
    BY DEF FlowOK
  <1>2. ASSUME NEW it, it \in [1..Len(f) -> SUBSET Nat], \A p \in 1..Len(f) : it[p] = {},
               NEW n \in Nat
        PROVE  Stream(f, it, last, b.from, n, n, {})
    BY <1>1, <1>2 DEF Stream
  <1>3. /\ Between(b.level, h.log) = {} /\ Between(b.chunks, h.frames) = {}
        /\ Newest(b.shown, h.widget) = {}
    BY DEF Between, Newest
  <1>4. /\ Deltas(f, Len(f)) \in [1..Len(f) -> SUBSET Nat]
        /\ Chunks(f, Len(f)) \in [1..Len(f) -> SUBSET Nat]
        /\ Widgets(f, Len(f)) \in [1..Len(f) -> SUBSET Nat]
    BY <1>1, Items
  <1>5. \A p \in 1..Len(f) : /\ Deltas(f, Len(f))[p] = {} /\ Chunks(f, Len(f))[p] = {}
                             /\ Widgets(f, Len(f))[p] = {}
    BY <1>1 DEF Deltas, Chunks, Widgets
  <1>6. DeltasFollow(f, Len(f), last, h.log, b.from, b.level)
    <2>1. Stream(f, Deltas(f, Len(f)), last, b.from, h.log, h.log, {})
      BY <1>2, <1>4, <1>5
    <2> QED BY <1>1, <1>3, <2>1 DEF DeltasFollow
  <1>7. ChunksFollow(f, Len(f), last, h.frames, b.from, b.chunks)
    <2>1. Stream(f, Chunks(f, Len(f)), last, b.from, 0, 0, {})
      BY <1>2, <1>4, <1>5
    <2> QED BY <1>1, <1>3, <2>1 DEF ChunksFollow
  <1>8. WidgetsFollow(f, Len(f), last, h.widget, b.from, b.shown)
    <2>1. Stream(f, Widgets(f, Len(f)), last, b.from, 0, 0, {})
      BY <1>2, <1>4, <1>5
    <2> QED BY <1>1, <1>3, <2>1 DEF WidgetsFollow
  <1>9. CachesFollow(f, Len(f), last, h.cached, b.from, b.base)
    BY <1>1 DEF CachesFollow
  <1> QED BY <1>1, <1>6, <1>7, <1>8, <1>9 DEF Follows

\* A snapshot comes, when everything before it has its number: it answers the
\* one request that was open, so that nobody vouches for anything meanwhile.
LEMMA GoodSnapshot ==
    ASSUME NEW f, NEW l, NEW g, NEW last, NEW rd, NEW h, NEW c, NEW reqs, NEW reqs2,
           FlowOK(f, last, rd), Polled(f, reqs, c), Longer(f, l, g), l \in FlowLine, l.seq = 0,
           Saying(l.kind, l.val), Mark(l), l.val.watermark = last, l.val.at = h.log,
           \A p \in 1..Len(f) : Event(f[p]) => f[p].seq # 0,
           l.val.request = reqs[1], Behind(reqs, reqs2), rd # 0, rd <= last,
           h.log \in Nat, h.frames = 0, h.widget = 0, l.val.cached = h.cached
    PROVE  GoodFlow(g, last, rd, h, c, reqs2)
  <1>1. /\ Len(f) \in Nat /\ Len(g) = Len(f) + 1 /\ last \in Nat /\ rd \in Nat
        /\ g[Len(f) + 1] = l /\ \A p \in 1..Len(f) : g[p] = f[p]
        /\ \A p \in 1..Len(g) : p \in 1..Len(f) \/ p = Len(f) + 1
    BY DEF FlowOK, Longer
  <1>2. \A p \in 1..Len(f) : Event(f[p]) => f[p].seq <= last
    BY DEF FlowOK, Rises
  <1>3. FlowOK(g, last, rd)
    BY <1>1, <1>2, LongerOK
  <1>4. Polled(g, reqs2, c)
    BY <1>1, AnswerPolled DEF Mark
  <1>5. 1 \in 1..Len(reqs) /\ reqs[1].method = "rehydrate"
    BY DEF Behind, Mark, Polled
  <1>6. ~c.synced
    BY <1>5 DEF Polled
  <1>7. \A p \in 1..Len(f) : ~Mark(f[p])
    <2> SUFFICES ASSUME NEW p \in 1..Len(f), Mark(f[p]) PROVE FALSE
      OBVIOUS
    <2>1. InTurn(f[p].val.request, reqs[1])
      BY <1>5 DEF Polled, Mark
    <2> QED BY <1>5, <2>1 DEF InTurn, Mark
  <1>8. Follows(g, Len(g), last, h, Snapshot(l.val))
    <2>1. /\ Snapshot(l.val).from = last /\ Snapshot(l.val).level = h.log
          /\ Snapshot(l.val).chunks = 0 /\ Snapshot(l.val).shown = 0
          /\ Snapshot(l.val).base = h.cached
      BY DEF Snapshot
    <2>2. Snapshot(l.val).from \in Nat \ {0} /\ Snapshot(l.val).from <= last
      BY <1>1, <2>1
    <2> QED BY <1>3, <2>1, <2>2, NewReader
  <1>9. ASSUME NEW r \in 1..Len(g), Mark(g[r])
        PROVE  Follows(g, r, last, h, Snapshot(g[r].val))
    <2>1. r = Len(g) /\ g[r] = l
      BY <1>1, <1>7, <1>9
    <2> QED BY <1>8, <2>1
  <1> QED BY <1>3, <1>4, <1>6, <1>9 DEF GoodFlow, AllFollow

\* Who has the last number, with nothing on its way, has everything.
LEMMA NothingFollows ==
    ASSUME NEW f, NEW last, NEW h, NEW b, Follows(f, 0, last, h, b), Len(f) = 0,
           last \in Nat, b.from = last
    PROVE  /\ b.level = h.log /\ b.chunks = h.frames /\ b.shown = h.widget
           /\ b.base = h.cached
  <1>1. ASSUME NEW it, NEW low, NEW top, NEW need,
               Stream(f, it, last, b.from, low, top, need)
        PROVE  low \in Nat /\ top \in Nat /\ low <= top /\ \A c : c \notin need
    <2>1. \A c : ~Missed(f, it, last, b.from, c)
      BY DEF Missed
    <2>2. /\ low \in Nat /\ top \in Nat /\ low <= top
          /\ \A c \in need : (\E p \in 1..Len(f) : c \in it[p]) \/ Missed(f, it, last, b.from, c)
      BY <1>1 DEF Stream
    <2>3. ~(\E p \in 1..Len(f) : TRUE)
      OBVIOUS
    <2>4. \A c \in need : FALSE
      BY <2>1, <2>2, <2>3
    <2> QED BY <2>2, <2>4
  <1>2. b.level = h.log
    <2>1. Stream(f, Deltas(f, 0), last, b.from, b.level, h.log, Between(b.level, h.log))
      BY DEF Follows, DeltasFollow
    <2>2. /\ b.level \in Nat /\ h.log \in Nat /\ b.level <= h.log
          /\ h.log \notin Between(b.level, h.log)
      BY <1>1, <2>1
    <2> QED BY <2>2 DEF Between
  <1>3. b.chunks = h.frames
    <2>1. Stream(f, Chunks(f, 0), last, b.from, b.chunks, h.frames, Between(b.chunks, h.frames))
      BY DEF Follows, ChunksFollow
    <2>2. /\ b.chunks \in Nat /\ h.frames \in Nat /\ b.chunks <= h.frames
          /\ h.frames \notin Between(b.chunks, h.frames)
      BY <1>1, <2>1
    <2> QED BY <2>2 DEF Between
  <1>4. b.shown = h.widget
    <2>1. Stream(f, Widgets(f, 0), last, b.from, b.shown, h.widget, Newest(b.shown, h.widget))
      BY DEF Follows, WidgetsFollow
    <2>2. h.widget \notin Newest(b.shown, h.widget)
      BY <1>1, <2>1
    <2> QED BY <2>2 DEF Newest
  <1>5. b.base = h.cached
    <2>1. CachesFollow(f, 0, last, h.cached, b.from, b.base)
      BY DEF Follows
    <2>2. ~Hole(f, last, b.from)
      BY DEF Hole
    <2>3. ~(\E p \in 1..Len(f) : TRUE)
      OBVIOUS
    <2> QED BY <2>1, <2>2, <2>3 DEF CachesFollow
  <1> QED BY <1>2, <1>3, <1>4, <1>5

=============================================================================
