---------------------------- MODULE OutboundQueue ----------------------------
(***************************************************************************)
(* The Host's outbound writer (packages/pi-host/src/outbound-queue.ts):    *)
(* one bounded queue for responses and events.  Events get their sequence  *)
(* number when they are written, or when a recovery barrier seals them.    *)
(* Above the soft watermark latest-wins events replace their queued        *)
(* predecessor in place and terminal frames are appended to it; above the  *)
(* hard cap events are dropped and a sequence number is burned, so that    *)
(* the peer notices.                                                       *)
(*                                                                         *)
(* The code's methods run to completion in one turn of the event loop, so  *)
(* they are operators from writer state to writer state; the pump takes    *)
(* one entry per step, because it may wait for the stream after each.      *)
(***************************************************************************)
EXTENDS Integers, FiniteSets, Sequences, SequencesExt

CONSTANTS
    SoftWatermark,  \* pending bytes above which events are coalesced
    HardCap,        \* pending bytes above which events are dropped
    MaxFrame,       \* size of the largest frame that is written
    WireCapacity,   \* lines the stream takes before the pump waits for a drain
    MaxQueued       \* bound on the entries put in the queue by Next

ASSUME WatermarkAssumption ==
    /\ SoftWatermark \in Nat /\ HardCap \in Nat /\ SoftWatermark <= HardCap
    /\ MaxFrame \in Nat \ {0} /\ WireCapacity \in Nat \ {0} /\ MaxQueued \in Nat

\* Kinds of event: "delta" is an agent.event, "snap" a session.snapshot,
\* "closed" an extensionUi.customClosed, "queue" agent.queueChanged, "widget"
\* and "attention" the extensionUi events, "frame" extensionUi.customFrame.
PlainKinds == {"delta", "snap", "closed"}
Mergeable == {"queue", "widget", "frame"}
EventKinds == PlainKinds \cup Mergeable \cup {"attention"}

\* coalesceKeyFor: the events that carry a key.  That of an attention request
\* is its run, which requests attention once: it has nothing to merge with.
HasKey(kind) == kind \notin PlainKinds /\ kind # "response"

VARIABLES
    writer,     \* [queue, pending, last]: entries, pendingBytes, last sequence
    wire,       \* lines written and not yet read by the peer
    read,       \* sequence of the last event the peer has read
    queued      \* entries put in the queue so far

outVars == <<writer, wire, read, queued>>

(***************************************************************************)
(* An entry; its sequence is 0 until it has one, and it is "indexed" while *)
(* it is the value of its key in coalesceIndex.                            *)
(***************************************************************************)
Entry(kind, val, bytes) ==
    [kind |-> kind, val |-> val, bytes |-> bytes, seq |-> 0,
     dropped |-> FALSE, indexed |-> FALSE]

IsEvent(e) == e.kind # "response"

EmptyWriter == [queue |-> <<>>, pending |-> 0, last |-> 0]

-----------------------------------------------------------------------------
\* The sum of a sequence of numbers.
Total(numbers) ==
    LET sum[n \in 0..Len(numbers)] ==
            IF n = 0 THEN 0 ELSE sum[n - 1] + numbers[n]
    IN  sum[Len(numbers)]

\* Bug: an event that is shed leaves no hole in the numbers.
NextSequence_Silent(w) == w

\* nextSequence
NextSequence(w) == [w EXCEPT !.last = @ + 1]

\* Bug: the second pass drops responses as well.
Droppable_Responses(e, all) == ~e.dropped /\ (all \/ HasKey(e.kind))

\* Entries a pass of maybeEnforceHardCap drops: keyed events, then all events.
Droppable(e, all) == IsEvent(e) /\ ~e.dropped /\ (all \/ HasKey(e.kind))

Shed(e, all) == [e EXCEPT !.dropped = @ \/ Droppable(e, all)]

\* One pass: the bytes are given back, and a number is burned for all it drops.
Drop(w, all) ==
    LET shed == Total([i \in DOMAIN w.queue |->
                          IF Droppable(w.queue[i], all) THEN w.queue[i].bytes ELSE 0])
        bare == [w EXCEPT !.queue = [i \in DOMAIN @ |-> Shed(@[i], all)],
                          !.pending = @ - shed]
    IN  IF \E i \in DOMAIN w.queue : Droppable(w.queue[i], all)
        THEN NextSequence(bare) ELSE bare

\* Bug: the second pass is missing.
EnforceHardCap_Once(w) == IF w.pending <= HardCap THEN w ELSE Drop(w, FALSE)

\* maybeEnforceHardCap: keyed events go first; when they are not enough, all
\* events go, and the number burned for the first pass is burned for both.
EnforceHardCap(w) ==
    IF w.pending <= HardCap THEN w
    ELSE IF Drop(w, FALSE).pending <= HardCap THEN Drop(w, FALSE)
    ELSE Drop(w, TRUE)

Push(w, e) ==
    EnforceHardCap([w EXCEPT !.queue = Append(@, e), !.pending = @ + e.bytes])

\* coalesceIndex.delete(key)
Unindex(w, kind) ==
    LET without(e) == [e EXCEPT !.indexed = @ /\ e.kind # kind]
    IN  [w EXCEPT !.queue = [i \in DOMAIN @ |-> without(@[i])]]

Indexed(w, kind) == {i \in DOMAIN w.queue : w.queue[i].kind = kind /\ w.queue[i].indexed}

\* Bug: the bytes of a replaced event are not subtracted.
Merge_KeepBytes(w, i, val, bytes) ==
    EnforceHardCap([w EXCEPT !.queue[i].val = val, !.queue[i].bytes = bytes,
                             !.pending = @ + bytes])

\* Under pressure: frames are appended, latest-wins events replaced in place.
Merge(w, i, val, bytes) ==
    IF w.queue[i].kind = "frame"
    THEN EnforceHardCap([w EXCEPT !.queue[i].val = @ \o val,
                                  !.queue[i].bytes = @ + bytes,
                                  !.pending = @ + bytes])
    ELSE EnforceHardCap([w EXCEPT !.queue[i].val = val,
                                  !.queue[i].bytes = bytes,
                                  !.pending = @ + bytes - w.queue[i].bytes])

\* Bug: attention does not close its widget to later replacement.
AttentionGuard_Open(w) == w

\* What an attention request does to the widget it follows.
AttentionGuard(w) == Unindex(w, "widget")

\* enqueueEvent
EnqueueEvent(w, kind, val, bytes) ==
    LET guarded == IF kind = "attention" THEN AttentionGuard(w) ELSE w
        target == {i \in Indexed(guarded, kind) : ~guarded.queue[i].dropped}
    IN  IF kind = "attention" /\ \E i \in Indexed(w, "widget") : w.queue[i].dropped
        THEN w
        ELSE IF kind \in Mergeable /\ guarded.pending > SoftWatermark /\ target # {}
        THEN Merge(guarded, CHOOSE i \in target : TRUE, val, bytes)
        ELSE Push(Unindex(guarded, kind),
                  [Entry(kind, val, bytes) EXCEPT !.indexed = HasKey(kind)])

\* enqueueResponse
EnqueueResponse(w, val) == Push(w, Entry("response", val, 1))

\* Bug: the sealed numbers are not allocated.
Seal_NotAllocated(w) ==
    LET open == {i \in DOMAIN w.queue : /\ IsEvent(w.queue[i]) /\ ~w.queue[i].dropped
                                        /\ w.queue[i].seq = 0}
        rank(i) == Cardinality({j \in open : j <= i})
        number(i) == IF i \in open THEN w.last + rank(i) ELSE w.queue[i].seq
    IN  [w EXCEPT
            !.queue = [i \in DOMAIN @ |-> [@[i] EXCEPT !.seq = number(i)]]]

\* Bug: only the events that could be coalesced are sealed.
Seal_KeyedOnly(w) ==
    LET open == {i \in DOMAIN w.queue : /\ HasKey(w.queue[i].kind) /\ ~w.queue[i].dropped
                                        /\ w.queue[i].seq = 0}
        rank(i) == Cardinality({j \in open : j <= i})
        number(i) == IF i \in open THEN w.last + rank(i) ELSE w.queue[i].seq
    IN  [w EXCEPT
            !.queue = [i \in DOMAIN @ |-> [@[i] EXCEPT !.seq = number(i)]],
            !.last = @ + Cardinality(open)]

\* The live events that a barrier numbers, in queue order.
Seal(w) ==
    LET open == {i \in DOMAIN w.queue : /\ IsEvent(w.queue[i]) /\ ~w.queue[i].dropped
                                        /\ w.queue[i].seq = 0}
        rank(i) == Cardinality({j \in open : j <= i})
        number(i) == IF i \in open THEN w.last + rank(i) ELSE w.queue[i].seq
    IN  [w EXCEPT
            !.queue = [i \in DOMAIN @ |-> [@[i] EXCEPT !.seq = number(i)]],
            !.last = @ + Cardinality(open)]

\* Bug: the barrier does not clear the coalesce index.
ClearIndex_Kept(w) == w

\* coalesceIndex.clear()
ClearIndex(w) ==
    [w EXCEPT !.queue = [i \in DOMAIN @ |-> [@[i] EXCEPT !.indexed = FALSE]]]

\* Everything queued has its number, the last of which is the watermark.
Sealed(w) == ClearIndex(Seal(w))

\* enqueueBarrierResponse, whose body the watermark is part of.
EnqueueBarrier(w, val) == EnqueueResponse(Sealed(w), val)

-----------------------------------------------------------------------------
\* Bug: the bytes of a dropped entry are subtracted a second time.
Weight_Dropped(e) == e.bytes

\* What an entry the pump takes still contributes to pendingBytes.
Weight(e) == IF e.dropped THEN 0 ELSE e.bytes

\* The pump takes the first entry; a dropped one is skipped, an event without a
\* sequence gets one, and an oversized event is dropped with its sequence.
PumpWrite ==
    LET e == Head(writer.queue)
        live == IsEvent(e) /\ ~e.dropped
        seq == IF live /\ e.seq = 0 THEN writer.last + 1 ELSE e.seq
    IN  /\ writer.queue # <<>>
        /\ Len(wire) < WireCapacity
        /\ writer' = [queue |-> Tail(writer.queue),
                      pending |-> writer.pending - Weight(e),
                      last |-> IF live /\ e.seq = 0 THEN seq ELSE writer.last]
        /\ wire' = IF e.dropped \/ (IsEvent(e) /\ e.bytes > MaxFrame) THEN wire
                   ELSE Append(wire, [kind |-> e.kind, val |-> e.val, seq |-> seq])
        /\ UNCHANGED <<read, queued>>

\* The write throws, the peer is gone: the backlog is discarded.
PumpFail ==
    LET e == Head(writer.queue)
        live == IsEvent(e) /\ ~e.dropped /\ e.seq = 0
    IN  /\ writer.queue # <<>> /\ ~e.dropped
        /\ writer' = [queue |-> <<>>, pending |-> 0,
                      last |-> IF live THEN writer.last + 1 ELSE writer.last]
        /\ UNCHANGED <<wire, read, queued>>

\* The peer reads a line.
PeerRead ==
    /\ wire # <<>>
    /\ wire' = Tail(wire)
    /\ read' = IF Head(wire).kind = "response" THEN read ELSE Head(wire).seq
    /\ UNCHANGED <<writer, queued>>

\* A handler of the Host emits an event, a response, or a recovery snapshot.
\* Frames of two sizes, so that a single one may exceed the frame limit.
HostEvent(kind) ==
    /\ queued < MaxQueued
    /\ \E n \in IF kind = "frame" THEN {1, 2} ELSE {1} :
          writer' = EnqueueEvent(writer, kind, [i \in 1..n |-> queued], n)
    /\ queued' = queued + 1
    /\ UNCHANGED <<wire, read>>

HostResponse ==
    /\ queued < MaxQueued
    /\ writer' = EnqueueResponse(writer, <<queued>>)
    /\ queued' = queued + 1
    /\ UNCHANGED <<wire, read>>

HostBarrier ==
    /\ queued < MaxQueued
    /\ writer' = EnqueueBarrier(writer, <<Sealed(writer).last>>)
    /\ queued' = queued + 1
    /\ UNCHANGED <<wire, read>>

OutInit ==
    /\ writer = EmptyWriter /\ wire = <<>> /\ read = 0 /\ queued = 0

OutNext ==
    \/ PumpWrite \/ PumpFail \/ PeerRead
    \/ \E kind \in EventKinds : HostEvent(kind)
    \/ HostResponse \/ HostBarrier

OutSpec == OutInit /\ [][OutNext]_outVars

-----------------------------------------------------------------------------
(* Properties *)

Payload == Seq(Nat)

\* Shapes of the writer's state and of the lines on the wire.
OutTypeOK ==
    /\ writer \in [queue : Seq([kind : EventKinds \cup {"response"}, val : Payload,
                                bytes : Nat, seq : Nat, dropped : BOOLEAN,
                                indexed : BOOLEAN]),
                   pending : Nat, last : Nat]
    /\ wire \in Seq([kind : EventKinds \cup {"response"}, val : Payload, seq : Nat])
    /\ read \in Nat /\ queued \in 0..MaxQueued

\* pendingBytes is the size of what will be written, through every merge, shed
\* and pump step (a drift would disable or wedge the pressure policies), and over
\* the hard cap only responses are kept.  The shapes are part of the account.
PressureBounded ==
    /\ OutTypeOK
    /\ writer.pending = Total([i \in DOMAIN writer.queue |->
                                  IF writer.queue[i].dropped THEN 0
                                  ELSE writer.queue[i].bytes])
    /\ writer.pending > HardCap =>
          \A i \in DOMAIN writer.queue :
              IsEvent(writer.queue[i]) => writer.queue[i].dropped

Live(e) == IsEvent(e) /\ ~e.dropped
Numbered(e) == Live(e) /\ e.seq # 0

\* The numbers the peer reads only go up, although some are allocated by a
\* barrier and others at the write: read, then the wire, then the entries a
\* barrier sealed, before which no event waits for its number; none is above the
\* last allocated.
SequencesIncrease ==
    LET queue == writer.queue
    IN  /\ read <= writer.last
        /\ \A i \in DOMAIN wire : IsEvent(wire[i]) =>
              /\ read < wire[i].seq /\ wire[i].seq <= writer.last
              /\ \A j \in DOMAIN wire :
                    i < j /\ IsEvent(wire[j]) => wire[i].seq < wire[j].seq
              /\ \A j \in DOMAIN queue :
                    Numbered(queue[j]) => wire[i].seq < queue[j].seq
        /\ \A j \in DOMAIN queue : Numbered(queue[j]) =>
              /\ read < queue[j].seq /\ queue[j].seq <= writer.last
              /\ \A i \in DOMAIN queue : i < j /\ Live(queue[i]) =>
                    Numbered(queue[i]) /\ queue[i].seq < queue[j].seq

\* What the responses among some lines say, in order.
Responses(lines) ==
    LET said[n \in 0..Len(lines)] ==
            IF n = 0 THEN <<>>
            ELSE IF lines[n].kind = "response" THEN Append(said[n - 1], lines[n].val)
            ELSE said[n - 1]
    IN  said[Len(lines)]

\* What has not been read: the wire, and what the pump will write to it.
Unread ==
    wire \o [i \in DOMAIN writer.queue |->
                [kind |-> IF writer.queue[i].dropped THEN "dropped"
                          ELSE writer.queue[i].kind,
                 val |-> writer.queue[i].val]]

\* No pressure policy drops, merges or reorders a response (protocol.md: they
\* are retained under queue pressure): except for what the peer reads, and what
\* a broken stream loses, the responses still to be read only grow at the end.
ResponsesKept ==
    [][PeerRead \/ PumpFail \/ IsPrefix(Responses(Unread), Responses(Unread'))]_outVars
=============================================================================
