----------------------------- MODULE EventStream -----------------------------
(***************************************************************************)
(* The Host's event stream and the desktop's recovery from gaps in it.     *)
(*                                                                         *)
(* The Host side is OutboundQueue with the events a session emits          *)
(* (server.ts system.rehydrate, session-runtime-cache.ts,                  *)
(* extension-ui-bridge.ts).  The desktop (apps/desktop/src: App.tsx,       *)
(* host-client.ts, rehydrate.ts, epoch-store.ts) applies the events whose  *)
(* numbers are consecutive; at a gap it stops, says hello, buffers events, *)
(* asks for an atomic snapshot, installs it at its watermark, and replays  *)
(* what it buffered above that.                                            *)
(***************************************************************************)
EXTENDS OutboundQueue

CONSTANTS
    BufferLimit,    \* RecoveryEventBuffer's limit, 10 000 in the code
    MaxAttempts,    \* attempts of one recovery, 5 in the code
    Emitted,        \* kinds of event the session emits in this instance
    MaxFailing      \* bound: the requests numbered below it may fail

ASSUME RecoveryAssumption ==
    /\ BufferLimit \in Nat \ {0} /\ MaxAttempts \in Nat \ {0}
    /\ Emitted \subseteq EventKinds /\ MaxFailing \in Nat

VARIABLES
    host,       \* [log, cached, shared, queue, widget, frames]: what it has said
    requests,   \* desktop requests the Host has not handled, FIFO
    client      \* the desktop's store and recovery loop

esVars == <<outVars, host, requests, client>>

(***************************************************************************)
(* host.log counts the deltas of the transcript, host.cached those in the  *)
(* cached graph.sessionSnapshot; host.shared is TRUE while that object is  *)
(* also the payload of the last session.snapshot event; the rest are       *)
(* versions of the pending queue, of a widget, and the frames of an open   *)
(* custom panel.                                                           *)
(*                                                                         *)
(* The desktop's view: "base" deltas came with the installed snapshot,     *)
(* which stands for the stream up to delta "at"; "tail" are the deltas     *)
(* applied since.  "panel" is what attention asked for and what was shown. *)
(***************************************************************************)
EmptyView == [base |-> 0, at |-> 0, tail |-> <<>>, queue |-> 0, widget |-> 0,
              frames |-> <<>>, panel |-> [asked |-> 0, shown |-> 0]]

-----------------------------------------------------------------------------
(* The session emits events. *)

Emit(kind, val) ==
    /\ queued < MaxQueued /\ kind \in Emitted
    /\ writer' = EnqueueEvent(writer, kind, val, 1)
    /\ queued' = queued + 1
    /\ UNCHANGED <<wire, read, requests, client>>

\* agent.event: the transcript grows, the cached snapshot does not.
EmitDelta ==
    /\ Emit("delta", <<host.log + 1>>)
    /\ host' = [host EXCEPT !.log = @ + 1]

\* agent_end, agent_settled: the snapshot is rebuilt and published.
EmitSnap ==
    /\ Emit("snap", <<host.log, host.queue>>)
    /\ host' = [host EXCEPT !.cached = host.log, !.shared = TRUE]

Snaps(w) == {i \in DOMAIN w.queue : w.queue[i].kind = "snap"}

\* sessionSnapshot.pending = queue, where the cached snapshot may still wait in
\* the writer: payloads are queued by reference and serialised at the write.
SetPending(w, version) ==
    IF host.shared /\ Snaps(w) # {}
    THEN [w EXCEPT !.queue[Max(Snaps(w))].val[2] = version]
    ELSE w

\* publishQueueSnapshot
EmitQueue ==
    LET version == host.queue + 1
    IN  /\ queued < MaxQueued /\ "queue" \in Emitted
        /\ writer' = EnqueueEvent(SetPending(writer, version), "queue", <<version>>, 1)
        /\ queued' = queued + 1
        /\ host' = [host EXCEPT !.queue = version]
        /\ UNCHANGED <<wire, read, requests, client>>

EmitWidget ==
    /\ Emit("widget", <<host.widget + 1>>)
    /\ host' = [host EXCEPT !.widget = @ + 1]

\* A command's widget, and attention for it in the same turn.
EmitAttention ==
    LET v == <<host.widget + 1>>
    IN  /\ queued < MaxQueued /\ "attention" \in Emitted
        /\ writer' = EnqueueEvent(EnqueueEvent(writer, "widget", v, 1),
                                  "attention", v, 1)
        /\ queued' = queued + 1
        /\ host' = [host EXCEPT !.widget = @ + 1]
        /\ UNCHANGED <<wire, read, requests, client>>

EmitFrame ==
    /\ Emit("frame", <<host.frames + 1>>)
    /\ host' = [host EXCEPT !.frames = @ + 1]

-----------------------------------------------------------------------------
(* The Host answers requests. *)

Reply(request, ok, watermark) ==
    [request |-> request, ok |-> ok, watermark |-> watermark,
     cached |-> host.cached, at |-> host.log, queue |-> host.queue]

HostHello ==
    /\ requests # <<>> /\ Head(requests).method = "hello"
    /\ writer' = EnqueueResponse(writer, Reply(Head(requests), TRUE, 0))
    /\ requests' = Tail(requests)
    /\ UNCHANGED <<wire, read, queued, host, client>>

\* Bug: the durable extension state is not replayed after the barrier.
Replay_Nothing(w) == w

\* afterRehydrateBarrier: open panels are closed, widgets are sent again.
Replay(w) ==
    LET closed == IF host.frames = 0 THEN w ELSE EnqueueEvent(w, "closed", <<>>, 1)
    IN  IF host.widget = 0 THEN closed
        ELSE EnqueueEvent(closed, "widget", <<host.widget>>, 1)

\* system.rehydrate under the graph lock, in one turn.
HostRehydrate ==
    LET snapshot == Reply(Head(requests), TRUE, Sealed(writer).last)
    IN  /\ requests # <<>> /\ Head(requests).method = "rehydrate"
        /\ \E sealed \in {EnqueueBarrier(writer, snapshot)} : writer' = Replay(sealed)
        /\ host' = [host EXCEPT !.frames = 0]
        /\ requests' = Tail(requests)
        /\ UNCHANGED <<wire, read, queued, client>>

\* SERVICE_GRAPH_BUSY, or a snapshot that fails validation or the frame limit.
HostRefuse ==
    /\ requests # <<>> /\ Head(requests).method = "rehydrate"
    /\ Head(requests).id < MaxFailing
    /\ writer' = EnqueueResponse(writer, Reply(Head(requests), FALSE, 0))
    /\ requests' = Tail(requests)
    /\ UNCHANGED <<wire, read, queued, host, client>>

\* agent.setAutoCompaction and its like: the snapshot is rebuilt and returned,
\* without an event.
HostSettings ==
    /\ requests # <<>> /\ Head(requests).method = "settings"
    /\ writer' = EnqueueResponse(writer,
                     [Reply(Head(requests), TRUE, 0) EXCEPT !.cached = host.log])
    /\ host' = [host EXCEPT !.cached = host.log, !.shared = FALSE]
    /\ requests' = Tail(requests)
    /\ UNCHANGED <<wire, read, queued, client>>

-----------------------------------------------------------------------------
(* The desktop applies events. *)

\* The reducers of handleHostEvent.
Apply(view, e) ==
    CASE e.kind = "delta"  -> [view EXCEPT !.tail = @ \o e.val]
      [] e.kind = "snap"   -> [view EXCEPT !.base = e.val[1], !.at = e.val[1],
                                           !.tail = <<>>, !.queue = e.val[2]]
      [] e.kind = "queue"  -> IF e.val[1] >= view.queue
                              THEN [view EXCEPT !.queue = e.val[1]] ELSE view
      [] e.kind = "widget" -> [view EXCEPT !.widget = e.val[1]]
      [] e.kind = "attention" ->
            [view EXCEPT !.panel = [asked |-> e.val[1], shown |-> view.widget]]
      [] e.kind = "frame"  -> [view EXCEPT !.frames = @ \o e.val]
      [] e.kind = "closed" -> [view EXCEPT !.frames = <<>>]

\* Bug: a recovery asked for during another one is forgotten.
RequestRecovery_Forgotten(c) ==
    [c EXCEPT !.desync = TRUE, !.pending = c.mode = "live"]

\* requestRecovery: markDesynchronized, and another round of the loop.
RequestRecovery(c) == [c EXCEPT !.desync = TRUE, !.pending = TRUE]

\* Bug: a gap is noted, but the event is applied.
Gap_Applied(c, e) ==
    [c EXCEPT !.lastSeq = e.seq, !.view = Apply(c.view, e)]

\* An event beyond the next number is not applied, and recovery starts.
Gap(c, e) == RequestRecovery([c EXCEPT !.lastSeq = e.seq])

\* handleHostEvent with noteSequence; a last sequence of 0 accepts any number.
HandleEvent(c, e) ==
    CASE c.desync \/ (c.lastSeq > 0 /\ e.seq <= c.lastSeq) -> c
      [] ~c.desync /\ c.lastSeq > 0 /\ e.seq > c.lastSeq + 1 -> Gap(c, e)
      [] OTHER -> [c EXCEPT !.lastSeq = e.seq, !.view = Apply(c.view, e)]

\* Bug: the buffer grows without a limit.
Capture_Unbounded(c, e) == [c EXCEPT !.buffer = Append(@, e)]

\* RecoveryEventBuffer.capture
Capture(c, e) ==
    IF Len(c.buffer) < BufferLimit THEN [c EXCEPT !.buffer = Append(@, e)]
    ELSE [c EXCEPT !.overflow = TRUE]

-----------------------------------------------------------------------------
(* The recovery loop of scheduleRecovery. *)

Ask(c, mode) == [c EXCEPT !.mode = mode, !.id = @ + 1]

\* The loop takes up the recovery that is pending, if any.
NextRound(c) ==
    IF c.pending THEN Ask([c EXCEPT !.pending = FALSE, !.attempt = 0], "hello")
    ELSE [c EXCEPT !.mode = "live"]

\* hello answered: beginHostEpoch, then runFullRehydrate up to its request.
HelloOk(c) ==
    Ask([c EXCEPT !.desync = FALSE, !.fatal = FALSE, !.lastSeq = 0,
                  !.view = EmptyView, !.buffer = <<>>, !.overflow = FALSE],
        "rehydrate")

\* RecoveryEventBuffer.finish: what was buffered above the watermark is replayed.
Replayed(c, buffer, watermark) ==
    LET after[n \in 0..Len(buffer)] ==
            IF n = 0 THEN c
            ELSE IF buffer[n].seq > watermark THEN HandleEvent(after[n - 1], buffer[n])
            ELSE after[n - 1]
    IN  after[Len(buffer)]

\* Bug: the sequence watermark of the snapshot is not installed.
Install_NoWatermark(c, r) ==
    [c EXCEPT !.desync = FALSE, !.buffer = <<>>, !.overflow = FALSE,
              !.view = [EmptyView EXCEPT !.base = r.cached, !.at = r.at,
                                         !.queue = r.queue]]

\* completeRehydrate
Install(c, r) ==
    [c EXCEPT !.lastSeq = r.watermark, !.desync = FALSE,
              !.buffer = <<>>, !.overflow = FALSE,
              !.view = [EmptyView EXCEPT !.base = r.cached, !.at = r.at,
                                         !.queue = r.queue]]

\* The snapshot arrives: install it and replay, unless the buffer overflowed.
RehydrateOk(c, r) ==
    LET installed == Install(c, r)
    IN  IF c.overflow THEN NextRound(RequestRecovery(installed))
        ELSE NextRound(Replayed(installed, c.buffer, r.watermark))

\* A request fails or times out; a failed rehydrate also marks the store.  A
\* recovery asked for meanwhile starts at once, otherwise the loop backs off.
Fail(c) ==
    LET marked == IF c.mode = "hello" THEN c
                  ELSE [c EXCEPT !.desync = TRUE, !.fatal = TRUE,
                                 !.buffer = <<>>, !.overflow = FALSE]
    IN  IF c.pending THEN NextRound(marked) ELSE [marked EXCEPT !.mode = "backoff"]

\* A response arrives: that to the loop's request, or to a settings request,
\* whose snapshot is applied in any mode.
Answer(c, r) ==
    CASE r.request.method = "settings" ->
            [c EXCEPT !.view.base = r.cached, !.view.at = r.at,
                      !.view.tail = <<>>, !.view.queue = r.queue]
      [] r.request = [id |-> c.id, method |-> c.mode] ->
            IF ~r.ok THEN Fail(c)
            ELSE IF c.mode = "hello" THEN HelloOk(c) ELSE RehydrateOk(c, r)
      [] OTHER -> c

\* A line arrives: handleLine, then onEvent or the pending request.
Receive(c, line) ==
    IF line.kind = "response" THEN Answer(c, line.val)
    ELSE IF c.mode = "rehydrate" THEN Capture(c, line)
    ELSE LET handled == HandleEvent(c, line)
         IN  IF c.mode = "live" THEN NextRound(handled) ELSE handled

\* A request the loop made goes to the Host.
Send ==
    requests' = IF client'.id = client.id THEN requests
                ELSE Append(requests, [id |-> client'.id, method |-> client'.mode])

ClientReceive ==
    /\ PeerRead
    /\ client' = Receive(client, Head(wire))
    /\ Send
    /\ UNCHANGED host

\* The user changes a setting of the session.
ClientSettings ==
    /\ client.mode = "live" /\ ~client.desync /\ queued < MaxQueued
    /\ requests' = Append(requests, [id |-> client.id, method |-> "settings"])
    /\ queued' = queued + 1
    /\ UNCHANGED <<writer, wire, read, host, client>>

\* hello waits 10 s, system.rehydrate 15 s; a later answer is ignored.
ClientTimeout ==
    /\ client.mode \in {"hello", "rehydrate"} /\ client.id < MaxFailing
    /\ client' = Fail(client)
    /\ Send
    /\ UNCHANGED <<outVars, host>>

\* The next attempt, a new round, or settleHostFailure after the last attempt.
ClientRetry ==
    /\ client.mode = "backoff"
    /\ client' = CASE client.attempt + 1 < MaxAttempts ->
                        Ask([client EXCEPT !.attempt = @ + 1], "hello")
                   [] client.attempt + 1 = MaxAttempts /\ client.pending ->
                        NextRound(client)
                   [] OTHER -> [client EXCEPT !.mode = "live", !.desync = FALSE,
                                              !.fatal = TRUE]
    /\ Send
    /\ UNCHANGED <<outVars, host>>

-----------------------------------------------------------------------------
\* host.ready had sequence 1.  The desktop has recovered from it, or it has
\* since found a gap between numbers 1 and 3 and says hello.
EsInit ==
    \E gap \in BOOLEAN :
        LET last == IF gap THEN 3 ELSE 1
        IN  /\ writer = [EmptyWriter EXCEPT !.last = last]
            /\ wire = <<>> /\ read = last /\ queued = 0
            /\ host = [log |-> 0, cached |-> 0, shared |-> FALSE,
                       queue |-> 0, widget |-> 0, frames |-> 0]
            /\ requests = IF gap THEN <<[id |-> 0, method |-> "hello"]>> ELSE <<>>
            /\ client = [mode |-> IF gap THEN "hello" ELSE "live", attempt |-> 0,
                         id |-> 0, pending |-> FALSE, desync |-> gap, fatal |-> FALSE,
                         lastSeq |-> last, buffer |-> <<>>, overflow |-> FALSE,
                         view |-> EmptyView]

PumpStep == PumpWrite /\ UNCHANGED <<host, requests, client>>

SessionEmits ==
    \/ EmitDelta \/ EmitSnap \/ EmitQueue
    \/ EmitWidget \/ EmitAttention \/ EmitFrame
HostAnswers == HostHello \/ HostRehydrate \/ HostRefuse \/ HostSettings

EsNext ==
    \/ SessionEmits \/ HostAnswers \/ PumpStep
    \/ ClientReceive \/ ClientTimeout \/ ClientRetry \/ ClientSettings

EsSpec == EsInit /\ [][EsNext]_esVars

(***************************************************************************)
(* The event loops of Host and desktop run: while the pump may write what  *)
(* the stream takes, the desktop may read, a request may be answered or a  *)
(* back-off timer may fire, one of these steps is taken.  Nothing is       *)
(* promised about timeouts: that every recovery ends follows from answers  *)
(* that are never lost.                                                    *)
(***************************************************************************)
EsFairSpec ==
    EsSpec /\ WF_esVars(PumpStep \/ HostAnswers \/ ClientReceive \/ ClientRetry)

-----------------------------------------------------------------------------
(* Properties *)

\* Shapes of the desktop's state and of the session's counters.
EsTypeOK ==
    /\ host \in [log : Nat, cached : Nat, shared : BOOLEAN,
                queue : Nat, widget : Nat, frames : Nat]
    /\ requests \in Seq([id : Nat, method : {"hello", "rehydrate", "settings"}])
    /\ client.mode \in {"live", "hello", "rehydrate", "backoff"}
    /\ client.attempt \in 0..MaxAttempts - 1
    /\ {client.pending, client.desync, client.fatal, client.overflow} \subseteq BOOLEAN
    /\ Len(client.buffer) <= BufferLimit
    /\ client.lastSeq <= writer.last /\ read <= writer.last

\* What the desktop has told the user it cannot vouch for is left out.
Vouched == ~client.fatal

\* Every delta after the installed snapshot is applied once, in order: none is
\* lost to coalescing, shedding, overflow or the watermark without a recovery,
\* and none is applied twice; nor is a chunk of a custom panel.
StreamsContiguous ==
    Vouched =>
        /\ \A i \in DOMAIN client.view.tail : client.view.tail[i] = client.view.at + i
        /\ \A i \in DOMAIN client.view.frames : client.view.frames[i] = i

\* An attention request opens the widget it is about: neither the one before,
\* shed at the hard cap, nor a later one that replaced it in the queue.
AttentionShowsWidget ==
    Vouched => client.view.panel.shown = client.view.panel.asked

\* Everything the Host said has been read, and no recovery is under way.
CaughtUp ==
    /\ client.mode = "live" /\ Vouched
    /\ writer.queue = <<>> /\ wire = <<>> /\ client.lastSeq = writer.last

\* A desktop that has caught up shows the Host's widget and frames, the snapshot
\* the Host has cached, and every delta since the position that one stands for.
\* Of the transcript it lacks what the cached snapshot lacks in mid-turn
\* (SnapshotIsBoundary), and nothing once the Host has rebuilt it (cached = log).
Converged ==
    CaughtUp => /\ client.view.at + Len(client.view.tail) = host.log
                /\ client.view.base = host.cached
                /\ client.view.widget = host.widget
                /\ Len(client.view.frames) = host.frames

\* Every recovery ends, although responses share the queue with the flood of
\* events that caused it; and a desktop that ignores events as desynchronised,
\* whether or not a recovery is under way then, does not go on doing so.
RecoveryEnds ==
    LET recovered == client.mode = "live" /\ ~client.desync
    IN  ~recovered ~> recovered

\* outbound-queue.ts, "all host output flows through one queue so ordering is
\* preserved": a desktop that has caught up shows the latest pending queue.
QueueConverged == CaughtUp => client.view.queue = host.queue

\* protocol.md, "the watermark is the exact boundary represented by the
\* snapshot": the installed transcript holds every delta up to the watermark.
SnapshotIsBoundary == Vouched => client.view.base = client.view.at
=============================================================================
