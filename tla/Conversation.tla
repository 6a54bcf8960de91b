---------------------------- MODULE Conversation ----------------------------
(* One conversation, seen by one browser: the session's turns and the events
   they emit (src/agent/session.py, src/agent/session_manager.py,
   src/web/ws_handlers.py), the event bus with its queue per connection
   (src/web/event_bus.py) and the browser's reducer with its reconnection and
   its requests for a fresh snapshot (web/src/features/conversation).

   The draft of a reply is here the number of events that built it; StreamDraft
   has what the events do to it.

   What the browser is promised: what it shows as the reply being streamed is at
   every moment what the server had at the revision the browser stands at, and
   whatever is dropped on the way, it catches up. *)
EXTENDS Integers, Sequences, SequencesExt, FiniteSetsExt

CONSTANTS
    QueueSize,     \* EVENT_QUEUE_SIZE
    OverflowSize,  \* EVENT_OVERFLOW_SIZE
    MaxEvents,     \* bound: events of a turn before its end
    Scenarios      \* bound: how often each outside event happens, functions on FaultNames

FaultNames == {"send", "other", "disconnect", "kill", "restart", "malformed", "announce",
               "delete"}

ASSUME SizesAssumption ==
    QueueSize \in Nat \ {0} /\ OverflowSize \in Nat \ {0} /\ MaxEvents \in Nat

VARIABLES
    session,  \* the session: its record, its status and the turn it works on
    bus,      \* the event bus: the session's revision and active stream
    conn,     \* the bus's connection to the browser
    view,     \* the browser's state
    asked,    \* what the browser's resync effect last saw
    requests, \* frames from the browser the server has not read
    turns,    \* turns begun
    faults,   \* outside events left
    ghost     \* every draft the bus has held, by generation and revision, and
              \* whether its last event is one the browser cannot read

vars == <<session, bus, conn, view, asked, requests, turns, faults, ghost>>

\* The entries of the record: who wrote them, in which turn.
Entry(by, n) == <<by, n>>
Optimistic == Entry("user", 0)  \* what the browser shows before it is confirmed

NoStream == [generation |-> 0, baseline |-> 0, draft |-> 0]
NoRevision == -1

\* A turn is idle, preparing (its message is in the record, no event is out),
\* streaming, or killed (cancelled, the killer has not answered).
NoTurn == [at |-> "idle", via |-> "none", base |-> <<>>, n |-> 0, events |-> 0]

Use(f) == faults[f] > 0 /\ faults' = [faults EXCEPT ![f] = @ - 1]

-----------------------------------------------------------------------------
(* The connection: a bounded queue, behind it an ordered overflow that opens
   for the events that must not be lost. *)

TerminalTypes == {"snapshot", "stream_end", "chain_end", "error"}

Closed == [open |-> FALSE, queue |-> <<>>, overflow |-> <<>>]
Opened == [Closed EXCEPT !.open = TRUE]

\* Mutants: nobody bounds the overflow; a message without a place is only dropped.
EnqueueUnbounded(c, message) ==
    IF ~c.open THEN c
    ELSE IF c.overflow = <<>> /\ Len(c.queue) < QueueSize
    THEN [c EXCEPT !.queue = Append(@, message)]
    ELSE [c EXCEPT !.overflow = Append(@, message)]

EnqueueDropping(c, message) ==
    IF c.open /\ c.overflow = <<>> /\ Len(c.queue) < QueueSize
    THEN [c EXCEPT !.queue = Append(@, message)] ELSE c

\* A message that finds no place makes the connection unhealthy: it is dropped
\* with all it holds.
Enqueue(c, message) ==
    IF ~c.open THEN c
    ELSE IF c.overflow # <<>>
    THEN IF Len(c.overflow) >= OverflowSize THEN Closed
         ELSE [c EXCEPT !.overflow = Append(@, message)]
    ELSE IF Len(c.queue) < QueueSize
    THEN [c EXCEPT !.queue = Append(@, message)]
    ELSE IF message.type \in TerminalTypes
    THEN [c EXCEPT !.overflow = Append(@, message)] ELSE Closed

Pending(c) == c.queue \o c.overflow

-----------------------------------------------------------------------------
(* The bus. *)

Event(type) ==
    [type |-> type, revision |-> NoRevision, generation |-> 0, readable |-> TRUE,
     messages |-> <<>>, status |-> "none", draft |-> 0, terminal |-> TRUE]

\* An event that is refused by no rule gets the next revision and changes the
\* active stream.
Revisioned(event) == event.type # "snapshot" /\ (event.type = "error" => event.terminal)

StreamAfter(b, event, baseline, generation) ==
    CASE event.type = "stream_start" ->
            [generation |-> generation, baseline |-> baseline, draft |-> 0]
      [] event.type \in {"chain_end", "error"} -> NoStream
      [] OTHER ->
            IF b.active = NoStream THEN NoStream
            ELSE [b.active EXCEPT !.draft = IF event.type = "delta" THEN @ + 1 ELSE @]

\* What the bus and the connection are after an event, record being what the
\* session's record is when it is emitted.
Apply(state, event) ==
    LET n == state.turn
        next == StreamAfter(state.bus, event, Len(state.record), n)
        generation == IF event.type = "stream_start" THEN n
                      ELSE state.bus.active.generation
        revision == state.bus.revision + 1
        bus2 == [revision |-> revision, active |-> next]
        sent == [event EXCEPT !.revision = revision, !.generation = generation]
        past == [drafts |-> state.ghost.drafts \cup
                                {<<next.generation, revision, next.draft>>},
                 unread |-> ~event.readable]
    IN  IF Revisioned(event)
        THEN [state EXCEPT !.bus = bus2, !.conn = Enqueue(@, sent),
                           !.ghost = past]
        ELSE [state EXCEPT !.conn = Enqueue(@, event)]

\* Emits the events, of which a step has two at most, in order, with the record
\* and the turn as they are then.
Emit(events, record, n) ==
    LET start == [bus |-> bus, conn |-> conn, ghost |-> ghost,
                  record |-> record, turn |-> n]
        first == IF events = <<>> THEN start ELSE Apply(start, events[1])
        end == IF Len(events) < 2 THEN first ELSE Apply(first, events[2])
    IN  /\ bus' = end.bus
        /\ conn' = end.conn
        /\ ghost' = end.ghost

ChainEnd(record) == [Event("chain_end") EXCEPT !.messages = record]
TerminalError == Event("error")
Refusal == [Event("error") EXCEPT !.terminal = FALSE]

\* Mutant: the whole record goes out, and no draft.
SnapshotWithoutDraft(b, s) ==
    [Event("snapshot") EXCEPT
        !.revision = b.revision, !.generation = b.active.generation,
        !.status = s.status, !.messages = s.record]

\* The authoritative state of the session: while a reply is streamed its history
\* up to the stream and the draft.
Snapshot(b, s) ==
    IF s.status = "gone"
    THEN [Event("snapshot") EXCEPT !.revision = 0, !.status = "error"]
    ELSE [Event("snapshot") EXCEPT
            !.revision = b.revision,
            !.generation = b.active.generation,
            !.status = s.status,
            !.draft = b.active.draft,
            !.messages = IF b.active = NoStream THEN s.record
                         ELSE SubSeq(s.record, 1,
                                     Min({b.active.baseline, Len(s.record)}))]

-----------------------------------------------------------------------------
(* The session. *)

SetTurn(turn) == session' = [session EXCEPT !.turn = turn]

Begin(via) ==
    /\ turns' = turns + 1
    /\ session' = [session EXCEPT
            !.record = Append(@, Entry("user", turns + 1)),
            !.turn = [NoTurn EXCEPT !.at = "preparing", !.via = via,
                                    !.base = session.record, !.n = turns + 1]]

\* A message of another agent, or of another browser.
OtherMessage ==
    /\ session.turn.at = "idle"
    /\ session.status = "running"
    /\ ~session.sealed
    /\ Use("other")
    /\ \E via \in {"websocket", "inbox"} : Begin(via)
    /\ UNCHANGED <<bus, conn, view, asked, requests, ghost>>

\* The browser's own message: validated, then refused or begun. A session that
\* has been sealed passes the validation and fails in the turn.
TakeMessage ==
    /\ requests # <<>>
    /\ Head(requests) = "message"
    /\ requests' = Tail(requests)
    /\ IF session.turn.at \in {"idle", "killed"} /\ session.status = "running"
       THEN IF session.sealed
            THEN /\ session' = [session EXCEPT !.status = "error"]
                 /\ Emit(<<TerminalError>>, session.record, session.turn.n)
                 /\ UNCHANGED turns
            ELSE /\ Begin("websocket")
                 /\ UNCHANGED <<bus, conn, ghost>>
       ELSE /\ Emit(<<Refusal>>, session.record, session.turn.n)
            /\ UNCHANGED <<session, turns>>
    /\ UNCHANGED <<view, asked, faults>>

Streaming(s) == s.turn.at = "streaming" /\ s.turn.events < MaxEvents

\* Mutant: the end is announced with the record as it was before it is put in order.
EndTurnEarly(record, events, status) ==
    /\ session' = [session EXCEPT !.record = record, !.status = status,
                                  !.turn = NoTurn]
    /\ Emit([i \in DOMAIN events |->
                IF events[i].type = "chain_end" THEN ChainEnd(session.record)
                ELSE events[i]],
            session.record, session.turn.n)

\* A turn that ends: the session is ready again and its history is announced; by
\* the handler that sent the message, or by the callback of stream_end.
EndTurn(record, events, status) ==
    /\ session' = [session EXCEPT !.record = record, !.status = status,
                                  !.turn = NoTurn]
    /\ Emit(events, record, session.turn.n)

\* The message is taken back before any event: only the handler tells the browser.
PreStreamAbort ==
    /\ session.turn.at = "preparing"
    /\ EndTurn(session.turn.base,
               IF session.turn.via = "websocket"
               THEN <<ChainEnd(session.turn.base)>> ELSE <<>>,
               "running")
    /\ UNCHANGED <<view, asked, requests, turns, faults>>

StreamStart ==
    /\ session.turn.at = "preparing"
    /\ session' = [session EXCEPT !.status = "streaming", !.turn.at = "streaming"]
    /\ Emit(<<Event("stream_start")>>, session.record, session.turn.n)
    /\ UNCHANGED <<view, asked, requests, turns, faults>>

Count(turn) == [turn EXCEPT !.events = @ + 1]

\* A token, a chunk of a tool call, the start or the end of a tool. A provider
\* may leave out the arguments of a chunk: the browser cannot read that event.
Delta ==
    /\ Streaming(session)
    /\ SetTurn(Count(session.turn))
    /\ \E readable \in BOOLEAN :
        /\ IF readable THEN UNCHANGED faults ELSE Use("malformed")
        /\ Emit(<<[Event("delta") EXCEPT !.readable = readable]>>,
                session.record, session.turn.n)
    /\ UNCHANGED <<view, asked, requests, turns>>

\* The model's reply, or a tool's result, is complete: it is in the record long
\* before the stream ends.
ModelEnd ==
    /\ Streaming(session)
    /\ session' = [session EXCEPT
            !.record = Append(@, Entry("assistant", session.turn.n)),
            !.turn = Count(session.turn)]
    /\ Emit(<<Event("llm_usage")>>, session'.record, session.turn.n)
    /\ UNCHANGED <<view, asked, requests, turns, faults>>

\* The last entry is taken back when it is the user's message.
RolledBack(record) ==
    IF record # <<>> /\ Last(record)[1] = "user" THEN Front(record) ELSE record

Ending(record) == <<Event("stream_end"), ChainEnd(record)>>

\* The reply is complete, was aborted, or stopped by the recursion limit or the
\* content filter, which leave a notice in the history.
StreamEnd ==
    /\ session.turn.at = "streaming"
    /\ \E record \in {session.record,
                      RolledBack(session.record),
                      Append(session.record, Entry("notice", session.turn.n))} :
            EndTurn(record, Ending(record), "running")
    /\ UNCHANGED <<view, asked, requests, turns, faults>>

StreamFails ==
    /\ session.turn.at = "streaming"
    /\ LET record == RolledBack(session.record)
       IN  EndTurn(record, <<TerminalError>>, "error")
    /\ UNCHANGED <<view, asked, requests, turns, faults>>

\* kill_session seals the session, cancels its turn and waits for it to end.
KillStarts ==
    /\ session.status \in {"running", "streaming"}
    /\ session.turn.at # "killed"
    /\ Use("kill")
    /\ session' = [session EXCEPT
            !.sealed = TRUE,
            !.record = IF session.turn.at = "idle" THEN @ ELSE session.turn.base,
            !.status = IF session.turn.via = "websocket" THEN "running" ELSE @,
            !.turn = [session.turn EXCEPT !.at = "killed"]]
    /\ UNCHANGED <<bus, conn, view, asked, requests, turns, ghost>>

KillEnds ==
    /\ session.turn.at = "killed"
    /\ EndTurn(session.record, <<TerminalError>>, "error")
    /\ UNCHANGED <<view, asked, requests, turns, faults>>

\* What announces a changed history between turns: a manual compression, or the
\* content safety diagnosis with a snapshot for every subscriber.
Announce ==
    /\ session.turn.at = "idle"
    /\ session.status \in {"running", "error"}
    /\ ~session.sealed
    /\ Use("announce")
    /\ LET record == Append(session.record, Entry("notice", 0))
           after == [session EXCEPT !.record = record]
       IN  /\ session' = after
           /\ \E event \in {ChainEnd(record), Snapshot(bus, after)} :
                    Emit(<<event>>, record, 0)
    /\ UNCHANGED <<view, asked, requests, turns>>

\* delete_session forgets the session and its stream; its revisions start anew.
Delete ==
    /\ session.turn.at = "idle"
    /\ session.status \in {"running", "error"}
    /\ Use("delete")
    /\ session' = [session EXCEPT !.status = "gone", !.record = <<>>, !.sealed = TRUE]
    /\ LET end == Apply([bus |-> bus, conn |-> conn, ghost |-> ghost,
                         record |-> session.record, turn |-> 0], TerminalError)
       IN  /\ bus' = [revision |-> 0, active |-> NoStream]
           /\ conn' = end.conn
           /\ ghost' = end.ghost
    /\ UNCHANGED <<view, asked, requests, turns>>

\* The process is stopped and started: the record is loaded, the rest is gone.
\* A session that was at work is ready again, its revisions start anew.
Restart ==
    /\ session.status # "gone"
    /\ Use("restart")
    /\ session' = [session EXCEPT
            !.status = IF @ = "streaming" THEN "running" ELSE @,
            !.sealed = FALSE,
            !.turn = NoTurn]
    /\ bus' = [revision |-> 0, active |-> NoStream]
    /\ conn' = Closed
    /\ requests' = <<>>
    /\ UNCHANGED <<view, asked, turns, ghost>>

-----------------------------------------------------------------------------
(* The browser. *)

Fresh == [connected |-> FALSE, phase |-> "loading", revision |-> NoRevision,
          generation |-> 0, messages |-> <<>>, draft |-> 0, streaming |-> FALSE,
          needsResync |-> FALSE, received |-> NoRevision]

OnSnapshot(v, event) ==
    LET active == event.generation # 0
        waiting == event.status = "streaming" /\ ~active
    IN  [v EXCEPT
            !.generation = event.generation,
            !.revision = event.revision,
            !.phase = IF event.status = "error" THEN "error"
                      ELSE IF active THEN "streaming"
                      ELSE IF waiting THEN "reconnecting" ELSE "ready",
            !.messages = event.messages,
            !.draft = event.draft,
            !.streaming = active \/ waiting,
            !.needsResync = waiting,
            !.received = NoRevision]

OnChainEnd(v, event) ==
    IF v.revision # NoRevision /\ event.revision <= v.revision THEN v
    ELSE [v EXCEPT !.generation = 0, !.revision = event.revision, !.phase = "ready",
                   !.messages = event.messages, !.draft = 0, !.streaming = FALSE,
                   !.needsResync = FALSE, !.received = NoRevision]

OnError(v, event) ==
    IF ~event.terminal
    THEN [v EXCEPT !.needsResync = TRUE, !.received = NoRevision]
    ELSE [v EXCEPT !.revision = event.revision, !.generation = 0, !.phase = "error",
                   !.draft = 0, !.streaming = FALSE,
                   !.needsResync = TRUE, !.received = NoRevision]

OnStreamStart(v, event) ==
    [v EXCEPT !.revision = event.revision, !.generation = event.generation,
              !.phase = "streaming", !.draft = 0,
              !.streaming = TRUE, !.needsResync = FALSE, !.received = NoRevision]

OnDelta(v, event) ==
    IF event.type \in {"stream_end", "llm_usage"}
    THEN [v EXCEPT !.revision = event.revision]
    ELSE [v EXCEPT !.revision = event.revision, !.phase = "streaming",
                   !.streaming = TRUE, !.draft = @ + 1]

\* The events that neither a gap nor a wait for a snapshot holds up.
AlwaysTaken == {"stream_start", "error"}

Gap(v, event) ==
    /\ event.revision # NoRevision
    /\ v.revision # NoRevision
    /\ event.revision > v.revision + 1

Stale(v, event) ==
    /\ event.revision # NoRevision
    /\ v.revision # NoRevision
    /\ event.revision <= v.revision

OtherGeneration(v, event) ==
    /\ v.generation # 0 /\ event.generation # 0
    /\ v.generation # event.generation
    /\ event.type # "stream_start"

Reduce(v, event) ==
    IF event.type = "snapshot" THEN OnSnapshot(v, event)
    ELSE IF \/ ~event.readable
            \/ v.phase = "error" /\ event.type \notin {"stream_start", "chain_end"}
            \/ OtherGeneration(v, event)
    THEN v
    ELSE IF event.type = "chain_end" THEN OnChainEnd(v, event)
    ELSE IF (v.needsResync /\ event.type \notin AlwaysTaken) \/ Stale(v, event) THEN v
    ELSE IF Gap(v, event) /\ event.type \notin AlwaysTaken
    THEN [v EXCEPT !.needsResync = TRUE, !.received = event.revision,
                   !.phase = "reconnecting"]
    ELSE IF event.type = "stream_start" THEN OnStreamStart(v, event)
    ELSE IF event.type = "error" THEN OnError(v, event)
    ELSE OnDelta(v, event)

\* Mutant: the effect watches the connection only.
WatchedConnection(v) == <<v.connected>>

\* The effect that asks for a snapshot runs when what it watches has changed.
Watched(v) == <<v.connected, v.needsResync, v.phase, v.received>>

ShowAndAsk(v) ==
    /\ view' = v
    /\ asked' = Watched(v)
    /\ requests' = IF /\ Watched(v) # asked
                      /\ v.connected
                      /\ v.needsResync \/ v.phase = "reconnecting"
                   THEN Append(requests, "resync") ELSE requests

\* The consumer sends the connection's next message; the browser reduces it.
Deliver ==
    /\ conn.open
    /\ view.connected
    /\ Pending(conn) # <<>>
    /\ conn' = IF conn.queue # <<>> THEN [conn EXCEPT !.queue = Tail(@)]
               ELSE [conn EXCEPT !.overflow = Tail(@)]
    /\ ShowAndAsk(Reduce(view, Head(Pending(conn))))
    /\ UNCHANGED <<session, bus, turns, faults, ghost>>

\* A send that fails or takes too long drops the connection.
SendFails ==
    /\ conn.open
    /\ Pending(conn) # <<>>
    /\ Use("disconnect")
    /\ conn' = Closed
    /\ UNCHANGED <<session, bus, view, asked, requests, turns, ghost>>

\* The browser loses or closes the socket; or learns that the server has.
Disconnected(v) ==
    [v EXCEPT !.connected = FALSE,
              !.phase = IF v.streaming THEN "reconnecting" ELSE @]

SocketLost ==
    /\ view.connected
    /\ Use("disconnect")
    /\ ShowAndAsk(Disconnected(view))
    /\ UNCHANGED <<session, bus, conn, turns, ghost>>

SocketClosed ==
    /\ view.connected
    /\ ~conn.open
    /\ ShowAndAsk(Disconnected(view))
    /\ UNCHANGED <<session, bus, conn, turns, faults, ghost>>

\* A new socket is subscribed and gets a snapshot before anything else.
Connect ==
    /\ ~view.connected
    /\ conn' = Enqueue(Opened, Snapshot(bus, session))
    /\ view' = [view EXCEPT !.connected = TRUE]
    /\ asked' = Watched(view')
    /\ requests' = IF view.needsResync \/ view.phase = "reconnecting"
                   THEN <<"resync">> ELSE <<>>
    /\ UNCHANGED <<session, bus, turns, faults, ghost>>

TakeResync ==
    /\ requests # <<>>
    /\ Head(requests) = "resync"
    /\ requests' = Tail(requests)
    /\ conn' = Enqueue(conn, Snapshot(bus, session))
    /\ UNCHANGED <<session, bus, view, asked, turns, faults, ghost>>

SendMessage ==
    /\ view.connected
    /\ view.phase = "ready"
    /\ Use("send")
    /\ Optimistic \notin ToSet(view.messages)
    /\ view' = [view EXCEPT !.messages = Append(@, Optimistic)]
    /\ requests' = Append(requests, "message")
    /\ UNCHANGED <<session, bus, conn, asked, turns, ghost>>

-----------------------------------------------------------------------------
Init ==
    /\ session = [record |-> <<>>, status |-> "running", sealed |-> FALSE,
                  turn |-> NoTurn]
    /\ bus = [revision |-> 0, active |-> NoStream]
    /\ conn = Closed
    /\ view = Fresh
    /\ asked = Watched(Fresh)
    /\ requests = <<>>
    /\ turns = 0
    /\ faults \in Scenarios
    /\ ghost = [drafts |-> {<<0, 0, 0>>}, unread |-> FALSE]

Server ==
    \/ OtherMessage \/ TakeMessage \/ PreStreamAbort \/ StreamStart
    \/ Delta \/ ModelEnd
    \/ StreamEnd \/ StreamFails \/ KillStarts \/ KillEnds
    \/ Announce \/ Delete \/ Restart

Browser ==
    \/ Deliver \/ SendFails \/ SocketLost \/ SocketClosed \/ Connect
    \/ TakeResync \/ SendMessage

Next == Server \/ Browser

\* The consumer, the socket and the handler's loop keep going; so does a turn
\* that has begun, as far as its end.
Fairness ==
    /\ WF_vars(Deliver)
    /\ WF_vars(SocketClosed)
    /\ WF_vars(Connect)
    /\ WF_vars(TakeResync)
    /\ WF_vars(TakeMessage)
    /\ WF_vars(KillEnds)
    /\ WF_vars(StreamStart)
    /\ WF_vars(StreamEnd \/ StreamFails)

Spec == Init /\ [][Next]_vars /\ Fairness

-----------------------------------------------------------------------------
(* Properties. *)

\* The variables have their types.
TypeOK ==
    /\ session.status \in {"running", "streaming", "error", "gone"}
    /\ session.turn.at \in {"idle", "preparing", "streaming", "killed"}
    /\ bus.revision \in Nat
    /\ Len(conn.queue) <= QueueSize
    /\ Len(conn.overflow) <= OverflowSize
    /\ view.phase \in {"loading", "ready", "streaming", "reconnecting", "error"}
    /\ view.draft \in 0..MaxEvents

\* What the browser shows of a reply that is being streamed is what the server
\* had at the revision the browser stands at: a snapshot and the events after it
\* join without a gap and without a repetition.
ShownDraftIsReal ==
    view.phase = "streaming" /\ ~view.needsResync =>
        <<view.generation, view.revision, view.draft>> \in ghost.drafts

\* Nothing is lost without notice: a browser that has received all there is and
\* does not know of a gap stands where the server stands. (An event it cannot
\* read is noticed with the next one only.  The types are checked along.)
NothingLostSilently ==
    /\ TypeOK
    /\ (/\ ~ghost.unread
        /\ conn.open /\ view.connected
        /\ Pending(conn) = <<>>
        /\ view.phase \in {"ready", "streaming"}
        /\ ~view.needsResync) =>
           /\ view.revision = bus.revision
           /\ view.draft = bus.active.draft

\* Between turns such a browser shows the history itself; a message that was
\* taken back before its stream began may still be shown.
HistoryIsShown ==
    (/\ conn.open /\ view.connected
     /\ Pending(conn) = <<>>
     /\ view.phase = "ready"
     /\ ~view.needsResync
     /\ requests = <<>>
     /\ session.turn.at = "idle") =>
        \/ view.messages = session.record
        \/ Front(view.messages) = session.record /\ Last(view.messages)[1] = "user"

InStep ==
    /\ view.connected
    /\ ~view.needsResync
    /\ IF view.phase = "error"
       THEN session.status \in {"error", "gone"}
       ELSE /\ view.revision = bus.revision
            /\ view.draft = bus.active.draft

\* Whatever was dropped, the browser catches up: once the outside events and the
\* turns are used up it is in step with the server for good.
CatchesUp == <>[]InStep
=============================================================================
