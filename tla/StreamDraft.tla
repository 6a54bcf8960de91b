----------------------------- MODULE StreamDraft -----------------------------
(* The draft of a reply that is being streamed, kept twice: by the event bus for
   those who join in the middle (src/web/event_bus.py, _update_stream_segments)
   and by the browser that follows the events (conversationReducer.ts). The two
   are different algorithms over the same events.

   A draft is a sequence of segments. Of a text only its length is kept, of a
   tool call its identity, its slot in the model's reply and how far it is. *)
EXTENDS Integers, Sequences, SequencesExt, FiniteSetsExt

CONSTANT MaxEvents  \* bound: events of a stream

VARIABLES
    reply,  \* what the model and its tools are doing, as the session sees it
    draft,  \* the event bus's draft
    view    \* the browser's

vars == <<reply, draft, view>>

NoCall == 0  \* a chunk that does not name its call; calls are numbered from 1

TextSegment(type, n) ==
    [type |-> type, n |-> n, call |-> NoCall, index |-> -1, status |-> "none"]
ToolSegment(call, index, status) ==
    [type |-> "tool", n |-> 0, call |-> call, index |-> index, status |-> status]

\* The draft and the segment each slot last used, 0 for none.
EmptySlots == [i \in 0..1 |-> 0]

\* A token joins the text before it or starts a new one; both sides agree.
AppendContent(segments, type) ==
    IF segments # <<>> /\ Last(segments).type = type
    THEN [segments EXCEPT ![Len(segments)].n = @ + 1]
    ELSE Append(segments, TextSegment(type, 1))

-----------------------------------------------------------------------------
(* The event bus. It finds a call by its slot. *)

ServerDelta(d, event) ==
    LET at == d.slots[event.index]
        new == \/ at = 0
               \/ d.segments[at].status # "building"
               \/ /\ event.call # NoCall
                  /\ d.segments[at].call # event.call
    IN  IF new
        THEN [segments |-> Append(d.segments,
                                  ToolSegment(event.call, event.index, "building")),
              slots |-> [d.slots EXCEPT ![event.index] = Len(d.segments) + 1]]
        ELSE d

ServerStart(d, event) ==
    LET at == d.slots[event.index]
        tool == ToolSegment(event.call, event.index, "running")
    IN  IF at = 0
        THEN [segments |-> Append(d.segments, tool),
              slots |-> [d.slots EXCEPT ![event.index] = Len(d.segments) + 1]]
        ELSE [d EXCEPT !.segments[at] = tool]

ServerEnd(d, event) ==
    LET found == {i \in DOMAIN d.segments : d.segments[i].call = event.call}
    IN  IF found = {} THEN d
        ELSE [d EXCEPT !.segments[Max(found)].status = "completed"]

ServerDraft(d, event) ==
    CASE event.type \in {"token", "reasoning_token"} ->
            [d EXCEPT !.segments = AppendContent(@, event.type)]
      [] event.type = "tool_call_delta" -> ServerDelta(d, event)
      [] event.type = "tool_start" -> ServerStart(d, event)
      [] event.type = "tool_end" -> ServerEnd(d, event)
      [] OTHER -> d

NoDraft == [segments |-> <<>>, slots |-> EmptySlots]

-----------------------------------------------------------------------------
(* The browser. It finds a call by its identity, or by the identity its slot
   last had (keys, NoCall for none), searching backwards. *)

EmptyKeys == [i \in 0..1 |-> NoCall]

\* The last segment of a call; without one, the last that is being built.
FindTool(segments, key) ==
    LET found == {i \in DOMAIN segments :
                    /\ segments[i].type = "tool"
                    /\ IF key # NoCall THEN segments[i].call = key
                                       ELSE segments[i].status = "building"}
    IN  IF found = {} THEN 0 ELSE Max(found)

ClientDelta(v, event) ==
    LET slotKey == v.keys[event.index]
        named == FindTool(v.segments,
                          IF event.call # NoCall THEN event.call ELSE slotKey)
        at == IF named > 0 THEN named
              ELSE IF event.call = NoCall THEN FindTool(v.segments, NoCall)
              ELSE IF slotKey # NoCall THEN FindTool(v.segments, slotKey) ELSE 0
        known == IF at = 0 THEN NoCall ELSE v.segments[at].call
        new == \/ at = 0
               \/ event.call # NoCall /\ known # event.call
               \/ v.segments[at].status # "building"
        call == IF event.call # NoCall THEN event.call
                ELSE IF new THEN NoCall ELSE known
        tool == ToolSegment(call, event.index, "building")
    IN  [v EXCEPT
            !.segments = IF new THEN Append(@, tool) ELSE [@ EXCEPT ![at] = tool],
            !.keys[event.index] = call]

ClientStart(v, event) ==
    LET slotKey == v.keys[event.index]
        slot == FindTool(v.segments, slotKey)
        at == IF slot > 0 THEN slot ELSE FindTool(v.segments, NoCall)
        tool == ToolSegment(event.call, event.index, "running")
    IN  [v EXCEPT
            !.segments = IF at = 0 THEN Append(@, tool) ELSE [@ EXCEPT ![at] = tool],
            !.keys[event.index] = event.call]

ClientEnd(v, event) ==
    [v EXCEPT !.segments =
        [i \in DOMAIN @ |-> IF @[i].type = "tool" /\ @[i].call = event.call
                            THEN [@[i] EXCEPT !.status = "completed"] ELSE @[i]]]

ClientDraft(v, event) ==
    CASE event.type \in {"token", "reasoning_token"} ->
            [v EXCEPT !.segments = AppendContent(@, event.type)]
      [] event.type = "tool_call_delta" -> ClientDelta(v, event)
      [] event.type = "tool_start" -> ClientStart(v, event)
      [] event.type = "tool_end" -> ClientEnd(v, event)
      [] OTHER -> v

KeysOfFirst(segments) ==
    [i \in 0..1 |->
        LET found == {k \in DOMAIN segments :
                        segments[k].type = "tool" /\ segments[k].index = i}
        IN  IF found = {} THEN NoCall ELSE segments[Min(found)].call]

\* A snapshot carries the segments; the slots' keys are read off them, the last
\* segment of a slot wins.
KeysOf(segments) ==
    [i \in 0..1 |->
        LET found == {k \in DOMAIN segments :
                        segments[k].type = "tool" /\ segments[k].index = i}
        IN  IF found = {} THEN NoCall ELSE segments[Max(found)].call]

-----------------------------------------------------------------------------
(* The session, _invoke_graph: it turns what the model and the tools do into
   events. A reply announces its calls chunk by chunk, each in a slot and named
   in its first chunk, or all at once; when it is complete every call is started
   by its tool and ended by it, in any order; then the next reply uses the slots
   again. *)

NoReply == [calls |-> EmptyKeys, waiting |-> {}, running |-> {}, n |-> 0, sent |-> 0]

Event(type) == [type |-> type, call |-> NoCall, index |-> -1]

\* Both sides take the event.
Take(event, r) ==
    /\ reply' = [r EXCEPT !.sent = @ + 1]
    /\ draft' = ServerDraft(draft, event)
    /\ view' = ClientDraft(view, event)

Talking == reply.waiting = {} /\ reply.running = {}

Token ==
    /\ Talking
    /\ \E type \in {"token", "reasoning_token"} : Take(Event(type), reply)

Chunk ==
    /\ Talking
    /\ \E index \in 0..1 :
        LET first == reply.calls[index] = NoCall
            call == reply.n + index + 1
        IN  /\ index = 1 => reply.calls[0] # NoCall
            /\ Take([type |-> "tool_call_delta", index |-> index,
                      call |-> IF first THEN call ELSE NoCall],
                    [reply EXCEPT !.calls[index] = IF first THEN call ELSE @])

\* _build_tool_call_slots: the calls of the complete reply, streamed or not.
Slots(calls) == {[index |-> i, call |-> calls[i]] : i \in {j \in 0..1 : calls[j] # NoCall}}

ReplyEnds ==
    /\ Talking
    /\ \E calls \in {reply.calls} \cup
                (IF reply.calls = EmptyKeys
                 THEN {[EmptyKeys EXCEPT ![0] = reply.n + 1],
                       [i \in 0..1 |-> reply.n + i + 1]} ELSE {}) :
            reply' = [reply EXCEPT !.calls = EmptyKeys, !.waiting = Slots(calls),
                                   !.n = @ + 2, !.sent = @ + 1]
    /\ UNCHANGED <<draft, view>>

\* _resolve_tool_start_slot: a tool is matched with its slot by the call's name,
\* whatever the order in which tools start.
ToolStart ==
    \E slot \in reply.waiting :
        Take([type |-> "tool_start", index |-> slot.index, call |-> slot.call],
             [reply EXCEPT !.waiting = @ \ {slot}, !.running = @ \cup {slot.call}])

ToolEnd ==
    \E call \in reply.running :
        Take([type |-> "tool_end", index |-> -1, call |-> call],
             [reply EXCEPT !.running = @ \ {call}])

\* A browser joins in the middle: it takes the segments of the snapshot.
Join ==
    /\ view' = [segments |-> draft.segments, keys |-> KeysOf(draft.segments)]
    /\ UNCHANGED <<reply, draft>>

Init ==
    /\ reply = NoReply
    /\ draft = NoDraft
    /\ view = [segments |-> <<>>, keys |-> EmptyKeys]

Next ==
    \/ reply.sent < MaxEvents /\ (Token \/ Chunk \/ ReplyEnds \/ ToolStart \/ ToolEnd)
    \/ Join

Spec == Init /\ [][Next]_vars

\* A browser that followed every event, one that joined anywhere in the middle and
\* the bus itself have the same draft, though each finds its tool calls in its own
\* way: by slot, by name, or by the slots read off a snapshot.
DraftsAgree == view.segments = draft.segments

\* A call has one segment, and a tool that has ended is never shown at work again.
CallsStayApart ==
    /\ \A i, j \in DOMAIN draft.segments :
            draft.segments[i].call = draft.segments[j].call
            /\ draft.segments[i].call # NoCall => i = j
    /\ \A i \in DOMAIN draft.segments :
            draft.segments[i].status = "running" => draft.segments[i].call \in reply.running
=============================================================================
