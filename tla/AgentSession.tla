----------------------------- MODULE AgentSession -----------------------------
(***************************************************************************)
(* One agent session: calls that take turns at its lock, the history they  *)
(* write (record) beside what the model remembers (lc), and the file both  *)
(* are kept in by a timer that saves what is marked dirty.                  *)
(*                                                                         *)
(* A call is a request to the session: a message or the edit of one, from  *)
(* a browser, the text of a task, a message another agent put in the inbox *)
(* (the inbox's consumer handles one at a time), a compaction.  An entry   *)
(* is who wrote it and in which call; a call's question and answer are one *)
(* entry each, and tools' results stand with the answers.                  *)
(*                                                                         *)
(* src/agent/session.py, src/agent/session_manager.py, and the part of     *)
(* src/web/ws_handlers.py that runs a call.                                *)
(***************************************************************************)
EXTENDS Integers, Sequences, FiniteSets, SequencesExt

CONSTANTS
    Calls,      \* the calls that may be made, once each
    Scenarios,  \* what may happen: see Init
    MaxSaves    \* bound: writes to the file

Kinds == {"message", "edit", "task", "retry", "mail", "compact", "never"}
Faults == {"abort", "compress", "limit", "error", "cancel", "kill", "slow",
           "delete", "shutdown", "crash", "disk"}

ASSUME Assumption ==
    /\ MaxSaves \in Nat
    /\ Calls \cap {"none", "idle", "stopped"} = {}
    /\ Scenarios \subseteq [type: {"main", "sub"}, calls: [Calls -> Kinds],
                            faults: SUBSET Faults]

VARIABLES
    scenario,  \* the kind of session, what each call is, what may go wrong
    record,    \* session.record
    lc,        \* session.lc_messages
    status,    \* session.status
    call,      \* each call: where it is, its checkpoint, what it edits
    queue,     \* who waits for _invoke_lock, first come first served
    holder,    \* who holds it
    inbox,     \* messages waiting for the consumer
    consumer,  \* the consumer: idle, the call it handles, or stopped
    abort,     \* _abort_requested
    sealed,    \* _termination_requested
    life,      \* live, killing, killed, deleting, deleted, stopping, down
    dirty,     \* _save_dirty
    kept,      \* registered with the persistence manager
    flush,     \* the save under way: where it is and what it read
    file,      \* the session's file, or NoFile
    saves      \* writes so far (bound)
memory == <<record, lc, status>>
locks == <<queue, holder, inbox, consumer>>
disk == <<kept, flush, file, saves>>
vars == <<scenario, record, lc, status, call, queue, holder, inbox, consumer,
          abort, sealed, life, dirty, kept, flush, file, saves>>

Entry(who, c) == [who |-> who, call |-> c]
Marker == Entry("marker", "none")     \* a display message, seen by people only
Summary == Entry("summary", "none")
NoFile == [record |-> <<>>, status |-> "absent"]
Idle == [at |-> "idle", record |-> <<>>, lc |-> <<>>, target |-> "none"]
NoFlush == [at |-> "idle", status |-> "absent", record |-> <<>>]

Can(fault) == fault \in scenario.faults
Kind(c) == scenario.calls[c]
Settled == IF scenario.type = "main" THEN "running" ELSE "completed"
Active == holder # "none"             \* invocation_active
Ended == {"done", "refused", "cancelled", "lost"}
Running == life # "down"
Open == life \in {"live", "killing", "killed"}
At(c, place) == call[c].at = place

------------------------------------------------------------------------------
(* Requests *)

(* _validate_session for what a browser sends: a session in error or in a  *)
(* turn refuses.  A compaction is refused while the model answers, a task  *)
(* never.                                                                  *)
Accepts(c) ==
    CASE Kind(c) \in {"message", "edit"} -> status \notin {"error", "streaming"} /\ ~Active
      [] Kind(c) = "compact" -> status # "streaming"
      [] OTHER -> TRUE

Enter(c, place) == call' = [call EXCEPT ![c].at = place]

Request(c) ==
    /\ Open /\ At(c, "idle")
    /\ Kind(c) \notin {"mail", "never"}
    /\ Kind(c) = "edit" => \E i \in DOMAIN record : record[i].who = "user"
    /\ IF Accepts(c)
       THEN /\ queue' = Append(queue, c)
            /\ \E target \in IF Kind(c) = "edit"
                             THEN {record[i].call : i \in {j \in DOMAIN record : record[j].who = "user"}}
                             ELSE {"none"} :
                  call' = [call EXCEPT ![c].at = "waiting", ![c].target = target]
       ELSE /\ Enter(c, "refused")
            /\ UNCHANGED queue
    /\ UNCHANGED <<scenario, memory, holder, inbox, consumer, abort, sealed, life, dirty, disk>>

(* AgentSession.enqueue: messages of one priority, which a heap that does    *)
(* not look at their age may hand out in any order                         *)
Enqueue(c) == inbox' = inbox \cup {c} /\ Enter(c, "mailed")

(* SessionManager.route_message: whatever the status *)
Mail(c) ==
    /\ Open /\ At(c, "idle") /\ Kind(c) = "mail"
    /\ Enqueue(c)
    /\ UNCHANGED <<scenario, memory, queue, holder, consumer, abort, sealed, life, dirty, disk>>

(* AgentSession._consume_loop *)
Consume ==
    /\ Running /\ consumer = "idle"
    /\ \E c \in inbox :
           /\ consumer' = c
           /\ inbox' = inbox \ {c}
           /\ queue' = Append(queue, c)
           /\ Enter(c, "waiting")
    /\ UNCHANGED <<scenario, memory, holder, abort, sealed, life, dirty, disk>>
ConsumerAfter(c, stopped) ==
    consumer' = IF consumer # c THEN consumer ELSE IF stopped THEN "stopped" ELSE "idle"

(* AgentSession.abort: the flag only, taken back by the next call to enter *)
Abort ==
    /\ Running /\ Can("abort") /\ ~abort
    /\ abort' = TRUE
    /\ UNCHANGED <<scenario, memory, call, locks, sealed, life, dirty, disk>>

------------------------------------------------------------------------------
(* A call's turn: _invocation_scope around _invoke_graph *)

Users(s) == {i \in DOMAIN s : s[i].who = "user"}
UserBefore(s, i) == Cardinality({j \in Users(s) : j <= i})
PositionOf(s, target) == CHOOSE i \in Users(s) : s[i].call = target

(* Leaving the scope: the lock is free, the next in line will take it. *)
LeaveHolding(c, how) ==
    /\ UNCHANGED holder
    /\ Enter(c, how)
    /\ ConsumerAfter(c, FALSE)
Leave(c, how) ==
    /\ holder' = "none"
    /\ Enter(c, how)
    /\ ConsumerAfter(c, FALSE)

(* The question joins both lists, and the turn goes on until it waits for  *)
(* the compaction or for the first event of the model's stream.            *)
BeginUnmarked(c, rec, mem) ==
    /\ record' = Append(rec, Entry("user", c))
    /\ lc' = Append(mem, Entry("user", c))
    /\ dirty' = TRUE
    /\ Enter(c, "streaming")
    /\ status' = "streaming"
    /\ UNCHANGED consumer
Begin(c, rec, mem) ==
    /\ record' = Append(rec, Entry("user", c))
    /\ lc' = Append(mem, Entry("user", c))
    /\ dirty' = TRUE
    /\ \E place \in IF Can("compress") THEN {"compressing", "streaming"} ELSE {"streaming"} :
          /\ call' = [call EXCEPT ![c] = [at |-> place, record |-> record, lc |-> lc,
                                          target |-> call[c].target]]
          /\ status' = IF place = "streaming" THEN "streaming" ELSE status
    /\ UNCHANGED consumer

(* edit_message_and_resend: both lists are cut at the message, which in lc *)
(* is the one with as many questions before it.                            *)
Cut(s, i) == SubSeq(s, 1, i - 1)
EditFails(c) ==
    \/ ~\E i \in Users(record) : record[i].call = call[c].target
    \/ LET i == PositionOf(record, call[c].target)
       IN  Cardinality(Users(lc)) < UserBefore(record, i)
EditBegins(c) ==
    LET i == PositionOf(record, call[c].target)
        j == CHOOSE k \in Users(lc) : UserBefore(lc, k) = UserBefore(record, i)
    IN  Begin(c, Cut(record, i), Cut(lc, j))

(* What a failed call does to the status depends on who ran it: the web    *)
(* handlers (_execute_with_events) and the task of a new session           *)
(* (_auto_first_message) call the session broken, the inbox logs it.       *)
Broken(c) == IF Kind(c) \in {"message", "edit", "task"} THEN "error" ELSE status

(* (Who is first in line is waiting; the guard says so for the proofs.)     *)
AcquireUnsealed(c) ==
    /\ Running /\ queue # <<>> /\ holder = "none"
    /\ c = Head(queue) /\ At(c, "waiting") /\ Kind(c) \in {"message", "mail", "task"}
    /\ queue' = Tail(queue)
    /\ abort' = FALSE
    /\ holder' = c /\ Begin(c, record, lc)
    /\ UNCHANGED <<scenario, inbox, sealed, life, disk>>
Acquire(c) ==
    /\ Running /\ queue # <<>> /\ holder = "none"
    /\ c = Head(queue) /\ At(c, "waiting")
    /\ queue' = Tail(queue)
    /\ IF sealed
       THEN /\ status' = Broken(c) /\ dirty' = TRUE
            /\ Leave(c, "refused")
            /\ UNCHANGED <<record, lc, abort>>
       ELSE /\ abort' = FALSE
            /\ CASE Kind(c) = "edit" /\ EditFails(c) ->
                      /\ status' = Broken(c) /\ dirty' = TRUE
                      /\ Leave(c, "refused")
                      /\ UNCHANGED <<record, lc>>
                 [] Kind(c) = "compact" ->
                      /\ holder' = c
                      /\ call' = [call EXCEPT ![c].at = "compacting",
                                              ![c].record = record, ![c].lc = lc]
                      /\ UNCHANGED <<memory, dirty, consumer>>
                 [] Kind(c) = "edit" /\ ~EditFails(c) -> holder' = c /\ EditBegins(c)
                 [] OTHER -> holder' = c /\ Begin(c, record, lc)
    /\ UNCHANGED <<scenario, inbox, sealed, life, disk>>

(* _check_and_compress_messages: a summary in place of what is older than  *)
(* the last question, and a marker in the record; a failure changes        *)
(* nothing.                                                                *)
Shortened(s) ==
    LET users == Users(s)
    IN  IF users = {} THEN <<Summary>>
        ELSE <<Summary>> \o SubSeq(s, CHOOSE i \in users : \A j \in users : j <= i, Len(s))
Compaction ==
    \/ /\ lc' = Shortened(lc)
       /\ record' = Append(record, Marker)
       /\ dirty' = TRUE
    \/ UNCHANGED <<lc, record, dirty>>

Compact(c) ==
    /\ Running /\ At(c, "compacting")
    /\ Compaction
    /\ Leave(c, "done")
    /\ UNCHANGED <<scenario, status, queue, inbox, abort, sealed, life, disk>>

(* _rollback_on_error, over the lists s and t: a question nothing followed *)
(* is taken back.                                                          *)
TakenBack(s) == IF s # <<>> /\ Last(s).who = "user" THEN Front(s) ELSE s

CompressFirst(c) ==
    /\ Running /\ At(c, "compressing")
    /\ \E done \in BOOLEAN :
          LET mem == IF done THEN Shortened(lc) ELSE lc
              rec == IF done THEN Append(record, Marker) ELSE record
          IN  IF abort
              THEN /\ lc' = TakenBack(mem) /\ record' = TakenBack(rec)
                   /\ status' = Settled /\ Leave(c, "done")
              ELSE /\ lc' = mem /\ record' = rec
                   /\ status' = "streaming" /\ Enter(c, "streaming")
                   /\ UNCHANGED <<holder, consumer>>
    /\ dirty' = TRUE
    /\ UNCHANGED <<scenario, queue, inbox, abort, sealed, life, disk>>

Answered(c) == Entry("agent", c) \in {record[i] : i \in DOMAIN record}

(* The end of a model's reply is written to the record alone. *)
ModelEnds(c) ==
    /\ Running /\ At(c, "streaming") /\ ~abort
    /\ ~Answered(c)
    /\ record' = Append(record, Entry("agent", c))
    /\ dirty' = TRUE
    /\ UNCHANGED <<scenario, lc, status, call, locks, abort, sealed, life, disk>>

(* Saved by the handler that ran the call, whatever came of it. *)
Finish(c, rec, mem, how) ==
    /\ record' = rec /\ lc' = mem
    /\ status' = how
    /\ dirty' = TRUE
    /\ Leave(c, "done")
    /\ UNCHANGED <<scenario, queue, inbox, abort, sealed, life, disk>>

StreamEnds(c) ==
    /\ Running /\ At(c, "streaming") /\ ~abort /\ Answered(c)
    /\ Finish(c, record, Append(lc, Entry("agent", c)), Settled)

StreamAbortedQuietly(c) ==
    /\ Running /\ At(c, "streaming") /\ abort
    /\ Finish(c, TakenBack(record), TakenBack(lc), status)
StreamAborted(c) ==
    /\ Running /\ At(c, "streaming") /\ abort
    /\ Finish(c, TakenBack(record), TakenBack(lc), Settled)

(* The recursion limit leaves a marker; content blocked by the provider as *)
(* well.  Behind a marker the record keeps the question.                   *)
StreamCutShort(c) ==
    /\ Running /\ At(c, "streaming") /\ Can("limit")
    /\ Finish(c, Append(record, Marker), TakenBack(lc), "running")

StreamFails(c) ==
    /\ Running /\ At(c, "streaming") /\ Can("error")
    /\ Finish(c, TakenBack(record), TakenBack(lc), "error")

(* The task of a call is cancelled, by a kill, a shutdown or the workflow  *)
(* that repairs an answer with it: the lists are again those it found.     *)
(* The status is left to whoever ran the call.                             *)
Stopped(c) == CASE Kind(c) \in {"message", "edit"} -> "completed"
                [] Kind(c) = "task" -> "error"
                [] OTHER -> status

Cancel(c) ==
    /\ Running /\ At(c, "stopping")
    /\ record' = call[c].record /\ lc' = call[c].lc
    /\ status' = Stopped(c)
    /\ dirty' = TRUE
    /\ holder' = "none" /\ Enter(c, "cancelled") /\ ConsumerAfter(c, TRUE)
    /\ UNCHANGED <<scenario, queue, inbox, abort, sealed, life, disk>>

WorkflowStops(c) ==
    /\ Running /\ Can("cancel") /\ Kind(c) = "retry" /\ holder = c /\ ~At(c, "stopping")
    /\ Enter(c, "stopping")
    /\ UNCHANGED <<scenario, memory, locks, abort, sealed, life, dirty, disk>>

------------------------------------------------------------------------------
(* The end of a session.  A fault happens once. *)

Spent(fault) == scenario' = [scenario EXCEPT !.faults = @ \ {fault}]
Seal == sealed' = TRUE /\ abort' = TRUE
HolderStops == IF Active THEN [call EXCEPT ![holder].at = "stopping"] ELSE call

(* Waiting for the lock as well, the task of a new session is cancelled.   *)
Tasks == {c \in Calls : Kind(c) = "task" /\ At(c, "waiting")}
DropTasks ==
    /\ queue' = SelectSeq(queue, LAMBDA c : c \notin Tasks)
    /\ call' = [c \in Calls |-> IF c \in Tasks THEN [call[c] EXCEPT !.at = "cancelled"] ELSE call[c]]

(* kill_session: seals the session, cancels the call under way and waits   *)
(* for it, five seconds at most; if it comes to its end, the session is in *)
(* error for good.                                                         *)
KillStarts ==
    /\ life = "live" /\ Can("kill") /\ Spent("kill")
    /\ status # "error"
    /\ Seal
    /\ life' = "killing"
    /\ call' = HolderStops
    /\ UNCHANGED <<memory, locks, dirty, disk>>

KillEnds ==
    /\ life = "killing" /\ ~Active
    /\ DropTasks
    /\ status' = "error"
    /\ life' = "killed"
    /\ dirty' = TRUE
    /\ UNCHANGED <<scenario, record, lc, holder, inbox, consumer, abort, sealed, disk>>

KillTimesOut ==
    /\ life = "killing" /\ Active /\ Can("slow")
    /\ scenario' = [scenario EXCEPT !.faults = (@ \ {"slow"}) \cup {"kill"}]
    /\ life' = "live"
    /\ UNCHANGED <<memory, call, locks, abort, sealed, dirty, disk>>

(* delete_session: refused in a turn; what waits for the lock finds the    *)
(* session sealed.  The file goes last.                                    *)
DeleteStarts ==
    /\ life \in {"live", "killed", "archive"} /\ Can("delete") /\ Spent("delete")
    /\ status # "streaming" /\ ~Active
    /\ Seal
    /\ DropTasks
    /\ kept' = FALSE
    /\ life' = "deleting"
    /\ UNCHANGED <<memory, holder, inbox, consumer, dirty, flush, file, saves>>

DeleteEnds ==
    /\ life = "deleting"
    /\ file' = NoFile
    /\ life' = "deleted"
    /\ UNCHANGED <<scenario, memory, call, locks, abort, sealed, dirty, kept, flush, saves>>

(* SessionManager.shutdown: tasks and the consumer's call are cancelled,   *)
(* then the session is saved and left.  A browser's call goes on.          *)
ShutdownStarts ==
    /\ life \in {"live", "killed"} /\ Can("shutdown") /\ Spent("shutdown")
    /\ life' = "stopping"
    /\ LET stops == {c \in Calls : holder = c /\ Kind(c) \in {"task", "mail"}}
       IN  call' = [c \in Calls |-> IF c \in stops THEN [call[c] EXCEPT !.at = "stopping"]
                                    ELSE IF c \in Tasks THEN [call[c] EXCEPT !.at = "cancelled"]
                                    ELSE call[c]]
    /\ queue' = SelectSeq(queue, LAMBDA c : c \notin Tasks /\ consumer # c)
    /\ consumer' = IF consumer = holder THEN consumer ELSE "stopped"
    /\ UNCHANGED <<memory, holder, inbox, abort, sealed, dirty, disk>>

ShutdownSaves ==
    /\ life = "stopping"
    /\ ~\E c \in Calls : At(c, "stopping")
    /\ flush.at \in {"idle", "listed"}
    /\ status' = IF status \in {"running", "streaming"} THEN "error" ELSE status
    /\ dirty' = FALSE
    /\ flush' = [NoFlush EXCEPT !.at = "writing"]
    /\ life' = "saving"
    /\ UNCHANGED <<scenario, record, lc, call, locks, abort, sealed, kept, file, saves>>

ShutdownEnds ==
    /\ life = "saving" /\ flush.at = "idle"
    /\ kept' = FALSE
    /\ life' = "down"
    /\ UNCHANGED <<scenario, memory, call, locks, abort, sealed, dirty, flush, file, saves>>

Crash ==
    /\ Running /\ Can("crash") /\ Spent("crash")
    /\ life' = "down"
    /\ UNCHANGED <<memory, call, locks, abort, sealed, dirty, disk>>

(* load_sessions and the start of the web server: memory is rebuilt from   *)
(* the record; a main session runs again, a sub session is history.        *)
Restored(s) == SelectSeq(s, LAMBDA e : e.who # "marker")
Restart ==
    /\ life = "down"
    /\ record' = file.record
    /\ lc' = Restored(file.record)
    /\ status' = IF scenario.type = "main" THEN "running"
                 ELSE IF file.status \in {"completed", "error"} THEN file.status ELSE "error"
    /\ life' = IF file = NoFile THEN "deleted"
               ELSE IF scenario.type = "main" THEN "live" ELSE "archive"
    /\ kept' = (life' = "live")
    /\ call' = [c \in Calls |-> IF At(c, "idle") \/ call[c].at \in Ended THEN call[c]
                               ELSE [Idle EXCEPT !.at = "lost"]]
    /\ queue' = <<>> /\ holder' = "none" /\ inbox' = {} /\ consumer' = "idle"
    /\ abort' = FALSE /\ sealed' = FALSE /\ dirty' = FALSE
    /\ flush' = NoFlush
    /\ UNCHANGED <<scenario, file, saves>>

------------------------------------------------------------------------------
(* Saving: SessionPersistenceManager.flush_all lists what is dirty, and    *)
(* each save waits for its turn; _flush_to_disk under the save lock clears *)
(* the mark, and a thread reads the session and replaces its file.         *)

FlushLists ==
    /\ Running /\ kept /\ dirty /\ flush.at = "idle" /\ saves < MaxSaves
    /\ flush' = [flush EXCEPT !.at = "listed"]
    /\ saves' = saves + 1
    /\ UNCHANGED <<scenario, memory, call, locks, abort, sealed, life, dirty, kept, file>>

FlushLocks ==
    /\ Running /\ flush.at = "listed"
    /\ flush' = [flush EXCEPT !.at = IF dirty THEN "writing" ELSE "idle"]
    /\ dirty' = FALSE
    /\ UNCHANGED <<scenario, memory, call, locks, abort, sealed, life, kept, file, saves>>

FlushReads ==
    /\ Running /\ flush.at = "writing"
    /\ flush' = [at |-> "read", status |-> status, record |-> record]
    /\ UNCHANGED <<scenario, memory, call, locks, abort, sealed, life, dirty, kept, file, saves>>

FlushReplacesThenClears ==
    /\ Running /\ flush.at = "read"
    /\ file' = [record |-> flush.record, status |-> flush.status]
    /\ flush' = NoFlush
    /\ dirty' = FALSE
    /\ UNCHANGED <<scenario, memory, call, locks, abort, sealed, life, kept, saves>>
FlushReplaces ==
    /\ Running /\ flush.at = "read"
    /\ file' = [record |-> flush.record, status |-> flush.status]
    /\ flush' = NoFlush
    /\ UNCHANGED <<scenario, memory, call, locks, abort, sealed, life, dirty, kept, saves>>

FlushGivesUp ==
    /\ Running /\ flush.at \in {"writing", "read"} /\ Can("disk") /\ Spent("disk")
    /\ flush' = NoFlush
    /\ UNCHANGED <<memory, call, locks, abort, sealed, life, dirty, kept, file, saves>>
FlushFails ==
    /\ Running /\ flush.at \in {"writing", "read"} /\ Can("disk") /\ Spent("disk")
    /\ flush' = NoFlush
    /\ dirty' = TRUE
    /\ UNCHANGED <<memory, call, locks, abort, sealed, life, kept, file, saves>>

------------------------------------------------------------------------------
Init ==
    /\ scenario \in Scenarios
    /\ record = <<>> /\ lc = <<>> /\ status = "running"
    /\ call = [c \in Calls |-> Idle]
    /\ queue = <<>> /\ holder = "none"
    /\ inbox = {} /\ consumer = "idle"
    /\ abort = FALSE /\ sealed = FALSE
    /\ life = "live"
    /\ dirty = TRUE /\ kept = TRUE
    /\ flush = NoFlush /\ file = NoFile /\ saves = 0

Turn(c) ==
    \/ Acquire(c) \/ Compact(c) \/ CompressFirst(c) \/ ModelEnds(c)
    \/ StreamEnds(c) \/ StreamAborted(c) \/ Cancel(c)
Saving == FlushLists \/ FlushLocks \/ FlushReads \/ FlushReplaces

Next ==
    \/ \E c \in Calls : \/ Request(c) \/ Mail(c) \/ Turn(c)
                         \/ StreamCutShort(c) \/ StreamFails(c) \/ WorkflowStops(c)
    \/ Consume \/ Abort \/ Saving \/ FlushFails
    \/ KillStarts \/ KillEnds \/ KillTimesOut \/ DeleteStarts \/ DeleteEnds
    \/ ShutdownStarts \/ ShutdownSaves \/ ShutdownEnds \/ Crash \/ Restart

(* The timer runs as long as the process does, tasks at the lock and in a  *)
(* turn go on, a model's stream ends.                                      *)
Fairness ==
    /\ WF_vars(Saving) /\ WF_vars(Consume)
    /\ WF_vars(KillEnds) /\ WF_vars(DeleteEnds)
    /\ WF_vars(ShutdownSaves) /\ WF_vars(ShutdownEnds) /\ WF_vars(Restart)
    /\ \A c \in Calls : WF_vars(Turn(c))

Spec == Init /\ [][Next]_vars /\ Fairness

------------------------------------------------------------------------------
TypeOK ==
    /\ \A i \in DOMAIN record : /\ record[i].who \in {"user", "agent", "marker"}
                                /\ record[i].call \in Calls \cup {"none"}
    /\ status \in {"running", "completed", "streaming", "error"}
    /\ \A c \in Calls : call[c].at \in Ended \cup {"idle", "mailed", "waiting", "compressing",
                                                   "compacting", "streaming", "stopping"}
    /\ holder \in Calls \cup {"none"} /\ consumer \in Calls \cup {"idle", "stopped"}
    /\ \A c \in Calls : holder = c <=> call[c].at \in {"compressing", "compacting", "streaming", "stopping"}
    /\ saves \in 0 .. MaxSaves

(* A session that is shown as streaming, and so refuses what is sent to it, *)
(* has a call that streams: none has ended and left the status behind.  A  *)
(* kill sets the status itself.  The exception is the code's: when a       *)
(* workflow cancels the repair of a node's answer (nodes/agent.py:563),    *)
(* nobody takes the status back.  (The types are checked along.)           *)
RepairCancelled == \E c \in Calls : Kind(c) = "retry" /\ At(c, "cancelled")
StreamingIsLive ==
    /\ TypeOK
    /\ life = "live" /\ ~sealed /\ status = "streaming" /\ ~RepairCancelled =>
            Active /\ call[holder].at \in {"streaming", "stopping"}

(* What has been said in a call that is over is changed by nobody but an   *)
(* edit or a restart: no rollback and no checkpoint that is put back takes *)
(* the words of another call with it.                                      *)
EditsNow == \E c \in Calls : Kind(c) = "edit" /\ At(c, "waiting") /\ ~At(c, "waiting")'
OtherTurnsStay ==
    [][~EditsNow /\ life # "down" =>
          \A i \in DOMAIN record :
              record[i].call # "none" /\ call[record[i].call].at \in Ended
                  => \E j \in DOMAIN record' : record'[j] = record[i]]_vars

(* Once a kill has reported success, or a deletion has begun, nothing is   *)
(* said in the session any more, and a killed session stays in error.      *)
EndedStaysPut ==
    [][/\ life \in {"killed", "deleting", "deleted"} => record' = record /\ lc' = lc
       /\ life = "killed" /\ life' = "killed" => status' = "error"]_vars

(* A session that is not marked dirty is on file as it is in memory: no    *)
(* change is made after the mark was cleared for a save that did not see   *)
(* it (_flush_to_disk clears the mark before the thread reads).            *)
CleanFileIsCurrent ==
    life \in {"live", "killed"} /\ kept /\ ~dirty /\ ~Active /\ flush.at \in {"idle", "listed"}
    => /\ file.record = record
       /\ scenario.type = "sub" => file.status = status

(* The file catches up with the memory in the end. *)
FileCatchesUp == <>[](saves < MaxSaves /\ life \in {"live", "killed"} => file.record = record)

(* Whoever waits, at the lock or in the inbox, is served in the end, unless *)
(* the session is ended meanwhile.                                         *)
EveryCallIsServed ==
    \A c \in Calls : call[c].at \in {"mailed", "waiting"}
        ~> call[c].at \in Ended \/ sealed \/ ~Open
==============================================================================
