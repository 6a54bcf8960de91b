------------------------- MODULE AgentSessionProofs -------------------------
(***************************************************************************)
(* What AgentSession.tla promises, proved for any number of calls, every    *)
(* scenario and any number of saves: a session shown as streaming streams,  *)
(* an ended session stays as it is, a session not marked dirty is on file,  *)
(* and no turn takes back what another one said.                            *)
(*                                                                         *)
(* Of AgentSession!lc nothing is proved but that an ended session leaves it *)
(* alone: what a restart rebuilds it from is a SelectSeq, of which the       *)
(* provers know no fact (the same holds of the queue, so no invariant       *)
(* speaks of it either).  What the session remembers and sends is the       *)
(* subject of ContextWindow.tla: every request is one its model's interface *)
(* accepts, no result is lost on the way to it, and memory is covered by    *)
(* the record.                                                             *)
(***************************************************************************)
EXTENDS AgentSession, FiniteSetTheorems, SequenceTheorems, WellFoundedInduction, TLAPS

CONSTANTS MaxContext, FullAt, ToolsAt, MaxToolResults, KeepTools, KeepRecent, MaxRounds,
          QuestionSizes, AnswerSizes, ResultSizes, MaxMessages, MaxCompacts
VARIABLES remembered, messages, sent, history, phase, rounds, written, compacts
Window == INSTANCE ContextWindow WITH lc <- remembered, record <- history

Entries == [who : {"user", "agent", "marker"}, call : Calls \cup {"none"}]
Statuses == {"running", "completed", "streaming", "error"}
Turning == {"compressing", "compacting", "streaming", "stopping"}
Early == {"idle", "mailed", "waiting"}     \* nothing has been said yet
Places == Ended \cup Early \cup Turning
Words(s) == {s[i] : i \in DOMAIN s}

------------------------------------------------------------------------------
(* The inductive invariant, in four parts on top of the shape of the state. *)

(* A call is known by the four fields of its record (its lc is not typed). *)
CallOK ==
    /\ DOMAIN call = Calls
    /\ \A c \in Calls :
          /\ call[c] = [at |-> call[c].at, record |-> call[c].record,
                        lc |-> call[c].lc, target |-> call[c].target]
          /\ call[c].at \in Places
          /\ call[c].record \in Seq(Entries)
          /\ call[c].target \in Calls \cup {"none"}

HolderOK ==
    /\ holder \in Calls \cup {"none"}
    /\ \A c \in Calls : holder = c <=> call[c].at \in Turning
    /\ consumer \in Calls \cup {"idle", "stopped"}
    /\ inbox \subseteq Calls
    /\ \A c \in inbox : At(c, "mailed")

DiskOK ==
    /\ flush = [at |-> flush.at, status |-> flush.status, record |-> flush.record]
    /\ flush.at \in {"idle", "listed", "writing", "read"}
    /\ flush.record \in Seq(Entries)
    /\ flush.at = "read" => flush.status \in Statuses
    /\ file = [record |-> file.record, status |-> file.status]
    /\ file.record \in Seq(Entries)
    /\ file = NoFile \/ file.status \in Statuses
    /\ saves \in 0 .. MaxSaves

ScenarioOK == scenario \in [type : {"main", "sub"}, calls : [Calls -> Kinds],
                            faults : SUBSET Faults]

FlagsOK ==
    /\ sealed \in BOOLEAN /\ abort \in BOOLEAN /\ dirty \in BOOLEAN /\ kept \in BOOLEAN
    /\ life \in {"live", "killing", "killed", "deleting", "deleted", "stopping",
                 "saving", "down", "archive"}

Shape ==
    /\ record \in Seq(Entries)
    /\ status \in Statuses
    /\ FlagsOK /\ CallOK /\ HolderOK /\ DiskOK /\ ScenarioOK

(* A turn is stopped by a kill, by a shutdown or by the workflow. *)
LiveOK ==
    /\ life = "killing" => sealed
    /\ \A c \in Calls : At(c, "stopping") => Kind(c) = "retry" \/ sealed \/ life # "live"
    /\ life = "live" /\ ~sealed /\ status = "streaming" /\ ~RepairCancelled
          => Active /\ call[holder].at \in {"streaming", "stopping"}

(* In an ended session, who still waits finds it sealed, or nobody waits. *)
EndedOK ==
    /\ life = "killing" => sealed
    /\ life \in {"killed", "deleting", "deleted"} =>
          /\ ~Active
          /\ sealed \/ (inbox = {} /\ \A c \in Calls : ~At(c, "waiting"))
    /\ life = "killed" => sealed /\ status = "error"

(* What is not marked dirty is on file, or on its way there. *)
CleanOK ==
    life \in {"live", "killing", "killed"} /\ kept /\ ~dirty =>
        /\ flush.at \in {"idle", "listed"} =>
              /\ file.record = record
              /\ scenario.type = "sub" => file.status = status
        /\ flush.at = "read" => flush.record = record /\ flush.status = status

(* Nobody has said anything before its turn, in any copy of the record; of  *)
(* what ended calls have said the checkpoint of a turn has every word; and  *)
(* the question a turn would take back is its own.                          *)
Said(s) == \A e \in Words(s) : e.call # "none" => call[e.call].at \notin Early
Over(s) == {e \in Words(s) : e.call # "none" /\ call[e.call].at \in Ended}
WordsOK ==
    /\ Said(record) /\ Said(file.record) /\ Said(flush.record)
    /\ \A c \in Calls : Said(call[c].record)
    /\ \A c \in Calls : holder = c => Over(record) \subseteq Words(call[c].record)
    /\ \A c \in Calls : At(c, "compressing") \/ At(c, "streaming") =>
          /\ record # <<>>
          /\ record[Len(record)].who = "user" => record[Len(record)].call = c

------------------------------------------------------------------------------
(* Lists of entries *)

(* The empty list has no words. *)
LEMMA EmptyList == <<>> \in Seq(Entries) /\ Words(<<>>) = {}
BY DEF Words

(* What is appended is there, and nothing else is new. *)
LEMMA AppendWords ==
    ASSUME NEW s \in Seq(Entries), NEW e \in Entries
    PROVE  /\ Append(s, e) \in Seq(Entries)
           /\ Words(Append(s, e)) = Words(s) \cup {e}
           /\ Append(s, e) # <<>>
           /\ Append(s, e)[Len(Append(s, e))] = e
<1> DEFINE t == Append(s, e)
<1>1. /\ t \in Seq(Entries) /\ Len(t) = Len(s) + 1 /\ Len(s) \in Nat
      /\ DOMAIN s = 1 .. Len(s) /\ DOMAIN t = 1 .. Len(t)
      /\ \A i \in 1 .. Len(s) : t[i] = s[i]
      /\ t[Len(t)] = e
  OBVIOUS
<1>2. Words(t) \subseteq Words(s) \cup {e}
  BY <1>1 DEF Words
<1>3. Words(s) \subseteq Words(t)
  BY <1>1 DEF Words
<1>4. e \in Words(t)
  BY <1>1 DEF Words
<1>5. t # <<>>
  BY <1>1
<1> QED
  BY <1>1, <1>2, <1>3, <1>4, <1>5

(* A rollback takes back the last entry, and only if it is a question. *)
LEMMA TakenBackWords ==
    ASSUME NEW s \in Seq(Entries)
    PROVE  /\ TakenBack(s) \in Seq(Entries)
           /\ Words(TakenBack(s)) \subseteq Words(s)
           /\ \A e \in Words(s) :
                 \/ e \in Words(TakenBack(s))
                 \/ s # <<>> /\ e = s[Len(s)] /\ e.who = "user"
<1>1. CASE s # <<>> /\ Last(s).who = "user"
  <2>1. TakenBack(s) = SubSeq(s, 1, Len(s) - 1) /\ Last(s) = s[Len(s)]
    BY <1>1 DEF TakenBack, Front, Last
  <2> DEFINE t == SubSeq(s, 1, Len(s) - 1)
  <2>a. Len(s) \in Nat /\ DOMAIN s = 1 .. Len(s) /\ Len(s) # 0
    BY <1>1
  <2>2. /\ t \in Seq(Entries) /\ Len(s) \in Nat \ {0} /\ Len(t) = Len(s) - 1
        /\ DOMAIN s = 1 .. Len(s) /\ DOMAIN t = 1 .. Len(t)
        /\ \A i \in 1 .. Len(t) : t[i] = s[i]
    BY <2>a
  <2>3. Words(t) \subseteq Words(s)
    BY <2>2 DEF Words
  <2>4. ASSUME NEW i \in DOMAIN s
        PROVE  s[i] \in Words(t) \/ i = Len(s)
    <3>1. i \in 1 .. Len(t) \/ i = Len(s)
      BY <2>2
    <3>2. i \in 1 .. Len(t) => i \in DOMAIN t /\ s[i] = t[i]
      BY <2>2
    <3> QED
      BY <3>1, <3>2 DEF Words
  <2> QED
    BY <1>1, <2>1, <2>2, <2>3, <2>4 DEF Words
<1>2. CASE ~(s # <<>> /\ Last(s).who = "user")
  BY <1>2 DEF TakenBack
<1> QED
  BY <1>1, <1>2

(* What is left of a list cut at a message was in it. *)
LEMMA CutWords ==
    ASSUME NEW s \in Seq(Entries), NEW i \in DOMAIN s
    PROVE  /\ Cut(s, i) \in Seq(Entries)
           /\ Words(Cut(s, i)) \subseteq Words(s)
<1> DEFINE t == SubSeq(s, 1, i - 1)
<1>1. /\ t \in Seq(Entries) /\ Len(s) \in Nat /\ i \in 1 .. Len(s) /\ Len(t) = i - 1
      /\ DOMAIN s = 1 .. Len(s) /\ DOMAIN t = 1 .. Len(t)
      /\ \A k \in 1 .. Len(t) : t[k] = s[k]
  OBVIOUS
<1> QED
  BY <1>1 DEF Words, Cut

(* Whatever a list holds is an entry. *)
LEMMA WordsAreEntries ==
    ASSUME NEW s \in Seq(Entries)
    PROVE  /\ Words(s) \subseteq Entries
           /\ \A i \in DOMAIN s : s[i] \in Entries
           /\ s # <<>> => s[Len(s)] \in Words(s)
<1>1. /\ Len(s) \in Nat /\ DOMAIN s = 1 .. Len(s)
      /\ \A i \in 1 .. Len(s) : s[i] \in Entries
      /\ s # <<>> => Len(s) # 0
  OBVIOUS
<1> QED
  BY <1>1 DEF Words

(* Only one call changes place when one enters a place. *)
LEMMA EnterEffect ==
    ASSUME CallOK, NEW c \in Calls, NEW place \in Places, Enter(c, place)
    PROVE  /\ CallOK'
           /\ \A d \in Calls : /\ call'[d].at = IF d = c THEN place ELSE call[d].at
                               /\ call'[d].record = call[d].record
                               /\ call'[d].target = call[d].target
<1>1. /\ DOMAIN call' = Calls
      /\ \A d \in Calls : call'[d] = IF d = c THEN [call[c] EXCEPT !.at = place] ELSE call[d]
  BY DEF CallOK, Enter
<1>2. call'[c] = [at |-> place, record |-> call[c].record, lc |-> call[c].lc,
                  target |-> call[c].target]
  BY <1>1 DEF CallOK
<1>3. \A d \in Calls : d # c => call'[d] = call[d]
  BY <1>1
<1>4. \A d \in Calls : /\ call'[d].at = IF d = c THEN place ELSE call[d].at
                       /\ call'[d].record = call[d].record
                       /\ call'[d].target = call[d].target
                       /\ call'[d].lc = call[d].lc
  BY <1>2, <1>3
<1>5. ASSUME NEW d \in Calls
      PROVE  call'[d] = [at |-> call'[d].at, record |-> call'[d].record,
                         lc |-> call'[d].lc, target |-> call'[d].target]
  <2>1. CASE d = c
    BY <1>2, <1>4, <2>1
  <2>2. CASE d # c
    BY <1>3, <1>4, <2>2 DEF CallOK
  <2> QED
    BY <2>1, <2>2
<1> QED
  BY <1>1, <1>4, <1>5 DEF CallOK

------------------------------------------------------------------------------
(* What the steps of a turn do *)

(* Only call c moved, to place, and the checkpoints are what they were but  *)
(* for c's, which is rec.                                                  *)
Moved(c, place, rec) ==
    \A d \in Calls : /\ call'[d].at = IF d = c THEN place ELSE call[d].at
                     /\ call'[d].record = IF d = c THEN rec ELSE call[d].record

(* A turn begins with a question after rec, which is the record or what an  *)
(* edit leaves of it.                                                      *)
Begun(c) ==
    \E place \in {"compressing", "streaming"}, rec \in Seq(Entries) :
        /\ Words(rec) \subseteq Words(record)
        /\ Kind(c) # "edit" => rec = record
        /\ record' = Append(rec, Entry("user", c))
        /\ Moved(c, place, record)
        /\ status' = IF place = "streaming" THEN "streaming" ELSE status

(* The question is asked, and the record kept, whatever the place. *)
LEMMA BeginEffect ==
    ASSUME Shape, NEW c \in Calls, NEW rec, NEW mem, Begin(c, rec, mem)
    PROVE  /\ CallOK' /\ dirty' = TRUE /\ consumer' = consumer
           /\ record' = Append(rec, Entry("user", c))
           /\ \E place \in {"compressing", "streaming"} :
                 /\ Moved(c, place, record)
                 /\ status' = IF place = "streaming" THEN "streaming" ELSE status
<1>1. PICK place \in {"compressing", "streaming"} :
          /\ call' = [call EXCEPT ![c] = [at |-> place, record |-> record, lc |-> lc,
                                          target |-> call[c].target]]
          /\ status' = IF place = "streaming" THEN "streaming" ELSE status
  BY DEF Begin
<1>2. /\ DOMAIN call' = Calls
      /\ call'[c] = [at |-> place, record |-> record, lc |-> lc, target |-> call[c].target]
      /\ \A d \in Calls : d # c => call'[d] = call[d]
  BY <1>1 DEF Shape, CallOK
<1>3. Moved(c, place, record)
  BY <1>2 DEF Moved
<1>4. ASSUME NEW d \in Calls
      PROVE  /\ call'[d] = [at |-> call'[d].at, record |-> call'[d].record,
                            lc |-> call'[d].lc, target |-> call'[d].target]
             /\ call'[d].at \in Places
             /\ call'[d].record \in Seq(Entries)
             /\ call'[d].target \in Calls \cup {"none"}
  <2>1. CASE d = c
    BY <1>2, <2>1 DEF Shape, CallOK, Places, Turning
  <2>2. CASE d # c
    BY <1>2, <2>2 DEF Shape, CallOK
  <2> QED
    BY <2>1, <2>2
<1> QED
  BY <1>1, <1>2, <1>3, <1>4 DEF CallOK, Begin

(* Who comes to the lock is refused, compacts, or begins its turn. *)
Refused(c) ==
    /\ Leave(c, "refused")
    /\ status' = Broken(c) /\ dirty' = TRUE /\ record' = record /\ lc' = lc
Compacts(c) ==
    /\ holder' = c /\ Kind(c) = "compact"
    /\ CallOK' /\ Moved(c, "compacting", record)
    /\ UNCHANGED <<memory, dirty, consumer>>
Begins(c) ==
    /\ holder' = c /\ CallOK' /\ Begun(c) /\ dirty' = TRUE /\ consumer' = consumer

(* The first in line gets the lock: it is refused, or says what it has to say. *)
LEMMA AcquireEffect ==
    ASSUME Shape, NEW c \in Calls, Acquire(c)
    PROVE  /\ Running /\ At(c, "waiting") /\ holder = "none"
           /\ abort' \in BOOLEAN
           /\ UNCHANGED <<scenario, inbox, sealed, life, disk>>
           /\ \/ Refused(c)
              \/ ~sealed /\ Compacts(c)
              \/ ~sealed /\ Begins(c)
<1>0. /\ Running /\ At(c, "waiting") /\ holder = "none"
      /\ UNCHANGED <<scenario, inbox, sealed, life, disk>>
      /\ sealed \in BOOLEAN /\ abort \in BOOLEAN
  BY DEF Acquire, Shape, FlagsOK
<1>1. CASE sealed
  BY <1>0, <1>1 DEF Acquire, Refused
<1>2. CASE ~sealed
  <2>0. abort' = FALSE
    BY <1>2 DEF Acquire
  <2>1. CASE Kind(c) = "edit" /\ EditFails(c)
    BY <1>0, <1>2, <2>0, <2>1 DEF Acquire, Refused
  <2>2. CASE Kind(c) = "compact"
    <3>1. /\ holder' = c
          /\ call' = [call EXCEPT ![c].at = "compacting", ![c].record = record, ![c].lc = lc]
          /\ UNCHANGED <<memory, dirty, consumer>>
      BY <1>2, <2>2 DEF Acquire
    <3>2. /\ DOMAIN call' = Calls
          /\ call'[c] = [at |-> "compacting", record |-> record, lc |-> lc,
                         target |-> call[c].target]
          /\ \A d \in Calls : d # c => call'[d] = call[d]
      <4>1. /\ DOMAIN call = Calls
            /\ call[c] = [at |-> call[c].at, record |-> call[c].record,
                          lc |-> call[c].lc, target |-> call[c].target]
        BY DEF Shape, CallOK
      <4>2. /\ DOMAIN call' = Calls
            /\ call'[c] = [call[c] EXCEPT !.at = "compacting", !.record = record, !.lc = lc]
            /\ \A d \in Calls : d # c => call'[d] = call[d]
        BY <3>1, <4>1
      <4> QED
        BY <4>1, <4>2
    <3>3. Moved(c, "compacting", record)
      BY <3>2 DEF Moved
    <3>4. ASSUME NEW d \in Calls
          PROVE  /\ call'[d] = [at |-> call'[d].at, record |-> call'[d].record,
                                lc |-> call'[d].lc, target |-> call'[d].target]
                 /\ call'[d].at \in Places
                 /\ call'[d].record \in Seq(Entries)
                 /\ call'[d].target \in Calls \cup {"none"}
      <4>1. CASE d = c
        BY <3>2, <4>1 DEF Shape, CallOK, Places, Turning
      <4>2. CASE d # c
        BY <3>2, <4>2 DEF Shape, CallOK
      <4> QED
        BY <4>1, <4>2
    <3> QED
      BY <1>0, <1>2, <2>0, <2>2, <3>1, <3>2, <3>3, <3>4 DEF Compacts, CallOK
  <2>3. CASE Kind(c) = "edit" /\ ~EditFails(c)
    <3> DEFINE i == PositionOf(record, call[c].target)
               rec == Cut(record, i)
    <3>1. holder' = c /\ \E mem : Begin(c, rec, mem)
      BY <1>2, <2>3 DEF Acquire, EditBegins
    <3>2. i \in DOMAIN record
      <4>1. \E k \in Users(record) : record[k].call = call[c].target
        BY <2>3 DEF EditFails
      <4>2. i \in Users(record)
        BY <4>1 DEF PositionOf
      <4> QED
        BY <4>2 DEF Users
    <3> HIDE DEF i
    <3>3. rec \in Seq(Entries) /\ Words(rec) \subseteq Words(record)
      BY <3>2, CutWords DEF Shape
    <3> HIDE DEF rec
    <3>4. CallOK' /\ dirty' = TRUE /\ consumer' = consumer /\ Begun(c)
      BY <2>3, <3>1, <3>3, BeginEffect DEF Begun
    <3> QED
      BY <1>0, <1>2, <2>0, <3>1, <3>4 DEF Begins
  <2>4. CASE Kind(c) \notin {"edit", "compact"}
    <3>1. holder' = c /\ Begin(c, record, lc)
      BY <1>2, <2>4 DEF Acquire
    <3>2. CallOK' /\ dirty' = TRUE /\ consumer' = consumer /\ Begun(c)
      BY <3>1, BeginEffect DEF Begun, Shape
    <3> QED
      BY <1>0, <1>2, <2>0, <3>1, <3>2 DEF Begins
  <2> QED
    BY <2>1, <2>2, <2>3, <2>4
<1> QED
  BY <1>0, <1>1, <1>2

(* The steps of a turn that has begun. *)
TurnStep(c) ==
    \/ Compact(c) \/ CompressFirst(c) \/ ModelEnds(c) \/ StreamEnds(c) \/ StreamAborted(c)
    \/ StreamCutShort(c) \/ StreamFails(c) \/ Cancel(c)

(* What a turn does to the record ... *)
Wrote(c) ==
    \/ record' = record
    \/ record' = Append(record, Marker) \/ record' = Append(record, Entry("agent", c))
    \/ (At(c, "compressing") \/ At(c, "streaming")) /\ record' = TakenBack(record)
    \/ At(c, "stopping") /\ record' = call[c].record

(* ... and how it ends, or goes on: only a compaction and a cancelled turn  *)
(* may leave the status as it was.                                         *)
Leaves(c) ==
    /\ holder' = "none" /\ CallOK' /\ consumer' \in {consumer, "idle", "stopped"}
    /\ \/ ~At(c, "stopping") /\ Moved(c, "done", call[c].record)
       \/ At(c, "stopping") /\ Moved(c, "cancelled", call[c].record)
    /\ status' \in Statuses
    /\ status' = "streaming" =>
          /\ status = "streaming"
          /\ \/ At(c, "compacting")
             \/ At(c, "stopping") /\ Kind(c) \notin {"message", "edit", "task"}
GoesOn(c) ==
    /\ holder' = holder /\ CallOK' /\ consumer' = consumer
    /\ \/ At(c, "compressing") /\ Moved(c, "streaming", call[c].record) /\ status' = "streaming"
       \/ At(c, "streaming") /\ call' = call /\ status' = status
    /\ record' \in {record, Append(record, Marker), Append(record, Entry("agent", c))}

(* Leaving the lock, a call is done or cancelled. *)
LEMMA LeaveEffect ==
    ASSUME Shape, NEW c \in Calls, Leave(c, "done")
    PROVE  /\ holder' = "none" /\ CallOK' /\ consumer' \in {consumer, "idle", "stopped"}
           /\ Moved(c, "done", call[c].record)
<1>1. "done" \in Places
  BY DEF Places, Ended
<1> QED
  BY <1>1, EnterEffect DEF Shape, Leave, ConsumerAfter, Moved

(* A rollback behind a marker takes nothing back. *)
LEMMA MarkerStays ==
    ASSUME NEW s \in Seq(Entries)
    PROVE  TakenBack(Append(s, Marker)) = Append(s, Marker)
<1>1. Marker \in Entries /\ Marker.who = "marker"
  BY DEF Marker, Entry, Entries
<1>2. Last(Append(s, Marker)) = Marker
  BY <1>1, AppendWords DEF Last
<1> QED
  BY <1>1, <1>2 DEF TakenBack

(* What each step of the call that holds the lock does to the record and the
   status, and where it leaves the call. *)
LEMMA TurnEffect ==
    ASSUME Shape, NEW c \in Calls, TurnStep(c)
    PROVE  /\ At(c, "compacting") \/ At(c, "compressing") \/ At(c, "streaming") \/ At(c, "stopping")
           /\ Running
           /\ UNCHANGED <<scenario, inbox, abort, sealed, life, disk>>
           /\ record' \in Seq(Entries) /\ Wrote(c)
           /\ dirty' = TRUE \/ UNCHANGED <<record, status, dirty>>
           /\ Leaves(c) \/ GoesOn(c)
<1> USE DEF Shape
<1>0. /\ Settled \in Statuses \ {"streaming"}
      /\ record \in Seq(Entries) /\ Append(record, Marker) \in Seq(Entries)
      /\ Append(record, Entry("agent", c)) \in Seq(Entries)
      /\ TakenBack(record) \in Seq(Entries) /\ call[c].record \in Seq(Entries)
  <2>1. Marker \in Entries /\ Entry("agent", c) \in Entries
    BY DEF Marker, Entry, Entries
  <2> QED
    BY <2>1, AppendWords, TakenBackWords DEF Settled, Statuses, CallOK
<1>1. CASE Compact(c)
  <2>1. Leaves(c)
    BY <1>1, LeaveEffect DEF Compact, Leaves, At
  <2> QED
    BY <1>0, <1>1, <2>1 DEF Compact, Compaction, Wrote, memory, disk, At
<1>2. CASE CompressFirst(c)
  <2>0. /\ At(c, "compressing") /\ dirty' = TRUE /\ Running
        /\ UNCHANGED <<scenario, inbox, abort, sealed, life, disk>>
    BY <1>2 DEF CompressFirst
  <2>1. PICK rec \in {record, Append(record, Marker)} :
            \E mem :
              \/ /\ lc' = TakenBack(mem) /\ record' = TakenBack(rec)
                 /\ status' = Settled /\ Leave(c, "done")
              \/ /\ lc' = mem /\ record' = rec
                 /\ status' = "streaming" /\ Enter(c, "streaming")
                 /\ UNCHANGED <<holder, consumer>>
    BY <1>2 DEF CompressFirst
  <2>2. CASE record' = TakenBack(rec) /\ status' = Settled /\ Leave(c, "done")
    <3>1. Leaves(c)
      BY <1>0, <2>0, <2>2, LeaveEffect DEF Leaves, At
    <3>2. record' = TakenBack(record) \/ record' = Append(record, Marker)
      BY <1>0, <2>2, MarkerStays
    <3> QED
      BY <1>0, <2>0, <3>1, <3>2 DEF Wrote
  <2>3. CASE /\ record' = rec /\ status' = "streaming" /\ Enter(c, "streaming")
             /\ UNCHANGED <<holder, consumer>>
    <3>1. "streaming" \in Places
      BY DEF Places, Turning
    <3>2. CallOK' /\ Moved(c, "streaming", call[c].record)
      BY <2>3, <3>1, EnterEffect DEF Moved
    <3> QED
      BY <1>0, <2>0, <2>3, <3>2 DEF Wrote, GoesOn
  <2> QED
    BY <2>1, <2>2, <2>3
<1>3. CASE ModelEnds(c)
  <2>1. /\ At(c, "streaming") /\ Running /\ record' = Append(record, Entry("agent", c))
        /\ call' = call /\ holder' = holder /\ consumer' = consumer /\ inbox' = inbox
        /\ status' = status /\ dirty' = TRUE
        /\ UNCHANGED <<scenario, abort, sealed, life, disk>>
    BY <1>3 DEF ModelEnds, locks
  <2>2. CallOK'
    BY <2>1 DEF CallOK
  <2> QED
    BY <1>0, <2>1, <2>2 DEF Wrote, GoesOn
<1>4. ASSUME NEW rec \in {record, Append(record, Marker), TakenBack(record)}, NEW mem,
             NEW how \in Statuses \ {"streaming"},
             Finish(c, rec, mem, how), At(c, "streaming"), Running
      PROVE  /\ UNCHANGED <<scenario, inbox, abort, sealed, life, disk>>
             /\ record' \in Seq(Entries) /\ Wrote(c) /\ dirty' = TRUE
             /\ Leaves(c)
  <2>1. record' = rec /\ status' = how /\ dirty' = TRUE /\ Leave(c, "done")
    BY <1>4 DEF Finish
  <2>2. Leaves(c)
    BY <1>4, <2>1, LeaveEffect DEF Leaves, At
  <2>3. UNCHANGED <<scenario, inbox, abort, sealed, life, disk>>
    BY <1>4 DEF Finish
  <2> QED
    BY <1>0, <1>4, <2>1, <2>2, <2>3 DEF Wrote
<1>5. CASE StreamEnds(c)
  BY <1>0, <1>4, <1>5 DEF StreamEnds
<1>6. CASE StreamAborted(c)
  BY <1>0, <1>4, <1>6 DEF StreamAborted
<1>7. CASE StreamCutShort(c)
  BY <1>4, <1>7 DEF StreamCutShort, Statuses
<1>8. CASE StreamFails(c)
  BY <1>4, <1>8 DEF StreamFails, Statuses
<1>9. CASE Cancel(c)
  <2>1. /\ At(c, "stopping") /\ Running /\ record' = call[c].record /\ dirty' = TRUE
        /\ status' = Stopped(c) /\ holder' = "none"
        /\ Enter(c, "cancelled") /\ ConsumerAfter(c, TRUE)
        /\ UNCHANGED <<scenario, inbox, abort, sealed, life, disk>>
    BY <1>9 DEF Cancel
  <2>2. "cancelled" \in Places
    BY DEF Places, Ended
  <2>3. CallOK' /\ Moved(c, "cancelled", call[c].record)
    BY <2>1, <2>2, EnterEffect DEF Moved
  <2>4. /\ Stopped(c) \in Statuses
        /\ Stopped(c) = "streaming" => status = "streaming" /\ Kind(c) \notin {"message", "edit", "task"}
    BY DEF Stopped, Statuses
  <2>5. consumer' \in {consumer, "idle", "stopped"}
    BY <2>1 DEF ConsumerAfter
  <2> QED
    BY <1>0, <2>1, <2>3, <2>4, <2>5 DEF Wrote, Leaves
<1> QED
  BY <1>1, <1>2, <1>3, <1>5, <1>6, <1>7, <1>8, <1>9 DEF TurnStep

------------------------------------------------------------------------------
(* What a kill, a deletion, a shutdown and a restart do to the calls *)

(* Every call is at place[d] afterwards, with the checkpoint it had. *)
Placed(place) ==
    \A d \in Calls : call'[d].at = place[d] /\ call'[d].record = call[d].record

(* Calls that somebody else moves keep the lists they hold. *)
LEMMA PlacedEffect ==
    ASSUME CallOK, NEW place \in [Calls -> Places], DOMAIN call' = Calls,
           \A d \in Calls : \/ call'[d] = call[d] /\ place[d] = call[d].at
                            \/ call'[d] = [call[d] EXCEPT !.at = place[d]]
    PROVE  CallOK' /\ Placed(place)
<1>1. ASSUME NEW d \in Calls
      PROVE  call'[d] = [at |-> place[d], record |-> call[d].record,
                         lc |-> call[d].lc, target |-> call[d].target]
  <2>1. call[d] = [at |-> call[d].at, record |-> call[d].record,
                   lc |-> call[d].lc, target |-> call[d].target]
    BY DEF CallOK
  <2>2. CASE call'[d] = call[d] /\ place[d] = call[d].at
    BY <2>1, <2>2
  <2>3. CASE call'[d] = [call[d] EXCEPT !.at = place[d]]
    BY <2>1, <2>3
  <2> QED
    BY <2>2, <2>3
<1>2. \A d \in Calls : /\ call'[d].at = place[d] /\ call'[d].record = call[d].record
                       /\ call'[d].lc = call[d].lc /\ call'[d].target = call[d].target
  BY <1>1
<1>3. \A d \in Calls : call'[d] = [at |-> call'[d].at, record |-> call'[d].record,
                                   lc |-> call'[d].lc, target |-> call'[d].target]
  BY <1>1, <1>2
<1> QED
  BY <1>2, <1>3 DEF CallOK, Placed

(* The tasks that wait for the lock are cancelled. *)
Dropped == [c \in Calls |-> IF c \in Tasks THEN "cancelled" ELSE call[c].at]

(* A kill of an idle session cancels who waits, and nobody else. *)
LEMMA DropEffect ==
    ASSUME Shape, DropTasks
    PROVE  CallOK' /\ Placed(Dropped)
<1>1. Dropped \in [Calls -> Places]
  BY DEF Dropped, Shape, CallOK, Places, Ended
<1>2. /\ DOMAIN call' = Calls
      /\ \A d \in Calls : \/ call'[d] = call[d] /\ Dropped[d] = call[d].at
                          \/ call'[d] = [call[d] EXCEPT !.at = Dropped[d]]
  BY DEF DropTasks, Dropped
<1> QED
  BY <1>1, <1>2, PlacedEffect DEF Shape

(* The call under way is stopped. *)
Halted == [c \in Calls |-> IF holder = c THEN "stopping" ELSE call[c].at]

(* A kill of a working session stops its call, and no other. *)
LEMMA HolderStopsEffect ==
    ASSUME Shape, call' = HolderStops
    PROVE  CallOK' /\ Placed(Halted)
<1>1. Halted \in [Calls -> Places]
  BY DEF Halted, Shape, CallOK, Places, Turning
<1>2. DOMAIN call = Calls /\ holder \in Calls \cup {"none"} /\ "none" \notin Calls
  BY Assumption DEF Shape, CallOK, HolderOK
<1>3. /\ DOMAIN call' = Calls
      /\ \A d \in Calls : \/ call'[d] = call[d] /\ Halted[d] = call[d].at
                          \/ call'[d] = [call[d] EXCEPT !.at = Halted[d]]
  BY <1>2 DEF HolderStops, Halted, Active
<1> QED
  BY <1>1, <1>3, PlacedEffect DEF Shape

(* A shutdown stops what tasks and the inbox run, and cancels what waits.   *)
Stops == {c \in Calls : holder = c /\ Kind(c) \in {"task", "mail"}}
Left == [c \in Calls |-> IF c \in Stops THEN "stopping"
                         ELSE IF c \in Tasks THEN "cancelled" ELSE call[c].at]

(* A shutdown stops the call under way and cancels who waits. *)
LEMMA ShutdownEffect ==
    ASSUME Shape, ShutdownStarts
    PROVE  CallOK' /\ Placed(Left)
<1>1. Left \in [Calls -> Places]
  BY DEF Left, Shape, CallOK, Places, Turning, Ended
<1>2. call' = [c \in Calls |-> IF c \in Stops THEN [call[c] EXCEPT !.at = "stopping"]
                               ELSE IF c \in Tasks THEN [call[c] EXCEPT !.at = "cancelled"]
                               ELSE call[c]]
  BY DEF ShutdownStarts, Stops
<1>3. /\ DOMAIN call' = Calls
      /\ \A d \in Calls : \/ call'[d] = call[d] /\ Left[d] = call[d].at
                          \/ call'[d] = [call[d] EXCEPT !.at = Left[d]]
  BY <1>2 DEF Left
<1> QED
  BY <1>1, <1>3, PlacedEffect DEF Shape

(* After a restart a call is over or has not been made. *)
LEMMA RestartEffect ==
    ASSUME Shape, Restart
    PROVE  /\ CallOK'
           /\ \A d \in Calls :
                 /\ call'[d].at = IF call[d].at = "idle" \/ call[d].at \in Ended
                                  THEN call[d].at ELSE "lost"
                 /\ call'[d].record \in {call[d].record, <<>>}
<1>1. /\ DOMAIN call' = Calls
      /\ \A d \in Calls : call'[d] = IF call[d].at = "idle" \/ call[d].at \in Ended THEN call[d]
                                     ELSE [at |-> "lost", record |-> <<>>, lc |-> <<>>, target |-> "none"]
  <2>1. [Idle EXCEPT !.at = "lost"] = [at |-> "lost", record |-> <<>>, lc |-> <<>>, target |-> "none"]
    BY DEF Idle
  <2> QED
    BY <2>1 DEF Restart, At
<1>2. <<>> \in Seq(Entries) /\ "lost" \in Places
  BY EmptyList DEF Places, Ended
<1>3. \A d \in Calls :
          /\ call'[d].at = IF call[d].at = "idle" \/ call[d].at \in Ended
                           THEN call[d].at ELSE "lost"
          /\ call'[d].record \in {call[d].record, <<>>}
          /\ call'[d].target \in {call[d].target, "none"}
  BY <1>1
<1>4. \A d \in Calls : call'[d] = [at |-> call'[d].at, record |-> call'[d].record,
                                   lc |-> call'[d].lc, target |-> call'[d].target]
  <2> TAKE d \in Calls
  <2>1. CASE call[d].at = "idle" \/ call[d].at \in Ended
    BY <1>1, <2>1 DEF Shape, CallOK
  <2>2. CASE ~(call[d].at = "idle" \/ call[d].at \in Ended)
    BY <1>1, <2>2
  <2> QED
    BY <2>1, <2>2
<1> QED
  BY <1>1, <1>2, <1>3, <1>4 DEF Shape, CallOK

------------------------------------------------------------------------------
(* How calls come to the lock *)

(* A request waits or is refused. *)
LEMMA RequestEffect ==
    ASSUME Shape, NEW c \in Calls, Request(c)
    PROVE  /\ Open /\ At(c, "idle")
           /\ UNCHANGED <<scenario, memory, holder, inbox, consumer, abort, sealed, life, dirty, disk>>
           /\ \E place \in {"waiting", "refused"} : CallOK' /\ Moved(c, place, call[c].record)
<1>0. /\ Open /\ At(c, "idle")
      /\ UNCHANGED <<scenario, memory, holder, inbox, consumer, abort, sealed, life, dirty, disk>>
  BY DEF Request
<1>1. CASE Accepts(c)
  <2>1. PICK target \in Calls \cup {"none"} :
            call' = [call EXCEPT ![c].at = "waiting", ![c].target = target]
    <3>1. \A i \in DOMAIN record : record[i].call \in Calls \cup {"none"}
      BY WordsAreEntries DEF Entries, Shape
    <3> QED
      BY <1>1, <3>1 DEF Request
  <2>2. /\ DOMAIN call' = Calls
        /\ call'[c] = [call[c] EXCEPT !.at = "waiting", !.target = target]
        /\ \A d \in Calls : d # c => call'[d] = call[d]
    BY <2>1 DEF Shape, CallOK
  <2>3. /\ call[c] = [at |-> call[c].at, record |-> call[c].record,
                      lc |-> call[c].lc, target |-> call[c].target]
        /\ call[c].record \in Seq(Entries)
    BY DEF Shape, CallOK
  <2>4. call'[c] = [at |-> "waiting", record |-> call[c].record,
                    lc |-> call[c].lc, target |-> target]
    BY <2>2, <2>3
  <2>5. Moved(c, "waiting", call[c].record)
    BY <2>2, <2>4 DEF Moved
  <2>6. "waiting" \in Places
    BY DEF Places, Early
  <2>7. ASSUME NEW d \in Calls
        PROVE  /\ call'[d] = [at |-> call'[d].at, record |-> call'[d].record,
                              lc |-> call'[d].lc, target |-> call'[d].target]
               /\ call'[d].at \in Places /\ call'[d].record \in Seq(Entries)
               /\ call'[d].target \in Calls \cup {"none"}
    <3>1. CASE d = c
      BY <2>3, <2>4, <2>6, <3>1
    <3>2. CASE d # c
      BY <2>2, <3>2 DEF Shape, CallOK
    <3> QED
      BY <3>1, <3>2
  <2> QED
    BY <1>0, <2>2, <2>5, <2>7 DEF Shape, CallOK
<1>2. CASE ~Accepts(c)
  <2>1. Enter(c, "refused") /\ "refused" \in Places
    BY <1>2 DEF Request, Places, Ended
  <2> QED
    BY <1>0, <2>1, EnterEffect DEF Shape, Moved
<1> QED
  BY <1>1, <1>2

(* A message is mailed. *)
LEMMA MailEffect ==
    ASSUME Shape, NEW c \in Calls, Mail(c)
    PROVE  /\ Open /\ At(c, "idle") /\ inbox' = inbox \cup {c}
           /\ UNCHANGED <<scenario, memory, holder, consumer, abort, sealed, life, dirty, disk>>
           /\ CallOK' /\ Moved(c, "mailed", call[c].record)
<1>1. "mailed" \in Places
  BY DEF Places, Early
<1>2. Enter(c, "mailed")
  BY DEF Mail, Enqueue
<1>3. /\ Open /\ At(c, "idle") /\ inbox' = inbox \cup {c}
      /\ UNCHANGED <<scenario, memory, holder, consumer, abort, sealed, life, dirty, disk>>
  BY DEF Mail, Enqueue
<1> QED
  BY <1>1, <1>2, <1>3, EnterEffect DEF Shape, Moved

(* The consumer takes a mailed message to the lock. *)
LEMMA ConsumeEffect ==
    ASSUME Shape, Consume
    PROVE  /\ UNCHANGED <<scenario, memory, holder, abort, sealed, life, dirty, disk>>
           /\ \E c \in inbox : /\ c \in Calls /\ At(c, "mailed")
                               /\ consumer' = c /\ inbox' = inbox \ {c}
                               /\ CallOK' /\ Moved(c, "waiting", call[c].record)
<1>1. "waiting" \in Places
  BY DEF Places, Early
<1>2. UNCHANGED <<scenario, memory, holder, abort, sealed, life, dirty, disk>>
  BY DEF Consume
<1>3. PICK c \in inbox : consumer' = c /\ inbox' = inbox \ {c} /\ Enter(c, "waiting")
  BY DEF Consume
<1>4. c \in Calls /\ At(c, "mailed")
  BY <1>3 DEF Shape, HolderOK
<1>5. CallOK' /\ Moved(c, "waiting", call[c].record)
  BY <1>1, <1>3, <1>4, EnterEffect DEF Shape, Moved
<1> QED
  BY <1>2, <1>3, <1>4, <1>5

(* The workflow stops a repair in its turn. *)
LEMMA WorkflowStopsEffect ==
    ASSUME Shape, NEW c \in Calls, WorkflowStops(c)
    PROVE  /\ holder = c /\ Kind(c) = "retry" /\ Running
           /\ UNCHANGED <<scenario, memory, locks, abort, sealed, life, dirty, disk>>
           /\ CallOK' /\ Moved(c, "stopping", call[c].record)
<1>1. "stopping" \in Places
  BY DEF Places, Turning
<1>2. /\ holder = c /\ Kind(c) = "retry" /\ Running /\ Enter(c, "stopping")
      /\ UNCHANGED <<scenario, memory, locks, abort, sealed, life, dirty, disk>>
  BY DEF WorkflowStops
<1> QED
  BY <1>1, <1>2, EnterEffect DEF Shape, Moved

------------------------------------------------------------------------------
(* The shape of the state *)

(* The shape of the first state ... *)
LEMMA ShapeInit == Init => Shape
<1> SUFFICES ASSUME Init PROVE Shape
  OBVIOUS
<1>1. CallOK
  <2>1. /\ DOMAIN call = Calls
        /\ \A c \in Calls : call[c] = [at |-> "idle", record |-> <<>>, lc |-> <<>>, target |-> "none"]
    BY DEF Init, Idle
  <2>2. \A c \in Calls : /\ call[c].at = "idle" /\ call[c].record = <<>>
                         /\ call[c].lc = <<>> /\ call[c].target = "none"
    BY <2>1
  <2>3. "idle" \in Places
    BY DEF Places, Early
  <2>4. \A c \in Calls : call[c] = [at |-> call[c].at, record |-> call[c].record,
                                    lc |-> call[c].lc, target |-> call[c].target]
    BY <2>1, <2>2
  <2> QED
    BY <2>1, <2>2, <2>3, <2>4, EmptyList DEF CallOK
<1>2. HolderOK
  BY Assumption DEF Init, HolderOK, Idle, Turning, At
<1>3. DiskOK
  BY Assumption DEF Init, DiskOK, NoFile, NoFlush
<1>4. ScenarioOK
  BY Assumption DEF Init, ScenarioOK
<1> QED
  BY <1>1, <1>2, <1>3, <1>4, EmptyList DEF Init, Shape, Statuses, FlagsOK

(* Who holds the lock, when one call moves. *)
LEMMA HolderStep ==
    ASSUME Shape, NEW c \in Calls, NEW place \in Places, NEW rec, Moved(c, place, rec),
           inbox' = inbox, ~At(c, "mailed"),
           consumer' \in Calls \cup {"idle", "stopped"},
           IF place \in Turning THEN holder \in {c, "none"} /\ holder' = c
                                ELSE IF holder = c THEN holder' = "none" ELSE holder' = holder
    PROVE  HolderOK'
BY Assumption DEF Shape, HolderOK, Moved, At

(* ... and of every state after it: inductive as it stands. *)
LEMMA ShapeStep == Shape /\ [Next]_vars => Shape'
<1> SUFFICES ASSUME Shape, [Next]_vars PROVE Shape'
  OBVIOUS
<1> USE DEF Shape
<1>0. /\ "none" \notin Calls /\ MaxSaves \in Nat
      /\ \A f : scenario' = [scenario EXCEPT !.faults = @ \ {f}] => ScenarioOK'
      /\ scenario' = scenario => ScenarioOK'
  BY Assumption DEF ScenarioOK
<1>1. ASSUME UNCHANGED disk
      PROVE  DiskOK'
  BY <1>1 DEF disk, DiskOK
<1>f. ASSUME UNCHANGED <<sealed, life, kept>>, abort' \in BOOLEAN, dirty' \in BOOLEAN
      PROVE  FlagsOK'
  BY <1>f DEF FlagsOK
<1>g. abort \in BOOLEAN /\ dirty \in BOOLEAN
  BY DEF FlagsOK
<1>2. ASSUME call' = call
      PROVE  CallOK'
  BY <1>2 DEF CallOK
<1>3. ASSUME call' = call, UNCHANGED locks
      PROVE  HolderOK'
  BY <1>3 DEF HolderOK, locks, At
<1>h. ASSUME UNCHANGED <<abort, sealed, life, dirty, kept>>
      PROVE  FlagsOK'
  BY <1>f, <1>g, <1>h
<1>4. ASSUME NEW c \in Calls, Request(c)
      PROVE  Shape'
  <2>0. /\ At(c, "idle")
        /\ UNCHANGED <<scenario, record, status, abort, sealed, life, dirty, disk>>
        /\ UNCHANGED <<holder, inbox, consumer, kept>>
    BY <1>4, RequestEffect DEF disk, memory
  <2>1. PICK place \in {"waiting", "refused"} : CallOK' /\ Moved(c, place, call[c].record)
    BY <1>4, RequestEffect
  <2>2. place \in Places \ Turning /\ holder # c
    BY <2>0 DEF Places, Ended, Early, Turning, HolderOK, At
  <2>3. HolderOK'
    BY <2>0, <2>1, <2>2, HolderStep DEF At, HolderOK
  <2> QED
    BY <1>0, <1>1, <1>h, <2>0, <2>1, <2>3
<1>5. ASSUME NEW c \in Calls, Mail(c)
      PROVE  Shape'
  <2>0. /\ At(c, "idle") /\ inbox' = inbox \cup {c}
        /\ UNCHANGED <<scenario, record, status, abort, sealed, life, dirty, disk>>
        /\ UNCHANGED <<holder, consumer, kept>>
    BY <1>5, MailEffect DEF memory, disk
  <2>1. "mailed" \in Places \ Turning
    BY DEF Places, Early, Turning
  <2>2. CallOK' /\ \A d \in Calls : call'[d].at = IF d = c THEN "mailed" ELSE call[d].at
    BY <1>5, MailEffect DEF Moved
  <2>3. HolderOK'
    BY <2>0, <2>1, <2>2 DEF HolderOK, At, Turning
  <2> QED
    BY <1>0, <1>1, <1>h, <2>0, <2>2, <2>3
<1>6. ASSUME NEW c \in Calls, Acquire(c)
      PROVE  Shape'
  <2>1. "refused" \in Places \ Turning /\ Turning \subseteq Places
    BY DEF Places, Ended, Turning
  <2>2. CASE Refused(c)
    <3>1. CallOK' /\ Moved(c, "refused", call[c].record)
      BY <2>1, <2>2, EnterEffect DEF Refused, Leave, Moved
    <3>2. HolderOK'
      BY <1>6, <2>1, <2>2, <3>1, AcquireEffect, HolderStep
         DEF Refused, Leave, ConsumerAfter, HolderOK, At
    <3> QED
      <4>1. /\ UNCHANGED <<scenario, disk, sealed, life, record>> /\ kept' = kept
            /\ abort' \in BOOLEAN /\ dirty' = TRUE /\ status' \in Statuses
        BY <1>6, <2>2, AcquireEffect DEF Refused, Broken, Statuses, disk
      <4> QED
        BY <1>0, <1>1, <1>f, <3>1, <3>2, <4>1
  <2>3. CASE Compacts(c)
    <3>1. HolderOK'
      BY <1>6, <2>1, <2>3, AcquireEffect, HolderStep DEF Compacts, HolderOK, At, Turning
    <3> QED
      <4>1. /\ UNCHANGED <<scenario, disk, sealed, life, record, dirty, status>> /\ kept' = kept
            /\ abort' \in BOOLEAN /\ CallOK'
        BY <1>6, <2>3, AcquireEffect DEF Compacts, memory, disk
      <4> QED
        BY <1>0, <1>1, <1>f, <1>g, <3>1, <4>1
  <2>4. CASE Begins(c)
    <3>1. PICK place \in {"compressing", "streaming"}, rec \in Seq(Entries) :
              /\ record' = Append(rec, Entry("user", c))
              /\ Moved(c, place, record)
              /\ status' = IF place = "streaming" THEN "streaming" ELSE status
      BY <2>4 DEF Begins, Begun
    <3>2. HolderOK'
      BY <1>6, <2>1, <2>4, <3>1, AcquireEffect, HolderStep DEF Begins, HolderOK, At, Turning
    <3>3. record' \in Seq(Entries) /\ status' \in Statuses
      BY <3>1, AppendWords DEF Entry, Entries, Statuses
    <3> QED
      <4>1. /\ UNCHANGED <<scenario, disk, sealed, life>> /\ kept' = kept
            /\ abort' \in BOOLEAN /\ dirty' = TRUE /\ CallOK'
        BY <1>6, <2>4, AcquireEffect DEF Begins, disk
      <4> QED
        BY <1>0, <1>1, <1>f, <3>2, <3>3, <4>1
  <2> QED
    BY <1>6, <2>2, <2>3, <2>4, AcquireEffect
<1>7. ASSUME NEW c \in Calls, TurnStep(c)
      PROVE  Shape'
  <2>0. /\ UNCHANGED <<scenario, inbox, disk, sealed, life, abort>> /\ kept' = kept
        /\ dirty' \in BOOLEAN /\ record' \in Seq(Entries)
    BY <1>7, <1>g, TurnEffect DEF disk
  <2>1. {"done", "cancelled"} \subseteq Places \ Turning /\ "streaming" \in Places \cap Turning
    BY DEF Places, Ended, Turning
  <2>2. holder = c /\ ~At(c, "mailed")
    BY <1>7, TurnEffect DEF HolderOK, At, Turning
  <2>3. CASE Leaves(c)
    <3>1. HolderOK'
      BY <1>7, <2>1, <2>2, <2>3, TurnEffect, HolderStep DEF Leaves, HolderOK
    <3> QED
      BY <1>0, <1>1, <1>f, <1>g, <2>0, <2>3, <3>1 DEF Leaves
  <2>4. CASE GoesOn(c)
    <3>1. HolderOK'
      <4>1. CASE Moved(c, "streaming", call[c].record)
        BY <1>7, <2>1, <2>2, <2>4, <4>1, TurnEffect, HolderStep DEF GoesOn, HolderOK
      <4>2. CASE call' = call
        BY <1>7, <2>4, <4>2, TurnEffect DEF GoesOn, HolderOK, At
      <4> QED
        BY <2>4, <4>1, <4>2 DEF GoesOn
    <3>2. status' \in Statuses
      BY <2>4 DEF GoesOn, Statuses
    <3> QED
      BY <1>0, <1>1, <1>f, <1>g, <2>0, <2>4, <3>1, <3>2 DEF GoesOn
  <2> QED
    BY <1>7, <2>3, <2>4, TurnEffect
<1>8. ASSUME NEW c \in Calls, WorkflowStops(c)
      PROVE  Shape'
  <2>0. /\ holder = c
        /\ UNCHANGED <<scenario, record, status, abort, sealed, life, dirty, disk>>
        /\ UNCHANGED <<holder, inbox, consumer, kept>>
    BY <1>8, WorkflowStopsEffect DEF memory, disk, locks
  <2>1. "stopping" \in Places \cap Turning
    BY DEF Places, Turning
  <2>2. CallOK' /\ Moved(c, "stopping", call[c].record)
    BY <1>8, WorkflowStopsEffect
  <2>3. HolderOK'
    BY <2>0, <2>1, <2>2, HolderStep DEF HolderOK, At, Turning
  <2> QED
    BY <1>0, <1>1, <1>h, <2>0, <2>2, <2>3
<1>9. CASE Consume
  <2>0. /\ UNCHANGED <<scenario, record, status, abort, sealed, life, dirty, disk>>
        /\ UNCHANGED <<holder, kept>>
    BY <1>9, ConsumeEffect DEF memory, disk
  <2>1. PICK c \in inbox : /\ c \in Calls /\ At(c, "mailed")
                           /\ consumer' = c /\ inbox' = inbox \ {c}
                           /\ CallOK' /\ Moved(c, "waiting", call[c].record)
    BY <1>9, ConsumeEffect
  <2>2. "waiting" \in Places \ Turning
    BY DEF Places, Early, Turning
  <2>3. CallOK' /\ \A d \in Calls : call'[d].at = IF d = c THEN "waiting" ELSE call[d].at
    BY <2>1 DEF Moved
  <2>4. HolderOK'
    BY <2>0, <2>1, <2>2, <2>3 DEF HolderOK, At, Turning
  <2> QED
    BY <1>0, <1>1, <1>h, <2>0, <2>3, <2>4
<1>10. CASE Abort
  <2>1. /\ UNCHANGED <<scenario, record, status, call, locks, sealed, life, dirty, disk>>
        /\ kept' = kept /\ abort' = TRUE
    BY <1>10 DEF Abort, memory, disk
  <2> QED
    BY <1>0, <1>1, <1>2, <1>3, <1>f, <1>g, <2>1
<1>11. CASE FlushLists
  <2>0. /\ flush' = [flush EXCEPT !.at = "listed"] /\ saves' = saves + 1 /\ saves < MaxSaves
        /\ UNCHANGED <<file, dirty>>
        /\ scenario' = scenario
        /\ UNCHANGED <<record, status, call, locks, abort, sealed, life, kept>>
    BY <1>11 DEF FlushLists, memory, disk, locks
  <2>1. DiskOK'
    BY <1>0, <2>0, EmptyList DEF DiskOK, NoFlush, NoFile
  <2>2. dirty' \in BOOLEAN
    BY <1>g, <2>0
  <2> QED
    BY <1>0, <1>2, <1>3, <1>f, <1>g, <2>0, <2>1, <2>2
<1>12. CASE FlushLocks
  <2>0. /\ flush' = [flush EXCEPT !.at = IF dirty THEN "writing" ELSE "idle"]
        /\ dirty' = FALSE /\ UNCHANGED <<file, saves>>
        /\ scenario' = scenario
        /\ UNCHANGED <<record, status, call, locks, abort, sealed, life, kept>>
    BY <1>12 DEF FlushLocks, memory, disk, locks
  <2>1. DiskOK'
    BY <1>0, <2>0, EmptyList DEF DiskOK, NoFlush, NoFile
  <2>2. dirty' \in BOOLEAN
    BY <1>g, <2>0
  <2> QED
    BY <1>0, <1>2, <1>3, <1>f, <1>g, <2>0, <2>1, <2>2
<1>13. CASE FlushReads
  <2>0. /\ flush' = [at |-> "read", status |-> status, record |-> record]
        /\ UNCHANGED <<file, saves, dirty>>
        /\ scenario' = scenario
        /\ UNCHANGED <<record, status, call, locks, abort, sealed, life, kept>>
    BY <1>13 DEF FlushReads, memory, disk, locks
  <2>1. DiskOK'
    BY <1>0, <2>0, EmptyList DEF DiskOK, NoFlush, NoFile
  <2>2. dirty' \in BOOLEAN
    BY <1>g, <2>0
  <2> QED
    BY <1>0, <1>2, <1>3, <1>f, <1>g, <2>0, <2>1, <2>2
<1>14. CASE FlushReplaces
  <2>0. /\ flush' = NoFlush /\ flush.at = "read"
        /\ file' = [record |-> flush.record, status |-> flush.status] /\ UNCHANGED <<saves, dirty>>
        /\ scenario' = scenario
        /\ UNCHANGED <<record, status, call, locks, abort, sealed, life, kept>>
    BY <1>14 DEF FlushReplaces, memory, disk, locks
  <2>1. DiskOK'
    BY <1>0, <2>0, EmptyList DEF DiskOK, NoFlush, NoFile
  <2>2. dirty' \in BOOLEAN
    BY <1>g, <2>0
  <2> QED
    BY <1>0, <1>2, <1>3, <1>f, <1>g, <2>0, <2>1, <2>2
<1>15. CASE FlushFails
  <2>0. /\ flush' = NoFlush /\ dirty' = TRUE /\ UNCHANGED <<file, saves>>
        /\ scenario' = [scenario EXCEPT !.faults = @ \ {"disk"}]
        /\ UNCHANGED <<record, status, call, locks, abort, sealed, life, kept>>
    BY <1>15 DEF FlushFails, memory, disk, locks, Spent
  <2>1. DiskOK'
    BY <1>0, <2>0, EmptyList DEF DiskOK, NoFlush, NoFile
  <2>2. dirty' \in BOOLEAN
    BY <1>g, <2>0
  <2> QED
    BY <1>0, <1>2, <1>3, <1>f, <1>g, <2>0, <2>1, <2>2
<1>p. ASSUME NEW place \in [Calls -> Places], Placed(place), inbox' = inbox,
             consumer' \in {consumer, "stopped"}, holder' = holder,
             \A d \in Calls : place[d] \in Turning <=> call[d].at \in Turning,
             \A d \in Calls : call[d].at = "mailed" => place[d] = "mailed"
      PROVE  HolderOK'
  BY <1>p DEF HolderOK, At, Placed
<1>16. CASE KillStarts
  <2>0. /\ UNCHANGED <<record, status, locks, dirty, disk>> /\ UNCHANGED <<holder, inbox, consumer, kept>>
        /\ scenario' = [scenario EXCEPT !.faults = @ \ {"kill"}] /\ call' = HolderStops
        /\ sealed' = TRUE /\ abort' = TRUE /\ life' = "killing"
    BY <1>16 DEF KillStarts, Spent, Seal, memory, locks, disk
  <2>1. CallOK' /\ Placed(Halted)
    BY <2>0, HolderStopsEffect
  <2>2. Halted \in [Calls -> Places]
    BY DEF Halted, CallOK, Places, Turning
  <2>3. HolderOK'
    <3>1. \A d \in Calls : Halted[d] \in Turning <=> call[d].at \in Turning
      BY DEF HolderOK, Halted, Turning
    <3>2. \A d \in Calls : call[d].at = "mailed" => Halted[d] = "mailed"
      BY DEF HolderOK, Halted, Turning
    <3> QED
      BY <1>p, <2>0, <2>1, <2>2, <3>1, <3>2
  <2>4. FlagsOK'
    BY <2>0 DEF FlagsOK
  <2> QED
    BY <1>0, <1>1, <2>0, <2>1, <2>3, <2>4
<1>d. ASSUME DropTasks, UNCHANGED <<holder, inbox, consumer>>
      PROVE  CallOK' /\ HolderOK'
  <2>1. CallOK' /\ Placed(Dropped)
    BY <1>d, DropEffect
  <2>2. Dropped \in [Calls -> Places]
    BY DEF Dropped, CallOK, Places, Ended
  <2>3. \A d \in Calls : Dropped[d] \in Turning <=> call[d].at \in Turning
    BY DEF Dropped, Turning, Tasks, At
  <2>4. \A d \in Calls : call[d].at = "mailed" => Dropped[d] = "mailed"
    BY DEF Dropped, Tasks, At
  <2> QED
    BY <1>d, <1>p, <2>1, <2>2, <2>3, <2>4
<1>17. CASE KillEnds
  <2>0. /\ DropTasks /\ UNCHANGED <<holder, inbox, consumer>>
        /\ UNCHANGED <<scenario, record, abort, sealed, disk, kept>>
        /\ status' = "error" /\ life' = "killed" /\ dirty' = TRUE
    BY <1>17 DEF KillEnds, disk
  <2>1. FlagsOK' /\ status' \in Statuses
    BY <2>0 DEF FlagsOK, Statuses
  <2> QED
    BY <1>0, <1>1, <1>d, <2>0, <2>1
<1>18. CASE KillTimesOut
  <2>0. /\ UNCHANGED <<record, status, call, locks, abort, sealed, dirty, disk, kept>>
        /\ life' = "live"
        /\ scenario' = [scenario EXCEPT !.faults = (@ \ {"slow"}) \cup {"kill"}]
    BY <1>18 DEF KillTimesOut, memory, disk
  <2>1. FlagsOK'
    BY <2>0 DEF FlagsOK
  <2>2. ScenarioOK'
    BY <2>0 DEF ScenarioOK, Faults
  <2> QED
    BY <1>1, <1>2, <1>3, <2>0, <2>1, <2>2
<1>19. CASE DeleteStarts
  <2>0. /\ DropTasks /\ UNCHANGED <<holder, inbox, consumer>>
        /\ UNCHANGED <<record, status, dirty, flush, file, saves>>
        /\ scenario' = [scenario EXCEPT !.faults = @ \ {"delete"}]
        /\ sealed' = TRUE /\ abort' = TRUE /\ kept' = FALSE /\ life' = "deleting"
    BY <1>19 DEF DeleteStarts, Spent, Seal, memory
  <2>1. FlagsOK' /\ DiskOK'
    BY <2>0 DEF FlagsOK, DiskOK
  <2> QED
    BY <1>0, <1>d, <2>0, <2>1
<1>20. CASE DeleteEnds
  <2>0. /\ UNCHANGED <<scenario, record, status, call, locks, abort, sealed, dirty, kept, flush, saves>>
        /\ file' = NoFile /\ life' = "deleted"
    BY <1>20 DEF DeleteEnds, memory
  <2>1. FlagsOK' /\ DiskOK'
    BY <2>0, EmptyList DEF FlagsOK, DiskOK, NoFile
  <2> QED
    BY <1>0, <1>2, <1>3, <2>0, <2>1
<1>21. CASE ShutdownStarts
  <2>0. /\ UNCHANGED <<record, status, holder, inbox, abort, sealed, dirty, disk, kept>>
        /\ scenario' = [scenario EXCEPT !.faults = @ \ {"shutdown"}]
        /\ life' = "stopping" /\ consumer' \in {consumer, "stopped"}
    BY <1>21 DEF ShutdownStarts, Spent, memory, disk
  <2>1. CallOK' /\ Placed(Left)
    BY <1>21, ShutdownEffect
  <2>2. Left \in [Calls -> Places]
    BY DEF Left, CallOK, Places, Turning, Ended
  <2>3. HolderOK'
    <3>1. \A d \in Calls : Left[d] \in Turning <=> call[d].at \in Turning
      BY DEF HolderOK, Left, Stops, Tasks, Turning, At
    <3>2. \A d \in Calls : call[d].at = "mailed" => Left[d] = "mailed"
      BY DEF HolderOK, Left, Stops, Tasks, Turning, At
    <3> QED
      BY <1>p, <2>0, <2>1, <2>2, <3>1, <3>2
  <2>4. FlagsOK'
    BY <2>0 DEF FlagsOK
  <2> QED
    BY <1>0, <1>1, <2>0, <2>1, <2>3, <2>4
<1>22. CASE ShutdownSaves
  <2>0. /\ UNCHANGED <<scenario, record, call, locks, abort, sealed, kept, file, saves>>
        /\ status' = (IF status \in {"running", "streaming"} THEN "error" ELSE status)
        /\ dirty' = FALSE /\ life' = "saving" /\ flush' = [NoFlush EXCEPT !.at = "writing"]
    BY <1>22 DEF ShutdownSaves
  <2>1. FlagsOK' /\ status' \in Statuses
    BY <2>0 DEF FlagsOK, Statuses
  <2>2. DiskOK'
    BY <2>0, EmptyList DEF DiskOK, NoFlush
  <2> QED
    BY <1>0, <1>2, <1>3, <2>0, <2>1, <2>2
<1>23. CASE ShutdownEnds
  <2>0. /\ UNCHANGED <<scenario, record, status, call, locks, abort, sealed, dirty, flush, file, saves>>
        /\ kept' = FALSE /\ life' = "down"
    BY <1>23 DEF ShutdownEnds, memory
  <2>1. FlagsOK' /\ DiskOK'
    BY <2>0 DEF FlagsOK, DiskOK
  <2> QED
    BY <1>0, <1>2, <1>3, <2>0, <2>1
<1>24. CASE Crash
  <2>1. /\ UNCHANGED <<record, status, call, locks, abort, sealed, dirty, disk>>
        /\ kept' = kept /\ life' = "down" /\ scenario' = [scenario EXCEPT !.faults = @ \ {"crash"}]
    BY <1>24 DEF Crash, memory, disk, Spent
  <2>2. FlagsOK'
    BY <2>1 DEF FlagsOK
  <2> QED
    BY <1>0, <1>1, <1>2, <1>3, <2>1, <2>2
<1>25. CASE Restart
  <2>0. /\ record' = file.record /\ UNCHANGED <<scenario, file, saves>>
        /\ holder' = "none" /\ inbox' = {} /\ consumer' = "idle" /\ flush' = NoFlush
        /\ abort' = FALSE /\ sealed' = FALSE /\ dirty' = FALSE /\ kept' = (life' = "live")
        /\ life' \in {"deleted", "live", "archive"}
    BY <1>25 DEF Restart
  <2>1. status' \in Statuses
    BY <1>25 DEF Restart, Statuses
  <2>2. CallOK' /\ \A d \in Calls : call'[d].at \notin Turning
    <3>1. \A d \in Calls : call'[d].at \in Ended \cup {"idle"}
      BY <1>25, RestartEffect DEF Ended
    <3> QED
      BY <1>25, <3>1, RestartEffect DEF Ended, Turning
  <2>3. HolderOK'
    BY <1>0, <2>0, <2>2 DEF HolderOK
  <2>4. DiskOK' /\ FlagsOK'
    BY <2>0, EmptyList DEF DiskOK, NoFlush, FlagsOK
  <2>5. record' \in Seq(Entries)
    BY <2>0 DEF DiskOK
  <2> QED
    BY <1>0, <2>0, <2>1, <2>2, <2>3, <2>4, <2>5
<1>26. CASE UNCHANGED vars
  <2>1. /\ UNCHANGED <<scenario, record, status, call, locks, abort, sealed, life, dirty, disk>>
        /\ kept' = kept
    BY <1>26 DEF vars, locks, disk
  <2> QED
    BY <1>0, <1>1, <1>2, <1>3, <1>f, <1>g, <2>1
<1> QED
  BY <1>4, <1>5, <1>6, <1>7, <1>8, <1>9, <1>10, <1>11, <1>12, <1>13, <1>14, <1>15, <1>16,
     <1>17, <1>18, <1>19, <1>20, <1>21, <1>22, <1>23, <1>24, <1>25, <1>26
     DEF Next, Turn, Saving, TurnStep

------------------------------------------------------------------------------
(* How far calls have come *)

(* A call that is over stays over; one that has had its turn never waits    *)
(* again; what kind of call it is never changes.                           *)
Onward ==
    /\ scenario'.calls = scenario.calls /\ scenario'.type = scenario.type
    /\ \A d \in Calls :
          /\ call[d].at \in Ended => call'[d].at = call[d].at
          /\ call[d].at \notin Early => call'[d].at \notin Early

(* A call never goes back: not to a place before its turn, nor out of its end. *)
LEMMA OnwardStep == Shape /\ [Next]_vars => Onward
<1> SUFFICES ASSUME Shape, [Next]_vars PROVE Onward
  OBVIOUS
<1>0. \A d \in Calls : call[d].at \in Places
  BY DEF Shape, CallOK
<1> USE DEF Ended, Early, Turning
<1>1. scenario'.calls = scenario.calls /\ scenario'.type = scenario.type
  <2>1. \/ scenario' = scenario
        \/ \E f : scenario' = [scenario EXCEPT !.faults = @ \ {f}]
        \/ scenario' = [scenario EXCEPT !.faults = (@ \ {"slow"}) \cup {"kill"}]
    BY DEF Next, Turn, Saving, Request, Mail, Acquire, Compact, CompressFirst, ModelEnds,
           StreamEnds, StreamAborted, StreamCutShort, StreamFails, Finish, Cancel,
           WorkflowStops, Consume, Abort, FlushLists, FlushLocks, FlushReads,
           FlushReplaces, FlushFails, KillStarts, KillEnds, KillTimesOut, DeleteStarts,
           DeleteEnds, ShutdownStarts, ShutdownSaves, ShutdownEnds, Crash, Restart,
           Spent, vars
  <2> QED
    BY <2>1 DEF Shape, ScenarioOK
<1>2. ASSUME NEW c \in Calls, NEW place \in Places, NEW rec, Moved(c, place, rec),
             call[c].at \notin Ended, place \in Early => call[c].at \in Early
      PROVE  Onward
  BY <1>1, <1>2 DEF Onward, Moved
<1>3. ASSUME NEW place, Placed(place),
             \A d \in Calls : call[d].at \in Ended => place[d] = call[d].at,
             \A d \in Calls : place[d] \in Early => call[d].at \in Early
      PROVE  Onward
  BY <1>1, <1>3 DEF Onward, Placed
<1>4. ASSUME call' = call
      PROVE  Onward
  BY <1>1, <1>4 DEF Onward
<1>5. ASSUME NEW c \in Calls, Request(c)
      PROVE  Onward
  BY <1>2, <1>5, RequestEffect DEF At, Places
<1>6. ASSUME NEW c \in Calls, Mail(c)
      PROVE  Onward
  BY <1>2, <1>6, MailEffect DEF At, Places
<1>7. CASE Consume
  BY <1>2, <1>7, ConsumeEffect DEF At, Places
<1>8. ASSUME NEW c \in Calls, Acquire(c)
      PROVE  Onward
  <2>1. "refused" \in Places /\ "compacting" \in Places /\ {"compressing", "streaming"} \subseteq Places
    BY DEF Places
  <2>2. At(c, "waiting") /\ (Refused(c) \/ Compacts(c) \/ Begins(c))
    BY <1>8, AcquireEffect
  <2>3. CASE Refused(c)
    <3>1. Moved(c, "refused", call[c].record)
      BY <2>1, <2>3, EnterEffect DEF Refused, Leave, Moved, Shape
    <3> QED
      BY <1>2, <2>1, <2>2, <3>1 DEF At
  <2>4. CASE Compacts(c)
    BY <1>2, <2>1, <2>2, <2>4 DEF Compacts, At
  <2>5. CASE Begins(c)
    BY <1>2, <2>1, <2>2, <2>5 DEF Begins, Begun, At
  <2> QED
    BY <2>2, <2>3, <2>4, <2>5
<1>9. ASSUME NEW c \in Calls, TurnStep(c)
      PROVE  Onward
  <2>1. {"done", "cancelled", "streaming"} \subseteq Places
    BY DEF Places
  <2>2. /\ At(c, "compacting") \/ At(c, "compressing") \/ At(c, "streaming") \/ At(c, "stopping")
        /\ \/ \E place \in {"done", "cancelled", "streaming"} : Moved(c, place, call[c].record)
           \/ call' = call
    BY <1>9, TurnEffect DEF Leaves, GoesOn
  <2> QED
    BY <1>2, <1>4, <2>1, <2>2 DEF At
<1>10. ASSUME NEW c \in Calls, WorkflowStops(c)
       PROVE  Onward
  BY <1>2, <1>10, WorkflowStopsEffect DEF Shape, HolderOK, Places
<1>11. CASE KillStarts
  <2>1. Placed(Halted)
    BY <1>11, HolderStopsEffect DEF KillStarts
  <2> QED
    BY <1>3, <2>1 DEF Halted, Shape, HolderOK
<1>12. CASE KillEnds \/ DeleteStarts
  <2>1. Placed(Dropped)
    BY <1>12, DropEffect DEF KillEnds, DeleteStarts
  <2> QED
    BY <1>3, <2>1 DEF Dropped, Tasks, At
<1>13. CASE ShutdownStarts
  <2>1. Placed(Left)
    BY <1>13, ShutdownEffect
  <2> QED
    BY <1>3, <2>1 DEF Left, Stops, Tasks, At, Shape, HolderOK
<1>14. CASE Restart
  BY <1>1, <1>14, RestartEffect DEF Onward
<1>15. CASE Abort \/ Saving \/ FlushFails \/ KillTimesOut \/ DeleteEnds \/ ShutdownSaves
            \/ ShutdownEnds \/ Crash \/ UNCHANGED vars
  BY <1>4, <1>15 DEF Abort, Saving, FlushLists, FlushLocks, FlushReads, FlushReplaces,
     FlushFails, KillTimesOut, DeleteEnds, ShutdownSaves, ShutdownEnds, Crash, vars
<1> QED
  BY <1>5, <1>6, <1>7, <1>8, <1>9, <1>10, <1>11, <1>12, <1>13, <1>14, <1>15
     DEF Next, Turn, TurnStep

------------------------------------------------------------------------------
(* A session shown as streaming streams *)

(* It holds of a new session ... *)
LEMMA LiveInit == Init => LiveOK
BY DEF Init, LiveOK, At, Idle

(* ... and of every later state: whoever leaves the lock settles the status. *)
LEMMA LiveStep == Shape /\ LiveOK /\ [Next]_vars => LiveOK'
<1> SUFFICES ASSUME Shape, LiveOK, [Next]_vars PROVE LiveOK'
  OBVIOUS
<1>0. /\ Shape' /\ Onward /\ "none" \notin Calls
      /\ \A c \in Calls : Kind(c)' = Kind(c)
      /\ RepairCancelled => RepairCancelled'
  <2>1. Shape' /\ Onward
    BY ShapeStep, OnwardStep
  <2>2. \A c \in Calls : Kind(c)' = Kind(c)
    BY <2>1 DEF Onward, Kind
  <2> QED
    BY <2>1, <2>2, Assumption DEF RepairCancelled, Onward, At, Ended
<1>h. holder \in Calls \cup {"none"} /\ \A c \in Calls : holder = c <=> call[c].at \in Turning
  BY DEF Shape, HolderOK
(* Nothing is required of a session that is sealed, or not live. *)
<1>1. ASSUME sealed' \/ life' # "live", life' = "killing" => sealed'
      PROVE  LiveOK'
  BY <1>1 DEF LiveOK
(* A step that leaves the status, and does not move the holder. *)
<1>2. ASSUME UNCHANGED <<status, holder, sealed>>, life' \in {life, "live"},
             life # "live" => life' = life,
             holder # "none" => call'[holder].at = call[holder].at,
             \A c \in Calls : call'[c].at = "stopping" => call[c].at = "stopping"
      PROVE  LiveOK'
  BY <1>0, <1>h, <1>2 DEF LiveOK, At, Active
<1>3. ASSUME UNCHANGED <<status, holder, sealed, life>>, call' = call
      PROVE  LiveOK'
  BY <1>2, <1>3
<1>4. ASSUME NEW c \in Calls, Request(c)
      PROVE  LiveOK'
  BY <1>2, <1>4, <1>h, RequestEffect DEF Moved, memory, At, Turning
<1>5. ASSUME NEW c \in Calls, Mail(c)
      PROVE  LiveOK'
  BY <1>2, <1>5, <1>h, MailEffect DEF Moved, memory, At, Turning
<1>6. CASE Consume
  BY <1>2, <1>6, <1>h, ConsumeEffect DEF Moved, memory, At, Turning
<1>7. ASSUME NEW c \in Calls, Acquire(c)
      PROVE  LiveOK'
  <2>0. /\ At(c, "waiting") /\ holder = "none" /\ UNCHANGED <<sealed, life>>
        /\ \A d \in Calls : ~At(d, "stopping")
    BY <1>7, <1>0, <1>h, AcquireEffect DEF At, Turning
  <2>1. CASE sealed
    BY <1>1, <2>0, <2>1
  <2>2. CASE ~sealed
    <3>0. Refused(c) \/ Compacts(c) \/ Begins(c)
      BY <1>7, AcquireEffect
    <3>1. CASE Refused(c)
      <4>1. Moved(c, "refused", call[c].record) /\ status' \in {status, "error"}
        BY <3>1, EnterEffect DEF Refused, Leave, Moved, Shape, Places, Ended, Broken
      <4> QED
        BY <1>0, <2>0, <4>1 DEF LiveOK, Moved, At, Active
    <3>2. CASE Compacts(c)
      BY <1>0, <2>0, <3>2 DEF LiveOK, Compacts, Moved, At, Active, memory
    <3>3. CASE Begins(c)
      <4>1. PICK place \in {"compressing", "streaming"} :
                /\ Moved(c, place, record) /\ holder' = c
                /\ status' = IF place = "streaming" THEN "streaming" ELSE status
        BY <3>3 DEF Begins, Begun
      <4>2. call'[c].at = place
        BY <4>1 DEF Moved
      <4> QED
        BY <1>0, <2>0, <4>1, <4>2 DEF LiveOK, Moved, At, Active
    <3> QED
      BY <3>0, <3>1, <3>2, <3>3
  <2> QED
    BY <2>1, <2>2
<1>8. ASSUME NEW c \in Calls, TurnStep(c)
      PROVE  LiveOK'
  <2>0. /\ holder = c /\ UNCHANGED <<sealed, life>>
        /\ \A d \in Calls : At(d, "stopping") => d = c
    BY <1>8, <1>h, TurnEffect DEF At, Turning
  <2>1. CASE Leaves(c)
    <3>1. ASSUME status' = "streaming", life = "live", ~sealed, ~RepairCancelled'
          PROVE  FALSE
      <4>1. CASE At(c, "compacting")
        BY <1>0, <2>0, <2>1, <3>1, <4>1 DEF Leaves, LiveOK, At
      <4>2. CASE At(c, "stopping")
        <5>1. Kind(c) = "retry" /\ call'[c].at = "cancelled"
          BY <2>1, <3>1, <4>2 DEF LiveOK, Leaves, Moved
        <5> QED
          BY <1>0, <3>1, <5>1 DEF RepairCancelled, At
      <4> QED
        BY <2>1, <3>1, <4>1, <4>2 DEF Leaves
    <3>2. \A d \in Calls : call'[d].at # "stopping"
      BY <2>0, <2>1 DEF Leaves, Moved, At
    <3> QED
      BY <2>0, <3>1, <3>2 DEF LiveOK, At
  <2>2. CASE GoesOn(c)
    <3>1. holder' = c /\ call'[c].at = "streaming"
      BY <2>0, <2>2 DEF GoesOn, Moved, At
    <3>2. \A d \in Calls : call'[d].at # "stopping"
      BY <2>0, <2>2 DEF GoesOn, Moved, At
    <3> QED
      BY <1>0, <2>0, <3>1, <3>2 DEF LiveOK, At, Active
  <2> QED
    BY <1>8, <2>1, <2>2, TurnEffect
<1>9. ASSUME NEW c \in Calls, WorkflowStops(c)
      PROVE  LiveOK'
  <2>1. /\ holder = c /\ holder' = c /\ Kind(c) = "retry" /\ UNCHANGED <<sealed, life>>
        /\ \A d \in Calls : call'[d].at = IF d = c THEN "stopping" ELSE call[d].at
    BY <1>9, WorkflowStopsEffect DEF locks, Moved
  <2> QED
    BY <1>0, <2>1 DEF LiveOK, At, Active
<1>10. CASE KillStarts
  BY <1>1, <1>10 DEF KillStarts, Seal
<1>11. CASE KillEnds \/ DeleteStarts \/ DeleteEnds \/ ShutdownStarts \/ ShutdownSaves
            \/ ShutdownEnds \/ Crash
  BY <1>1, <1>11 DEF KillEnds, DeleteStarts, DeleteEnds, ShutdownStarts, ShutdownSaves,
     ShutdownEnds, Crash
<1>12. CASE KillTimesOut
  <2>1. sealed' /\ life' = "live"
    BY <1>12 DEF KillTimesOut, LiveOK
  <2> QED
    BY <1>1, <2>1
<1>13. CASE Restart
  <2>1. /\ \A d \in Calls : call'[d].at # "stopping"
        /\ life' \in {"live", "deleted", "archive"}
        /\ life' = "live" => status' = "running"
    <3>1. \A d \in Calls : call'[d].at # "stopping"
      BY <1>13, RestartEffect DEF Ended
    <3> QED
      BY <1>13, <3>1 DEF Restart
  <2> QED
    BY <2>1 DEF LiveOK, At
<1>14. CASE Abort \/ Saving \/ FlushFails \/ UNCHANGED vars
  <2>1. UNCHANGED <<status, holder, sealed, life>> /\ call' = call
    BY <1>14 DEF Abort, Saving, FlushLists, FlushLocks, FlushReads, FlushReplaces,
       FlushFails, vars, memory, locks
  <2> QED
    BY <1>3, <2>1
<1> QED
  BY <1>4, <1>5, <1>6, <1>7, <1>8, <1>9, <1>10, <1>11, <1>12, <1>13, <1>14
     DEF Next, Turn, TurnStep

(* No call has ended and left the session shown as streaming: a session     *)
(* that says so, and refuses messages for it, has a call in its turn (the   *)
(* statuses set at the end of _invoke_graph and by who runs it).            *)
THEOREM StreamingSessionsStream == Spec => []StreamingIsLive
<1>1. Init => Shape /\ LiveOK
  BY ShapeInit, LiveInit
<1>2. Shape /\ LiveOK /\ [Next]_vars => (Shape /\ LiveOK)'
  BY ShapeStep, LiveStep
<1>3. Shape /\ LiveOK => StreamingIsLive
  <2> SUFFICES ASSUME Shape, LiveOK PROVE StreamingIsLive
    OBVIOUS
  <2>1. TypeOK
    <3>1. \A i \in DOMAIN record : record[i] \in Entries
      BY WordsAreEntries DEF Shape
    <3> QED
      BY <3>1 DEF Shape, TypeOK, Entries, Statuses, CallOK, HolderOK, DiskOK, Places,
         Early, Turning
  <2> QED
    BY <2>1 DEF StreamingIsLive, LiveOK
<1> QED
  BY <1>1, <1>2, <1>3, PTL DEF Spec

------------------------------------------------------------------------------
(* An ended session *)

(* It holds of a new session ... *)
LEMMA EndedInit == Init => EndedOK
BY DEF Init, EndedOK

(* ... and when it is killed or deleted, the call under way has ended by then. *)
LEMMA EndedStep == Shape /\ EndedOK /\ [Next]_vars => EndedOK'
<1> SUFFICES ASSUME Shape, EndedOK, [Next]_vars PROVE EndedOK'
  OBVIOUS
<1> DEFINE After == life \in {"killed", "deleting", "deleted"}
           Nobody == inbox = {} /\ \A c \in Calls : ~At(c, "waiting")
<1>0. "none" \notin Calls /\ HolderOK /\ CallOK
  BY Assumption DEF Shape
(* Only who was waiting, or mailed, waits afterwards. *)
<1>1. ASSUME UNCHANGED <<life, sealed, holder>>, status' \in {status, "error"},
             After /\ ~sealed => Nobody'
      PROVE  EndedOK'
  BY <1>1 DEF EndedOK, Active
<1>2. ASSUME UNCHANGED <<life, sealed>>, ~After
      PROVE  EndedOK'
  BY <1>2 DEF EndedOK
<1>3. ASSUME NEW c \in Calls, Request(c) \/ Mail(c)
      PROVE  EndedOK'
  <2>1. /\ Open /\ UNCHANGED <<life, sealed, holder, status>>
    BY <1>3, RequestEffect, MailEffect DEF memory
  <2>2. After => sealed
    BY <2>1 DEF Open, EndedOK
  <2> QED
    BY <1>1, <2>1, <2>2
<1>4. CASE Consume
  BY <1>1, <1>4, ConsumeEffect DEF EndedOK, memory
<1>5. ASSUME NEW c \in Calls, Acquire(c)
      PROVE  EndedOK'
  <2>1. /\ At(c, "waiting") /\ UNCHANGED <<life, sealed>> /\ holder = "none"
        /\ \/ Refused(c)
           \/ ~sealed
    BY <1>5, AcquireEffect
  <2>2. After => sealed
    BY <2>1 DEF EndedOK
  <2>3. CASE Refused(c)
    BY <1>1, <2>1, <2>2, <2>3 DEF Refused, Leave, Broken
  <2>4. CASE ~sealed
    BY <1>2, <2>1, <2>2, <2>4
  <2> QED
    BY <2>1, <2>3, <2>4
<1>6. ASSUME NEW c \in Calls, TurnStep(c) \/ WorkflowStops(c)
      PROVE  EndedOK'
  <2>1. UNCHANGED <<life, sealed>> /\ holder = c
    BY <1>0, <1>6, TurnEffect, WorkflowStopsEffect DEF HolderOK, At, Turning
  <2>2. ~After
    BY <1>0, <2>1 DEF EndedOK, Active
  <2> QED
    BY <1>2, <2>1, <2>2
<1>7. CASE KillStarts
  BY <1>7 DEF KillStarts, Seal, EndedOK
<1>8. CASE KillEnds
  BY <1>8 DEF KillEnds, EndedOK, Active
<1>9. CASE KillTimesOut \/ ShutdownStarts \/ ShutdownSaves \/ ShutdownEnds \/ Crash
  <2>1. life' \in {"live", "stopping", "saving", "down"}
    BY <1>9 DEF KillTimesOut, ShutdownStarts, ShutdownSaves, ShutdownEnds, Crash
  <2> QED
    BY <2>1 DEF EndedOK
<1>10. CASE DeleteStarts
  BY <1>10 DEF DeleteStarts, Seal, EndedOK, Active
<1>11. CASE DeleteEnds
  BY <1>11 DEF DeleteEnds, EndedOK, Active, At, memory, locks
<1>12. CASE Restart
  <2>1. /\ holder' = "none" /\ inbox' = {} /\ life' \in {"live", "deleted", "archive"}
        /\ \A d \in Calls : call'[d].at # "waiting"
    <3>1. \A d \in Calls : call'[d].at # "waiting"
      BY <1>12, RestartEffect DEF Ended
    <3> QED
      BY <1>12, <3>1 DEF Restart
  <2> QED
    BY <2>1 DEF EndedOK, Active, At
<1>13. CASE Abort \/ Saving \/ FlushFails \/ UNCHANGED vars
  <2>1. UNCHANGED <<status, holder, sealed, life, inbox, call>>
    BY <1>13 DEF Abort, Saving, FlushLists, FlushLocks, FlushReads, FlushReplaces,
       FlushFails, vars, memory, locks
  <2> QED
    BY <2>1 DEF EndedOK, Active, At
<1> QED
  BY <1>3, <1>4, <1>5, <1>6, <1>7, <1>8, <1>9, <1>10, <1>11, <1>12, <1>13
     DEF Next, Turn, TurnStep

(* After a kill that has reported success, and from the start of a deletion *)
(* on, nothing is said in the session, whoever waited for its turn; and a   *)
(* killed session stays in error (kill_session, delete_session).           *)
THEOREM EndedSessionsStayPut == Spec => EndedStaysPut
<1>1. Init => Shape /\ EndedOK
  BY ShapeInit, EndedInit
<1>2. Shape /\ EndedOK /\ [Next]_vars => (Shape /\ EndedOK)'
  BY ShapeStep, EndedStep
<1> DEFINE Put == /\ life \in {"killed", "deleting", "deleted"} => record' = record /\ lc' = lc
                  /\ life = "killed" /\ life' = "killed" => status' = "error"
<1>3. Shape /\ EndedOK /\ EndedOK' /\ [Next]_vars => Put
  <2> SUFFICES ASSUME Shape, EndedOK, EndedOK', [Next]_vars,
                      life \in {"killed", "deleting", "deleted"}
               PROVE  record' = record /\ lc' = lc
    BY DEF EndedOK
  <2>0. /\ holder = "none" /\ "none" \notin Calls
        /\ \A c \in Calls : ~At(c, "compacting") /\ ~At(c, "compressing") /\ ~At(c, "streaming")
                            /\ ~At(c, "stopping")
        /\ sealed \/ \A c \in Calls : ~At(c, "waiting")
    BY Assumption DEF EndedOK, Active, Shape, HolderOK, At, Turning
  <2>1. ASSUME NEW c \in Calls, Acquire(c)
        PROVE  UNCHANGED <<record, lc>>
    BY <2>0, <2>1, AcquireEffect DEF Refused
  <2>2. ASSUME NEW c \in Calls, TurnStep(c)
        PROVE  FALSE
    BY <2>0, <2>2, TurnEffect
  <2>3. ~Restart
    BY DEF Restart
  <2>4. CASE \/ Consume \/ Abort \/ Saving \/ FlushFails \/ KillStarts \/ KillEnds
             \/ KillTimesOut \/ DeleteStarts \/ DeleteEnds \/ ShutdownStarts
             \/ ShutdownSaves \/ ShutdownEnds \/ Crash \/ UNCHANGED vars
             \/ \E c \in Calls : Request(c) \/ Mail(c) \/ WorkflowStops(c)
    BY <2>4 DEF Consume, Abort, Saving, FlushLists, FlushLocks, FlushReads, FlushReplaces,
       FlushFails, KillStarts, KillEnds, KillTimesOut, DeleteStarts, DeleteEnds,
       ShutdownStarts, ShutdownSaves, ShutdownEnds, Crash, vars, Request, Mail,
       WorkflowStops, memory
  <2> QED
    BY <2>1, <2>2, <2>3, <2>4 DEF Next, Turn, TurnStep
<1> QED
  BY <1>1, <1>2, <1>3, PTL DEF Spec, EndedStaysPut

------------------------------------------------------------------------------
(* A session that is not marked dirty *)

(* It holds of a new session ... *)
LEMMA CleanInit == Init => CleanOK
BY DEF Init, CleanOK

(* ... and in every step that changes the record marks it, before a save or during it. *)
LEMMA CleanStep == Shape /\ CleanOK /\ [Next]_vars => CleanOK'
<1> SUFFICES ASSUME Shape, CleanOK, [Next]_vars PROVE CleanOK'
  OBVIOUS
<1>0. scenario'.type = scenario.type
  BY OnwardStep DEF Onward
(* A change marks the session dirty ... *)
<1>1. ASSUME dirty' = TRUE \/ kept' = FALSE \/ life' \notin {"live", "killing", "killed"}
      PROVE  CleanOK'
  BY <1>1 DEF CleanOK
(* ... and what is no change leaves it as it is. *)
<1>2. ASSUME UNCHANGED <<record, status, dirty, kept, flush, file>>,
             life' \in {"live", "killing", "killed"} => life \in {"live", "killing", "killed"}
      PROVE  CleanOK'
  BY <1>0, <1>2 DEF CleanOK
<1>3. CASE \/ Abort \/ Consume \/ KillStarts \/ KillTimesOut \/ UNCHANGED vars
           \/ \E c \in Calls : Request(c) \/ Mail(c) \/ WorkflowStops(c)
  BY <1>2, <1>3 DEF Abort, Consume, KillStarts, KillTimesOut, Request, Mail, WorkflowStops,
     vars, memory, disk
<1>4. ASSUME NEW c \in Calls, Acquire(c)
      PROVE  CleanOK'
  <2>1. UNCHANGED <<life, kept, flush, file>>
    BY <1>4, AcquireEffect DEF disk
  <2>2. dirty' = TRUE \/ UNCHANGED <<record, status, dirty>>
    BY <1>4, AcquireEffect DEF Refused, Compacts, Begins, memory
  <2> QED
    BY <1>1, <1>2, <2>1, <2>2
<1>5. ASSUME NEW c \in Calls, TurnStep(c)
      PROVE  CleanOK'
  <2>1. /\ UNCHANGED <<life, kept, flush, file>>
        /\ dirty' = TRUE \/ UNCHANGED <<record, status, dirty>>
    BY <1>5, TurnEffect DEF disk
  <2> QED
    BY <1>1, <1>2, <2>1
<1>6. CASE KillEnds \/ FlushFails
  BY <1>1, <1>6 DEF KillEnds, FlushFails
<1>7. CASE DeleteStarts \/ DeleteEnds \/ ShutdownStarts \/ ShutdownSaves \/ ShutdownEnds \/ Crash
  BY <1>1, <1>7 DEF DeleteStarts, DeleteEnds, ShutdownStarts, ShutdownSaves, ShutdownEnds, Crash
<1>8. CASE FlushLists
  <2>1. dirty' = TRUE
    BY <1>8 DEF FlushLists, Shape, FlagsOK
  <2> QED
    BY <1>1, <2>1
<1>9. CASE FlushLocks
  <2>1. /\ flush.at = "listed" /\ UNCHANGED <<record, status, kept, file, life>>
        /\ flush'.at = IF dirty THEN "writing" ELSE "idle"
    BY <1>9 DEF FlushLocks, Shape, DiskOK, memory
  <2>2. dirty \in BOOLEAN
    BY DEF Shape, FlagsOK
  <2>3. CASE dirty
    BY <2>1, <2>3 DEF CleanOK
  <2>4. CASE ~dirty
    BY <1>0, <2>1, <2>2, <2>4 DEF CleanOK
  <2> QED
    BY <2>3, <2>4
<1>10. CASE FlushReads
  BY <1>10 DEF FlushReads, CleanOK, memory
<1>11. CASE FlushReplaces
  BY <1>0, <1>11 DEF FlushReplaces, CleanOK, NoFlush, memory
<1>12. CASE Restart
  <2>1. /\ record' = file.record /\ file' = file /\ flush' = NoFlush
        /\ kept' = (life' = "live")
        /\ life' = "live" => scenario.type = "main"
    BY <1>12 DEF Restart
  <2> QED
    BY <1>0, <2>1 DEF CleanOK, NoFlush
<1> QED
  BY <1>3, <1>4, <1>5, <1>6, <1>7, <1>8, <1>9, <1>10, <1>11, <1>12
     DEF Next, Turn, TurnStep, Saving

(* A save never clears the mark of a change it has not read: when nothing   *)
(* is marked dirty and no save is under way, the file has the record and,   *)
(* of a sub session, the status (flush_all, _flush_to_disk).               *)
THEOREM CleanFilesAreCurrent == Spec => []CleanFileIsCurrent
<1>1. Init => Shape /\ CleanOK
  BY ShapeInit, CleanInit
<1>2. Shape /\ CleanOK /\ [Next]_vars => (Shape /\ CleanOK)'
  BY ShapeStep, CleanStep
<1>3. Shape /\ CleanOK => CleanFileIsCurrent
  BY DEF CleanOK, CleanFileIsCurrent
<1> QED
  BY <1>1, <1>2, <1>3, PTL DEF Spec

------------------------------------------------------------------------------
(* The words of a turn *)

(* They hold of a new session ... *)
LEMMA WordsInit == Init => WordsOK
<1> SUFFICES ASSUME Init PROVE WordsOK
  OBVIOUS
<1>1. /\ record = <<>> /\ file.record = <<>> /\ flush.record = <<>> /\ holder = "none"
      /\ \A c \in Calls : call[c].record = <<>> /\ call[c].at = "idle"
  BY DEF Init, Idle, NoFile, NoFlush
<1> QED
  BY <1>1, EmptyList, Assumption DEF WordsOK, Said, At

(* A copy of the record is what it was, a copy of another one, or empty. *)
Copies ==
    /\ file'.record \in {file.record, flush.record, <<>>}
    /\ flush'.record \in {flush.record, record, <<>>}
    /\ \A d \in Calls : call'[d].record \in {call[d].record, record, <<>>}

(* The lists kept beside the record are copies of it, whole and as it was. *)
LEMMA CopiesStep == Shape /\ [Next]_vars => Copies
<1> SUFFICES ASSUME Shape, [Next]_vars PROVE Copies
  OBVIOUS
<1> DEFINE OnDisk == /\ file'.record \in {file.record, flush.record, <<>>}
                     /\ flush'.record \in {flush.record, record, <<>>}
           InCalls == \A d \in Calls : call'[d].record \in {call[d].record, record, <<>>}
<1>1. OnDisk
  <2>1. \/ UNCHANGED <<flush, file>>
        \/ FlushLists \/ FlushLocks \/ FlushReads \/ FlushReplaces \/ FlushFails
        \/ DeleteEnds \/ ShutdownSaves \/ Restart
    <3>1. ASSUME NEW c \in Calls, Acquire(c) \/ TurnStep(c)
          PROVE  UNCHANGED <<flush, file>>
      BY <3>1, AcquireEffect, TurnEffect DEF disk
    <3> QED
      BY <3>1 DEF Next, Turn, Saving, TurnStep, Request, Mail, WorkflowStops, Consume, Abort,
         KillStarts, KillEnds, KillTimesOut, DeleteStarts, ShutdownStarts,
         ShutdownEnds, Crash, vars, disk
  <2>2. CASE FlushLists \/ FlushLocks
    BY <2>2 DEF FlushLists, FlushLocks, Shape, DiskOK
  <2>3. CASE FlushReads \/ FlushReplaces \/ FlushFails \/ DeleteEnds \/ ShutdownSaves \/ Restart
    BY <2>3 DEF FlushReads, FlushReplaces, FlushFails, DeleteEnds, ShutdownSaves, Restart,
       NoFlush, NoFile
  <2> QED
    BY <2>1, <2>2, <2>3
<1>2. ASSUME NEW c \in Calls, NEW place, NEW rec \in {call[c].record, record}, Moved(c, place, rec)
      PROVE  InCalls
  BY <1>2 DEF Moved
<1>3. ASSUME NEW place, Placed(place)
      PROVE  InCalls
  BY <1>3 DEF Placed
<1>4. ASSUME NEW c \in Calls, Request(c) \/ Mail(c) \/ WorkflowStops(c)
      PROVE  InCalls
  BY <1>2, <1>4, RequestEffect, MailEffect, WorkflowStopsEffect
<1>5. ASSUME Consume
      PROVE  InCalls
  BY <1>2, <1>5, ConsumeEffect
<1>6. ASSUME NEW c \in Calls, Acquire(c)
      PROVE  InCalls
  <2>1. CASE Refused(c)
    BY <1>2, <2>1, EnterEffect DEF Refused, Leave, Moved, Shape, Places, Ended
  <2>2. CASE Compacts(c) \/ Begins(c)
    BY <1>2, <2>2 DEF Compacts, Begins, Begun
  <2> QED
    BY <1>6, <2>1, <2>2, AcquireEffect
<1>7. ASSUME NEW c \in Calls, TurnStep(c)
      PROVE  InCalls
  BY <1>2, <1>7, TurnEffect DEF Leaves, GoesOn
<1>8. ASSUME KillStarts \/ KillEnds \/ DeleteStarts \/ ShutdownStarts
      PROVE  InCalls
  <2>1. \E place : Placed(place)
    BY <1>8, HolderStopsEffect, DropEffect, ShutdownEffect DEF KillStarts, KillEnds, DeleteStarts
  <2> QED
    BY <1>3, <2>1
<1>9. ASSUME Restart
      PROVE  InCalls
  BY <1>9, RestartEffect
<1>10. ASSUME \/ Abort \/ Saving \/ FlushFails \/ KillTimesOut \/ DeleteEnds
              \/ ShutdownSaves \/ ShutdownEnds \/ Crash \/ UNCHANGED vars
       PROVE  InCalls
  BY <1>10 DEF Abort, Saving, FlushLists, FlushLocks, FlushReads, FlushReplaces,
     FlushFails, KillTimesOut, DeleteEnds, ShutdownSaves, ShutdownEnds, Crash, vars
<1>11. InCalls
  BY <1>4, <1>5, <1>6, <1>7, <1>8, <1>9, <1>10 DEF Next, Turn, TurnStep
<1> QED
  BY <1>1, <1>11 DEF Copies

(* ... and are kept by every step: what is said is said in one's turn. *)
LEMMA WordsStep == Shape /\ WordsOK /\ [Next]_vars => WordsOK'
<1> SUFFICES ASSUME Shape, WordsOK, [Next]_vars PROVE WordsOK'
  OBVIOUS
<1>0. /\ Shape' /\ Onward /\ Copies /\ "none" \notin Calls
      /\ record \in Seq(Entries) /\ flush.record \in Seq(Entries) /\ file.record \in Seq(Entries)
      /\ \A c \in Calls : call[c].record \in Seq(Entries)
      /\ Said(record) /\ Said(flush.record) /\ Said(file.record)
      /\ \A c \in Calls : Said(call[c].record)
  BY ShapeStep, OnwardStep, CopiesStep, Assumption DEF Shape, DiskOK, CallOK, WordsOK
<1>h. holder \in Calls \cup {"none"} /\ \A c \in Calls : holder = c <=> call[c].at \in Turning
  BY DEF Shape, HolderOK
<1>i. holder' \in Calls \cup {"none"} /\ \A c \in Calls : holder' = c <=> call'[c].at \in Turning
  BY <1>0 DEF Shape, HolderOK
<1>p. \A c \in Calls : call[c].at \in Places /\ call'[c].at \in Places
  BY <1>0 DEF Shape, CallOK
<1> DEFINE SaidNow(t) == \A e \in Words(t) : e.call # "none" => call'[e.call].at \notin Early
(* What has been said stays said, in every copy. *)
<1>1. ASSUME NEW s \in Seq(Entries), Said(s)
      PROVE  SaidNow(s)
  <2>1. \A e \in Words(s) : e.call # "none" => e.call \in Calls
    BY WordsAreEntries DEF Entries
  <2> QED
    BY <1>0, <1>1, <2>1 DEF Said, Onward
<1>2. /\ Said(file.record)' /\ Said(flush.record)'
      /\ \A c \in Calls : Said(call[c].record)'
  <2>1. SaidNow(<<>>)
    BY EmptyList
  <2>2. SaidNow(record) /\ SaidNow(flush.record) /\ SaidNow(file.record)
    BY <1>0, <1>1
  <2>3. \A c \in Calls : SaidNow(call[c].record)
    BY <1>0, <1>1
  <2>4. SaidNow(file'.record) /\ SaidNow(flush'.record)
    BY <1>0, <2>1, <2>2 DEF Copies
  <2>5. \A c \in Calls : SaidNow(call'[c].record)
    BY <1>0, <2>1, <2>2, <2>3 DEF Copies
  <2> QED
    BY <2>4, <2>5 DEF Said
(* The turn is over. *)
<1>3. ASSUME SaidNow(record'), holder' = "none"
      PROVE  WordsOK'
  <2>1. \A c \in Calls : call'[c].at \notin Turning
    BY <1>0, <1>3, <1>i
  <2> QED
    BY <1>0, <1>2, <1>3, <2>1 DEF WordsOK, Said, At, Turning
(* The record is left alone, and the turn goes on where it was. *)
<1>4. ASSUME record' = record, holder' = holder,
             \A c \in Calls : call'[c].at \in {"compressing", "streaming"}
                                 => call'[c].at = call[c].at,
             \A c \in Calls : holder = c => call'[c].record = call[c].record
      PROVE  WordsOK'
  <2>1. SaidNow(record')
    BY <1>0, <1>1, <1>4
  <2>2. ASSUME NEW c \in Calls, holder = c
        PROVE  Over(record)' \subseteq Words(call[c].record)'
    <3>1. ASSUME NEW e \in Words(record), e.call # "none", call'[e.call].at \in Ended
          PROVE  e \in Over(record)
      <4>1. e.call \in Calls /\ call[e.call].at \notin Early
        BY <1>0, <3>1, WordsAreEntries DEF Entries, Said
      <4>2. call[e.call].at \notin Turning
        BY <1>h, <1>i, <1>4, <3>1, <4>1 DEF Ended, Turning
      <4> QED
        BY <1>p, <3>1, <4>1, <4>2 DEF Places, Over
    <3> QED
      BY <1>4, <2>2, <3>1 DEF WordsOK, Over
  <2> QED
    BY <1>2, <1>4, <2>1, <2>2 DEF WordsOK, Said, At
<1>5. ASSUME NEW c \in Calls, Request(c)
      PROVE  WordsOK'
  BY <1>4, <1>5, RequestEffect DEF Moved, memory, At
<1>6. ASSUME NEW c \in Calls, Mail(c)
      PROVE  WordsOK'
  BY <1>4, <1>6, MailEffect DEF Moved, memory, At
<1>7. CASE Consume
  BY <1>4, <1>7, ConsumeEffect DEF Moved, memory, At
<1>8. ASSUME NEW c \in Calls, Acquire(c)
      PROVE  WordsOK'
  <2>0. /\ At(c, "waiting") /\ holder = "none"
        /\ \A d \in Calls : call[d].at \notin Turning
    BY <1>0, <1>8, <1>h, AcquireEffect
  <2>1. SaidNow(record)
    BY <1>0, <1>1
  <2>2. CASE Refused(c)
    BY <1>3, <2>1, <2>2 DEF Refused, Leave
  <2>3. CASE Compacts(c)
    <3>1. record' = record /\ holder' = c /\ Moved(c, "compacting", record)
      BY <2>3 DEF Compacts, memory
    <3>2. ASSUME NEW d \in Calls, holder' = d
          PROVE  Over(record)' \subseteq Words(call[d].record)'
      BY <3>1, <3>2 DEF Over, Moved
    <3>3. \A d \in Calls : call'[d].at \notin {"compressing", "streaming"}
      BY <2>0, <3>1 DEF Moved, Turning
    <3> QED
      BY <1>2, <2>1, <3>1, <3>2, <3>3 DEF WordsOK, Said, At
  <2>4. CASE Begins(c)
    <3>1. PICK place \in {"compressing", "streaming"}, rec \in Seq(Entries) :
              /\ Words(rec) \subseteq Words(record)
              /\ record' = Append(rec, Entry("user", c))
              /\ Moved(c, place, record)
      BY <2>4 DEF Begins, Begun
    <3>2. /\ Words(record') = Words(rec) \cup {Entry("user", c)}
          /\ record' # <<>> /\ record'[Len(record')] = Entry("user", c)
      <4>1. Entry("user", c) \in Entries
        BY DEF Entry, Entries
      <4> QED
        BY <3>1, <4>1, AppendWords
    <3>3. call'[c].at = place /\ call'[c].record = record /\ holder' = c
      BY <2>4, <3>1 DEF Moved, Begins
    <3>4. SaidNow(record')
      BY <2>1, <3>1, <3>2, <3>3 DEF Entry, Early
    <3>5. Over(record)' \subseteq Words(record)
      BY <3>1, <3>2, <3>3 DEF Over, Entry, Ended
    <3>6. \A d \in Calls : call'[d].at \in {"compressing", "streaming"} => d = c
      BY <2>0, <3>1 DEF Moved, Turning
    <3> QED
      BY <1>2, <3>2, <3>3, <3>4, <3>5, <3>6 DEF WordsOK, Said, At, Entry
  <2> QED
    BY <1>8, <2>2, <2>3, <2>4, AcquireEffect
<1>9. ASSUME NEW c \in Calls, TurnStep(c)
      PROVE  WordsOK'
  <2>0. /\ holder = c /\ call[c].at \in Turning /\ call'[c].at \notin Early
        /\ \A d \in Calls : d # c => call[d].at \notin Turning
    <3>1. holder = c /\ call[c].at \in Turning
      BY <1>9, <1>h, TurnEffect DEF At, Turning
    <3> QED
      BY <1>0, <1>h, <3>1 DEF Onward, Turning, Early
  <2>1. SaidNow(record) /\ SaidNow(call[c].record)
    BY <1>0, <1>1
  <2>2. /\ Words(Append(record, Marker)) = Words(record) \cup {Marker}
        /\ Words(Append(record, Entry("agent", c))) = Words(record) \cup {Entry("agent", c)}
        /\ Words(TakenBack(record)) \subseteq Words(record)
        /\ Append(record, Marker)[Len(Append(record, Marker))] = Marker
        /\ Append(record, Entry("agent", c))[Len(Append(record, Entry("agent", c)))] = Entry("agent", c)
        /\ Append(record, Marker) # <<>> /\ Append(record, Entry("agent", c)) # <<>>
    <3>1. Marker \in Entries /\ Entry("agent", c) \in Entries
      BY DEF Marker, Entry, Entries
    <3> QED
      BY <1>0, <3>1, AppendWords, TakenBackWords
  <2>3. SaidNow(record')
    <3>1. \/ Words(record') \subseteq Words(record) \cup {Marker, Entry("agent", c)}
          \/ record' = call[c].record
      BY <1>9, <2>2, TurnEffect DEF Wrote
    <3> QED
      BY <2>0, <2>1, <3>1 DEF Marker, Entry
  <2>4. CASE Leaves(c)
    BY <1>3, <2>3, <2>4 DEF Leaves
  <2>5. CASE GoesOn(c)
    <3>1. /\ holder' = c /\ record' \in {record, Append(record, Marker), Append(record, Entry("agent", c))}
          /\ At(c, "compressing") \/ At(c, "streaming")
          /\ call'[c].at = "streaming" /\ call'[c].record = call[c].record
          /\ \A d \in Calls : d # c => call'[d].at = call[d].at
      BY <2>0, <2>5 DEF GoesOn, Moved, At
    <3>2. Over(record)' \subseteq Words(call[c].record)
      <4>1. ASSUME NEW e \in Words(record'), e.call # "none", call'[e.call].at \in Ended
            PROVE  e \in Over(record)
        <5>0. Words(record') \subseteq Words(record) \cup {Marker, Entry("agent", c)}
          BY <2>2, <3>1
        <5>1. e \in Words(record)
          BY <3>1, <4>1, <5>0 DEF Marker, Entry, Ended
        <5>2. e.call \in Calls /\ e.call # c
          BY <1>0, <3>1, <4>1, <5>1, WordsAreEntries DEF Entries, Ended
        <5> QED
          BY <3>1, <4>1, <5>1, <5>2 DEF Over
      <4> QED
        BY <2>0, <4>1 DEF WordsOK, Over
    <3>3. /\ record' # <<>>
          /\ record'[Len(record')].who = "user" => record'[Len(record')].call = c
      BY <2>2, <3>1 DEF WordsOK, Marker, Entry
    <3>4. \A d \in Calls : call'[d].at \in {"compressing", "streaming"} => d = c
      BY <2>0, <3>1 DEF Turning
    <3> QED
      BY <1>2, <2>3, <3>1, <3>2, <3>3, <3>4 DEF WordsOK, Said, At
  <2> QED
    BY <1>9, <2>4, <2>5, TurnEffect
<1>10. ASSUME NEW c \in Calls, WorkflowStops(c)
       PROVE  WordsOK'
  BY <1>4, <1>10, WorkflowStopsEffect DEF Moved, memory, locks
<1>11. CASE KillStarts
  <2>1. Placed(Halted)
    BY <1>11, HolderStopsEffect DEF KillStarts
  <2>2. record' = record /\ holder' = holder
    BY <1>11 DEF KillStarts, memory, locks
  <2> QED
    BY <1>4, <2>1, <2>2 DEF Placed, Halted
<1>12. CASE KillEnds \/ DeleteStarts
  <2>1. Placed(Dropped)
    BY <1>12, DropEffect DEF KillEnds, DeleteStarts
  <2>2. record' = record /\ holder' = holder
    BY <1>12 DEF KillEnds, DeleteStarts, memory
  <2> QED
    BY <1>4, <2>1, <2>2 DEF Placed, Dropped
<1>13. CASE ShutdownStarts
  <2>1. Placed(Left)
    BY <1>13, ShutdownEffect
  <2>2. record' = record /\ holder' = holder
    BY <1>13 DEF ShutdownStarts, memory
  <2> QED
    BY <1>4, <2>1, <2>2 DEF Placed, Left
<1>14. CASE Restart
  <2>1. SaidNow(file.record)
    BY <1>0, <1>1
  <2> QED
    BY <1>3, <1>14, <2>1 DEF Restart
<1>15. CASE Abort \/ Saving \/ FlushFails \/ KillTimesOut \/ DeleteEnds \/ ShutdownSaves
            \/ ShutdownEnds \/ Crash \/ UNCHANGED vars
  <2>1. UNCHANGED <<record, holder, call>>
    BY <1>15 DEF Abort, Saving, FlushLists, FlushLocks, FlushReads, FlushReplaces,
       FlushFails, KillTimesOut, DeleteEnds, ShutdownSaves, ShutdownEnds, Crash, vars,
       memory, locks
  <2> QED
    BY <1>4, <2>1
<1> QED
  BY <1>5, <1>6, <1>7, <1>8, <1>9, <1>10, <1>11, <1>12, <1>13, <1>14, <1>15
     DEF Next, Turn, TurnStep

(* A rollback takes back the question of its own turn alone, and a          *)
(* checkpoint has every word of the calls that are over: what was said in   *)
(* them is changed by an edit only (_rollback_on_error, the checkpoint of   *)
(* _invocation_scope).                                                     *)
THEOREM OtherTurnsAreKept == Spec => OtherTurnsStay
<1>1. Init => Shape /\ WordsOK
  BY ShapeInit, WordsInit
<1>2. Shape /\ WordsOK /\ [Next]_vars => (Shape /\ WordsOK)'
  BY ShapeStep, WordsStep
<1> DEFINE Stay ==
        ~EditsNow /\ life # "down" =>
            \A i \in DOMAIN record :
                record[i].call # "none" /\ call[record[i].call].at \in Ended
                    => \E j \in DOMAIN record' : record'[j] = record[i]
<1>3. Shape /\ WordsOK /\ [Next]_vars => Stay
  <2> SUFFICES ASSUME Shape, WordsOK, [Next]_vars, ~EditsNow, life # "down",
                      NEW e \in Words(record), e \in Over(record)
               PROVE  e \in Words(record')
    BY DEF Words, Over
  <2>0. record \in Seq(Entries) /\ e.call \in Calls /\ e.call # "none"
    BY WordsAreEntries, Assumption DEF Shape, Entries, Over
  <2>1. ASSUME NEW c \in Calls, Acquire(c)
        PROVE  e \in Words(record')
    <3>1. CASE Refused(c) \/ Compacts(c)
      BY <3>1 DEF Refused, Compacts, memory
    <3>2. CASE Begins(c)
      <4>1. PICK place \in {"compressing", "streaming"}, rec \in Seq(Entries) :
                /\ Kind(c) # "edit" => rec = record
                /\ record' = Append(rec, Entry("user", c))
                /\ Moved(c, place, record)
        BY <3>2 DEF Begins, Begun
      <4>2. Kind(c) # "edit"
        BY <2>1, <4>1, AcquireEffect DEF EditsNow, At, Moved
      <4>3. Entry("user", c) \in Entries
        BY DEF Entry, Entries
      <4> QED
        BY <2>0, <4>1, <4>2, <4>3, AppendWords
    <3> QED
      BY <2>1, <3>1, <3>2, AcquireEffect
  <2>2. ASSUME NEW c \in Calls, TurnStep(c)
        PROVE  e \in Words(record')
    <3>1. holder = c /\ call[c].at \in Turning
      BY <2>2, TurnEffect DEF At, Turning, Shape, HolderOK
    <3>2. e.call # c
      BY <3>1 DEF Over, Ended, Turning
    <3>3. CASE record' \in {record, Append(record, Marker), Append(record, Entry("agent", c))}
      <4>1. Marker \in Entries /\ Entry("agent", c) \in Entries
        BY DEF Marker, Entry, Entries
      <4> QED
        BY <2>0, <3>3, <4>1, AppendWords
    <3>4. CASE (At(c, "compressing") \/ At(c, "streaming")) /\ record' = TakenBack(record)
      <4>1. \/ e \in Words(record')
            \/ record # <<>> /\ e = record[Len(record)] /\ e.who = "user"
        BY <2>0, <3>4, TakenBackWords
      <4> QED
        BY <3>2, <3>4, <4>1 DEF WordsOK
    <3>5. CASE At(c, "stopping") /\ record' = call[c].record
      BY <3>1, <3>5 DEF WordsOK
    <3> QED
      BY <2>2, <3>3, <3>4, <3>5, TurnEffect DEF Wrote
  <2>3. ~Restart
    BY DEF Restart
  <2>4. CASE \/ Consume \/ Abort \/ Saving \/ FlushFails \/ KillStarts \/ KillEnds
             \/ KillTimesOut \/ DeleteStarts \/ DeleteEnds \/ ShutdownStarts
             \/ ShutdownSaves \/ ShutdownEnds \/ Crash \/ UNCHANGED vars
             \/ \E c \in Calls : Request(c) \/ Mail(c) \/ WorkflowStops(c)
    <3>1. record' = record
      BY <2>4 DEF Consume, Abort, Saving, FlushLists, FlushLocks, FlushReads, FlushReplaces,
         FlushFails, KillStarts, KillEnds, KillTimesOut, DeleteStarts, DeleteEnds,
         ShutdownStarts, ShutdownSaves, ShutdownEnds, Crash, vars, Request, Mail,
         WorkflowStops, memory
    <3> QED
      BY <3>1
  <2> QED
    BY <2>1, <2>2, <2>3, <2>4 DEF Next, Turn, TurnStep
<1> QED
  BY <1>1, <1>2, <1>3, PTL DEF Spec, OtherTurnsStay

------------------------------------------------------------------------------
(* What the session sends to its model (ContextWindow), for any limits,     *)
(* sizes, numbers of messages, rounds and compactions.  The lists are       *)
(* filtered (Picked), cut (SubSeq) and joined, in steps of one list after   *)
(* the other; Keeps is what each of these steps does to a list: nothing     *)
(* comes in that was not there, and a question that was last stays so.      *)

\* The library's operators are the same in both modules.
LEMMA SameCount == \A S : Window!Cardinality(S) = Cardinality(S)
BY DEF Window!Cardinality, Cardinality

LEMMA SameLast == \A s : Window!Last(s) = Last(s)
BY DEF Window!Last, Last

LEMMA SameFront == \A s : Window!Front(s) = Front(s)
BY DEF Window!Front, Front

LEMMA SameInsert == \A s, i, e : Window!InsertAt(s, i, e) = InsertAt(s, i, e)
BY DEF Window!InsertAt, InsertAt

-----------------------------------------------------------------------------
(* The positions of a part of a list, counted from the front *)
Nth(P, k) == CHOOSE i \in P : Window!Rank(P, i) = k

LEMMA Ranks ==
    ASSUME NEW n \in Nat, NEW P \in SUBSET (1 .. n)
    PROVE  /\ IsFiniteSet(P) /\ Cardinality(P) \in 0 .. n
           /\ \A i \in P : Window!Rank(P, i) \in 1 .. Cardinality(P)
           /\ \A i, j \in P : i < j => Window!Rank(P, i) < Window!Rank(P, j)
<1>1. IsFiniteSet(P) /\ Cardinality(P) \in 0 .. n
  <2>1. IsFiniteSet(1 .. n) /\ Cardinality(1 .. n) = n
    BY FS_Interval
  <2>2. IsFiniteSet(P) /\ Cardinality(P) <= n
    BY <2>1, FS_Subset
  <2> QED
    BY <2>2, FS_CardinalityType
<1>2. ASSUME NEW i \in P
      PROVE  /\ IsFiniteSet({j \in P : j <= i})
             /\ Window!Rank(P, i) \in 1 .. Cardinality(P)
  <2>1. IsFiniteSet({j \in P : j <= i}) /\ Cardinality({j \in P : j <= i}) <= Cardinality(P)
    BY <1>1, FS_Subset
  <2>2. i \in {j \in P : j <= i}
    OBVIOUS
  <2>3. Cardinality({j \in P : j <= i}) # 0
    BY <2>1, <2>2, FS_EmptySet
  <2>4. Cardinality({j \in P : j <= i}) \in Nat
    BY <2>1, FS_CardinalityType
  <2> QED
    BY <1>1, <2>1, <2>3, <2>4, SameCount DEF Window!Rank
<1>3. ASSUME NEW i \in P, NEW j \in P, i < j
      PROVE  Window!Rank(P, i) < Window!Rank(P, j)
  <2>1. {k \in P : k <= i} \in SUBSET {k \in P : k <= j}
    <3>1. \A k \in P : k <= i => k <= j
      BY <1>3
    <3> QED
      BY <3>1
  <2>2. {k \in P : k <= i} # {k \in P : k <= j}
    <3>1. i \in Nat /\ j \in Nat
      OBVIOUS
    <3>2. j \in {k \in P : k <= j} /\ ~(j <= i)
      BY <1>3, <3>1
    <3>3. j \notin {k \in P : k <= i}
      BY <3>2
    <3> QED
      BY <3>2, <3>3
  <2>3. Window!Rank(P, i) <= Window!Rank(P, j) /\ Window!Rank(P, i) # Window!Rank(P, j)
    BY <1>2, <2>1, <2>2, FS_Subset, SameCount DEF Window!Rank
  <2>4. Window!Rank(P, i) \in Nat /\ Window!Rank(P, j) \in Nat
    <3>1. \A k \in P : Window!Rank(P, k) \in 1 .. Cardinality(P)
      BY <1>2
    <3> QED
      BY <1>1, <3>1
  <2> QED
    BY <2>3, <2>4
<1> QED
  BY <1>1, <1>2, <1>3

LEMMA Positions ==
    ASSUME NEW n \in Nat, NEW P \in SUBSET (1 .. n)
    PROVE  /\ \A k \in 1 .. Cardinality(P) : Nth(P, k) \in P /\ Window!Rank(P, Nth(P, k)) = k
           /\ \A i \in P : Nth(P, Window!Rank(P, i)) = i
           /\ \A k, l \in 1 .. Cardinality(P) : k < l => Nth(P, k) < Nth(P, l)
<1>0. /\ IsFiniteSet(P) /\ Cardinality(P) \in 0 .. n
      /\ \A i \in P : Window!Rank(P, i) \in 1 .. Cardinality(P)
      /\ \A i, j \in P : i < j => Window!Rank(P, i) < Window!Rank(P, j)
  BY Ranks
<1>1. \A i, j \in P : i # j => Window!Rank(P, i) # Window!Rank(P, j)
  BY <1>0
<1>2. ASSUME NEW k \in 1 .. Cardinality(P)
      PROVE  \E i \in P : Window!Rank(P, i) = k
  <2> SUFFICES ASSUME \A i \in P : Window!Rank(P, i) # k PROVE FALSE
    OBVIOUS
  <2>1. PICK f : f = [i \in P |-> Window!Rank(P, i)]
    OBVIOUS
  <2>2. f \in [P -> (1 .. Cardinality(P)) \ {k}]
    BY <1>0, <2>1
  <2>3. IsFiniteSet(1 .. Cardinality(P)) /\ Cardinality(1 .. Cardinality(P)) = Cardinality(P)
    BY <1>0, FS_Interval
  <2>4. IsFiniteSet((1 .. Cardinality(P)) \ {k}) /\ Cardinality((1 .. Cardinality(P)) \ {k}) = Cardinality(P) - 1
    BY <2>3, FS_RemoveElement
  <2>5. PICK i, j \in P : i # j /\ f[i] = f[j]
    <3>1. Cardinality((1 .. Cardinality(P)) \ {k}) < Cardinality(P)
      BY <1>0, <2>4
    <3> QED
      BY <1>0, <2>2, <2>4, <3>1, FS_PigeonHole
  <2> QED
    BY <1>1, <2>1, <2>5
<1>3. \A k \in 1 .. Cardinality(P) : Nth(P, k) \in P /\ Window!Rank(P, Nth(P, k)) = k
  BY <1>2 DEF Nth
<1>4. \A i \in P : Nth(P, Window!Rank(P, i)) = i
  BY <1>0, <1>1, <1>3
<1>5. \A k, l \in 1 .. Cardinality(P) : k < l => Nth(P, k) < Nth(P, l)
  <2> SUFFICES ASSUME NEW k \in 1 .. Cardinality(P), NEW l \in 1 .. Cardinality(P), k < l
               PROVE  Nth(P, k) < Nth(P, l)
    OBVIOUS
  <2>1. PICK a \in P : a = Nth(P, k) /\ Window!Rank(P, a) = k
    BY <1>3
  <2>2. PICK b \in P : b = Nth(P, l) /\ Window!Rank(P, b) = l
    BY <1>3
  <2>3. a # b /\ ~(b < a)
    BY <1>0, <2>1, <2>2
  <2> QED
    BY <2>1, <2>2, <2>3
<1> QED
  BY <1>3, <1>4, <1>5

\* What a part of a list consists of: its elements are those at the positions, in
\* the same order; at(k) is where the k-th came from, to(i) where the i-th went.
LEMMA PickedParts ==
    ASSUME NEW S, NEW s \in Seq(S), NEW P \in SUBSET DOMAIN s
    PROVE  /\ Window!Picked(s, P) \in Seq(S) /\ Len(Window!Picked(s, P)) = Cardinality(P)
           /\ DOMAIN Window!Picked(s, P) = 1 .. Cardinality(P)
           /\ \A k \in 1 .. Cardinality(P) : Nth(P, k) \in P /\ Window!Picked(s, P)[k] = s[Nth(P, k)]
           /\ \A k, l \in 1 .. Cardinality(P) : k < l => Nth(P, k) < Nth(P, l)
           /\ \A i \in P : Window!Rank(P, i) \in 1 .. Cardinality(P) /\ Nth(P, Window!Rank(P, i)) = i
                           /\ Window!Picked(s, P)[Window!Rank(P, i)] = s[i]
           /\ \A i, j \in P : i < j => Window!Rank(P, i) < Window!Rank(P, j)
           /\ \A k \in 1 .. Cardinality(P) : Window!Rank(P, Nth(P, k)) = k
<1>1. DOMAIN s = 1 .. Len(s) /\ Len(s) \in Nat
  OBVIOUS
<1>2. /\ IsFiniteSet(P) /\ Cardinality(P) \in Nat
      /\ \A i \in P : Window!Rank(P, i) \in 1 .. Cardinality(P)
      /\ \A i, j \in P : i < j => Window!Rank(P, i) < Window!Rank(P, j)
  BY <1>1, Ranks
<1>3. /\ \A k \in 1 .. Cardinality(P) : Nth(P, k) \in P /\ Window!Rank(P, Nth(P, k)) = k
      /\ \A i \in P : Nth(P, Window!Rank(P, i)) = i
      /\ \A k, l \in 1 .. Cardinality(P) : k < l => Nth(P, k) < Nth(P, l)
  BY <1>1, Positions
<1>4. Window!Picked(s, P) = [k \in 1 .. Cardinality(P) |-> s[Nth(P, k)]]
  BY SameCount DEF Window!Picked, Nth
<1>5. Window!Picked(s, P) \in [1 .. Cardinality(P) -> S]
  BY <1>3, <1>4
<1>6. Window!Picked(s, P) \in Seq(S) /\ Len(Window!Picked(s, P)) = Cardinality(P)
  BY <1>2, <1>5
<1> QED
  BY <1>2, <1>3, <1>4, <1>6

LEMMA LeastNumber ==
    ASSUME NEW T \in SUBSET Nat, T # {}
    PROVE  \E x \in T : \A y \in T : x <= y
<1> DEFINE less == {ss \in Nat \X Nat : ss[1] < ss[2]}
<1>1. IsWellFoundedOn(less, Nat)
  BY NatLessThanWellFounded DEF OpToRel
<1>2. \A x, y \in Nat : y < x => <<y, x>> \in less
  OBVIOUS
<1> HIDE DEF less
<1>3. PICK x \in T : \A y \in T : ~(<<y, x>> \in less)
  BY <1>1, WFMin
<1>4. \A y \in T : x <= y
  <2> SUFFICES ASSUME NEW y \in T PROVE x <= y
    OBVIOUS
  <2>1. x \in Nat /\ y \in Nat /\ ~(y < x)
    BY <1>2, <1>3
  <2> QED
    BY <2>1
<1> QED
  BY <1>4

LEMMA FirstOf ==
    ASSUME NEW T \in SUBSET Nat, T # {}
    PROVE  /\ (CHOOSE i \in T : \A j \in T : i <= j) \in T
           /\ \A k \in T : (CHOOSE i \in T : \A j \in T : i <= j) <= k
<1>1. \E i \in T : \A j \in T : i <= j
  BY LeastNumber
<1> QED
  BY <1>1

-----------------------------------------------------------------------------
(* The sum of some numbers is a number; of none it is 0, of one that one. *)
Sums(f, n, sizes) == f = [k \in 0 .. n |-> IF k = 0 THEN 0 ELSE f[k - 1] + sizes[k]]

LEMMA SumExists ==
    ASSUME NEW n \in Nat, NEW sizes
    PROVE  \E f : Sums(f, n, sizes)
<1> DEFINE T == {k \in Nat : ~\E f : Sums(f, k, sizes)}
<1> SUFFICES ASSUME T # {} PROVE FALSE
  OBVIOUS
<1>1. PICK k \in T : \A j \in T : k <= j
  BY LeastNumber
<1>2. k # 0
  <2>1. PICK f : f = [j \in 0 .. 0 |-> 0]
    OBVIOUS
  <2>2. f = [j \in 0 .. 0 |-> IF j = 0 THEN 0 ELSE f[j - 1] + sizes[j]]
    BY <2>1
  <2>3. Sums(f, 0, sizes)
    BY <2>2 DEF Sums
  <2> QED
    BY <1>1, <2>3
<1>3. k - 1 \in Nat /\ k - 1 \notin T
  BY <1>1, <1>2
<1>4. PICK f : Sums(f, k - 1, sizes)
  BY <1>3
<1>5. PICK h : h = [j \in 0 .. k |-> IF j = k THEN f[k - 1] + sizes[k] ELSE f[j]]
  OBVIOUS
<1>6. \A j \in 0 .. k : h[j] = IF j = 0 THEN 0 ELSE h[j - 1] + sizes[j]
  <2> SUFFICES ASSUME NEW j \in 0 .. k
               PROVE  h[j] = IF j = 0 THEN 0 ELSE h[j - 1] + sizes[j]
    OBVIOUS
  <2>1. CASE j = k
    <3>1. h[k] = f[k - 1] + sizes[k] /\ h[k - 1] = f[k - 1]
      BY <1>1, <1>3, <1>5
    <3> QED
      BY <1>2, <2>1, <3>1
  <2>2. CASE j # k
    <3>1. j \in 0 .. k - 1
      BY <1>1, <2>2
    <3>2. f[j] = IF j = 0 THEN 0 ELSE f[j - 1] + sizes[j]
      BY <1>4, <3>1 DEF Sums
    <3>3. h[j] = f[j] /\ (j # 0 => h[j - 1] = f[j - 1])
      BY <1>1, <1>5, <2>2, <3>1
    <3> QED
      BY <3>2, <3>3
  <2> QED
    BY <2>1, <2>2
<1>7. h = [j \in 0 .. k |-> IF j = 0 THEN 0 ELSE h[j - 1] + sizes[j]]
  BY <1>5, <1>6
<1> QED
  BY <1>1, <1>7 DEF Sums

LEMMA TotalIsSum ==
    ASSUME NEW n \in Nat, NEW sizes, \A k \in 1 .. n : sizes[k] \in Nat
    PROVE  /\ Window!Total(n, sizes) \in Nat
           /\ n = 0 => Window!Total(n, sizes) = 0
           /\ n = 1 => Window!Total(n, sizes) = sizes[1]
<1>1. PICK f : f = CHOOSE g : g = [k \in 0 .. n |-> IF k = 0 THEN 0 ELSE g[k - 1] + sizes[k]]
  OBVIOUS
<1>2. Sums(f, n, sizes)
  BY <1>1, SumExists DEF Sums
<1>3. Window!Total(n, sizes) = f[n]
  BY <1>1 DEF Window!Total
<1>4. f[0] = 0 /\ \A k \in 1 .. n : f[k] = f[k - 1] + sizes[k]
  BY <1>2 DEF Sums
<1>5. ASSUME NEW k \in 0 .. n, f[k] \notin Nat
      PROVE  FALSE
  <2> DEFINE T == {j \in 0 .. n : f[j] \notin Nat}
  <2>0. T \in SUBSET Nat /\ T # {}
    BY <1>5
  <2>1. PICK j \in T : \A i \in T : j <= i
    BY <2>0, LeastNumber
  <2>2. j \in 1 .. n
    BY <1>4, <2>1
  <2>3. j - 1 \in 0 .. n /\ j - 1 \notin T
    BY <2>1, <2>2
  <2>4. f[j - 1] \in Nat
    BY <2>3
  <2> QED
    BY <1>4, <2>1, <2>2, <2>4
<1>6. n = 1 => f[n] = sizes[1]
  <2> SUFFICES ASSUME n = 1 PROVE f[1] = sizes[1]
    OBVIOUS
  <2>1. f[1] = f[0] + sizes[1]
    <3>1. f[1] = f[1 - 1] + sizes[1] /\ 1 - 1 = 0
      BY <1>4
    <3> QED
      BY <3>1
  <2> QED
    BY <1>4, <2>1
<1> QED
  BY <1>3, <1>4, <1>5, <1>6

-----------------------------------------------------------------------------
(* Lists of messages, and what the steps on them keep *)
Messages ==
    {m \in [role : {"system", "user", "ai", "tool"}, calls : SUBSET (Nat \X Nat), text : BOOLEAN, size : Nat, no : Nat] :
        /\ m.role = "system" => m.no = 0
        /\ m.role = "tool" => \E c : m.calls = {c}}
Lists == Seq(Messages)

\* What was written, not made up by a compaction, was in s before.
Traced(t, s) ==
    \A j \in DOMAIN t : t[j].no > 0 => \E i \in DOMAIN s : s[i].no = t[j].no /\ s[i].role = t[j].role
\* Number n is nowhere, or the last message's, who is a user's.
OnlyLast(s, n) == \A j \in DOMAIN s : s[j].no = n => j = Len(s) /\ s[j].role = "user"
EndsOn(s, q) == Len(s) > 0 /\ s[Len(s)] = q

Keeps(t, s) ==
    /\ t \in Lists /\ Traced(t, s)
    /\ \A n \in Nat \ {0} : OnlyLast(s, n) => OnlyLast(t, n)

LEMMA KeepsAll ==
    ASSUME NEW r, NEW s, NEW t, Keeps(t, s), Keeps(s, r)
    PROVE  Keeps(t, r)
<1>1. Traced(t, r)
  BY DEF Keeps, Traced
<1> QED
  BY <1>1 DEF Keeps

LEMMA KeepsItself ==
    ASSUME NEW s \in Lists
    PROVE  Keeps(s, s)
BY DEF Keeps, Traced

LEMMA PickedKeeps ==
    ASSUME NEW s \in Lists, NEW P \in SUBSET DOMAIN s
    PROVE  /\ Keeps(Window!Picked(s, P), s)
           /\ \A q : EndsOn(s, q) /\ Len(s) \in P => EndsOn(Window!Picked(s, P), q)
<1>1. PICK t : t = Window!Picked(s, P)
  OBVIOUS
<1>2. /\ t \in Lists /\ Len(t) = Cardinality(P) /\ DOMAIN t = 1 .. Cardinality(P)
      /\ \A k \in DOMAIN t : Nth(P, k) \in P /\ t[k] = s[Nth(P, k)]
      /\ \A k, l \in DOMAIN t : k < l => Nth(P, k) < Nth(P, l)
      /\ \A i \in P : Window!Rank(P, i) \in DOMAIN t /\ Nth(P, Window!Rank(P, i)) = i /\ t[Window!Rank(P, i)] = s[i]
  <2>1. /\ t \in Lists /\ Len(t) = Cardinality(P) /\ DOMAIN t = 1 .. Cardinality(P)
        /\ \A k \in 1 .. Cardinality(P) : Nth(P, k) \in P /\ t[k] = s[Nth(P, k)]
        /\ \A k, l \in 1 .. Cardinality(P) : k < l => Nth(P, k) < Nth(P, l)
        /\ \A i \in P : Window!Rank(P, i) \in 1 .. Cardinality(P) /\ Nth(P, Window!Rank(P, i)) = i /\ t[Window!Rank(P, i)] = s[i]
    <3>1. s \in Seq(Messages)
      BY DEF Lists
    <3> QED
      BY <1>1, <3>1, PickedParts DEF Lists
  <2> QED
    BY <2>1
<1>3. DOMAIN s = 1 .. Len(s) /\ Len(s) \in Nat /\ Len(t) \in Nat /\ DOMAIN t = 1 .. Len(t)
  BY <1>2 DEF Lists
<1>4. Traced(t, s)
  BY <1>2 DEF Traced
\* Where the last one goes
<1>5. ASSUME NEW k \in DOMAIN t, Nth(P, k) = Len(s)
      PROVE  k = Len(t)
  <2> SUFFICES ASSUME k < Len(t) PROVE FALSE
    BY <1>3
  <2>1. Len(t) \in DOMAIN t /\ Nth(P, k) < Nth(P, Len(t))
    BY <1>2, <1>3
  <2>2. Nth(P, Len(t)) \in 1 .. Len(s)
    BY <1>2, <1>3, <2>1
  <2> QED
    BY <1>3, <1>5, <2>1, <2>2
<1>6. ASSUME NEW n, OnlyLast(s, n)
      PROVE  OnlyLast(t, n)
  <2> SUFFICES ASSUME NEW j \in DOMAIN t, t[j].no = n
               PROVE  j = Len(t) /\ t[j].role = "user"
    BY DEF OnlyLast
  <2>1. Nth(P, j) = Len(s) /\ t[j].role = "user"
    BY <1>2, <1>6 DEF OnlyLast
  <2> QED
    BY <1>5, <2>1
<1>7. ASSUME NEW q, EndsOn(s, q), Len(s) \in P
      PROVE  EndsOn(t, q)
  BY <1>2, <1>3, <1>5, <1>7 DEF EndsOn
<1> QED
  BY <1>1, <1>2, <1>4, <1>6, <1>7 DEF Keeps

LEMMA ClearedKeeps ==
    ASSUME NEW s \in Lists, NEW open, \A i \in open : i \in DOMAIN s /\ s[i].role = "ai"
    PROVE  /\ Keeps(Window!Cleared(s, open), s)
           /\ Len(Window!Cleared(s, open)) = Len(s)
           /\ \A i \in DOMAIN s :
                 /\ Window!Cleared(s, open)[i].role = s[i].role
                 /\ Window!Cleared(s, open)[i].no = s[i].no
                 /\ i \in open => Window!Cleared(s, open)[i].calls = {}
                 /\ i \notin open => Window!Cleared(s, open)[i] = s[i]
           /\ \A q : EndsOn(s, q) /\ q.role # "ai" => EndsOn(Window!Cleared(s, open), q)
<1>1. PICK t : t = Window!Cleared(s, open)
  OBVIOUS
<1>2. DOMAIN s = 1 .. Len(s) /\ Len(s) \in Nat
  BY DEF Lists
<1>3. DOMAIN t = DOMAIN s /\ \A i \in DOMAIN s : t[i] = IF i \in open THEN Window!WithoutCalls(s[i]) ELSE s[i]
  BY <1>1 DEF Window!Cleared
<1>4. ASSUME NEW m \in Messages, m.role = "ai"
      PROVE  /\ Window!WithoutCalls(m) \in Messages
             /\ Window!WithoutCalls(m).role = "ai" /\ Window!WithoutCalls(m).no = m.no /\ Window!WithoutCalls(m).calls = {}
  BY <1>4 DEF Messages, Window!WithoutCalls
<1>5. \A i \in DOMAIN s : s[i] \in Messages
  BY DEF Lists
<1>6. \A i \in DOMAIN s :
         /\ t[i] \in Messages /\ t[i].role = s[i].role /\ t[i].no = s[i].no
         /\ i \in open => t[i].calls = {}
         /\ i \notin open => t[i] = s[i]
  BY <1>3, <1>4, <1>5
<1>7. t \in Lists /\ Len(t) = Len(s)
  <2>1. t \in [1 .. Len(s) -> Messages]
    BY <1>1, <1>2, <1>3, <1>6 DEF Window!Cleared
  <2> QED
    BY <1>2, <2>1 DEF Lists
<1>8. Traced(t, s) /\ \A n : OnlyLast(s, n) => OnlyLast(t, n)
  BY <1>3, <1>6, <1>7 DEF Traced, OnlyLast
<1>9. \A q : EndsOn(s, q) /\ q.role # "ai" => EndsOn(t, q)
  BY <1>2, <1>6, <1>7 DEF EndsOn
<1> QED
  BY <1>1, <1>6, <1>7, <1>8, <1>9 DEF Keeps

LEMMA PairsKeeps ==
    ASSUME NEW s \in Lists
    PROVE  /\ Keeps(Window!SanitizePairs(s), s)
           /\ \A q : EndsOn(s, q) /\ q.role = "user" => EndsOn(Window!SanitizePairs(s), q)
<1>1. PICK c : c = Window!Cleared(s, Window!Open(s))
  OBVIOUS
<1>2. \A i \in Window!Open(s) : i \in DOMAIN s /\ s[i].role = "ai"
  BY DEF Window!Open
<1>3. c \in Lists /\ Keeps(c, s) /\ Len(c) = Len(s) /\ DOMAIN c = DOMAIN s
      /\ \A q : EndsOn(s, q) /\ q.role # "ai" => EndsOn(c, q)
  BY <1>1, <1>2, ClearedKeeps DEF Keeps, Lists
<1>4. PICK P : P = DOMAIN s \ (Window!Open(s) \ Window!Texts(s))
  OBVIOUS
<1>5. PICK left : left = Window!Picked(c, P)
  OBVIOUS
<1>6. left \in Lists /\ Keeps(left, c) /\ \A q : EndsOn(c, q) /\ Len(c) \in P => EndsOn(left, q)
  <2>1. P \in SUBSET DOMAIN c
    BY <1>3, <1>4
  <2> QED
    BY <1>3, <1>5, <2>1, PickedKeeps DEF Keeps
<1>7. PICK Q : Q = {i \in DOMAIN left : left[i].role = "tool" => left[i].calls \subseteq Window!Asked(left)}
  OBVIOUS
<1>8. Window!SanitizePairs(s) = Window!Picked(left, Q)
  BY <1>1, <1>4, <1>5, <1>7 DEF Window!SanitizePairs
<1>9. Keeps(Window!Picked(left, Q), left) /\ \A q : EndsOn(left, q) /\ Len(left) \in Q => EndsOn(Window!Picked(left, Q), q)
  <2>1. Q \in SUBSET DOMAIN left
    BY <1>7
  <2> QED
    BY <1>6, <2>1, PickedKeeps
<1>10. ASSUME NEW q, EndsOn(s, q), q.role = "user"
       PROVE  EndsOn(Window!Picked(left, Q), q)
  <2>1. EndsOn(c, q) /\ Len(s) \in DOMAIN s
    BY <1>3, <1>10 DEF EndsOn, Lists
  <2>2. Len(c) \in P
    BY <1>2, <1>3, <1>4, <1>10, <2>1 DEF EndsOn
  <2>3. EndsOn(left, q)
    BY <1>6, <2>1, <2>2
  <2>4. Len(left) \in Q
    BY <1>6, <1>7, <1>10, <2>3 DEF EndsOn, Lists
  <2> QED
    BY <1>9, <2>3, <2>4
<1> QED
  BY <1>3, <1>6, <1>8, <1>9, <1>10, KeepsAll

\* The tail of a list
LEMMA TailKeeps ==
    ASSUME NEW s \in Lists, NEW from \in 1 .. Len(s) + 1
    PROVE  /\ Keeps(SubSeq(s, from, Len(s)), s)
           /\ \A q : EndsOn(s, q) /\ from <= Len(s) => EndsOn(SubSeq(s, from, Len(s)), q)
           /\ \A j \in DOMAIN SubSeq(s, from, Len(s)) : \E i \in DOMAIN s : SubSeq(s, from, Len(s))[j] = s[i]
<1>1. PICK t : t = SubSeq(s, from, Len(s))
  OBVIOUS
<1>2. Len(s) \in Nat /\ from \in Nat /\ DOMAIN s = 1 .. Len(s)
  BY DEF Lists
<1>3. PICK d \in Nat : d = Len(s) + 1 - from
  BY <1>2
<1>4. t \in Lists /\ Len(t) = d /\ DOMAIN t = 1 .. d
  BY <1>1, <1>2, <1>3 DEF Lists
<1>5. \A j \in 1 .. d : j + from - 1 \in DOMAIN s /\ t[j] = s[j + from - 1]
  BY <1>1, <1>2, <1>3 DEF Lists
<1>6. Traced(t, s)
  BY <1>4, <1>5 DEF Traced
<1>7. ASSUME NEW n, OnlyLast(s, n) PROVE OnlyLast(t, n)
  <2> SUFFICES ASSUME NEW j \in 1 .. d, t[j].no = n
               PROVE  j = d /\ t[j].role = "user"
    BY <1>4 DEF OnlyLast
  <2>1. j + from - 1 = Len(s) /\ t[j].role = "user"
    BY <1>5, <1>7 DEF OnlyLast
  <2> QED
    BY <1>2, <1>3, <2>1
<1>8. \A q : EndsOn(s, q) /\ from <= Len(s) => EndsOn(t, q)
  <2> SUFFICES ASSUME NEW q, EndsOn(s, q), from <= Len(s)
               PROVE  EndsOn(t, q)
    OBVIOUS
  <2>1. d \in 1 .. d /\ d + from - 1 = Len(s)
    BY <1>2, <1>3
  <2> QED
    BY <1>4, <1>5, <2>1 DEF EndsOn
<1> QED
  BY <1>1, <1>4, <1>5, <1>6, <1>7, <1>8 DEF Keeps

\* Something made up, put in front
LEMMA PrefixKeeps ==
    ASSUME NEW s, NEW t, Keeps(t, s), NEW u \in Lists, \A i \in DOMAIN u : u[i].no = 0
    PROVE  /\ Keeps(u \o t, s)
           /\ \A q : EndsOn(t, q) => EndsOn(u \o t, q)
<1>1. PICK r : r = u \o t
  OBVIOUS
<1>2. r \in Lists /\ Len(r) = Len(u) + Len(t) /\ Len(u) \in Nat /\ Len(t) \in Nat /\ t \in Lists
  BY <1>1 DEF Keeps, Lists
<1>3. /\ \A i \in 1 .. Len(u) : r[i] = u[i]
      /\ \A i \in Len(u) + 1 .. Len(r) : i - Len(u) \in DOMAIN t /\ r[i] = t[i - Len(u)]
  BY <1>1, <1>2 DEF Lists
<1>4. DOMAIN r = 1 .. Len(r) /\ DOMAIN u = 1 .. Len(u) /\ DOMAIN t = 1 .. Len(t)
  BY <1>2 DEF Lists
<1>5. ASSUME NEW j \in DOMAIN r, r[j].no # 0
      PROVE  j \in Len(u) + 1 .. Len(r) /\ j - Len(u) \in DOMAIN t /\ r[j] = t[j - Len(u)]
  <2>1. j \notin 1 .. Len(u)
    BY <1>3, <1>4, <1>5
  <2>2. j \in Len(u) + 1 .. Len(r)
    BY <1>2, <1>4, <2>1
  <2> QED
    BY <1>3, <2>2
<1>6. Traced(r, s)
  <2> SUFFICES ASSUME NEW j \in DOMAIN r, r[j].no > 0
               PROVE  \E i \in DOMAIN s : s[i].no = r[j].no /\ s[i].role = r[j].role
    BY DEF Traced
  <2>1. r[j].no # 0
    OBVIOUS
  <2> QED
    BY <1>5, <2>1 DEF Keeps, Traced
<1>7. ASSUME NEW n \in Nat \ {0}, OnlyLast(s, n) PROVE OnlyLast(r, n)
  <2> SUFFICES ASSUME NEW j \in DOMAIN r, r[j].no = n
               PROVE  j = Len(r) /\ r[j].role = "user"
    BY DEF OnlyLast
  <2>1. j \in Len(u) + 1 .. Len(r) /\ j - Len(u) \in DOMAIN t /\ r[j] = t[j - Len(u)]
    BY <1>5
  <2>2. j - Len(u) = Len(t) /\ r[j].role = "user"
    BY <1>7, <2>1 DEF Keeps, OnlyLast
  <2> QED
    BY <1>2, <2>1, <2>2
<1>8. ASSUME NEW q, EndsOn(t, q) PROVE EndsOn(r, q)
  <2>1. Len(r) > 0 /\ Len(r) \in Len(u) + 1 .. Len(r) /\ Len(r) - Len(u) = Len(t)
    BY <1>2, <1>8 DEF EndsOn
  <2> QED
    BY <1>3, <1>8, <2>1 DEF EndsOn
<1> QED
  BY <1>1, <1>2, <1>6, <1>7, <1>8 DEF Keeps

\* All messages of a role
LEMMA RoleKeeps ==
    ASSUME NEW s \in Lists, NEW role
    PROVE  /\ Keeps(Window!OfRole(s, role), s)
           /\ \A i \in DOMAIN Window!OfRole(s, role) : Window!OfRole(s, role)[i].role = role
<1>1. PICK P : P = {i \in DOMAIN s : s[i].role = role}
  OBVIOUS
<1>2. P \in SUBSET DOMAIN s /\ Window!OfRole(s, role) = Window!Picked(s, P) /\ s \in Seq(Messages)
  BY <1>1 DEF Window!OfRole, Lists
<1>3. /\ DOMAIN Window!Picked(s, P) = 1 .. Cardinality(P)
      /\ \A k \in 1 .. Cardinality(P) : Nth(P, k) \in P /\ Window!Picked(s, P)[k] = s[Nth(P, k)]
  BY <1>2, PickedParts
<1> QED
  BY <1>1, <1>2, <1>3, PickedKeeps

LEMMA DialogueKeeps ==
    ASSUME NEW s \in Lists
    PROVE  /\ Keeps(Window!Dialogue(s), s)
           /\ \A i \in DOMAIN Window!Dialogue(s) : Window!Dialogue(s)[i].role # "system"
           /\ \A q : EndsOn(s, q) /\ q.role = "user" => EndsOn(Window!Dialogue(s), q)
<1>1. PICK P : P = {i \in DOMAIN s : s[i].role # "system"}
  OBVIOUS
<1>2. P \in SUBSET DOMAIN s /\ Window!Dialogue(s) = Window!Picked(s, P) /\ s \in Seq(Messages)
  BY <1>1 DEF Window!Dialogue, Lists
<1>3. /\ DOMAIN Window!Picked(s, P) = 1 .. Cardinality(P)
      /\ \A k \in 1 .. Cardinality(P) : Nth(P, k) \in P /\ Window!Picked(s, P)[k] = s[Nth(P, k)]
  BY <1>2, PickedParts
<1>4. ASSUME NEW q, EndsOn(s, q), q.role = "user" PROVE Len(s) \in P
  BY <1>1, <1>4 DEF EndsOn, Lists
<1> QED
  BY <1>1, <1>2, <1>3, <1>4, PickedKeeps

LEMMA Boundaries ==
    ASSUME NEW s \in Lists
    PROVE  /\ Keeps(Window!WithBoundary(s), s)
           /\ \A q : EndsOn(s, q) /\ q.role = "user" => EndsOn(Window!WithBoundary(s), q)
<1>1. PICK ai : ai = {i \in DOMAIN s : s[i].role = "ai"}
  OBVIOUS
<1>2. DOMAIN s = 1 .. Len(s) /\ Len(s) \in Nat
  BY DEF Lists
<1>3. PICK f : f = Window!FirstAi(s)
  OBVIOUS
<1>4. (f = 0 /\ ai = {}) \/ f \in ai
  <2>1. CASE ai = {}
    BY <1>1, <1>3, <2>1 DEF Window!FirstAi
  <2>2. CASE ai # {}
    <3>1. ai \in SUBSET Nat
      BY <1>1, <1>2
    <3> QED
      BY <1>1, <1>3, <2>2, <3>1, FirstOf DEF Window!FirstAi
  <2> QED
    BY <2>1, <2>2
<1>5. f \in 0 .. Len(s)
  BY <1>1, <1>2, <1>4
<1>6. Window!Boundary \in Messages /\ Window!Boundary.no = 0
  <2>1. PICK c : c = Window!Boundary
    OBVIOUS
  <2>2. c = [role |-> "system", calls |-> {}, text |-> TRUE, size |-> 1, no |-> 0]
    BY <2>1 DEF Window!Boundary, Window!Message
  <2> QED
    BY <2>1, <2>2 DEF Messages
<1>7. PICK t : t = Window!WithBoundary(s)
  OBVIOUS
<1>8. t = SubSeq(s, 1, f) \o <<Window!Boundary>> \o SubSeq(s, f + 1, Len(s))
  <2>1. PICK g : g = f + 1
    OBVIOUS
  <2>2. t = InsertAt(s, g, Window!Boundary)
    BY <1>3, <1>7, <2>1, SameInsert DEF Window!WithBoundary
  <2>3. InsertAt(s, g, Window!Boundary) = SubSeq(s, 1, g - 1) \o <<Window!Boundary>> \o SubSeq(s, g, Len(s))
    BY Zenon DEF InsertAt
  <2>4. g - 1 = f
    BY <1>5, <2>1
  <2> QED
    BY <2>1, <2>2, <2>3, <2>4
<1>9. /\ t \in Lists /\ Len(t) = Len(s) + 1
      /\ \A i \in 1 .. f : t[i] = s[i]
      /\ t[f + 1] = Window!Boundary
      /\ \A i \in f + 2 .. Len(s) + 1 : t[i] = s[i - 1]
  <2>1. PICK a : a = SubSeq(s, 1, f)
    OBVIOUS
  <2>2. PICK b : b = SubSeq(s, f + 1, Len(s))
    OBVIOUS
  <2>3. a \in Lists /\ Len(a) = f /\ \A i \in 1 .. f : a[i] = s[i]
    BY <1>2, <1>5, <2>1 DEF Lists
  <2>4. b \in Lists /\ Len(b) = Len(s) - f /\ \A i \in 1 .. Len(s) - f : b[i] = s[i + f]
    <3>1. PICK g \in 1 .. Len(s) + 1 : g = f + 1
      BY <1>2, <1>5
    <3>2. b \in Lists /\ Len(b) = Len(s) + 1 - g /\ \A i \in 1 .. Len(s) + 1 - g : b[i] = s[i + g - 1]
      BY <1>2, <2>2, <3>1 DEF Lists
    <3>3. Len(s) + 1 - g = Len(s) - f /\ \A i \in 1 .. Len(s) - f : i + g - 1 = i + f
      <4>1. PICK l \in Nat : l = Len(s)
        BY <1>2
      <4>2. f \in Int /\ g \in Int /\ g = f + 1
        BY <1>2, <1>5, <3>1
      <4>3. l + 1 - g = l - f /\ \A i \in 1 .. l - f : i + g - 1 = i + f
        BY <4>1, <4>2
      <4> QED
        BY <4>1, <4>3
    <3> QED
      BY <3>2, <3>3
  <2>5. PICK e : e = a \o <<Window!Boundary>>
    OBVIOUS
  <2>6. e \in Lists /\ Len(e) = f + 1 /\ (\A i \in 1 .. f : e[i] = s[i]) /\ e[f + 1] = Window!Boundary
    BY <1>5, <1>6, <2>3, <2>5 DEF Lists
  <2>7. t = e \o b
    BY <1>8, <2>1, <2>2, <2>5
  <2>8. t \in Lists /\ Len(t) = Len(s) + 1
    <3>0. e \in Seq(Messages) /\ b \in Seq(Messages)
      BY <2>4, <2>6 DEF Lists
    <3>1. t \in Lists /\ Len(t) = Len(e) + Len(b)
      BY <2>7, <3>0 DEF Lists
    <3>2. (f + 1) + (Len(s) - f) = Len(s) + 1
      BY <1>2, <1>5
    <3> QED
      BY <2>4, <2>6, <3>1, <3>2
  <2>9. \A i \in 1 .. f + 1 : t[i] = e[i]
    BY <1>2, <1>5, <2>4, <2>6, <2>7 DEF Lists
  <2>10. \A i \in f + 2 .. Len(s) + 1 : t[i] = b[i - (f + 1)]
    BY <1>2, <1>5, <2>4, <2>6, <2>7 DEF Lists
  <2>11. ASSUME NEW i \in f + 2 .. Len(s) + 1 PROVE t[i] = s[i - 1]
    <3>1. i - (f + 1) \in 1 .. Len(s) - f /\ (i - (f + 1)) + f = i - 1
      BY <1>2, <1>5
    <3> QED
      BY <2>4, <2>10, <3>1
  <2> QED
    BY <1>5, <2>6, <2>8, <2>9, <2>11
<1>10. DOMAIN t = 1 .. Len(s) + 1
  BY <1>9 DEF Lists
<1>11. ASSUME NEW j \in DOMAIN t, t[j].no # 0
       PROVE  \E i \in DOMAIN s : t[j] = s[i] /\ (i = j \/ i = j - 1) /\ (i = j => j <= f)
  <2>1. j # f + 1
    BY <1>6, <1>9, <1>11
  <2>2. CASE j \in 1 .. f
    BY <1>2, <1>5, <1>9, <2>2
  <2>3. CASE j \in f + 2 .. Len(s) + 1
    <3>1. j - 1 \in DOMAIN s /\ t[j] = s[j - 1] /\ j - 1 # j
      BY <1>2, <1>5, <1>9, <2>3
    <3> QED
      BY <3>1
  <2> QED
    BY <1>2, <1>5, <1>10, <2>1, <2>2, <2>3
<1>12. Traced(t, s)
  <2> SUFFICES ASSUME NEW j \in DOMAIN t, t[j].no > 0
               PROVE  \E i \in DOMAIN s : s[i].no = t[j].no /\ s[i].role = t[j].role
    BY DEF Traced
  <2>1. t[j].no # 0
    OBVIOUS
  <2> QED
    BY <1>11, <2>1
<1>13. ASSUME NEW n \in Nat \ {0}, OnlyLast(s, n) PROVE OnlyLast(t, n)
  <2> SUFFICES ASSUME NEW j \in DOMAIN t, t[j].no = n
               PROVE  j = Len(t) /\ t[j].role = "user"
    BY DEF OnlyLast
  <2>1. PICK i \in DOMAIN s : t[j] = s[i] /\ (i = j \/ i = j - 1) /\ (i = j => j <= f)
    BY <1>11
  <2>2. i = Len(s) /\ s[i].role = "user"
    BY <1>13, <2>1 DEF OnlyLast
  <2>3. f # Len(s)
    BY <1>1, <1>4, <2>2, <1>2
  <2>4. i # j
    BY <1>5, <2>1, <2>2, <2>3
  <2>5. j = Len(s) + 1
    BY <1>2, <1>10, <2>1, <2>2, <2>4
  <2> QED
    BY <1>9, <2>1, <2>2, <2>5
<1>14. ASSUME NEW q, EndsOn(s, q), q.role = "user" PROVE EndsOn(t, q)
  <2>1. Len(s) \in DOMAIN s /\ s[Len(s)] = q
    BY <1>2, <1>14 DEF EndsOn
  <2>2. f # Len(s)
    <3>1. Len(s) \notin ai
      BY <1>1, <1>14, <2>1
    <3> QED
      BY <1>2, <1>4, <2>1, <3>1
  <2>3. Len(s) + 1 \in f + 2 .. Len(s) + 1 /\ (Len(s) + 1) - 1 = Len(s)
    <3>1. PICK l \in Nat : l = Len(s)
      BY <1>2
    <3>2. f \in 0 .. l /\ f # l
      BY <1>5, <2>2, <3>1
    <3>3. l + 1 \in f + 2 .. l + 1 /\ (l + 1) - 1 = l
      BY <3>2
    <3> QED
      BY <3>1, <3>3
  <2> QED
    BY <1>2, <1>9, <2>1, <2>3 DEF EndsOn
<1> QED
  BY <1>7, <1>9, <1>12, <1>13, <1>14 DEF Keeps

LEMMA Tokens ==
    ASSUME NEW s \in Lists
    PROVE  /\ Window!TextTokens(s) \in Nat
           /\ Len(s) = 1 => Window!TextTokens(s) = s[1].size
           /\ Len(s) = 0 => Window!AllTokens(s) = 0
           /\ Len(s) = 1 /\ s[1].role # "ai" => Window!AllTokens(s) = s[1].size
<1>1. DOMAIN s = 1 .. Len(s) /\ Len(s) \in Nat /\ \A i \in DOMAIN s : s[i].size \in Nat
  BY DEF Lists, Messages
<1>2. PICK n \in Nat : n = Len(s)
  BY <1>1
<1>3. PICK sizes : sizes = [i \in DOMAIN s |-> s[i].size]
  OBVIOUS
<1>4. \A k \in 1 .. n : sizes[k] = s[k].size /\ sizes[k] \in Nat
  BY <1>1, <1>2, <1>3
<1>5. Window!TextTokens(s) = Window!Total(n, sizes)
  BY <1>2, <1>3 DEF Window!TextTokens
<1>6. Window!TextTokens(s) \in Nat /\ (n = 1 => Window!TextTokens(s) = s[1].size)
  BY <1>4, <1>5, TotalIsSum
<1>7. PICK costs : costs = [i \in DOMAIN s |-> Window!Cost(s[i])]
  OBVIOUS
<1>8. Window!AllTokens(s) = Window!Total(n, costs)
  BY <1>2, <1>7 DEF Window!AllTokens
<1>9. n = 0 => Window!AllTokens(s) = 0
  BY <1>8, TotalIsSum
<1>10. ASSUME n = 1, s[1].role # "ai" PROVE Window!AllTokens(s) = s[1].size
  <2>1. 1 \in DOMAIN s /\ s[1].size \in Nat
    BY <1>1, <1>2, <1>10
  <2>2. costs[1] = s[1].size
    BY <1>7, <1>10, <2>1 DEF Window!Cost
  <2>3. \A k \in 1 .. n : costs[k] \in Nat
    BY <1>10, <2>1, <2>2
  <2> QED
    BY <1>8, <1>10, <2>2, <2>3, TotalIsSum
<1> QED
  BY <1>2, <1>6, <1>9, <1>10

LEMMA MicroKeeps ==
    ASSUME NEW s \in Lists
    PROVE  /\ Keeps(Window!Micro(s), s)
           /\ \A q : EndsOn(s, q) /\ q.role = "user" => EndsOn(Window!Micro(s), q)
<1>1. PICK t : t = Window!Micro(s)
  OBVIOUS
<1>2. DOMAIN s = 1 .. Len(s) /\ Len(s) \in Nat /\ \A i \in DOMAIN s : s[i] \in Messages
  BY DEF Lists
<1>3. ASSUME NEW m \in Messages, m.role = "tool"
      PROVE  [m EXCEPT !.size = 1] \in Messages
  <2>1. PICK one \in Nat : one = 1
    OBVIOUS
  <2>2. PICK e : e = [m EXCEPT !.size = one]
    OBVIOUS
  <2>3. e.role = "tool" /\ e.calls = m.calls
        /\ e \in [role : {"system", "user", "ai", "tool"}, calls : SUBSET (Nat \X Nat), text : BOOLEAN, size : Nat, no : Nat]
    BY <1>3, <2>2 DEF Messages
  <2>4. e \in Messages
    BY <1>3, <2>3 DEF Messages
  <2> QED
    BY <2>1, <2>2, <2>4
<1>4. DOMAIN t = DOMAIN s
  BY <1>1 DEF Window!Micro
<1>5. ASSUME NEW i \in DOMAIN s
      PROVE  /\ t[i] \in Messages /\ t[i].role = s[i].role /\ t[i].no = s[i].no
             /\ s[i].role # "tool" => t[i] = s[i]
  <2>1. t[i] = s[i] \/ (s[i].role = "tool" /\ t[i] = [s[i] EXCEPT !.size = 1])
    BY <1>1 DEF Window!Micro
  <2>2. [s[i] EXCEPT !.size = 1].role = s[i].role /\ [s[i] EXCEPT !.size = 1].no = s[i].no
    BY <1>2 DEF Messages
  <2> QED
    BY <1>2, <1>3, <2>1, <2>2
<1>6. t \in Lists /\ Len(t) = Len(s)
  <2>1. t \in [1 .. Len(s) -> Messages]
    <3>1. t = [i \in DOMAIN t |-> t[i]]
      BY <1>1 DEF Window!Micro
    <3> QED
      BY <1>2, <1>4, <1>5, <3>1
  <2> QED
    BY <1>2, <2>1 DEF Lists
<1>7. Traced(t, s) /\ \A n : OnlyLast(s, n) => OnlyLast(t, n)
  BY <1>4, <1>5, <1>6 DEF Traced, OnlyLast
<1>8. \A q : EndsOn(s, q) /\ q.role = "user" => EndsOn(t, q)
  BY <1>2, <1>5, <1>6 DEF EndsOn
<1> QED
  BY <1>1, <1>6, <1>7, <1>8 DEF Keeps

LEMMA SplitInside ==
    ASSUME NEW s \in Lists, KeepRecent \in Nat
    PROVE  /\ Window!Split(s) \in 1 .. Len(s) + 1
           /\ \A q : EndsOn(s, q) /\ q.role = "user" /\ q.size <= KeepRecent => Window!Split(s) <= Len(s)
<1>1. DOMAIN s = 1 .. Len(s) /\ Len(s) \in Nat
  BY DEF Lists
<1>2. PICK l \in Nat : l = Len(s)
  BY <1>1
<1>3. PICK system : system = {i \in DOMAIN s : s[i].role = "system"}
  OBVIOUS
<1>4. PICK b : b = Window!FirstBody(s)
  OBVIOUS
<1>5. b = 1 \/ \E i \in system : b = 1 + i
  <2>1. CASE system = {}
    BY <1>3, <1>4, <2>1 DEF Window!FirstBody
  <2>2. CASE system # {}
    <3>1. system \in SUBSET Nat
      BY <1>1, <1>3
    <3>2. (CHOOSE i \in system : \A j \in system : i <= j) \in system
      BY <2>2, <3>1, FirstOf
    <3> QED
      BY <1>3, <1>4, <2>2, <3>2 DEF Window!FirstBody
  <2> QED
    BY <2>1, <2>2
<1>6. b \in 1 .. l + 1
  BY <1>1, <1>2, <1>3, <1>5
<1>7. PICK fits : fits = {i \in b .. l + 1 : Window!AllTokens(SubSeq(s, i, Len(s))) <= KeepRecent}
  OBVIOUS
<1>8. l + 1 \in fits
  <2>1. PICK e : e = SubSeq(s, l + 1, Len(s))
    OBVIOUS
  <2>2. e \in Lists /\ Len(e) = 0
    BY <1>2, <2>1 DEF Lists
  <2>3. Window!AllTokens(e) = 0
    BY <2>2, Tokens
  <2>4. Window!AllTokens(e) <= KeepRecent
    BY <2>3
  <2> QED
    BY <1>6, <1>7, <2>1, <2>4
<1>9. fits \in SUBSET Nat /\ fits # {}
  BY <1>6, <1>7, <1>8
<1>10. Window!Split(s) = CHOOSE i \in fits : \A j \in fits : i <= j
  BY <1>2, <1>4, <1>7 DEF Window!Split
<1>11. Window!Split(s) \in fits /\ \A k \in fits : Window!Split(s) <= k
  BY <1>9, <1>10, FirstOf
<1>12. ASSUME NEW q, EndsOn(s, q), q.role = "user", q.size <= KeepRecent
       PROVE  l \in fits
  <2>1. l \in 1 .. l /\ l \in DOMAIN s /\ s[l] = q
    BY <1>1, <1>2, <1>12 DEF EndsOn
  <2>2. l \notin system
    BY <1>3, <1>12, <2>1
  <2>3. b <= l
    BY <1>1, <1>2, <1>3, <1>5, <2>1, <2>2
  <2>4. PICK e : e = SubSeq(s, l, Len(s))
    OBVIOUS
  <2>5. e \in Lists /\ Len(e) = 1 /\ e[1] = q
    BY <1>2, <2>1, <2>4 DEF Lists
  <2>6. Window!AllTokens(e) = q.size
    BY <1>12, <2>5, Tokens
  <2> QED
    BY <1>6, <1>7, <1>12, <2>1, <2>3, <2>4, <2>6
<1> QED
  BY <1>2, <1>6, <1>7, <1>11, <1>12

LEMMA FullKeeps ==
    ASSUME NEW s \in Lists, KeepRecent \in Nat
    PROVE  /\ Keeps(Window!Full(s, 0), s)
           /\ \A q : EndsOn(s, q) /\ q.role = "user" /\ q.size <= KeepRecent => EndsOn(Window!Full(s, 0), q)
<1>1. PICK from \in 1 .. Len(s) + 1 : from = Window!Split(s)
  BY SplitInside
<1>2. PICK recent : recent = SubSeq(s, from, Len(s))
  OBVIOUS
<1>3. recent \in Lists /\ Keeps(recent, s)
      /\ \A q : EndsOn(s, q) /\ from <= Len(s) => EndsOn(recent, q)
  BY <1>2, TailKeeps DEF Keeps
<1>4. PICK t : t = Window!Dialogue(recent)
  OBVIOUS
<1>5. Keeps(t, s) /\ \A q : EndsOn(recent, q) /\ q.role = "user" => EndsOn(t, q)
  BY <1>3, <1>4, DialogueKeeps, KeepsAll
<1>6. PICK c : c = Window!Summary(0)
  OBVIOUS
<1>7. c \in Messages /\ c.no = 0
  BY <1>6 DEF Window!Summary, Window!Message, Messages
<1>8. PICK system : system = Window!OfRole(s, "system")
  OBVIOUS
<1>9. system \in Lists /\ \A i \in DOMAIN system : system[i].no = 0
  <2>1. system \in Lists /\ \A i \in DOMAIN system : system[i].role = "system"
    BY <1>8, RoleKeeps DEF Keeps
  <2> QED
    BY <2>1 DEF Lists, Messages
<1>10. PICK u : u = system \o <<c>>
  OBVIOUS
<1>11. u \in Lists /\ \A i \in DOMAIN u : u[i].no = 0
  <2>1. u \in Lists /\ Len(u) = Len(system) + 1 /\ Len(system) \in Nat
        /\ (\A i \in 1 .. Len(system) : u[i] = system[i]) /\ u[Len(system) + 1] = c
    BY <1>7, <1>9, <1>10 DEF Lists
  <2>2. DOMAIN u = 1 .. Len(system) + 1 /\ DOMAIN system = 1 .. Len(system)
    BY <1>9, <2>1 DEF Lists
  <2> QED
    BY <1>7, <1>9, <2>1, <2>2
<1>12. Window!Full(s, 0) = u \o t
  BY <1>1, <1>2, <1>4, <1>6, <1>8, <1>10 DEF Window!Full
<1>13. Keeps(u \o t, s) /\ \A q : EndsOn(t, q) => EndsOn(u \o t, q)
  BY <1>5, <1>11, PrefixKeeps
<1> QED
  BY <1>1, <1>3, <1>5, <1>12, <1>13, SplitInside

LEMMA CompressedKeeps ==
    ASSUME NEW s \in Lists, NEW strategy, NEW summarised \in BOOLEAN, KeepRecent \in Nat
    PROVE  /\ Keeps(Window!Compressed(strategy, s, summarised, 0), s)
           /\ \A q : EndsOn(s, q) /\ q.role = "user" /\ q.size <= KeepRecent =>
                 EndsOn(Window!Compressed(strategy, s, summarised, 0), q)
<1>1. CASE strategy = "none"
  BY <1>1, KeepsItself DEF Window!Compressed
<1>2. CASE strategy = "micro"
  <2>1. Window!Compressed(strategy, s, summarised, 0) = s \/ Window!Compressed(strategy, s, summarised, 0) = Window!Micro(s)
    BY <1>2 DEF Window!Compressed
  <2> QED
    BY <2>1, KeepsItself, MicroKeeps
<1>3. CASE strategy \notin {"none", "micro"}
  <2>1. PICK t : t = IF strategy = "full" /\ Window!Compressible(s) /\ summarised THEN Window!Full(s, 0) ELSE s
    OBVIOUS
  <2>2. Window!Compressed(strategy, s, summarised, 0) = Window!WithBoundary(t)
    BY <1>3, <2>1 DEF Window!Compressed
  <2>3. t \in Lists /\ Keeps(t, s)
        /\ \A q : EndsOn(s, q) /\ q.role = "user" /\ q.size <= KeepRecent => EndsOn(t, q)
    BY <2>1, FullKeeps, KeepsItself DEF Keeps
  <2>4. Keeps(Window!WithBoundary(t), t) /\ \A q : EndsOn(t, q) /\ q.role = "user" => EndsOn(Window!WithBoundary(t), q)
    BY <2>3, Boundaries
  <2> QED
    BY <2>2, <2>3, <2>4, KeepsAll
<1> QED
  BY <1>1, <1>2, <1>3

\* A part that leaves the front as it is.
LEMMA FrontPicked ==
    ASSUME NEW S, NEW s \in Seq(S), NEW P \in SUBSET DOMAIN s, NEW n \in 0 .. Len(s), 1 .. n \subseteq P
    PROVE  /\ n <= Cardinality(P)
           /\ \A k \in 1 .. n : Nth(P, k) = k /\ Window!Picked(s, P)[k] = s[k]
           /\ \A k \in 1 .. Cardinality(P) : k > n => Nth(P, k) > n
<1>1. /\ DOMAIN s = 1 .. Len(s) /\ Len(s) \in Nat
      /\ \A k \in 1 .. Cardinality(P) : Nth(P, k) \in P /\ Window!Picked(s, P)[k] = s[Nth(P, k)]
      /\ \A k, l \in 1 .. Cardinality(P) : k < l => Nth(P, k) < Nth(P, l)
      /\ \A i \in P : Window!Rank(P, i) \in 1 .. Cardinality(P) /\ Nth(P, Window!Rank(P, i)) = i
      /\ Cardinality(P) \in Nat
  <2>1. Cardinality(P) = Len(Window!Picked(s, P)) /\ Window!Picked(s, P) \in Seq(S)
    BY PickedParts
  <2> QED
    BY <2>1, PickedParts
<1>2. ASSUME NEW i \in 1 .. n
      PROVE  Window!Rank(P, i) = i
  <2>1. {j \in P : j <= i} = 1 .. i
    BY <1>1, <1>2
  <2>2. Cardinality(1 .. i) = i
    BY <1>2, FS_Interval
  <2> QED
    BY <2>1, <2>2, SameCount DEF Window!Rank
<1>3. \A k \in 1 .. n : k \in 1 .. Cardinality(P) /\ Nth(P, k) = k
  BY <1>1, <1>2
<1>4. n <= Cardinality(P)
  <2>1. CASE n = 0
    BY <1>1, <2>1
  <2>2. CASE n # 0
    <3>1. n \in 1 .. n
      BY <2>2
    <3> QED
      BY <1>1, <1>3, <3>1
  <2> QED
    BY <2>1, <2>2
<1>5. ASSUME NEW k \in 1 .. Cardinality(P), k > n
      PROVE  Nth(P, k) > n
  <2>1. CASE n = 0
    BY <1>1, <2>1
  <2>2. CASE n # 0
    <3>1. n \in 1 .. n
      BY <2>2
    <3>2. Nth(P, n) = n /\ Nth(P, n) < Nth(P, k)
      BY <1>1, <1>3, <1>5, <3>1
    <3>3. Nth(P, k) \in Nat
      BY <1>1
    <3> QED
      BY <3>2, <3>3
  <2> QED
    BY <2>1, <2>2
<1> QED
  BY <1>1, <1>3, <1>4, <1>5

\* The first n messages are the system's.
SystemFirst(s, n) == n \in 0 .. Len(s) /\ \A i \in DOMAIN s : s[i].role = "system" <=> i <= n

LEMMA FrontStays ==
    ASSUME NEW s \in Lists, NEW n, SystemFirst(s, n), NEW P \in SUBSET DOMAIN s, 1 .. n \subseteq P
    PROVE  SystemFirst(Window!Picked(s, P), n) /\ \A k \in 1 .. n : Window!Picked(s, P)[k] = s[k]
<1>1. PICK t : t = Window!Picked(s, P)
  OBVIOUS
<1>2. s \in Seq(Messages) /\ DOMAIN s = 1 .. Len(s) /\ Len(s) \in Nat /\ n \in 0 .. Len(s)
  BY DEF Lists, SystemFirst
<1>3. /\ n <= Cardinality(P)
      /\ \A k \in 1 .. n : t[k] = s[k]
      /\ \A k \in 1 .. Cardinality(P) : k > n => Nth(P, k) > n
  BY <1>1, <1>2, FrontPicked
<1>4. /\ Len(t) = Cardinality(P) /\ Len(t) \in Nat /\ DOMAIN t = 1 .. Cardinality(P)
      /\ \A k \in 1 .. Cardinality(P) : Nth(P, k) \in P /\ t[k] = s[Nth(P, k)]
  <2>1. t \in Seq(Messages)
    BY <1>1, <1>2, PickedParts
  <2> QED
    BY <1>1, <1>2, <2>1, PickedParts
<1>5. ASSUME NEW k \in 1 .. Cardinality(P)
      PROVE  t[k].role = "system" <=> k <= n
  <2>1. CASE k <= n
    <3>1. k \in 1 .. n /\ k \in DOMAIN s
      BY <1>2, <2>1
    <3> QED
      BY <1>3, <2>1, <3>1 DEF SystemFirst
  <2>2. CASE k > n
    <3>1. Nth(P, k) \in DOMAIN s /\ ~(Nth(P, k) <= n)
      BY <1>2, <1>3, <1>4, <2>2
    <3> QED
      BY <1>2, <1>4, <2>2, <3>1 DEF SystemFirst
  <2> QED
    BY <1>2, <2>1, <2>2
<1>6. SystemFirst(t, n)
  BY <1>2, <1>3, <1>4, <1>5 DEF SystemFirst
<1> QED
  BY <1>1, <1>3, <1>6

LEMMA PairsFront ==
    ASSUME NEW s \in Lists, NEW n, SystemFirst(s, n)
    PROVE  SystemFirst(Window!SanitizePairs(s), n) /\ \A k \in 1 .. n : Window!SanitizePairs(s)[k] = s[k]
<1>0. DOMAIN s = 1 .. Len(s) /\ Len(s) \in Nat /\ n \in 0 .. Len(s)
  BY DEF Lists, SystemFirst
<1>1. PICK c : c = Window!Cleared(s, Window!Open(s))
  OBVIOUS
<1>2. \A i \in Window!Open(s) : i \in DOMAIN s /\ s[i].role = "ai"
  BY DEF Window!Open
<1>3. /\ c \in Lists /\ Len(c) = Len(s) /\ DOMAIN c = DOMAIN s
      /\ \A i \in DOMAIN s : c[i].role = s[i].role /\ (i \notin Window!Open(s) => c[i] = s[i])
  BY <1>1, <1>2, ClearedKeeps DEF Keeps, Lists
<1>4. PICK P : P = DOMAIN s \ (Window!Open(s) \ Window!Texts(s))
  OBVIOUS
<1>5. \A k \in 1 .. n : k \in DOMAIN s /\ k \notin Window!Open(s) /\ c[k] = s[k]
  <2> SUFFICES ASSUME NEW k \in 1 .. n PROVE k \in DOMAIN s /\ k \notin Window!Open(s) /\ c[k] = s[k]
    OBVIOUS
  <2>1. k \in DOMAIN s /\ k <= n
    BY <1>0
  <2>2. s[k].role = "system"
    BY <2>1 DEF SystemFirst
  <2> QED
    BY <1>2, <1>3, <2>1, <2>2
<1>6. SystemFirst(c, n)
  BY <1>3 DEF SystemFirst
<1>7. PICK left : left = Window!Picked(c, P)
  OBVIOUS
<1>8. left \in Lists /\ SystemFirst(left, n) /\ \A k \in 1 .. n : left[k] = c[k]
  <2>1. P \in SUBSET DOMAIN c /\ 1 .. n \subseteq P
    BY <1>3, <1>4, <1>5
  <2> QED
    BY <1>3, <1>6, <1>7, <2>1, FrontStays, PickedKeeps DEF Keeps
<1>9. PICK Q : Q = {i \in DOMAIN left : left[i].role = "tool" => left[i].calls \subseteq Window!Asked(left)}
  OBVIOUS
<1>10. Window!SanitizePairs(s) = Window!Picked(left, Q)
  BY <1>1, <1>4, <1>7, <1>9 DEF Window!SanitizePairs
<1>11. Q \in SUBSET DOMAIN left /\ 1 .. n \subseteq Q
  <2> SUFFICES ASSUME NEW k \in 1 .. n PROVE k \in Q
    BY <1>9
  <2>1. k \in DOMAIN left /\ k <= n
    BY <1>8 DEF SystemFirst, Lists
  <2>2. left[k].role = "system"
    BY <1>8, <2>1 DEF SystemFirst
  <2> QED
    BY <1>9, <2>1, <2>2
<1>12. SystemFirst(Window!Picked(left, Q), n) /\ \A k \in 1 .. n : Window!Picked(left, Q)[k] = left[k]
  BY <1>8, <1>11, FrontStays
<1> QED
  BY <1>5, <1>8, <1>10, <1>12

LEMMA FrontIsSystem ==
    ASSUME NEW s \in Lists, NEW n, SystemFirst(s, n)
    PROVE  Window!OfRole(s, "system") = [k \in 1 .. n |-> s[k]]
<1>1. DOMAIN s = 1 .. Len(s) /\ Len(s) \in Nat /\ n \in 0 .. Len(s) /\ s \in Seq(Messages)
  BY DEF Lists, SystemFirst
<1>2. PICK P : P = {i \in DOMAIN s : s[i].role = "system"}
  OBVIOUS
<1>3. P = 1 .. n
  BY <1>1, <1>2 DEF SystemFirst
<1>4. Cardinality(P) = n
  BY <1>1, <1>3, FS_Interval
<1>5. \A k \in 1 .. n : Window!Picked(s, P)[k] = s[k]
  BY <1>1, <1>2, <1>3, FrontPicked
<1>6. Window!Picked(s, P) = [k \in 1 .. n |-> Window!Picked(s, P)[k]]
  BY <1>4, SameCount DEF Window!Picked
<1> QED
  BY <1>2, <1>5, <1>6 DEF Window!OfRole

LEMMA TrimKeeps ==
    ASSUME NEW s \in Lists, MaxContext \in Nat
    PROVE  /\ Keeps(Window!Trim(s), s)
           /\ \A q : /\ EndsOn(s, q) /\ q.role = "user"
                     /\ Window!TextTokens(Window!OfRole(Window!Trim(s), "system")) + q.size + 1 <= MaxContext
                  => EndsOn(Window!Trim(s), q)
<1>1. CASE Window!TextTokens(s) <= MaxContext
  BY <1>1, PairsKeeps DEF Window!Trim
<1>2. CASE ~(Window!TextTokens(s) <= MaxContext)
  <2>1. PICK system : system = Window!OfRole(s, "system")
    OBVIOUS
  <2>2. PICK others : others = Window!Dialogue(s)
    OBVIOUS
  <2>3. /\ system \in Lists /\ others \in Lists /\ Keeps(others, s)
        /\ \A i \in DOMAIN system : system[i].role = "system" /\ system[i].no = 0
        /\ \A i \in DOMAIN others : others[i].role # "system"
        /\ \A q : EndsOn(s, q) /\ q.role = "user" => EndsOn(others, q)
    <3>1. system \in Lists /\ \A i \in DOMAIN system : system[i].role = "system"
      BY <2>1, RoleKeeps DEF Keeps
    <3>2. \A i \in DOMAIN system : system[i].no = 0
      BY <3>1 DEF Lists, Messages
    <3> QED
      BY <2>2, <3>1, <3>2, DialogueKeeps DEF Keeps
  <2>4. PICK l \in Nat : l = Len(others)
    BY <2>3 DEF Lists
  <2>5. PICK fits : fits = {n \in 1 .. l + 1 :
                       Window!TextTokens(system) + Window!TextTokens(SubSeq(others, n, Len(others))) <= MaxContext}
    OBVIOUS
  <2>6. PICK from : from = IF fits = {} THEN l + 1 ELSE CHOOSE n \in fits : \A k \in fits : n <= k
    OBVIOUS
  <2>7. from \in 1 .. l + 1 /\ \A n \in fits : from <= n
    <3>1. CASE fits = {}
      BY <2>6, <3>1
    <3>2. CASE fits # {}
      <4>1. fits \in SUBSET Nat /\ fits \in SUBSET (1 .. l + 1)
        BY <2>5
      <4> QED
        BY <2>6, <3>2, <4>1, FirstOf
    <3> QED
      BY <3>1, <3>2
  <2>8. PICK tail : tail = SubSeq(others, from, Len(others))
    OBVIOUS
  <2>9. /\ tail \in Lists /\ Keeps(tail, others)
        /\ \A q : EndsOn(others, q) /\ from <= l => EndsOn(tail, q)
        /\ \A j \in DOMAIN tail : tail[j].role # "system"
    <3>1. from \in 1 .. Len(others) + 1
      BY <2>4, <2>7
    <3>2. \A j \in DOMAIN tail : \E i \in DOMAIN others : tail[j] = others[i]
      BY <2>3, <2>8, <3>1, TailKeeps
    <3> QED
      BY <2>3, <2>4, <2>8, <3>1, <3>2, TailKeeps DEF Keeps
  <2>10. PICK t : t = system \o tail
    OBVIOUS
  <2>11. t \in Lists /\ Keeps(t, s) /\ \A q : EndsOn(tail, q) => EndsOn(t, q)
    <3>1. Keeps(tail, s)
      BY <2>3, <2>9, KeepsAll
    <3> QED
      BY <2>3, <2>10, <3>1, PrefixKeeps DEF Keeps
  <2>12. Window!Trim(s) = Window!SanitizePairs(t)
    BY <1>2, <2>1, <2>2, <2>4, <2>5, <2>6, <2>8, <2>10 DEF Window!Trim
  <2>13. Keeps(Window!Trim(s), s) /\ \A q : EndsOn(t, q) /\ q.role = "user" => EndsOn(Window!Trim(s), q)
    BY <2>11, <2>12, PairsKeeps, KeepsAll
  <2>14. Window!OfRole(Window!Trim(s), "system") = system
    <3>1. PICK n \in Nat : n = Len(system)
      BY <2>3 DEF Lists
    <3>2. SystemFirst(t, n) /\ \A k \in 1 .. n : t[k] = system[k]
      <4>1. /\ Len(t) = n + Len(tail) /\ Len(tail) \in Nat /\ DOMAIN t = 1 .. Len(t)
            /\ \A i \in 1 .. n : t[i] = system[i]
            /\ \A i \in n + 1 .. Len(t) : t[i] = tail[i - n] /\ i - n \in DOMAIN tail
        BY <2>3, <2>9, <2>10, <2>11, <3>1 DEF Lists
      <4>2. \A i \in 1 .. n : i \in DOMAIN system
        BY <2>3, <3>1 DEF Lists
      <4>3. ASSUME NEW i \in 1 .. Len(t) PROVE t[i].role = "system" <=> i <= n
        <5>1. CASE i <= n
          <6>1. i \in 1 .. n
            BY <5>1
          <6> QED
            BY <2>3, <4>1, <4>2, <5>1, <6>1
        <5>2. CASE i > n
          <6>1. i \in n + 1 .. Len(t)
            BY <4>1, <5>2
          <6> QED
            BY <2>9, <4>1, <5>2, <6>1
        <5> QED
          BY <5>1, <5>2
      <4> QED
        BY <4>1, <4>3 DEF SystemFirst
    <3>3. PICK r : r = Window!SanitizePairs(t)
      OBVIOUS
    <3>4. r \in Lists /\ SystemFirst(r, n) /\ \A k \in 1 .. n : r[k] = t[k]
      BY <2>11, <3>2, <3>3, PairsFront, PairsKeeps DEF Keeps
    <3>5. Window!OfRole(r, "system") = [k \in 1 .. n |-> system[k]]
      BY <3>2, <3>4, FrontIsSystem
    <3>6. system = [k \in 1 .. n |-> system[k]]
      BY <2>3, <3>1 DEF Lists
    <3> QED
      BY <2>12, <3>3, <3>5, <3>6
  <2>15. ASSUME NEW q, EndsOn(s, q), q.role = "user",
                Window!TextTokens(Window!OfRole(Window!Trim(s), "system")) + q.size + 1 <= MaxContext
         PROVE  from <= l
    <3>1. EndsOn(others, q) /\ l \in 1 .. l /\ others[l] = q /\ q \in Messages /\ q.size \in Nat
      BY <2>3, <2>4, <2>15 DEF EndsOn, Lists, Messages
    <3>2. PICK e : e = SubSeq(others, l, Len(others))
      OBVIOUS
    <3>3. e \in Lists /\ Len(e) = 1 /\ e[1] = q
      BY <2>3, <2>4, <3>1, <3>2 DEF Lists
    <3>4. Window!TextTokens(e) = q.size /\ Window!TextTokens(system) \in Nat
      BY <2>3, <3>3, Tokens
    <3>5. Window!TextTokens(system) + q.size + 1 <= MaxContext
      BY <2>14, <2>15
    <3>6. Window!TextTokens(system) + Window!TextTokens(e) <= MaxContext
      BY <3>1, <3>4, <3>5
    <3>7. l \in fits
      BY <2>5, <3>1, <3>2, <3>6
    <3> QED
      BY <2>7, <3>7
  <2> QED
    BY <2>3, <2>9, <2>11, <2>13, <2>15
<1> QED
  BY <1>1, <1>2

-----------------------------------------------------------------------------
(* What the model is given *)
LEMMA StrictIsWhole ==
    ASSUME NEW s \in Lists
    PROVE  /\ \A i \in DOMAIN Window!SanitizeStrict(s) :
                 /\ Window!SanitizeStrict(s)[i].role = "ai" => Window!Complete(Window!SanitizeStrict(s), i)
                 /\ Window!SanitizeStrict(s)[i].role = "tool" => Window!InBlock(Window!SanitizeStrict(s), i)
           /\ \A i \in DOMAIN s : s[i].role = "tool" /\ Window!InBlock(s, i) =>
                 \E j \in DOMAIN Window!SanitizeStrict(s) : Window!SanitizeStrict(s)[j] = s[i]
           /\ Window!SanitizeStrict(s) \in Lists
<1>1. PICK c : c = Window!Cleared(s, Window!Unanswered(s))
  OBVIOUS
<1>2. PICK P : P = DOMAIN s \ (Window!Strays(s) \cup (Window!Unanswered(s) \ Window!Texts(s)))
  OBVIOUS
<1>3. PICK t : t = Window!Picked(c, P)
  OBVIOUS
<1>4. Window!SanitizeStrict(s) = t
  BY <1>1, <1>2, <1>3 DEF Window!SanitizeStrict
<1>5. \A i \in Window!Unanswered(s) : i \in DOMAIN s /\ s[i].role = "ai"
  BY DEF Window!Unanswered
<1>6. /\ c \in Lists /\ Len(c) = Len(s) /\ DOMAIN c = DOMAIN s
      /\ \A i \in DOMAIN s :
            /\ c[i].role = s[i].role
            /\ i \in Window!Unanswered(s) => c[i].calls = {}
            /\ i \notin Window!Unanswered(s) => c[i] = s[i]
  BY <1>1, <1>5, ClearedKeeps DEF Keeps, Lists
<1>7. PICK m : m = Cardinality(P)
  OBVIOUS
<1>8. /\ t \in Lists /\ Len(t) = m /\ DOMAIN t = 1 .. m /\ m \in Nat
      /\ \A k \in 1 .. m : Nth(P, k) \in P /\ t[k] = c[Nth(P, k)] /\ Window!Rank(P, Nth(P, k)) = k
      /\ \A k, l \in 1 .. m : k < l => Nth(P, k) < Nth(P, l)
      /\ \A i \in P : Window!Rank(P, i) \in 1 .. m /\ Nth(P, Window!Rank(P, i)) = i /\ t[Window!Rank(P, i)] = c[i]
      /\ \A i, j \in P : i < j => Window!Rank(P, i) < Window!Rank(P, j)
  <2>1. c \in Seq(Messages) /\ P \in SUBSET DOMAIN c
    BY <1>2, <1>6 DEF Lists
  <2>2. t \in Lists /\ Len(t) = m /\ DOMAIN t = 1 .. m
    BY <1>3, <1>7, <2>1, PickedParts DEF Lists
  <2> QED
    BY <1>3, <1>7, <2>1, <2>2, PickedParts DEF Lists
<1>9. DOMAIN s = 1 .. Len(s) /\ Len(s) \in Nat /\ P \in SUBSET DOMAIN s /\ \A i \in DOMAIN s : s[i] \in Messages
  BY <1>2 DEF Lists
\* The results of an assistant that stays with its calls stay behind it.
<1>10. ASSUME NEW i \in DOMAIN s, s[i].role = "ai", s[i].calls # {}, Window!Complete(s, i),
              NEW j \in Window!Block(s, i), s[j].calls \subseteq s[i].calls
       PROVE  /\ i \in P /\ t[Window!Rank(P, i)] = s[i] /\ j \in P /\ t[Window!Rank(P, j)] = s[j]
              /\ Window!Rank(P, j) \in Window!Block(t, Window!Rank(P, i)) /\ Window!Rank(P, i) \in 1 .. Window!Rank(P, j) - 1
  <2>1. j \in i + 1 .. Len(s) /\ \A k \in i + 1 .. j : s[k].role = "tool"
    BY DEF Window!Block
  <2>2. j \in DOMAIN s /\ i < j /\ s[j].role = "tool" /\ i \in 1 .. j - 1
    BY <1>9, <2>1
  <2>3. Window!InBlock(s, j)
    BY <1>10, <2>2 DEF Window!InBlock
  <2>4. i \in P /\ t[Window!Rank(P, i)] = s[i]
    <3>1. i \notin Window!Unanswered(s) /\ i \notin Window!Strays(s)
      BY <1>10 DEF Window!Unanswered, Window!Strays
    <3> QED
      BY <1>2, <1>6, <1>8, <3>1
  <2>5. j \in P /\ t[Window!Rank(P, j)] = s[j]
    <3>1. j \notin Window!Unanswered(s) /\ j \notin Window!Strays(s)
      BY <1>5, <2>2, <2>3 DEF Window!Strays
    <3> QED
      BY <1>2, <1>6, <1>8, <2>2, <3>1
  <2>6. PICK a \in 1 .. m : a = Window!Rank(P, i) /\ Nth(P, a) = i
    BY <1>8, <2>4
  <2>7. PICK b \in 1 .. m : b = Window!Rank(P, j) /\ Nth(P, b) = j
    BY <1>8, <2>5
  <2>8. a < b
    BY <1>8, <2>2, <2>4, <2>5, <2>6, <2>7
  <2>9. ASSUME NEW k \in a + 1 .. b
        PROVE  t[k].role = "tool"
    <3>1. k \in 1 .. m /\ a < k /\ (k < b \/ k = b)
      BY <1>8, <2>6, <2>7
    <3>2. i < Nth(P, k) /\ (Nth(P, k) < j \/ Nth(P, k) = j) /\ Nth(P, k) \in DOMAIN s
      BY <1>8, <1>9, <2>6, <2>7, <3>1
    <3>3. Nth(P, k) \in i + 1 .. j
      BY <1>9, <2>2, <3>2
    <3> QED
      BY <1>6, <1>8, <2>1, <3>1, <3>2, <3>3
  <2>10. b \in Window!Block(t, a) /\ a \in 1 .. b - 1
    BY <1>8, <2>6, <2>7, <2>8, <2>9 DEF Window!Block
  <2> QED
    BY <2>4, <2>5, <2>6, <2>7, <2>10
<1>11. ASSUME NEW i \in DOMAIN s, s[i].role = "ai", s[i].calls # {}, Window!Complete(s, i)
       PROVE  i \in P /\ t[Window!Rank(P, i)] = s[i] /\ Window!Complete(t, Window!Rank(P, i))
  <2>1. i \in P /\ t[Window!Rank(P, i)] = s[i]
    <3>1. i \notin Window!Unanswered(s) /\ i \notin Window!Strays(s)
      BY <1>11 DEF Window!Unanswered, Window!Strays
    <3> QED
      BY <1>2, <1>6, <1>8, <3>1
  <2>2. ASSUME NEW x \in s[i].calls
        PROVE  x \in UNION {t[j].calls : j \in Window!Block(t, Window!Rank(P, i))}
    <3>1. PICK j \in Window!Block(s, i) : x \in s[j].calls
      BY <1>11 DEF Window!Complete
    <3>2. j \in DOMAIN s /\ s[j].role = "tool"
      BY <1>9, <3>1 DEF Window!Block
    <3>3. s[j].calls = {x}
      BY <1>9, <3>1, <3>2 DEF Messages
    <3>4. s[j].calls \subseteq s[i].calls
      BY <3>3
    <3>5. t[Window!Rank(P, j)] = s[j] /\ Window!Rank(P, j) \in Window!Block(t, Window!Rank(P, i))
      BY <1>10, <1>11, <3>1, <3>4
    <3> QED
      BY <3>1, <3>5
  <2> QED
    BY <2>1, <2>2 DEF Window!Complete
<1>12. ASSUME NEW k \in 1 .. m, t[k].role = "ai"
       PROVE  Window!Complete(t, k)
  <2>1. PICK i \in P : i = Nth(P, k) /\ Window!Rank(P, i) = k /\ t[k] = c[i]
    BY <1>8
  <2>2. i \in DOMAIN s /\ s[i].role = "ai"
    BY <1>6, <1>9, <1>12, <2>1
  <2>3. CASE i \in Window!Unanswered(s)
    BY <1>6, <2>1, <2>2, <2>3 DEF Window!Complete
  <2>4. CASE i \notin Window!Unanswered(s)
    <3>1. Window!Complete(s, i) /\ t[k] = s[i]
      BY <1>6, <2>1, <2>2, <2>4 DEF Window!Unanswered
    <3>2. CASE s[i].calls = {}
      BY <3>1, <3>2 DEF Window!Complete
    <3>3. CASE s[i].calls # {}
      BY <1>11, <2>1, <2>2, <3>1, <3>3
    <3> QED
      BY <3>2, <3>3
  <2> QED
    BY <2>3, <2>4
<1>13. ASSUME NEW k \in 1 .. m, t[k].role = "tool"
       PROVE  Window!InBlock(t, k)
  <2>1. PICK j \in P : j = Nth(P, k) /\ Window!Rank(P, j) = k /\ t[k] = c[j]
    BY <1>8
  <2>2. j \in DOMAIN s /\ s[j].role = "tool"
    BY <1>6, <1>9, <1>13, <2>1
  <2>3. Window!InBlock(s, j)
    BY <1>2, <2>1, <2>2 DEF Window!Strays
  <2>4. PICK i \in 1 .. j - 1 : /\ s[i].role = "ai" /\ s[i].calls # {} /\ Window!Complete(s, i)
                                /\ j \in Window!Block(s, i) /\ s[j].calls \subseteq s[i].calls
    BY <2>3 DEF Window!InBlock
  <2>5. i \in DOMAIN s
    BY <1>9, <2>2, <2>4
  <2>6. /\ t[Window!Rank(P, i)] = s[i] /\ t[Window!Rank(P, j)] = s[j]
        /\ Window!Rank(P, j) \in Window!Block(t, Window!Rank(P, i)) /\ Window!Rank(P, i) \in 1 .. Window!Rank(P, j) - 1
    BY <1>10, <2>4, <2>5
  <2>7. Window!Complete(t, Window!Rank(P, i))
    BY <1>11, <2>4, <2>5
  <2> QED
    BY <2>1, <2>4, <2>6, <2>7 DEF Window!InBlock
<1>14. ASSUME NEW j \in DOMAIN s, s[j].role = "tool", Window!InBlock(s, j)
       PROVE  \E k \in DOMAIN t : t[k] = s[j]
  <2>1. j \notin Window!Unanswered(s) /\ j \notin Window!Strays(s)
    BY <1>5, <1>14 DEF Window!Strays
  <2>2. j \in P /\ c[j] = s[j]
    BY <1>2, <1>6, <2>1
  <2> QED
    BY <1>8, <2>2
<1> QED
  BY <1>4, <1>8, <1>12, <1>13, <1>14

-----------------------------------------------------------------------------
(* Lists that grow *)
Joins(b, s, r) ==
    /\ b \in Lists /\ Len(b) = Len(s) + Len(r) /\ Len(s) \in Nat /\ Len(r) \in Nat
    /\ DOMAIN b = 1 .. Len(s) + Len(r) /\ DOMAIN s = 1 .. Len(s) /\ DOMAIN r = 1 .. Len(r)
    /\ \A i \in 1 .. Len(s) : b[i] = s[i]
    /\ \A i \in 1 .. Len(r) : b[Len(s) + i] = r[i]
    /\ \A i \in 1 .. Len(s) + Len(r) : i \in 1 .. Len(s) \/ \E k \in 1 .. Len(r) : i = Len(s) + k

LEMMA Joined ==
    ASSUME NEW s \in Lists, NEW r \in Lists, NEW b, b = s \o r
    PROVE  Joins(b, s, r)
<1>1. Len(s) \in Nat /\ Len(r) \in Nat /\ DOMAIN s = 1 .. Len(s) /\ DOMAIN r = 1 .. Len(r)
  BY DEF Lists
<1>2. s \o r \in Lists /\ Len(s \o r) = Len(s) + Len(r) /\ DOMAIN (s \o r) = 1 .. Len(s) + Len(r)
  BY DEF Lists
<1>3. \A i \in 1 .. Len(s) : (s \o r)[i] = s[i]
  BY <1>1 DEF Lists
<1>4. \A i \in 1 .. Len(r) : (s \o r)[Len(s) + i] = r[i]
  BY <1>1 DEF Lists
<1>5. ASSUME NEW i \in 1 .. Len(s) + Len(r), i \notin 1 .. Len(s)
      PROVE  \E k \in 1 .. Len(r) : i = Len(s) + k
  <2>1. PICK a \in Nat : a = Len(s)
    BY <1>1
  <2>2. PICK c \in Nat : c = Len(r)
    BY <1>1
  <2>3. i - a \in 1 .. c /\ i = a + (i - a)
    BY <1>5, <2>1, <2>2
  <2> QED
    BY <2>1, <2>2, <2>3
<1> QED
  BY <1>1, <1>2, <1>3, <1>4, <1>5 DEF Joins

LEMMA RoleStays ==
    ASSUME NEW s \in Lists, NEW r \in Lists, NEW role, \A i \in DOMAIN r : r[i].role # role
    PROVE  Window!OfRole(s \o r, role) = Window!OfRole(s, role)
<1>1. PICK t : t = s \o r
  OBVIOUS
<1>2. PICK P : P = {i \in DOMAIN s : s[i].role = role}
  OBVIOUS
<1>j. /\ DOMAIN t = 1 .. Len(s) + Len(r) /\ DOMAIN s = 1 .. Len(s) /\ DOMAIN r = 1 .. Len(r)
      /\ Len(s) \in Nat /\ Len(r) \in Nat
      /\ \A i \in 1 .. Len(s) : t[i] = s[i]
      /\ \A i \in 1 .. Len(r) : t[Len(s) + i] = r[i]
      /\ \A i \in 1 .. Len(s) + Len(r) : i \in 1 .. Len(s) \/ \E k \in 1 .. Len(r) : i = Len(s) + k
  <2>1. Joins(t, s, r)
    BY <1>1, Joined
  <2> QED
    BY <2>1 DEF Joins
<1>i. \A i \in DOMAIN s : i \in DOMAIN t /\ t[i] = s[i]
  <2>1. 1 .. Len(s) \subseteq 1 .. Len(s) + Len(r)
    BY <1>j
  <2> QED
    BY <1>j, <2>1
<1>k. ASSUME NEW i \in DOMAIN t, i \notin DOMAIN s
      PROVE  t[i].role # role
  <2>1. \E k \in 1 .. Len(r) : i = Len(s) + k
    BY <1>j, <1>k
  <2>2. PICK k \in 1 .. Len(r) : i = Len(s) + k
    BY <2>1
  <2>3. t[i] = r[k] /\ k \in DOMAIN r
    BY <1>j, <2>2
  <2> QED
    BY <2>3
<1>3. P = {i \in DOMAIN t : t[i].role = role}
  BY <1>2, <1>i, <1>k
<1>4. \A k \in 1 .. Cardinality(P) : Nth(P, k) \in DOMAIN s
  BY <1>2, PickedParts DEF Lists
<1>5. \A k \in 1 .. Cardinality(P) : t[Nth(P, k)] = s[Nth(P, k)]
  BY <1>4, <1>i
<1>6. Window!Picked(t, P) = [k \in 1 .. Cardinality(P) |-> t[Nth(P, k)]] /\ Window!Picked(s, P) = [k \in 1 .. Cardinality(P) |-> s[Nth(P, k)]]
  BY SameCount DEF Window!Picked, Nth
<1> QED
  BY <1>1, <1>2, <1>3, <1>5, <1>6 DEF Window!OfRole

LEMMA TracedJoined ==
    ASSUME NEW t \in Lists, NEW s \in Lists, NEW u \in Lists, NEW r \in Lists, Traced(t, s),
           Len(u) = Len(r), \A i \in 1 .. Len(r) : u[i].no = r[i].no /\ u[i].role = r[i].role
    PROVE  Traced(t \o u, s \o r)
<1> SUFFICES ASSUME NEW j \in DOMAIN (t \o u), (t \o u)[j].no > 0
             PROVE  \E i \in DOMAIN (s \o r) : (s \o r)[i].no = (t \o u)[j].no /\ (s \o r)[i].role = (t \o u)[j].role
  BY DEF Traced
<1>1. PICK a : a = t \o u
  OBVIOUS
<1>2. PICK b : b = s \o r
  OBVIOUS
<1>a. /\ DOMAIN a = 1 .. Len(t) + Len(u) /\ DOMAIN t = 1 .. Len(t) /\ Len(t) \in Nat /\ Len(u) \in Nat
      /\ \A i \in 1 .. Len(t) : a[i] = t[i]
      /\ \A i \in 1 .. Len(u) : a[Len(t) + i] = u[i]
      /\ \A i \in 1 .. Len(t) + Len(u) : i \in 1 .. Len(t) \/ \E k \in 1 .. Len(u) : i = Len(t) + k
  <2>1. Joins(a, t, u)
    BY <1>1, Joined
  <2> QED
    BY <2>1 DEF Joins
<1>b. /\ DOMAIN b = 1 .. Len(s) + Len(r) /\ DOMAIN s = 1 .. Len(s) /\ Len(s) \in Nat /\ Len(r) \in Nat
      /\ \A i \in 1 .. Len(s) : b[i] = s[i]
      /\ \A i \in 1 .. Len(r) : b[Len(s) + i] = r[i]
  <2>1. Joins(b, s, r)
    BY <1>2, Joined
  <2> QED
    BY <2>1 DEF Joins
<1>c. /\ \A i \in 1 .. Len(s) : i \in DOMAIN b
      /\ \A i \in 1 .. Len(r) : Len(s) + i \in DOMAIN b
  BY <1>b
<1>3. j \in 1 .. Len(t) \/ \E k \in 1 .. Len(u) : j = Len(t) + k
  BY <1>1, <1>a
<1>4. CASE j \in 1 .. Len(t)
  <2>1. a[j] = t[j] /\ j \in DOMAIN t
    BY <1>4, <1>a
  <2>2. PICK i \in DOMAIN s : s[i].no = t[j].no /\ s[i].role = t[j].role
    BY <1>1, <2>1 DEF Traced
  <2>3. b[i] = s[i] /\ i \in DOMAIN b
    BY <1>b, <1>c, <2>2
  <2> QED
    BY <1>1, <1>2, <2>1, <2>2, <2>3
<1>5. CASE \E k \in 1 .. Len(u) : j = Len(t) + k
  <2>1. PICK k \in 1 .. Len(u) : j = Len(t) + k
    BY <1>5
  <2>2. a[j] = u[k] /\ k \in 1 .. Len(r)
    BY <1>a, <2>1
  <2>3. b[Len(s) + k] = r[k] /\ Len(s) + k \in DOMAIN b
    BY <1>b, <1>c, <2>2
  <2> QED
    BY <1>1, <1>2, <2>2, <2>3
<1> QED
  BY <1>3, <1>4, <1>5

LEMMA TracedGrows ==
    ASSUME NEW t, NEW s \in Lists, NEW r \in Lists, Traced(t, s)
    PROVE  Traced(t, s \o r)
<1>1. PICK b : b = s \o r
  OBVIOUS
<1>b. /\ DOMAIN b = 1 .. Len(s) + Len(r) /\ DOMAIN s = 1 .. Len(s) /\ Len(s) \in Nat /\ Len(r) \in Nat
      /\ \A i \in 1 .. Len(s) : b[i] = s[i]
  <2>1. Joins(b, s, r)
    BY <1>1, Joined
  <2> QED
    BY <2>1 DEF Joins
<1>c. \A i \in 1 .. Len(s) : i \in DOMAIN b
  BY <1>b
<1>2. \A i \in DOMAIN s : b[i] = s[i] /\ i \in DOMAIN b
  BY <1>b, <1>c
<1> QED
  BY <1>1, <1>2 DEF Traced

LEMMA BlocksStay ==
    ASSUME NEW s \in Lists, NEW r \in Lists, NEW j \in DOMAIN s, Window!InBlock(s, j)
    PROVE  Window!InBlock(s \o r, j)
<1>1. PICK t : t = s \o r
  OBVIOUS
<1>2. /\ Len(t) = Len(s) + Len(r) /\ Len(s) \in Nat /\ Len(r) \in Nat /\ DOMAIN s = 1 .. Len(s)
      /\ \A i \in 1 .. Len(s) : t[i] = s[i]
  <2>1. Joins(t, s, r)
    BY <1>1, Joined
  <2> QED
    BY <2>1 DEF Joins
<1>3. ASSUME NEW i \in 1 .. Len(s), NEW k \in Window!Block(s, i)
      PROVE  k \in Window!Block(t, i) /\ t[k] = s[k]
  <2>1. k \in i + 1 .. Len(s) /\ \A l \in i + 1 .. k : s[l].role = "tool"
    BY DEF Window!Block
  <2>2. \A l \in i + 1 .. k : l \in 1 .. Len(s) /\ t[l] = s[l]
    BY <1>2, <2>1
  <2>3. k \in i + 1 .. Len(t) /\ k \in i + 1 .. k
    BY <1>2, <2>1
  <2> QED
    BY <2>1, <2>2, <2>3 DEF Window!Block
<1>4. PICK i \in 1 .. j - 1 : /\ s[i].role = "ai" /\ s[i].calls # {} /\ Window!Complete(s, i)
                              /\ j \in Window!Block(s, i) /\ s[j].calls \subseteq s[i].calls
  BY DEF Window!InBlock
<1>5. i \in 1 .. Len(s) /\ t[i] = s[i]
  BY <1>2, <1>4
<1>6. Window!Complete(t, i)
  BY <1>3, <1>4, <1>5 DEF Window!Complete
<1>7. j \in Window!Block(t, i) /\ t[j] = s[j]
  BY <1>3, <1>4, <1>5
<1> QED
  BY <1>1, <1>4, <1>5, <1>6, <1>7 DEF Window!InBlock

-----------------------------------------------------------------------------
(* The invariant *)
Answering == phase \in {"thinking", "tools"}

ListsOK ==
    /\ remembered \in Lists /\ messages \in Lists /\ history \in Lists
    /\ phase \in {"idle", "asked", "thinking", "tools"} /\ written \in Nat
    /\ \A i \in DOMAIN history : history[i].no \in 1 .. written

\* Memory and the list of the turn are in the record; a question that nothing has
\* followed in the record is the last in memory too, so that both lose it together.
CoverOK ==
    /\ Traced(remembered, history) /\ Traced(messages, history)
    /\ phase # "idle" /\ Len(history) > 0 /\ history[Len(history)].role = "user" =>
          OnlyLast(remembered, history[Len(history)].no)

\* The question of the turn
QuestionOK ==
    /\ phase = "asked" =>
          /\ Len(history) > 0 /\ history[Len(history)] = Window!Question /\ Window!Question.role = "user"
          /\ Window!Question.no = written /\ EndsOn(remembered, Window!Question)
    /\ Answering => Window!Question \in Messages /\ Window!Question.no \in 1 .. written

\* It is in the list, and so is what the tools have answered since, in blocks.
TurnOK ==
    Answering =>
        /\ Window!Question.size <= KeepRecent
              /\ Window!TextTokens(Window!OfRole(messages, "system")) + Window!Question.size + 1 <= MaxContext
           => \E i \in DOMAIN messages :
                 messages[i] = Window!Question /\ \A j \in DOMAIN messages : j > i => messages[j].no > Window!Question.no
        /\ \A i \in DOMAIN messages :
              messages[i].role = "tool" /\ messages[i].no > Window!Question.no => Window!InBlock(messages, i)

CallsOK ==
    phase = "tools" =>
        /\ Len(messages) > 0 /\ Last(messages).role = "ai"
        /\ \E n \in 1 .. 2 : Last(messages).calls = {<<Last(messages).no, k>> : k \in 1 .. n}

WindowInv == ListsOK /\ CoverOK /\ QuestionOK /\ TurnOK /\ CallsOK /\ Window!RequestIsWellFormed

\* One message more
LEMMA Grown ==
    ASSUME NEW s \in Lists, NEW m \in Messages
    PROVE  /\ Append(s, m) \in Lists /\ Append(s, m) = s \o <<m>>
           /\ Len(s) \in Nat /\ Len(Append(s, m)) = Len(s) + 1
           /\ DOMAIN s = 1 .. Len(s) /\ DOMAIN Append(s, m) = 1 .. Len(s) + 1
           /\ \A i \in 1 .. Len(s) : Append(s, m)[i] = s[i]
           /\ Append(s, m)[Len(s) + 1] = m
           /\ EndsOn(Append(s, m), m)
           /\ <<m>> \in Lists /\ Len(<<m>>) = 1 /\ <<m>>[1] = m /\ DOMAIN <<m>> = {1}
<1>1. /\ Append(s, m) \in Seq(Messages) /\ Append(s, m) = s \o <<m>>
      /\ Len(s) \in Nat /\ Len(Append(s, m)) = Len(s) + 1
      /\ DOMAIN s = 1 .. Len(s) /\ DOMAIN Append(s, m) = 1 .. Len(s) + 1
      /\ \A i \in 1 .. Len(s) : Append(s, m)[i] = s[i]
      /\ Append(s, m)[Len(s) + 1] = m
  BY DEF Lists
<1>2. <<m>> \in Seq(Messages) /\ Len(<<m>>) = 1 /\ <<m>>[1] = m /\ DOMAIN <<m>> = {1}
  BY DEF Lists
<1>3. EndsOn(Append(s, m), m)
  BY <1>1 DEF EndsOn
<1> QED
  BY <1>1, <1>2, <1>3 DEF Lists

\* The last message of a role, when the list ends on one
LEMMA RoleEnds ==
    ASSUME NEW s \in Lists, NEW q, EndsOn(s, q)
    PROVE  Last(Window!OfRole(s, q.role)) = q
<1>1. PICK P : P = {i \in DOMAIN s : s[i].role = q.role}
  OBVIOUS
<1>2. Len(s) \in DOMAIN s /\ s[Len(s)] = q
  BY DEF EndsOn, Lists
<1>3. P \in SUBSET DOMAIN s /\ Len(s) \in P
  BY <1>1, <1>2
<1>4. EndsOn(Window!Picked(s, P), q)
  BY <1>3, PickedKeeps
<1>5. EndsOn(Window!OfRole(s, q.role), q)
  BY <1>1, <1>4 DEF Window!OfRole
<1> QED
  BY <1>5, Zenon DEF EndsOn, Last

LEMMA TracedThrough ==
    ASSUME NEW r, NEW s, NEW t, Traced(t, s), Traced(s, r)
    PROVE  Traced(t, r)
BY DEF Traced

LEMMA NumbersGrow ==
    ASSUME NEW s \in Lists, NEW r \in Lists, NEW n \in Nat, NEW k \in Nat,
           \A i \in DOMAIN s : s[i].no \in 1 .. n, \A i \in DOMAIN r : r[i].no \in 1 .. n + k
    PROVE  \A i \in DOMAIN (s \o r) : (s \o r)[i].no \in 1 .. n + k
<1>1. PICK b : b = s \o r
  OBVIOUS
<1>2. /\ DOMAIN b = 1 .. Len(s) + Len(r) /\ DOMAIN s = 1 .. Len(s) /\ DOMAIN r = 1 .. Len(r)
      /\ \A i \in 1 .. Len(s) : b[i] = s[i]
      /\ \A i \in 1 .. Len(r) : b[Len(s) + i] = r[i]
      /\ \A i \in 1 .. Len(s) + Len(r) : i \in 1 .. Len(s) \/ \E l \in 1 .. Len(r) : i = Len(s) + l
  <2>1. Joins(b, s, r)
    BY <1>1, Joined
  <2> QED
    BY <2>1 DEF Joins
<1>3. 1 .. n \subseteq 1 .. n + k
  OBVIOUS
<1>4. ASSUME NEW i \in DOMAIN b
      PROVE  b[i].no \in 1 .. n + k
  <2>1. CASE i \in 1 .. Len(s)
    <3>1. b[i] = s[i] /\ i \in DOMAIN s
      BY <1>2, <2>1
    <3> QED
      BY <1>3, <3>1
  <2>2. CASE \E l \in 1 .. Len(r) : i = Len(s) + l
    <3>1. PICK l \in 1 .. Len(r) : i = Len(s) + l
      BY <2>2
    <3>2. b[i] = r[l] /\ l \in DOMAIN r
      BY <1>2, <3>1
    <3> QED
      BY <3>2
  <2> QED
    BY <1>2, <2>1, <2>2
<1> QED
  BY <1>1, <1>4

-----------------------------------------------------------------------------
(* The steps *)
LEMMA RequestKept ==
    ASSUME Window!RequestIsWellFormed, sent' = sent
    PROVE  Window!RequestIsWellFormed'
BY DEF Window!RequestIsWellFormed, Window!Complete, Window!InBlock, Window!Block

LEMMA RequestSent ==
    ASSUME messages \in Lists, sent' = Window!SanitizeStrict(messages)
    PROVE  Window!RequestIsWellFormed'
<1>1. PICK t : t = Window!SanitizeStrict(messages)
  OBVIOUS
<1>2. \A i \in DOMAIN t : (t[i].role = "ai" => Window!Complete(t, i)) /\ (t[i].role = "tool" => Window!InBlock(t, i))
  BY <1>1, StrictIsWhole
<1>3. \A i \in DOMAIN sent' : /\ sent'[i].role = "ai" => Window!Complete(sent', i)
                              /\ sent'[i].role = "tool" => Window!InBlock(sent', i)
  BY <1>1, <1>2
<1> QED
  BY <1>3 DEF Window!RequestIsWellFormed, Window!Complete, Window!InBlock, Window!Block

LEMMA WindowStarts ==
    ASSUME Window!Init
    PROVE  WindowInv
<1>1. Window!SystemPrompt \in Messages /\ Window!SystemPrompt.no = 0
  BY SMT DEF Window!SystemPrompt, Window!Message, Messages
<1>2. <<Window!SystemPrompt>> \in Lists /\ <<>> \in Lists /\ DOMAIN <<Window!SystemPrompt>> = {1} /\ <<Window!SystemPrompt>>[1] = Window!SystemPrompt
  BY <1>1 DEF Lists
<1>3. ListsOK
  BY <1>2 DEF Window!Init, ListsOK
<1>4. Traced(remembered, history) /\ Traced(messages, history)
  BY <1>1, <1>2 DEF Window!Init, Traced
<1>5. CoverOK
  BY <1>4 DEF Window!Init, CoverOK
<1>6. QuestionOK /\ TurnOK /\ CallsOK
  BY DEF Window!Init, QuestionOK, TurnOK, CallsOK, Answering
<1>7. Window!RequestIsWellFormed
  BY DEF Window!Init, Window!RequestIsWellFormed
<1> QED
  BY <1>3, <1>5, <1>6, <1>7 DEF WindowInv

LEMMA AskStep ==
    ASSUME WindowInv, Window!SizesAreNumbers, Window!Ask
    PROVE  WindowInv'
<1>0. /\ remembered \in Lists /\ messages \in Lists /\ history \in Lists /\ written \in Nat
      /\ \A i \in DOMAIN history : history[i].no \in 1 .. written
      /\ Traced(remembered, history) /\ Traced(messages, history)
  BY DEF WindowInv, ListsOK, CoverOK
<1>1. PICK size \in QuestionSizes : /\ remembered' = Append(remembered, Window!Message("user", {}, TRUE, size, written + 1))
                                    /\ history' = Append(history, Window!Message("user", {}, TRUE, size, written + 1))
  BY DEF Window!Ask
<1>2. PICK m : m = Window!Message("user", {}, TRUE, size, written + 1)
  OBVIOUS
<1>3. m \in Messages /\ m.role = "user" /\ m.no = written + 1
  <2>1. size \in Nat
    BY DEF Window!SizesAreNumbers
  <2> QED
    BY <1>0, <1>2, <2>1, SMT DEF Window!Message, Messages
<1>4. /\ messages' = messages /\ sent' = sent /\ phase' = "asked" /\ written' = written + 1
      /\ remembered' = Append(remembered, m) /\ history' = Append(history, m)
  BY <1>1, <1>2 DEF Window!Ask, Window!Written
<1>5. /\ remembered' \in Lists /\ remembered' = remembered \o <<m>> /\ Len(remembered) \in Nat /\ Len(remembered') = Len(remembered) + 1
      /\ DOMAIN remembered' = 1 .. Len(remembered) + 1 /\ DOMAIN remembered = 1 .. Len(remembered)
      /\ \A i \in 1 .. Len(remembered) : remembered'[i] = remembered[i]
      /\ remembered'[Len(remembered) + 1] = m /\ EndsOn(remembered', m)
  BY <1>0, <1>3, <1>4, Grown
<1>6. /\ history' \in Lists /\ history' = history \o <<m>> /\ Len(history') \in Nat /\ EndsOn(history', m)
      /\ <<m>> \in Lists /\ Len(<<m>>) = 1 /\ <<m>>[1] = m /\ DOMAIN <<m>> = {1}
  <2>1. Len(history) \in Nat /\ Len(history') = Len(history) + 1
    BY <1>0, <1>3, <1>4, Grown
  <2> QED
    BY <1>0, <1>3, <1>4, <2>1, Grown
<1>7. Len(history') > 0 /\ history'[Len(history')] = m
  BY <1>6 DEF EndsOn
<1>8. \A i \in DOMAIN history' : history'[i].no \in 1 .. written + 1
  <2>1. \A i \in DOMAIN <<m>> : <<m>>[i].no \in 1 .. written + 1
    BY <1>0, <1>3, <1>6
  <2> QED
    BY <1>0, <1>6, <2>1, NumbersGrow
<1>9. ListsOK'
  BY <1>0, <1>4, <1>5, <1>6, <1>8 DEF ListsOK
<1>10. Traced(remembered', history')
  BY <1>0, <1>5, <1>6, TracedJoined
<1>11. Traced(messages', history')
  BY <1>0, <1>4, <1>6, TracedGrows
<1>12. OnlyLast(remembered', m.no)
  <2>1. ASSUME NEW j \in 1 .. Len(remembered)
        PROVE  remembered[j].no # written + 1
    <3>1. CASE remembered[j].no > 0
      <4>1. PICK i \in DOMAIN history : history[i].no = remembered[j].no
        BY <1>0, <1>5, <3>1 DEF Traced
      <4>2. remembered[j].no \in 1 .. written
        BY <1>0, <4>1
      <4> QED
        BY <1>0, <4>2
    <3> QED
      BY <1>0, <3>1
  <2>2. ASSUME NEW j \in 1 .. Len(remembered) + 1, remembered'[j].no = written + 1
        PROVE  j = Len(remembered) + 1
    <3>1. j \notin 1 .. Len(remembered)
      BY <1>5, <2>1, <2>2
    <3> QED
      BY <1>5, <3>1
  <2> QED
    BY <1>3, <1>5, <2>2 DEF OnlyLast
<1>13. CoverOK'
  BY <1>7, <1>10, <1>11, <1>12 DEF CoverOK
<1>14. Window!Question' = m
  <2>1. Last(Window!OfRole(history', m.role)) = m
    BY <1>6, RoleEnds
  <2> QED
    BY <1>3, <2>1, SameLast DEF Window!Question
<1>15. QuestionOK' /\ TurnOK' /\ CallsOK'
  BY <1>3, <1>4, <1>5, <1>7, <1>14 DEF QuestionOK, TurnOK, CallsOK, Answering
<1>16. Window!RequestIsWellFormed'
  BY <1>4, RequestKept DEF WindowInv
<1> QED
  BY <1>9, <1>13, <1>15, <1>16 DEF WindowInv

LEMMA PrepareStep ==
    ASSUME WindowInv, Window!SizesAreNumbers, Window!Prepare
    PROVE  WindowInv'
<1>0. /\ remembered \in Lists /\ history \in Lists /\ written \in Nat
      /\ \A i \in DOMAIN history : history[i].no \in 1 .. written
      /\ Traced(remembered, history)
  BY DEF WindowInv, ListsOK, CoverOK
<1>1. /\ Len(history) > 0 /\ history[Len(history)] = Window!Question /\ Window!Question.role = "user"
      /\ Window!Question.no = written /\ EndsOn(remembered, Window!Question)
  BY DEF WindowInv, QuestionOK, Window!Prepare
<1>2. PICK summarised \in BOOLEAN : remembered' = Window!Trim(Window!Compressed(Window!Decision(remembered), remembered, summarised, 0))
  BY DEF Window!Prepare
<1>3. PICK c : c = Window!Compressed(Window!Decision(remembered), remembered, summarised, 0)
  OBVIOUS
<1>4. MaxContext \in Nat /\ KeepRecent \in Nat
  BY DEF Window!SizesAreNumbers
<1>5. Keeps(c, remembered) /\ \A q : EndsOn(remembered, q) /\ q.role = "user" /\ q.size <= KeepRecent => EndsOn(c, q)
  BY <1>0, <1>3, <1>4, CompressedKeeps
<1>6. remembered' = Window!Trim(c) /\ c \in Lists
  BY <1>2, <1>3, <1>5 DEF Keeps
<1>7. /\ Keeps(remembered', c)
      /\ \A q : /\ EndsOn(c, q) /\ q.role = "user"
                /\ Window!TextTokens(Window!OfRole(remembered', "system")) + q.size + 1 <= MaxContext
             => EndsOn(remembered', q)
  BY <1>4, <1>6, TrimKeeps
<1>8. Keeps(remembered', remembered)
  BY <1>5, <1>7, KeepsAll
<1>9. messages' = remembered' /\ sent' = sent /\ history' = history /\ phase' = "thinking" /\ written' = written
  BY DEF Window!Prepare
<1>10. ListsOK'
  BY <1>0, <1>8, <1>9 DEF ListsOK, Keeps
<1>11. Len(history) \in DOMAIN history
  BY <1>0, <1>1 DEF Lists
<1>12. written \in Nat \ {0} /\ Window!Question \in Messages
  <2>1. history[Len(history)].no \in 1 .. written
    BY <1>0, <1>11
  <2>2. history[Len(history)] \in Messages
    BY <1>0, <1>11 DEF Lists
  <2> QED
    BY <1>0, <1>1, <2>1, <2>2
<1>13. OnlyLast(remembered, written)
  BY <1>1 DEF WindowInv, CoverOK, Window!Prepare
<1>14. Traced(remembered', history') /\ OnlyLast(remembered', written)
  BY <1>0, <1>8, <1>9, <1>12, <1>13, TracedThrough DEF Keeps
<1>15. CoverOK'
  BY <1>1, <1>9, <1>14 DEF CoverOK
<1>16. Window!Question' = Window!Question
  BY <1>9, SameLast DEF Window!Question
<1>17. QuestionOK'
  <2>1. Window!Question.no \in 1 .. written
    BY <1>1, <1>12
  <2> QED
    BY <1>9, <1>12, <1>16, <2>1 DEF QuestionOK, Answering
<1>18. ASSUME Window!Question.size <= KeepRecent,
              Window!TextTokens(Window!OfRole(messages', "system")) + Window!Question.size + 1 <= MaxContext
       PROVE  \E i \in DOMAIN messages' :
                 messages'[i] = Window!Question /\ \A j \in DOMAIN messages' : j > i => messages'[j].no > Window!Question.no
  <2>1. EndsOn(messages', Window!Question)
    BY <1>1, <1>5, <1>7, <1>9, <1>18
  <2>2. PICK n \in Nat : n = Len(messages')
    BY <1>8, <1>9 DEF Keeps, Lists
  <2>3. DOMAIN messages' = 1 .. n
    BY <1>8, <1>9, <2>2 DEF Keeps, Lists
  <2>4. n > 0 /\ messages'[n] = Window!Question
    BY <2>1, <2>2 DEF EndsOn
  <2>5. n \in 1 .. n /\ \A j \in 1 .. n : ~(j > n)
    BY <2>4
  <2> QED
    BY <2>3, <2>4, <2>5
<1>19. ASSUME NEW i \in DOMAIN messages'
       PROVE  ~(messages'[i].no > Window!Question.no)
  <2>1. CASE messages'[i].no > 0
    <3>1. PICK j \in DOMAIN history : history[j].no = messages'[i].no
      BY <1>9, <1>14, <2>1 DEF Traced
    <3>2. messages'[i].no \in 1 .. written
      BY <1>0, <3>1
    <3> QED
      BY <1>0, <1>1, <3>2
  <2>2. CASE ~(messages'[i].no > 0)
    <3>1. messages'[i].no \in Nat
      BY <1>8, <1>9 DEF Keeps, Lists, Messages
    <3> QED
      BY <1>0, <1>1, <2>2, <3>1
  <2> QED
    BY <2>1, <2>2
<1>20. TurnOK'
  BY <1>16, <1>18, <1>19 DEF TurnOK
<1>21. CallsOK'
  BY <1>9 DEF CallsOK
<1>22. Window!RequestIsWellFormed'
  BY <1>9, RequestKept DEF WindowInv
<1> QED
  BY <1>10, <1>15, <1>17, <1>20, <1>21, <1>22 DEF WindowInv

\* The turn goes on: what is written joins the list and the record.
LEMMA TurnGrows ==
    ASSUME WindowInv, Answering, NEW r \in Lists, NEW n \in Nat, Len(r) > 0,
           \A i \in DOMAIN r : r[i].role \in {"ai", "tool"} /\ r[i].no \in written + 1 .. written + n,
           \A i \in 1 .. Len(r) : r[i].role = "tool" => Window!InBlock(messages \o r, Len(messages) + i),
           remembered' = remembered, messages' = messages \o r, history' = history \o r,
           written' = written + n, phase' \in {"thinking", "tools"}
    PROVE  ListsOK' /\ CoverOK' /\ QuestionOK' /\ TurnOK'
<1>0. /\ remembered \in Lists /\ messages \in Lists /\ history \in Lists /\ written \in Nat
      /\ \A i \in DOMAIN history : history[i].no \in 1 .. written
      /\ Traced(remembered, history) /\ Traced(messages, history)
      /\ Window!Question \in Messages /\ Window!Question.no \in 1 .. written
  BY DEF WindowInv, ListsOK, CoverOK, QuestionOK
<1>j. PICK b : b = messages \o r
  OBVIOUS
<1>b. /\ b \in Lists /\ Len(messages) \in Nat /\ Len(r) \in Nat
      /\ DOMAIN b = 1 .. Len(messages) + Len(r) /\ DOMAIN messages = 1 .. Len(messages) /\ DOMAIN r = 1 .. Len(r)
      /\ \A i \in 1 .. Len(messages) : b[i] = messages[i]
      /\ \A i \in 1 .. Len(r) : b[Len(messages) + i] = r[i]
      /\ \A i \in 1 .. Len(messages) + Len(r) : i \in 1 .. Len(messages) \/ \E k \in 1 .. Len(r) : i = Len(messages) + k
  <2>1. messages \in Lists
    BY <1>0
  <2> QED
    <3>1. Joins(b, messages, r)
      BY <2>1, <1>j, Joined
    <3> QED
      BY <3>1 DEF Joins
<1>1. /\ messages' \in Lists /\ Len(messages) \in Nat /\ Len(r) \in Nat
      /\ DOMAIN messages' = 1 .. Len(messages) + Len(r) /\ DOMAIN messages = 1 .. Len(messages) /\ DOMAIN r = 1 .. Len(r)
      /\ \A i \in 1 .. Len(messages) : messages'[i] = messages[i]
      /\ \A i \in 1 .. Len(r) : messages'[Len(messages) + i] = r[i]
      /\ \A i \in 1 .. Len(messages) + Len(r) : i \in 1 .. Len(messages) \/ \E k \in 1 .. Len(r) : i = Len(messages) + k
  BY <1>b, <1>j, Zenon
<1>2. /\ history' \in Lists /\ Len(history') = Len(history) + Len(r) /\ Len(history) \in Nat
      /\ \A i \in 1 .. Len(r) : history'[Len(history) + i] = r[i]
  <2>1. Joins(history', history, r)
    BY <1>0, Joined
  <2> QED
    BY <2>1 DEF Joins
<1>3. \A i \in DOMAIN history' : history'[i].no \in 1 .. written + n
  <2>1. \A i \in DOMAIN r : r[i].no \in 1 .. written + n
    BY <1>0
  <2> QED
    BY <1>0, <2>1, NumbersGrow
<1>4. ListsOK'
  BY <1>0, <1>1, <1>2, <1>3 DEF ListsOK
<1>5. Traced(remembered', history') /\ Traced(messages', history')
  BY <1>0, TracedGrows, TracedJoined
<1>6. history'[Len(history')].role # "user"
  <2>1. Len(r) \in 1 .. Len(r)
    BY <1>1
  <2>2. history'[Len(history')] = r[Len(r)] /\ Len(r) \in DOMAIN r
    BY <1>1, <1>2, <2>1
  <2> QED
    BY <2>2
<1>7. CoverOK'
  BY <1>5, <1>6 DEF CoverOK
<1>8. Window!Question' = Window!Question /\ Window!OfRole(messages', "system") = Window!OfRole(messages, "system")
  <2>1. \A i \in DOMAIN r : r[i].role # "user" /\ r[i].role # "system"
    OBVIOUS
  <2>2. Window!OfRole(history', "user") = Window!OfRole(history, "user") /\ Window!OfRole(messages', "system") = Window!OfRole(messages, "system")
    BY <1>0, <2>1, RoleStays
  <2> QED
    BY <2>2, SameLast DEF Window!Question
<1>9. QuestionOK'
  <2>1. Window!Question.no \in 1 .. written + n
    BY <1>0
  <2> QED
    BY <1>0, <1>8, <2>1 DEF QuestionOK, Answering
<1>10. ASSUME NEW i \in DOMAIN messages, messages[i] = Window!Question,
              \A j \in DOMAIN messages : j > i => messages[j].no > Window!Question.no
       PROVE  /\ i \in DOMAIN messages' /\ messages'[i] = Window!Question
              /\ \A j \in DOMAIN messages' : j > i => messages'[j].no > Window!Question.no
  <2>1. i \in DOMAIN messages' /\ messages'[i] = Window!Question
    BY <1>1, <1>10
  <2>2. ASSUME NEW j \in DOMAIN messages', j > i
        PROVE  messages'[j].no > Window!Question.no
    <3>1. CASE j \in 1 .. Len(messages)
      BY <1>1, <1>10, <2>2, <3>1
    <3>2. CASE \E k \in 1 .. Len(r) : j = Len(messages) + k
      <4>1. PICK k \in 1 .. Len(r) : j = Len(messages) + k
        BY <3>2
      <4>2. messages'[j] = r[k] /\ k \in DOMAIN r
        BY <1>1, <4>1
      <4>3. r[k].no \in written + 1 .. written + n
        BY <4>2
      <4>4. r[k].no > Window!Question.no
        BY <1>0, <4>3
      <4> QED
        BY <4>2, <4>4
    <3> QED
      BY <1>1, <3>1, <3>2
  <2> QED
    BY <2>1, <2>2
<1>11. ASSUME NEW i \in DOMAIN messages', messages'[i].role = "tool", messages'[i].no > Window!Question.no
       PROVE  Window!InBlock(messages', i)
  <2>1. CASE i \in 1 .. Len(messages)
    <3>1. i \in DOMAIN messages /\ messages'[i] = messages[i]
      BY <1>1, <2>1
    <3>2. Window!InBlock(messages, i)
      BY <1>11, <3>1 DEF WindowInv, TurnOK
    <3> QED
      BY <1>0, <3>1, <3>2, BlocksStay
  <2>2. CASE \E k \in 1 .. Len(r) : i = Len(messages) + k
    <3>1. PICK k \in 1 .. Len(r) : i = Len(messages) + k
      BY <2>2
    <3>2. messages'[i] = r[k]
      BY <1>1, <3>1
    <3> QED
      BY <1>11, <3>1, <3>2
  <2> QED
    BY <1>1, <2>1, <2>2
<1>12. ASSUME Window!Question.size <= KeepRecent,
              Window!TextTokens(Window!OfRole(messages', "system")) + Window!Question.size + 1 <= MaxContext
       PROVE  \E i \in DOMAIN messages' :
                 messages'[i] = Window!Question /\ \A j \in DOMAIN messages' : j > i => messages'[j].no > Window!Question.no
  <2>1. PICK i \in DOMAIN messages : messages[i] = Window!Question /\ \A j \in DOMAIN messages : j > i => messages[j].no > Window!Question.no
    BY <1>8, <1>12 DEF WindowInv, TurnOK
  <2> QED
    BY <1>10, <2>1
<1>13. \A i \in DOMAIN messages' : messages'[i].role = "tool" /\ messages'[i].no > Window!Question'.no => Window!InBlock(messages', i)
  BY <1>8, <1>11
<1>14. TurnOK'
  <2>1. ASSUME NEW i \in DOMAIN messages', messages'[i].role = "tool", messages'[i].no > Window!Question'.no
        PROVE  Window!InBlock(messages, i)'
    BY <1>13, <2>1 DEF Window!InBlock, Window!Complete, Window!Block
  <2> QED
    BY <1>8, <1>12, <2>1 DEF TurnOK
<1> QED
  BY <1>4, <1>7, <1>9, <1>14

LEMMA CallToolsStep ==
    ASSUME WindowInv, Window!SizesAreNumbers, Window!CallTools
    PROVE  WindowInv'
<1>0. messages \in Lists /\ history \in Lists /\ written \in Nat /\ Answering
  BY DEF WindowInv, ListsOK, Window!CallTools, Answering
<1>1. PICK n \in 1 .. 2, text \in BOOLEAN :
         /\ messages' = Append(messages, Window!Message("ai", {<<written + 1, k>> : k \in 1 .. n}, text,
                                                 IF text THEN 1 ELSE 0, written + 1))
         /\ history' = Append(history, Window!Message("ai", {<<written + 1, k>> : k \in 1 .. n}, text,
                                             IF text THEN 1 ELSE 0, written + 1))
  BY DEF Window!CallTools
<1>2. PICK m : m = Window!Message("ai", {<<written + 1, k>> : k \in 1 .. n}, text, IF text THEN 1 ELSE 0, written + 1)
  OBVIOUS
<1>3. /\ m \in Messages /\ m.role = "ai" /\ m.no = written + 1
      /\ m.calls = {<<m.no, k>> : k \in 1 .. n}
  <2>1. {<<written + 1, k>> : k \in 1 .. n} \in SUBSET (Nat \X Nat)
    BY <1>0
  <2>2. (IF text THEN 1 ELSE 0) \in Nat /\ text \in BOOLEAN
    OBVIOUS
  <2>3. /\ m.role = "ai" /\ m.calls = {<<written + 1, k>> : k \in 1 .. n} /\ m.no = written + 1
        /\ m.text = text /\ m.size = IF text THEN 1 ELSE 0
    BY <1>2, Zenon DEF Window!Message
  <2>4. m \in [role : {"system", "user", "ai", "tool"}, calls : SUBSET (Nat \X Nat), text : BOOLEAN, size : Nat, no : Nat]
    <3>1. written + 1 \in Nat
      BY <1>0
    <3>2. "ai" \in {"system", "user", "ai", "tool"}
      OBVIOUS
    <3> QED
      BY <1>2, <2>1, <2>2, <3>1, <3>2, Zenon DEF Window!Message
  <2> QED
    BY <2>3, <2>4 DEF Messages
<1>4. /\ messages' = Append(messages, m) /\ history' = Append(history, m)
      /\ phase' = "tools" /\ written' = written + 1 /\ remembered' = remembered /\ sent' = Window!SanitizeStrict(messages)
  BY <1>1, <1>2 DEF Window!CallTools, Window!Written
<1>5. /\ messages' = messages \o <<m>> /\ history' = history \o <<m>>
      /\ <<m>> \in Lists /\ Len(<<m>>) = 1 /\ <<m>>[1] = m /\ DOMAIN <<m>> = {1}
      /\ EndsOn(messages', m)
  BY <1>0, <1>3, <1>4, Grown
<1>6. \A i \in DOMAIN <<m>> : <<m>>[i].role \in {"ai", "tool"} /\ <<m>>[i].no \in written + 1 .. written + 1
  BY <1>0, <1>3, <1>5
<1>7. \A i \in 1 .. Len(<<m>>) : <<m>>[i].role # "tool"
  BY <1>3, <1>5
<1>8. ListsOK' /\ CoverOK' /\ QuestionOK' /\ TurnOK'
  <2>1. Len(<<m>>) > 0 /\ phase' \in {"thinking", "tools"} /\ 1 \in Nat
    BY <1>4, <1>5
  <2> QED
    BY <1>0, <1>4, <1>5, <1>6, <1>7, <2>1, TurnGrows
<1>9. CallsOK'
  <2>1. Len(messages') > 0 /\ Last(messages') = m
    BY <1>5, Zenon DEF EndsOn, Last
  <2> QED
    BY <1>3, <2>1, Zenon DEF CallsOK
<1> QED
  BY <1>0, <1>4, <1>8, <1>9, RequestSent DEF WindowInv

LEMMA CallsCount ==
    ASSUME NEW turn, NEW n \in 1 .. 2
    PROVE  Cardinality({<<turn, k>> : k \in 1 .. n}) = n
<1>1. CASE n = 1
  <2>1. {<<turn, k>> : k \in 1 .. n} = {<<turn, 1>>}
    BY <1>1
  <2> QED
    BY <1>1, <2>1, FS_Singleton
<1>2. CASE n = 2
  <2>1. 1 .. n = {1, 2}
    BY <1>2
  <2>2. {<<turn, k>> : k \in 1 .. n} = {<<turn, 1>>} \cup {<<turn, 2>>}
    BY <2>1
  <2>3. <<turn, 2>> \notin {<<turn, 1>>}
    OBVIOUS
  <2>4. IsFiniteSet({<<turn, 1>>}) /\ Cardinality({<<turn, 1>>}) = 1
    BY FS_Singleton
  <2>5. Cardinality({<<turn, 1>>} \cup {<<turn, 2>>}) = 1 + 1
    BY <2>3, <2>4, FS_AddElement
  <2> QED
    BY <1>2, <2>2, <2>5
<1> QED
  BY <1>1, <1>2

\* The results of a message's calls are a complete block behind it.
LEMMA ResultsInBlock ==
    ASSUME NEW s \in Lists, NEW r \in Lists, NEW n \in Nat, NEW turn,
           Len(s) > 0, s[Len(s)].role = "ai", s[Len(s)].calls = {<<turn, k>> : k \in 1 .. n}, Len(r) = n,
           \A k \in 1 .. n : r[k].role = "tool" /\ r[k].calls = {<<turn, k>>}
    PROVE  \A k \in 1 .. n : Window!InBlock(s \o r, Len(s) + k)
<1> SUFFICES ASSUME NEW k \in 1 .. n
             PROVE  Window!InBlock(s \o r, Len(s) + k)
  OBVIOUS
<1>1. PICK b : b = s \o r
  OBVIOUS
<1>2. PICK l \in Nat : l = Len(s)
  BY DEF Lists
<1>3. /\ Len(b) = l + n
      /\ \A i \in 1 .. l : b[i] = s[i]
      /\ \A i \in 1 .. n : b[l + i] = r[i]
  <2>1. Joins(b, s, r)
    BY <1>1, Joined
  <2> QED
    BY <1>2, <2>1 DEF Joins
<1>4. l \in 1 .. l + k - 1 /\ l \in 1 .. l
  BY <1>2
<1>5. b[l].role = "ai" /\ b[l].calls = {<<turn, i>> : i \in 1 .. n}
  BY <1>2, <1>3, <1>4
<1>6. ASSUME NEW j \in l + 1 .. l + n
      PROVE  b[j].role = "tool"
  <2>1. j - l \in 1 .. n /\ j = l + (j - l)
    BY <1>6
  <2> QED
    BY <1>3, <2>1
<1>7. ASSUME NEW i \in 1 .. n
      PROVE  l + i \in Window!Block(b, l) /\ b[l + i].calls = {<<turn, i>>}
  <2>1. l + i \in l + 1 .. l + n /\ l + 1 .. l + i \subseteq l + 1 .. l + n
    OBVIOUS
  <2>2. \A j \in l + 1 .. l + i : b[j].role = "tool"
    BY <1>6, <2>1
  <2> QED
    BY <1>3, <2>1, <2>2 DEF Window!Block
<1>8. Window!Complete(b, l)
  <2>1. ASSUME NEW c \in b[l].calls
        PROVE  \E j \in Window!Block(b, l) : c \in b[j].calls
    <3>1. PICK i \in 1 .. n : c = <<turn, i>>
      BY <1>5, <2>1
    <3>2. PICK j : j = l + i
      OBVIOUS
    <3>3. j \in Window!Block(b, l) /\ b[j].calls = {<<turn, i>>}
      BY <1>7, <3>2
    <3> QED
      BY <3>1, <3>3
  <2> QED
    BY <2>1, Zenon DEF Window!Complete
<1>9. PICK j : j = l + k
  OBVIOUS
<1>10. j \in Window!Block(b, l) /\ b[j].calls = {<<turn, k>>}
  BY <1>7, <1>9
<1>11. /\ b[l].calls # {} /\ b[j].calls \subseteq b[l].calls
  <2>1. <<turn, k>> \in b[l].calls
    BY <1>5, Zenon
  <2> QED
    BY <1>10, <2>1, Zenon
<1>12. l \in 1 .. j - 1
  BY <1>2, <1>4, <1>9
<1>13. Window!InBlock(b, j)
  BY <1>5, <1>8, <1>10, <1>11, <1>12, Zenon DEF Window!InBlock
<1> QED
  BY <1>1, <1>2, <1>9, <1>13

LEMMA ToolsAnswerStep ==
    ASSUME WindowInv, Window!SizesAreNumbers, Window!ToolsAnswer
    PROVE  WindowInv'
<1>0. messages \in Lists /\ history \in Lists /\ written \in Nat /\ Answering
  BY SameCount, SameLast DEF WindowInv, ListsOK, Window!ToolsAnswer, Answering
<1>1. Len(messages) > 0 /\ Last(messages).role = "ai"
      /\ \E n \in 1 .. 2 : Last(messages).calls = {<<Last(messages).no, k>> : k \in 1 .. n}
  BY SameCount, SameLast DEF WindowInv, CallsOK, Window!ToolsAnswer
<1>2. PICK turn : turn = Last(messages).no
  OBVIOUS
<1>3. PICK n \in 1 .. 2 : Last(messages).calls = {<<turn, k>> : k \in 1 .. n}
  BY <1>1, <1>2
<1>4. Last(messages) = messages[Len(messages)] /\ turn \in Nat
  <2>1. Last(messages) = messages[Len(messages)]
    BY DEF Last
  <2>2. messages[Len(messages)] \in Messages
    BY <1>0, <1>1 DEF Lists
  <2> QED
    BY <1>2, <2>1, <2>2 DEF Messages
<1>5. Cardinality(Last(messages).calls) = n
  BY <1>3, CallsCount
<1>6. PICK size \in ResultSizes :
         /\ messages' = messages \o [k \in 1 .. n |-> Window!Message("tool", {<<turn, k>>}, TRUE, size, written + k)]
         /\ history' = history \o [k \in 1 .. n |-> Window!Message("tool", {<<turn, k>>}, TRUE, size, written + k)]
  BY <1>2, <1>5, SameCount, SameLast DEF Window!ToolsAnswer
<1>7. written' = written + n /\ phase' = "thinking" /\ remembered' = remembered /\ sent' = sent
  BY <1>5, SameCount, SameLast DEF Window!ToolsAnswer, Window!Written
<1>8. PICK r : r = [k \in 1 .. n |-> Window!Message("tool", {<<turn, k>>}, TRUE, size, written + k)]
  OBVIOUS
<1>9. \A k \in 1 .. n : /\ r[k] \in Messages /\ r[k].role = "tool"
                        /\ r[k].calls = {<<turn, k>>} /\ r[k].no = written + k
  <2> SUFFICES ASSUME NEW k \in 1 .. n
               PROVE  /\ r[k] \in Messages /\ r[k].role = "tool"
                      /\ r[k].calls = {<<turn, k>>} /\ r[k].no = written + k
    OBVIOUS
  <2>1. size \in Nat /\ written + k \in Nat /\ k \in Nat
    BY <1>0 DEF Window!SizesAreNumbers
  <2>2. {<<turn, k>>} \in SUBSET (Nat \X Nat) /\ TRUE \in BOOLEAN
    BY <1>4, <2>1
  <2>m. r[k] = Window!Message("tool", {<<turn, k>>}, TRUE, size, written + k)
    BY <1>8
  <2>3. r[k] = [role |-> "tool", calls |-> {<<turn, k>>}, text |-> TRUE, size |-> size, no |-> written + k]
    BY <2>m DEF Window!Message
  <2>4. r[k].role = "tool" /\ r[k].calls = {<<turn, k>>} /\ r[k].no = written + k
    BY <2>3
  <2>5. "tool" \in {"system", "user", "ai", "tool"}
    OBVIOUS
  <2>6. r[k] \in [role : {"system", "user", "ai", "tool"}, calls : SUBSET (Nat \X Nat), text : BOOLEAN, size : Nat, no : Nat]
    BY <2>1, <2>2, <2>3, <2>5
  <2> QED
    BY <2>4, <2>6 DEF Messages
<1>10. r \in Lists /\ Len(r) = n /\ DOMAIN r = 1 .. n
  <2>1. DOMAIN r = 1 .. n /\ r = [k \in 1 .. n |-> r[k]]
    BY <1>8
  <2>2. n \in Nat
    OBVIOUS
  <2>3. r \in Seq(Messages)
    BY <1>9, <2>1, <2>2
  <2> QED
    BY <2>1, <2>2, <2>3 DEF Lists
<1>11. \A k \in 1 .. n : Window!InBlock(messages \o r, Len(messages) + k)
  <2>1. n \in Nat
    OBVIOUS
  <2> QED
    BY <1>0, <1>1, <1>3, <1>4, <1>9, <1>10, <2>1, ResultsInBlock
<1>12. \A i \in DOMAIN r : r[i].role \in {"ai", "tool"} /\ r[i].no \in written + 1 .. written + n
  BY <1>0, <1>9, <1>10
<1>13. messages' = messages \o r /\ history' = history \o r
  BY <1>6, <1>8
<1>14. ListsOK' /\ CoverOK' /\ QuestionOK' /\ TurnOK'
  <2>1. n \in Nat /\ Len(r) > 0 /\ phase' \in {"thinking", "tools"}
    BY <1>7, <1>10
  <2>2. \A i \in 1 .. Len(r) : r[i].role = "tool" => Window!InBlock(messages \o r, Len(messages) + i)
    BY <1>10, <1>11
  <2> QED
    BY <1>0, <1>7, <1>10, <1>12, <1>13, <2>1, <2>2, TurnGrows
<1>15. CallsOK'
  BY <1>7 DEF CallsOK
<1> QED
  BY <1>7, <1>14, <1>15, RequestKept DEF WindowInv

-----------------------------------------------------------------------------
(* The turn ends *)
LEMMA TurnEnds ==
    ASSUME WindowInv, NEW s \in Lists, Traced(s, history'), remembered' = Window!SanitizePairs(s),
           messages' = <<>>, phase' = "idle", written' \in Nat, history' \in Lists,
           \A i \in DOMAIN history' : history'[i].no \in 1 .. written',
           sent' = sent \/ sent' = Window!SanitizeStrict(messages)
    PROVE  WindowInv'
<1>1. remembered' \in Lists /\ Traced(remembered', history')
  BY PairsKeeps, TracedThrough DEF Keeps
<1>2. messages' \in Lists /\ Traced(messages', history')
  BY DEF Lists, Traced
<1>3. ListsOK' /\ CoverOK' /\ QuestionOK' /\ TurnOK' /\ CallsOK'
  BY <1>1, <1>2 DEF ListsOK, CoverOK, QuestionOK, TurnOK, CallsOK, Answering
<1>4. Window!RequestIsWellFormed'
  BY RequestKept, RequestSent DEF WindowInv, ListsOK
<1> QED
  BY <1>3, <1>4 DEF WindowInv

LEMMA AnswerEnds ==
    ASSUME WindowInv, NEW m \in Messages, NEW r \in Messages, m.no = written + 1, r.no = written + 1, m.role = r.role,
           history' = Append(history, r), Window!EndWith(Append(messages, m)), written' = written + 1,
           sent' = Window!SanitizeStrict(messages)
    PROVE  WindowInv'
<1>0. /\ messages \in Lists /\ history \in Lists /\ written \in Nat
      /\ \A i \in DOMAIN history : history[i].no \in 1 .. written
      /\ Traced(messages, history)
  BY DEF WindowInv, ListsOK, CoverOK
<1>1. PICK s : s = Append(messages, m)
  OBVIOUS
<1>2. s \in Lists /\ s = messages \o <<m>> /\ <<m>> \in Lists /\ Len(<<m>>) = 1 /\ <<m>>[1] = m
  BY <1>0, <1>1, Grown
<1>3. /\ history' \in Lists /\ history' = history \o <<r>> /\ <<r>> \in Lists /\ Len(<<r>>) = 1
      /\ <<r>>[1] = r /\ DOMAIN <<r>> = {1}
  BY <1>0, Grown
<1>4. Traced(s, history')
  <2>1. \A i \in 1 .. Len(<<r>>) : <<m>>[i].no = <<r>>[i].no /\ <<m>>[i].role = <<r>>[i].role
    BY <1>2, <1>3
  <2>2. Traced(messages \o <<m>>, history \o <<r>>)
    BY <1>0, <1>2, <1>3, <2>1, TracedJoined
  <2> QED
    BY <1>2, <1>3, <2>2
<1>5. \A i \in DOMAIN history' : history'[i].no \in 1 .. written'
  <2>1. \A i \in DOMAIN <<r>> : <<r>>[i].no \in 1 .. written + 1
    BY <1>0, <1>3
  <2> QED
    BY <1>0, <1>3, <2>1, NumbersGrow
<1>6. remembered' = Window!SanitizePairs(s) /\ messages' = <<>> /\ phase' = "idle" /\ written' \in Nat
  BY <1>0, <1>1 DEF Window!EndWith
<1> QED
  BY <1>2, <1>3, <1>4, <1>5, <1>6, TurnEnds

LEMMA AnswerStep ==
    ASSUME WindowInv, Window!SizesAreNumbers, Window!Answer
    PROVE  WindowInv'
<1>0. written \in Nat
  BY DEF WindowInv, ListsOK
<1>1. PICK size \in AnswerSizes : /\ history' = Append(history, Window!Message("ai", {}, TRUE, size, written + 1))
                                  /\ Window!EndWith(Append(messages, Window!Message("ai", {}, TRUE, size, written + 1)))
  BY DEF Window!Answer
<1>2. PICK m : m = Window!Message("ai", {}, TRUE, size, written + 1)
  OBVIOUS
<1>3. m \in Messages /\ m.no = written + 1
  <2>1. size \in Nat
    BY DEF Window!SizesAreNumbers
  <2> QED
    BY <1>0, <1>2, <2>1, SMT DEF Window!Message, Messages
<1>4. history' = Append(history, m) /\ Window!EndWith(Append(messages, m))
  BY <1>1, <1>2
<1>5. written' = written + 1 /\ sent' = Window!SanitizeStrict(messages)
  BY DEF Window!Answer, Window!Written
<1> QED
  BY <1>3, <1>4, <1>5, AnswerEnds

LEMMA OutOfRoundsStep ==
    ASSUME WindowInv, Window!SizesAreNumbers, Window!OutOfRounds
    PROVE  WindowInv'
<1>0. written \in Nat
  BY DEF WindowInv, ListsOK
<1>1. PICK text \in BOOLEAN :
         /\ history' = Append(history, Window!Message("ai", {<<written + 1, 1>>}, text, IF text THEN 1 ELSE 0, written + 1))
         /\ Window!EndWith(Append(messages, Window!Message("ai", {}, TRUE, 1, written + 1)))
  BY DEF Window!OutOfRounds
<1>2. PICK m : m = Window!Message("ai", {}, TRUE, 1, written + 1)
  OBVIOUS
<1>3. PICK r : r = Window!Message("ai", {<<written + 1, 1>>}, text, IF text THEN 1 ELSE 0, written + 1)
  OBVIOUS
<1>4. m \in Messages /\ m.no = written + 1 /\ m.role = "ai"
  BY <1>0, <1>2, SMT DEF Window!Message, Messages
<1>5. r \in Messages /\ r.no = written + 1 /\ r.role = "ai"
  <2>1. /\ {<<written + 1, 1>>} \in SUBSET (Nat \X Nat) /\ text \in BOOLEAN
        /\ (IF text THEN 1 ELSE 0) \in Nat /\ written + 1 \in Nat
    BY <1>0
  <2>2. "ai" \in {"system", "user", "ai", "tool"}
    OBVIOUS
  <2>3. r.no = written + 1 /\ r.role = "ai"
    BY <1>3, Zenon DEF Window!Message
  <2>4. r \in [role : {"system", "user", "ai", "tool"}, calls : SUBSET (Nat \X Nat), text : BOOLEAN, size : Nat, no : Nat]
    BY <1>3, <2>1, <2>2, Zenon DEF Window!Message
  <2> QED
    BY <2>3, <2>4 DEF Messages
<1>6. history' = Append(history, r) /\ Window!EndWith(Append(messages, m))
  BY <1>1, <1>2, <1>3
<1>7. written' = written + 1 /\ sent' = Window!SanitizeStrict(messages)
  BY DEF Window!OutOfRounds, Window!Written
<1> QED
  BY <1>4, <1>5, <1>6, <1>7, AnswerEnds

\* A list without its last element
LEMMA FrontOf ==
    ASSUME NEW s \in Lists, s # <<>>
    PROVE  /\ Front(s) \in Lists /\ Len(s) \in Nat \ {0} /\ Len(Front(s)) = Len(s) - 1
           /\ DOMAIN s = 1 .. Len(s) /\ DOMAIN Front(s) = 1 .. Len(s) - 1 /\ Last(s) = s[Len(s)]
           /\ \A i \in 1 .. Len(s) - 1 : Front(s)[i] = s[i]
<1>1. s \in Seq(Messages) /\ DOMAIN s = 1 .. Len(s) /\ Len(s) \in Nat \ {0}
  BY DEF Lists
<1>2. Front(s) = SubSeq(s, 1, Len(s) - 1)
  BY DEF Front
<1>3. PICK n \in Nat \ {0} : n = Len(s)
  BY <1>1
<1>4. SubSeq(s, 1, n - 1) \in Seq(Messages) /\ Len(SubSeq(s, 1, n - 1)) = n - 1
      /\ DOMAIN SubSeq(s, 1, n - 1) = 1 .. n - 1
      /\ \A i \in 1 .. n - 1 : SubSeq(s, 1, n - 1)[i] = s[i]
  BY <1>1, <1>3
<1> QED
  BY <1>1, <1>2, <1>3, <1>4 DEF Lists, Last

LEMMA FailStep ==
    ASSUME WindowInv, Window!Fail
    PROVE  WindowInv'
<1>0. /\ remembered \in Lists /\ history \in Lists /\ written \in Nat
      /\ \A i \in DOMAIN history : history[i].no \in 1 .. written
      /\ Traced(remembered, history)
  BY DEF WindowInv, ListsOK, CoverOK
<1>1. PICK s : s = Window!WithoutQuestion(remembered)
  OBVIOUS
<1>2. /\ history' = Window!WithoutQuestion(history) /\ remembered' = Window!SanitizePairs(s)
      /\ messages' = <<>> /\ phase' = "idle" /\ written' = written /\ sent' = sent
  BY <1>1 DEF Window!Fail, Window!EndWith
<1>3. /\ s \in Lists
      /\ \A j \in DOMAIN s : j \in DOMAIN remembered /\ s[j] = remembered[j]
  <2>1. CASE s = remembered
    BY <1>0, <2>1
  <2>2. CASE s # remembered
    <3>1. remembered # <<>> /\ s = Front(remembered)
      BY <1>1, <2>2, SameLast, SameFront DEF Window!WithoutQuestion
    <3>2. PICK n \in Nat \ {0} : n = Len(remembered)
      BY <1>0, <3>1, FrontOf
    <3>3. /\ s \in Lists /\ DOMAIN s = 1 .. n - 1 /\ DOMAIN remembered = 1 .. n
          /\ \A i \in 1 .. n - 1 : s[i] = remembered[i]
      BY <1>0, <3>1, <3>2, FrontOf
    <3>4. 1 .. n - 1 \subseteq 1 .. n
      OBVIOUS
    <3> QED
      BY <3>3, <3>4
  <2> QED
    BY <2>1, <2>2
<1>4. CASE history # <<>> /\ Last(history).role = "user"
  <2>1. PICK n \in Nat \ {0} : n = Len(history)
    BY <1>0, <1>4, FrontOf
  <2>2. PICK q : q = history[n]
    OBVIOUS
  <2>3. /\ history' \in Lists /\ DOMAIN history' = 1 .. n - 1 /\ DOMAIN history = 1 .. n
        /\ \A i \in 1 .. n - 1 : history'[i] = history[i]
        /\ q = Last(history)
    BY <1>0, <1>2, <1>4, <2>1, <2>2, FrontOf, SameLast, SameFront DEF Window!WithoutQuestion
  <2>4. n \in 1 .. n /\ n > 0 /\ 1 .. n - 1 \subseteq 1 .. n
    OBVIOUS
  <2>5. q.role = "user" /\ q.no \in 1 .. written
    BY <1>0, <1>4, <2>2, <2>3, <2>4
  <2>6. OnlyLast(remembered, q.no)
    BY <2>1, <2>2, <2>4, <2>5 DEF WindowInv, CoverOK, Window!Fail
  <2>7. \A j \in DOMAIN s : s[j].no # q.no
    <3> SUFFICES ASSUME NEW j \in DOMAIN s, s[j].no = q.no
                 PROVE  FALSE
      OBVIOUS
    <3>1. j \in DOMAIN remembered /\ remembered[j] = s[j] /\ j = Len(remembered) /\ remembered[j].role = "user"
      BY <1>3, <2>6 DEF OnlyLast
    <3>2. remembered # <<>> /\ Last(remembered).role = "user"
      <4>1. remembered # <<>>
        BY <1>0, <3>1 DEF Lists
      <4>2. Last(remembered) = remembered[Len(remembered)]
        BY DEF Last
      <4> QED
        BY <3>1, <4>1, <4>2
    <3>3. s = Front(remembered)
      BY <1>1, <3>2, SameLast, SameFront DEF Window!WithoutQuestion
    <3>4. DOMAIN s = 1 .. Len(remembered) - 1 /\ Len(remembered) \in Nat
      BY <1>0, <3>2, <3>3, FrontOf
    <3> QED
      BY <3>1, <3>4
  <2>8. Traced(s, history')
    <3> SUFFICES ASSUME NEW j \in DOMAIN s, s[j].no > 0
                 PROVE  \E i \in DOMAIN history' : history'[i].no = s[j].no /\ history'[i].role = s[j].role
      BY DEF Traced
    <3>1. PICK i \in 1 .. n : history[i].no = s[j].no /\ history[i].role = s[j].role
      BY <1>0, <1>3, <2>3 DEF Traced
    <3>2. i # n
      BY <2>2, <2>7, <3>1
    <3>3. i \in 1 .. n - 1
      BY <3>2
    <3> QED
      BY <2>3, <3>1, <3>3
  <2>9. \A i \in DOMAIN history' : history'[i].no \in 1 .. written'
    BY <1>0, <1>2, <2>3, <2>4
  <2> QED
    BY <1>0, <1>2, <1>3, <2>3, <2>8, <2>9, TurnEnds
<1>5. CASE ~(history # <<>> /\ Last(history).role = "user")
  <2>1. history' = history
    BY <1>2, <1>5, SameLast, SameFront DEF Window!WithoutQuestion
  <2>2. Traced(s, history)
    BY <1>0, <1>3 DEF Traced
  <2> QED
    BY <1>0, <1>2, <1>3, <2>1, <2>2, TurnEnds
<1> QED
  BY <1>4, <1>5

-----------------------------------------------------------------------------
(* Between the turns *)
LEMMA CompactStep ==
    ASSUME WindowInv, Window!SizesAreNumbers, Window!CompactByHand
    PROVE  WindowInv'
<1>0. /\ remembered \in Lists /\ messages \in Lists /\ history \in Lists /\ written \in Nat
      /\ \A i \in DOMAIN history : history[i].no \in 1 .. written
      /\ Traced(remembered, history) /\ Traced(messages, history)
  BY DEF WindowInv, ListsOK, CoverOK
<1>1. PICK summarised \in BOOLEAN : remembered' = Window!Compressed("full", remembered, summarised, 0)
  BY DEF Window!CompactByHand
<1>2. KeepRecent \in Nat
  BY DEF Window!SizesAreNumbers
<1>3. Keeps(remembered', remembered)
  BY <1>0, <1>1, <1>2, CompressedKeeps
<1>4. messages' = messages /\ sent' = sent /\ history' = history /\ phase' = "idle" /\ written' = written
  BY DEF Window!CompactByHand
<1>5. remembered' \in Lists /\ Traced(remembered', history')
  BY <1>0, <1>3, <1>4, TracedThrough DEF Keeps
<1>6. ListsOK' /\ CoverOK' /\ QuestionOK' /\ TurnOK' /\ CallsOK'
  BY <1>0, <1>4, <1>5 DEF ListsOK, CoverOK, QuestionOK, TurnOK, CallsOK, Answering
<1> QED
  BY <1>4, <1>6, RequestKept DEF WindowInv

LEMMA RestartStep ==
    ASSUME WindowInv, Window!Restart
    PROVE  WindowInv'
<1>0. /\ history \in Lists /\ written \in Nat
      /\ \A i \in DOMAIN history : history[i].no \in 1 .. written
  BY DEF WindowInv, ListsOK
<1>1. Window!SystemPrompt \in Messages /\ Window!SystemPrompt.no = 0
  BY SMT DEF Window!SystemPrompt, Window!Message, Messages
<1>2. <<Window!SystemPrompt>> \in Lists /\ \A i \in DOMAIN <<Window!SystemPrompt>> : <<Window!SystemPrompt>>[i].no = 0
  BY <1>1 DEF Lists
<1>3. PICK s : s = <<Window!SystemPrompt>> \o history
  OBVIOUS
<1>4. Keeps(s, history)
  BY <1>0, <1>2, <1>3, KeepsItself, PrefixKeeps
<1>5. s \in Lists /\ Traced(s, history)
  BY <1>4 DEF Keeps
<1>6. /\ remembered' = Window!SanitizePairs(s) /\ messages' = <<>> /\ phase' = "idle" /\ sent' = sent
      /\ history' = history /\ written' = written
  BY <1>3 DEF Window!Restart
<1> QED
  BY <1>0, <1>5, <1>6, TurnEnds

LEMMA StutterStep ==
    ASSUME WindowInv, UNCHANGED Window!vars
    PROVE  WindowInv'
<1>1. /\ remembered' = remembered /\ messages' = messages /\ sent' = sent /\ history' = history
      /\ phase' = phase /\ written' = written
  BY DEF Window!vars
<1>2. ListsOK' /\ CoverOK'
  BY <1>1 DEF WindowInv, ListsOK, CoverOK
<1>3. Window!Question' = Window!Question
  BY <1>1, SameLast DEF Window!Question
<1>4. QuestionOK' /\ CallsOK'
  BY <1>1, <1>3 DEF WindowInv, QuestionOK, CallsOK, Answering
<1>5. TurnOK'
  <2>1. \A i \in DOMAIN messages : Window!InBlock(messages, i) => Window!InBlock(messages, i)'
    BY <1>1 DEF Window!InBlock, Window!Complete, Window!Block
  <2> QED
    BY <1>1, <1>3, <2>1 DEF WindowInv, TurnOK, Answering
<1> QED
  BY <1>1, <1>2, <1>4, <1>5, RequestKept DEF WindowInv

LEMMA WindowStep ==
    ASSUME WindowInv, Window!SizesAreNumbers, [Window!Next]_(Window!vars)
    PROVE  WindowInv'
<1>1. CASE Window!Next
  BY <1>1, AskStep, PrepareStep, AnswerStep, CallToolsStep, OutOfRoundsStep, ToolsAnswerStep, FailStep,
     CompactStep, RestartStep DEF Window!Next
<1>2. CASE UNCHANGED Window!vars
  BY <1>2, StutterStep
<1> QED
  BY <1>1, <1>2

LEMMA WindowAlways ==
    ASSUME Window!SizesAreNumbers
    PROVE  Window!Spec => []WindowInv
<1>1. Window!Init => WindowInv
  BY WindowStarts
<1>2. WindowInv /\ [Window!Next]_(Window!vars) => WindowInv'
  BY WindowStep
<1> QED
  BY <1>1, <1>2, PTL DEF Window!Spec

\* Every request has its calls answered in the block behind them and no results besides
\* (what _make_llm_node sends), and the question asked is in it, last but for its turn's
\* own exchange, if it fits: trimming drops from the front only.
THEOREM RequestsAreWhole ==
    ASSUME Window!SizesAreNumbers
    PROVE  Window!Spec => [](Window!RequestIsWellFormed /\ Window!QuestionReachesModel)
<1>1. WindowInv => Window!RequestIsWellFormed /\ Window!QuestionReachesModel
  <2>1. WindowInv => Window!RequestIsWellFormed
    BY DEF WindowInv
  <2>2. WindowInv => Window!QuestionReachesModel
    BY DEF WindowInv, TurnOK, Answering, Window!QuestionReachesModel
  <2> QED
    BY <2>1, <2>2
<1> QED
  BY <1>1, WindowAlways, PTL

\* What memory holds, apart from summaries, is in the history that a restart rebuilds it
\* from: a turn that fails takes its question from both (_rollback_on_error).
THEOREM RecordCovers ==
    ASSUME Window!SizesAreNumbers
    PROVE  Window!Spec => []Window!RecordCoversMemory
<1>1. WindowInv => Window!RecordCoversMemory
  BY DEF WindowInv, CoverOK, Traced, Window!RecordCoversMemory
<1> QED
  BY <1>1, WindowAlways, PTL

\* What the tools have answered in a turn is all in the turn's next request: the repair
\* before the call takes none of it (_sanitize_tool_pairs_strict).
THEOREM ResultsReach ==
    ASSUME Window!SizesAreNumbers
    PROVE  Window!Spec => Window!ResultsReachModel
<1>1. ASSUME WindowInv
      PROVE  Window!ResultsAreSent
  <2>1. messages \in Lists
    BY <1>1 DEF WindowInv, ListsOK
  <2>2. ASSUME Window!Answer \/ Window!CallTools \/ Window!OutOfRounds
        PROVE  phase = "thinking" /\ sent' = Window!SanitizeStrict(messages)
    BY <2>2 DEF Window!Answer, Window!CallTools, Window!OutOfRounds
  <2>3. ASSUME Window!Answer \/ Window!CallTools \/ Window!OutOfRounds,
               NEW i \in DOMAIN messages, messages[i].role = "tool", messages[i].no > Window!Question.no
        PROVE  \E j \in DOMAIN sent' : sent'[j] = messages[i]
    <3>1. phase = "thinking" /\ sent' = Window!SanitizeStrict(messages)
      BY <2>2, <2>3
    <3>2. Window!InBlock(messages, i)
      BY <1>1, <2>3, <3>1 DEF WindowInv, TurnOK, Answering
    <3>3. \E j \in DOMAIN Window!SanitizeStrict(messages) : Window!SanitizeStrict(messages)[j] = messages[i]
      BY <2>1, <2>3, <3>2, StrictIsWhole
    <3> QED
      BY <3>1, <3>3
  <2> QED
    BY <2>3 DEF Window!ResultsAreSent
<1>2. WindowInv /\ [Window!Next]_(Window!vars) => [Window!ResultsAreSent]_(Window!vars)
  BY <1>1
<1> QED
  BY <1>2, WindowAlways, PTL DEF Window!Spec, Window!ResultsReachModel
=============================================================================
