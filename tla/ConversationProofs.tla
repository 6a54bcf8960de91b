------------------------- MODULE ConversationProofs -------------------------
(***************************************************************************)
(* What the browser is promised in Conversation.tla, proved for queues of   *)
(* any size, turns of any length and any number of outside events.         *)
(*                                                                         *)
(* The argument follows the messages the connection still holds.  Each of   *)
(* them takes a browser that has read everything before it from one         *)
(* standing (generation, revision, draft, history) to the next, and after    *)
(* the last one it stands where the server does: a chain of standings, one   *)
(* more than there are messages.  The browser is at its first link, or       *)
(* behind it by events it could not read, or knows that it is not; or the    *)
(* next message is a snapshot, which needs no link before it.               *)
(***************************************************************************)
EXTENDS Conversation, SequenceTheorems, TLAPS

Entries == {"user", "assistant", "notice"} \X Nat
Types == {"snapshot", "stream_start", "stream_end", "chain_end", "error", "delta",
          "llm_usage"}
Drafts == 0 .. MaxEvents
Messages ==
    [type : Types, revision : Nat \cup {NoRevision}, generation : Nat, readable : BOOLEAN,
     messages : Seq(Entries), status : {"none", "running", "streaming", "error"},
     draft : Drafts, terminal : BOOLEAN]

Connections == [open : BOOLEAN, queue : Seq(Messages), overflow : Seq(Messages)]
Bounded(c) == Len(c.queue) <= QueueSize /\ Len(c.overflow) <= OverflowSize

Buses == [revision : Nat, active : [generation : Nat, baseline : Nat, draft : Drafts]]

------------------------------------------------------------------------------
(* Where a browser stands that has read all there is, up to a message: the  *)
(* reply being streamed, its last revision and draft, whether the last event *)
(* could not be read, whether there is an error, and the history.           *)
Standings ==
    [gen : Nat, rev : Nat, draft : Drafts, unread : BOOLEAN, broken : BOOLEAN,
     hist : Seq(Entries)]

Refusing(e) == e.type = "error" /\ ~e.terminal
Streamed == {"delta", "llm_usage", "stream_end"}

(* What a message does to it ... *)
After(x, e) ==
    IF Refusing(e) THEN x
    ELSE IF e.type = "snapshot"
    THEN [gen |-> e.generation, rev |-> e.revision, draft |-> e.draft, unread |-> FALSE,
          broken |-> e.status = "error", hist |-> e.messages]
    ELSE [gen |-> IF e.type = "stream_start" THEN e.generation
                  ELSE IF e.type \in {"chain_end", "error"} THEN 0 ELSE x.gen,
          rev |-> e.revision,
          draft |-> IF e.type = "delta" THEN x.draft + 1
                    ELSE IF e.type \in Streamed THEN x.draft ELSE 0,
          unread |-> ~e.readable,
          broken |-> IF e.type = "error" THEN TRUE
                     ELSE IF e.type \in Streamed THEN x.broken ELSE FALSE,
          hist |-> IF e.type = "chain_end" THEN e.messages ELSE x.hist]

(* ... and which messages may come there.  D is the set of all drafts the bus *)
(* has had.                                                                  *)
Fits(x, e, D) ==
    /\ Revisioned(e) => e.revision = x.rev + 1
    /\ e.type = "snapshot" => e.revision # NoRevision
    /\ Refusing(e) => e.revision = NoRevision /\ e.generation = 0
    /\ e.type = "stream_start" => e.generation # 0
    /\ e.type \in Streamed => x.gen # 0 /\ e.generation = x.gen /\ ~x.broken
    /\ e.type \in {"chain_end", "error"} /\ e.generation # 0 => e.generation = x.gen
    /\ e.type # "delta" => e.readable
    /\ ~Refusing(e) => <<After(x, e).gen, After(x, e).rev, After(x, e).draft>> \in D

(* The messages P lead from the standing x to the standing y. *)
Leads(P, x, y, D) ==
    \E st \in [0 .. Len(P) -> Standings] :
        /\ st[0] = x /\ st[Len(P)] = y
        /\ \A i \in 1 .. Len(P) : Fits(st[i - 1], P[i], D) /\ st[i] = After(st[i - 1], P[i])

------------------------------------------------------------------------------
(* Messages that lead somewhere *)

(* No messages lead nowhere. *)
LEMMA LeadsNowhere ==
    ASSUME NEW D
    PROVE  /\ \A x \in Standings : Leads(<<>>, x, x, D)
           /\ \A x, y : Leads(<<>>, x, y, D) => x = y /\ x \in Standings
<1>1. Len(<<>>) = 0 /\ 1 .. Len(<<>>) = {}
  OBVIOUS
<1>2. ASSUME NEW x \in Standings
      PROVE  Leads(<<>>, x, x, D)
  <2> DEFINE st == [i \in 0 .. Len(<<>>) |-> x]
  <2>1. st \in [0 .. Len(<<>>) -> Standings] /\ st[0] = x /\ st[Len(<<>>)] = x
    BY <1>1
  <2> HIDE DEF st
  <2> QED
    BY <2>1, <1>1 DEF Leads
<1>3. ASSUME NEW x, NEW y, Leads(<<>>, x, y, D)
      PROVE  x = y /\ x \in Standings
  <2>1. PICK st \in [0 .. Len(<<>>) -> Standings] : st[0] = x /\ st[Len(<<>>)] = y
    BY <1>3 DEF Leads
  <2> QED
    BY <2>1, <1>1
<1> QED
  BY <1>2, <1>3

(* Another message leads one standing further. *)
LEMMA LeadsFurther ==
    ASSUME NEW P \in Seq(Messages), NEW e \in Messages, NEW D, NEW x, NEW y,
           Leads(P, x, y, D), Fits(y, e, D), After(y, e) \in Standings
    PROVE  Leads(Append(P, e), x, After(y, e), D)
<1> DEFINE n == Len(P)
           Q == Append(P, e)
<1>1. /\ n \in Nat /\ Len(Q) = n + 1
      /\ \A i \in 1 .. n : Q[i] = P[i]
      /\ Q[n + 1] = e
  OBVIOUS
<1>2. PICK st \in [0 .. n -> Standings] :
         /\ st[0] = x /\ st[n] = y
         /\ \A i \in 1 .. n : Fits(st[i - 1], P[i], D) /\ st[i] = After(st[i - 1], P[i])
  BY DEF Leads
<1> DEFINE su == [i \in 0 .. n + 1 |-> IF i = n + 1 THEN After(y, e) ELSE st[i]]
<1>3. /\ su \in [0 .. n + 1 -> Standings]
      /\ su[n + 1] = After(y, e)
      /\ \A i \in 0 .. n : su[i] = st[i]
  BY <1>1
<1> HIDE DEF su, Q, n
<1>4. ASSUME NEW i \in 1 .. n + 1
      PROVE  Fits(su[i - 1], Q[i], D) /\ su[i] = After(su[i - 1], Q[i])
  <2>1. CASE i = n + 1
    BY <2>1, <1>1, <1>2, <1>3
  <2>2. CASE i \in 1 .. n
    BY <2>2, <1>1, <1>2, <1>3
  <2> QED
    BY <2>1, <2>2, <1>1
<1>5. Len(Q) = n + 1 /\ su[0] = x /\ su[n + 1] = After(y, e)
  BY <1>1, <1>2, <1>3
<1>6. Leads(Q, x, After(y, e), D)
  BY <1>3, <1>4, <1>5 DEF Leads
<1> QED
  BY <1>6 DEF Q

(* The first message leads to where the others start. *)
LEMMA LeadsOn ==
    ASSUME NEW P \in Seq(Messages), P # <<>>, NEW D, NEW x, NEW y, Leads(P, x, y, D)
    PROVE  /\ x \in Standings /\ Fits(x, Head(P), D)
           /\ After(x, Head(P)) \in Standings
           /\ Leads(Tail(P), After(x, Head(P)), y, D)
<1> DEFINE n == Len(P)
           Q == Tail(P)
<1>1. /\ n \in Nat \ {0} /\ Len(Q) = n - 1 /\ Head(P) = P[1]
      /\ \A i \in 1 .. n - 1 : Q[i] = P[i + 1]
  BY HeadTailProperties
<1>2. PICK st \in [0 .. n -> Standings] :
         /\ st[0] = x /\ st[n] = y
         /\ \A i \in 1 .. n : Fits(st[i - 1], P[i], D) /\ st[i] = After(st[i - 1], P[i])
  BY DEF Leads
<1> DEFINE su == [i \in 0 .. n - 1 |-> st[i + 1]]
<1>3. /\ su \in [0 .. n - 1 -> Standings]
      /\ \A i \in 0 .. n - 1 : su[i] = st[i + 1]
  BY <1>1
<1> HIDE DEF su, Q, n
<1>4. /\ 1 \in 1 .. n /\ 0 \in 0 .. n /\ 1 \in 0 .. n /\ 0 \in 0 .. n - 1 /\ n - 1 \in 0 .. n - 1
  BY <1>1
<1>5. ASSUME NEW i \in 1 .. n - 1
      PROVE  Fits(su[i - 1], Q[i], D) /\ su[i] = After(su[i - 1], Q[i])
  <2>1. i + 1 \in 1 .. n /\ i - 1 \in 0 .. n - 1 /\ (i - 1) + 1 = i /\ (i + 1) - 1 = i
    BY <1>1
  <2> QED
    BY <2>1, <1>1, <1>2, <1>3
<1>6. su[0] = st[1] /\ su[n - 1] = y
  BY <1>1, <1>2, <1>3, <1>4
<1>7. Fits(x, P[1], D) /\ st[1] = After(x, P[1]) /\ st[1] \in Standings /\ x \in Standings
  BY <1>2, <1>4
<1>8. Leads(Q, After(x, P[1]), y, D)
  BY <1>1, <1>3, <1>5, <1>6, <1>7 DEF Leads
<1> QED
  BY <1>1, <1>7, <1>8 DEF Q

(* Whoever starts or ends there stands somewhere. *)
LEMMA LeadsSomewhere ==
    ASSUME NEW P \in Seq(Messages), NEW D, NEW x, NEW y, Leads(P, x, y, D)
    PROVE  x \in Standings /\ y \in Standings
<1>1. Len(P) \in Nat
  OBVIOUS
<1> QED
  BY <1>1 DEF Leads

(* What fits keeps fitting when the bus has more drafts. *)
LEMMA LeadsStill ==
    ASSUME NEW P, NEW D, NEW E, D \subseteq E, NEW x, NEW y, Leads(P, x, y, D)
    PROVE  Leads(P, x, y, E)
<1>1. \A u, e : Fits(u, e, D) => Fits(u, e, E)
  BY DEF Fits
<1> QED
  BY <1>1 DEF Leads

------------------------------------------------------------------------------
(* The connection *)

(* What is pending is a list of messages. *)
LEMMA PendingOK ==
    ASSUME NEW c \in Connections
    PROVE  Pending(c) \in Seq(Messages)
BY ConcatProperties DEF Pending, Connections

(* Appending to the second of two lists appends to both. *)
LEMMA AppendToBoth ==
    ASSUME NEW S, NEW s \in Seq(S), NEW t \in Seq(S), NEW e \in S
    PROVE  s \o Append(t, e) = Append(s \o t, e)
<1>1. Append(t, e) = t \o <<e>> /\ <<e>> \in Seq(S)
  BY AppendIsConcat
<1>2. (s \o t) \o <<e>> = s \o (t \o <<e>>)
  BY <1>1, ConcatAssociative
<1>3. s \o t \in Seq(S)
  BY ConcatProperties
<1>4. Append(s \o t, e) = (s \o t) \o <<e>>
  BY <1>3, AppendIsConcat
<1> QED
  BY <1>1, <1>2, <1>4

(* Whoever finds the connection open after a message was sent finds that     *)
(* message behind all others: a connection loses its place or nothing.      *)
LEMMA EnqueueEffect ==
    ASSUME NEW c \in Connections, Bounded(c), NEW e \in Messages
    PROVE  /\ Enqueue(c, e) \in Connections /\ Bounded(Enqueue(c, e))
           /\ Enqueue(c, e).open => /\ c.open
                                    /\ Pending(Enqueue(c, e)) = Append(Pending(c), e)
<1>1. <<>> \in Seq(Messages) /\ Len(<<>>) = 0
  OBVIOUS
<1>2. Closed \in Connections /\ Bounded(Closed) /\ ~Closed.open
  BY <1>1, SizesAssumption DEF Connections, Bounded, Closed
<1>3. CASE ~c.open
  BY <1>3 DEF Enqueue
<1>4. CASE c.open
  <2> DEFINE Conn(q, o) == [open |-> TRUE, queue |-> q, overflow |-> o]
  <2>1. PICK q \in Seq(Messages), o \in Seq(Messages) : c = Conn(q, o)
    BY <1>4 DEF Connections
  <2> DEFINE q2 == Append(q, e)
             o2 == Append(o, e)
  <2>2. /\ q2 \in Seq(Messages) /\ o2 \in Seq(Messages)
        /\ Len(q2) = Len(q) + 1 /\ Len(o2) = Len(o) + 1
        /\ Len(q) \in Nat /\ Len(o) \in Nat /\ (o = <<>> <=> Len(o) = 0)
        /\ Len(q) <= QueueSize /\ Len(o) <= OverflowSize
    BY <2>1, AppendProperties DEF Bounded
  <2>3. \/ Enqueue(c, e) = Conn(q2, o) /\ o = <<>> /\ Len(q) < QueueSize
        \/ Enqueue(c, e) = Conn(q, o2) /\ Len(o) < OverflowSize
        \/ Enqueue(c, e) = Closed
    <3>1. c.open = TRUE /\ c.queue = q /\ c.overflow = o
      BY <2>1
    <3>2. ASSUME NEW u
          PROVE  /\ [c EXCEPT !.queue = u] = [open |-> c.open, queue |-> u, overflow |-> c.overflow]
                 /\ [c EXCEPT !.overflow = u] = [open |-> c.open, queue |-> c.queue, overflow |-> u]
      BY DEF Connections
    <3>3. /\ [c EXCEPT !.queue = Append(c.queue, e)] = Conn(q2, o)
          /\ [c EXCEPT !.overflow = Append(c.overflow, e)] = Conn(q, o2)
      BY <3>1, <3>2
    <3> HIDE DEF Conn, q2, o2
    <3> QED
      BY <2>2, <3>1, <3>3, SizesAssumption DEF Enqueue
  <2>4. \A s, t \in Seq(Messages) : /\ Conn(s, t) \in Connections
                                    /\ Pending(Conn(s, t)) = s \o t
    BY DEF Connections, Pending
  <2>5. o = <<>> => q2 \o o = Append(q \o o, e)
    BY <2>2, ConcatEmptySeq
  <2>6. q \o o2 = Append(q \o o, e)
    BY AppendToBoth
  <2>7. \A s, t : Bounded(Conn(s, t)) <=> Len(s) <= QueueSize /\ Len(t) <= OverflowSize
    BY DEF Bounded
  <2>8. Len(q) < QueueSize => Len(q2) <= QueueSize
    BY <2>2, SizesAssumption
  <2>9. Len(o) < OverflowSize => Len(o2) <= OverflowSize
    BY <2>2, SizesAssumption
  <2> HIDE DEF q2, o2, Conn
  <2>10. Pending(c) = q \o o /\ c.open
    BY <2>1, <2>4, <1>4
  <2>11. CASE Enqueue(c, e) = Conn(q2, o) /\ o = <<>> /\ Len(q) < QueueSize
    BY <2>2, <2>4, <2>5, <2>7, <2>8, <2>10, <2>11
  <2>12. CASE Enqueue(c, e) = Conn(q, o2) /\ Len(o) < OverflowSize
    BY <2>2, <2>4, <2>6, <2>7, <2>9, <2>10, <2>12
  <2> QED
    BY <1>2, <2>3, <2>11, <2>12
<1> QED
  BY <1>3, <1>4 DEF Connections

------------------------------------------------------------------------------
(* The browser *)

Phases == {"loading", "ready", "streaming", "reconnecting", "error"}
Views ==
    [connected : BOOLEAN, phase : Phases, revision : Nat \cup {NoRevision},
     generation : Nat, messages : Seq(Entries), draft : Drafts, streaming : BOOLEAN,
     needsResync : BOOLEAN, received : Nat \cup {NoRevision}]

(* It stands where it should, or has missed events it could not read, which   *)
(* it will notice at the next one.                                           *)
Stands(v, x) ==
    /\ v.generation = x.gen /\ v.revision = x.rev /\ v.draft = x.draft
    /\ v.phase = "streaming" <=> x.gen # 0
Behind(v, x) ==
    /\ x.unread /\ x.gen # 0
    /\ v.generation = x.gen /\ v.revision # NoRevision /\ v.revision < x.rev
    /\ v.phase = "streaming"

(* A browser that does not shows an error or knows that it needs a snapshot.  *)
Knows(v) == v.phase = "error" \/ v.needsResync
Follows(v, x) ==
    /\ v.phase \in {"ready", "streaming"} /\ ~x.broken
    /\ Stands(v, x) \/ Behind(v, x)

(* What a browser shows between streams is the history.                      *)
Current(v, x) == Stands(v, x) /\ (x.gen = 0 => v.messages = x.hist)

(* A snapshot puts a browser where it leads, wherever it was.                *)
LEMMA SnapshotShown ==
    ASSUME NEW v \in Views, NEW x \in Standings, NEW e \in Messages, NEW D,
           e.type = "snapshot", Fits(x, e, D), After(x, e) \in Standings
    PROVE  /\ Reduce(v, e) \in Views /\ Reduce(v, e).connected = v.connected
           /\ \/ Knows(Reduce(v, e))
              \/ Follows(Reduce(v, e), After(x, e)) /\ Current(Reduce(v, e), After(x, e))
<1> DEFINE w == Reduce(v, e)
<1>1. w = OnSnapshot(v, e)
  BY DEF Reduce
<1>2. /\ w \in Views /\ w.connected = v.connected
      /\ w.generation = e.generation /\ w.revision = e.revision /\ w.draft = e.draft
      /\ w.messages = e.messages
      /\ w.phase = IF e.status = "error" THEN "error"
                   ELSE IF e.generation # 0 THEN "streaming"
                   ELSE IF e.status = "streaming" THEN "reconnecting" ELSE "ready"
      /\ w.needsResync = (e.status = "streaming" /\ e.generation = 0)
  BY <1>1 DEF OnSnapshot, Views, Messages, Phases
<1> DEFINE y == After(x, e)
<1>3. /\ y.gen = e.generation /\ y.rev = e.revision /\ y.draft = e.draft
      /\ y.hist = e.messages /\ (y.broken <=> e.status = "error")
  BY DEF After, Refusing
<1> HIDE DEF w, y
<1>4. CASE e.status = "error"
  BY <1>2, <1>4 DEF Knows, w
<1>5. CASE e.status = "streaming" /\ e.generation = 0
  BY <1>2, <1>5 DEF Knows, w
<1>6. CASE e.status # "error" /\ e.generation # 0
  BY <1>2, <1>3, <1>6 DEF Follows, Stands, Current, w, y
<1>7. CASE e.status \notin {"error", "streaming"} /\ e.generation = 0
  BY <1>2, <1>3, <1>7 DEF Follows, Stands, Current, w, y
<1> QED
  BY <1>4, <1>5, <1>6, <1>7

(* What a message other than a snapshot leads to. *)
LEMMA AfterEvent ==
    ASSUME NEW x, NEW e \in Messages, e.type # "snapshot", ~Refusing(e)
    PROVE  /\ After(x, e).rev = e.revision
           /\ e.type = "stream_start" =>
                 After(x, e).gen = e.generation /\ After(x, e).draft = 0
           /\ e.type \in {"chain_end", "error"} =>
                 After(x, e).gen = 0 /\ After(x, e).draft = 0
           /\ e.type \in Streamed =>
                 /\ After(x, e).gen = x.gen /\ After(x, e).hist = x.hist
                 /\ After(x, e).draft = IF e.type = "delta" THEN x.draft + 1 ELSE x.draft
                 /\ After(x, e).broken <=> x.broken
           /\ e.type = "chain_end" => After(x, e).hist = e.messages
           /\ e.type \in {"stream_start", "chain_end"} => ~After(x, e).broken
           /\ e.type = "error" => After(x, e).broken
           /\ After(x, e).unread <=> ~e.readable
BY DEF After, Messages, Types, Streamed

(* What the reducers make of a view. *)
LEMMA ReducersKeepTypes ==
    ASSUME NEW v \in Views, NEW e \in Messages
    PROVE  /\ OnError(v, e) \in Views /\ OnError(v, e).connected = v.connected
           /\ OnStreamStart(v, e) \in Views /\ OnStreamStart(v, e).connected = v.connected
           /\ OnChainEnd(v, e) \in Views /\ OnChainEnd(v, e).connected = v.connected
<1>1. 0 \in Drafts
  BY SizesAssumption DEF Drafts
<1>2. OnError(v, e) \in Views /\ OnError(v, e).connected = v.connected
  <2>1. CASE e.terminal
    BY <1>1, <2>1 DEF OnError, Views, Phases, Messages
  <2>2. CASE ~e.terminal
    BY <1>1, <2>2 DEF OnError, Views
  <2> QED
    BY <2>1, <2>2
<1>3. OnStreamStart(v, e) \in Views /\ OnStreamStart(v, e).connected = v.connected
  BY <1>1 DEF OnStreamStart, Views, Phases, Messages
<1>4. OnChainEnd(v, e) \in Views /\ OnChainEnd(v, e).connected = v.connected
  <2>1. CASE OnChainEnd(v, e) = v
    BY <2>1
  <2>2. CASE OnChainEnd(v, e) # v
    BY <1>1, <2>2 DEF OnChainEnd, Views, Phases, Messages
  <2> QED
    BY <2>1, <2>2
<1> QED
  BY <1>2, <1>3, <1>4

(* A browser that follows the messages takes the next one and goes on           *)
(* following, or knows that it does not; one that knows needs no more.          *)
LEMMA EventShown ==
    ASSUME NEW v \in Views, NEW x \in Standings, NEW e \in Messages, NEW D,
           e.type # "snapshot", Fits(x, e, D), After(x, e) \in Standings,
           Knows(v) \/ Follows(v, x)
    PROVE  /\ Reduce(v, e) \in Views /\ Reduce(v, e).connected = v.connected
           /\ \/ Knows(Reduce(v, e))
              \/ /\ Follows(Reduce(v, e), After(x, e))
                 /\ \/ Behind(Reduce(v, e), After(x, e)) /\ Reduce(v, e) = v
                    \/ Current(Reduce(v, e), After(x, e)) /\ ~Refusing(e)
<1> DEFINE w == Reduce(v, e)
           y == After(x, e)
           Good == /\ w \in Views /\ w.connected = v.connected
                   /\ \/ Knows(w)
                      \/ /\ Follows(w, y)
                         /\ (Behind(w, y) /\ w = v) \/ (Current(w, y) /\ ~Refusing(e))
<1>0. /\ e.type \in {"stream_start", "stream_end", "chain_end", "error", "delta", "llm_usage"}
      /\ e.readable \in BOOLEAN /\ e.terminal \in BOOLEAN
      /\ v.needsResync \in BOOLEAN /\ v.phase \in Phases
      /\ v.revision \in Nat \cup {NoRevision} /\ x.rev \in Nat /\ NoRevision = -1
      /\ v.generation \in Nat /\ e.generation \in Nat /\ x.gen \in Nat
      /\ x.broken \in BOOLEAN /\ x.draft \in Drafts
      /\ e.revision \in Nat \cup {NoRevision}
  BY DEF Messages, Types, Views, Standings, NoRevision
<1> SUFFICES Good
  OBVIOUS
<1> HIDE DEF w, y
<1>1. ASSUME w = v, Knows(v)
      PROVE  Good
  BY <1>1
<1>2. CASE Refusing(e)
  <2>1. e.type = "error" /\ ~e.terminal /\ e.readable /\ e.revision = NoRevision
        /\ e.generation = 0
    BY <1>2 DEF Fits, Refusing
  <2>2. CASE v.phase = "error"
    <3>1. w = v
      BY <2>1, <2>2 DEF Reduce, w
    <3> QED
      BY <2>2, <3>1, <1>1 DEF Knows
  <2>3. CASE v.phase # "error"
    <3>1. w = OnError(v, e)
      BY <2>1, <2>3 DEF Reduce, AlwaysTaken, Stale, OtherGeneration, w
    <3>2. OnError(v, e).needsResync
      BY <2>1 DEF OnError, Views
    <3> QED
      BY <3>1, <3>2, ReducersKeepTypes DEF Knows
  <2> QED
    BY <2>2, <2>3
<1>3. ASSUME ~Refusing(e)
      PROVE  e.revision = x.rev + 1 /\ y.rev = e.revision /\ e.revision # NoRevision
  BY <1>0, <1>3, AfterEvent DEF Fits, Revisioned, Refusing, y
<1>4. CASE e.type = "error" /\ ~Refusing(e)
  <2>1. e.readable /\ e.terminal
    BY <1>0, <1>4 DEF Fits, Refusing
  <2>2. OnError(v, e).needsResync
    BY <2>1 DEF OnError, Views
  <2>3. CASE Knows(v)
    <3>1. w = v \/ w = OnError(v, e)
      BY <1>4, <2>1 DEF Reduce, AlwaysTaken, w
    <3> QED
      BY <2>2, <2>3, <3>1, <1>1, ReducersKeepTypes DEF Knows
  <2>4. CASE ~Knows(v)
    <3>1. v.generation = x.gen /\ v.phase # "error" /\ v.revision <= x.rev
      BY <1>0, <2>4 DEF Follows, Stands, Behind, Knows
    <3>2. ~OtherGeneration(v, e) /\ ~Stale(v, e)
      BY <1>0, <1>3, <1>4, <3>1 DEF OtherGeneration, Stale, Fits
    <3>3. w = OnError(v, e)
      BY <1>4, <2>1, <3>1, <3>2 DEF Reduce, AlwaysTaken, w
    <3> QED
      BY <2>2, <3>3, ReducersKeepTypes DEF Knows
  <2> QED
    BY <2>3, <2>4
<1>5. CASE e.type = "stream_start"
  <2>1. ~Refusing(e) /\ e.readable /\ e.generation # 0
    BY <1>5 DEF Refusing, Fits
  <2>2. w = v \/ w = OnStreamStart(v, e)
    BY <1>5, <2>1 DEF Reduce, AlwaysTaken, OtherGeneration, w
  <2>3. CASE w = OnStreamStart(v, e)
    <3>1. /\ w.phase = "streaming" /\ w.revision = e.revision /\ w.draft = 0
          /\ w.generation = e.generation
      BY <2>3 DEF OnStreamStart, Views
    <3>2. Follows(w, y) /\ Current(w, y)
      BY <1>3, <1>5, <2>1, <3>1, AfterEvent DEF Follows, Current, Stands, y
    <3> QED
      BY <2>1, <2>3, <3>2, ReducersKeepTypes
  <2>4. CASE w = v /\ ~Knows(v)
    <3>1. v.phase # "error" /\ v.revision <= x.rev /\ ~v.needsResync
      BY <1>0, <2>4 DEF Follows, Stands, Behind, Knows
    <3>2. ~Stale(v, e)
      BY <1>0, <1>3, <2>1, <3>1 DEF Stale
    <3>3. w = OnStreamStart(v, e)
      BY <1>5, <2>1, <3>1, <3>2 DEF Reduce, AlwaysTaken, OtherGeneration, w
    <3> QED
      BY <2>3, <3>3
  <2> QED
    BY <1>1, <2>2, <2>3, <2>4
<1>6. CASE e.type = "chain_end"
  <2>1. ~Refusing(e) /\ e.readable
    BY <1>6 DEF Refusing, Fits
  <2>2. \/ w = v /\ Knows(v)
        \/ w = OnChainEnd(v, e)
    <3>1. CASE Knows(v)
      BY <1>6, <2>1, <3>1 DEF Reduce, w
    <3>2. CASE ~Knows(v)
      <4>1. v.generation = x.gen /\ v.phase # "error"
        BY <3>2 DEF Follows, Stands, Behind, Knows
      <4>2. ~OtherGeneration(v, e)
        BY <1>6, <4>1 DEF OtherGeneration, Fits
      <4> QED
        BY <1>6, <2>1, <4>1, <4>2 DEF Reduce, w
    <3> QED
      BY <3>1, <3>2
  <2>3. CASE w = OnChainEnd(v, e)
    <3>1. \/ w = v
          \/ /\ w.phase = "ready" /\ w.revision = e.revision /\ w.draft = 0
             /\ w.generation = 0 /\ w.messages = e.messages
      BY <2>3 DEF OnChainEnd, Views
    <3>2. CASE w = v /\ ~Knows(v)
      <4>1. v.revision <= x.rev
        BY <1>0, <3>2 DEF Follows, Stands, Behind, Knows
      <4>2. ~(v.revision # NoRevision /\ e.revision <= v.revision)
        BY <1>0, <1>3, <2>1, <4>1
      <4>3. /\ w.phase = "ready" /\ w.revision = e.revision /\ w.draft = 0
            /\ w.generation = 0 /\ w.messages = e.messages
        BY <2>3, <4>2 DEF OnChainEnd, Views
      <4>4. Follows(w, y) /\ Current(w, y)
        BY <1>3, <1>6, <2>1, <4>3, AfterEvent DEF Follows, Current, Stands, y
      <4> QED
        BY <2>1, <3>2, <4>4
    <3>3. CASE /\ w.phase = "ready" /\ w.revision = e.revision /\ w.draft = 0
               /\ w.generation = 0 /\ w.messages = e.messages
      <4>1. Follows(w, y) /\ Current(w, y)
        BY <1>3, <1>6, <2>1, <3>3, AfterEvent DEF Follows, Current, Stands, y
      <4> QED
        BY <2>1, <2>3, <4>1, ReducersKeepTypes
    <3> QED
      BY <1>1, <3>1, <3>2, <3>3
  <2> QED
    BY <1>1, <2>2, <2>3
<1>7. CASE e.type \in Streamed
  <2>1. /\ ~Refusing(e) /\ e.type \notin AlwaysTaken
        /\ e.type \notin {"stream_start", "chain_end", "error", "snapshot"}
        /\ x.gen # 0 /\ e.generation = x.gen /\ ~x.broken /\ (e.type # "delta" => e.readable)
    BY <1>7 DEF Refusing, Fits, Streamed, AlwaysTaken
  <2>2. CASE Knows(v)
    <3>1. w = v
      BY <2>1, <2>2 DEF Reduce, Knows, w
    <3> QED
      BY <1>1, <2>2, <3>1
  <2> SUFFICES ASSUME Follows(v, x), ~Knows(v)
               PROVE  Good
    BY <2>2
  <2>3. /\ v.generation = x.gen /\ v.phase = "streaming" /\ v.revision <= x.rev
        /\ v.revision # NoRevision /\ ~v.needsResync
    BY <1>0, <2>1 DEF Follows, Stands, Behind, Knows
  <2>4. ~OtherGeneration(v, e) /\ ~Stale(v, e)
    BY <1>0, <1>3, <2>1, <2>3 DEF OtherGeneration, Stale
  <2>5. y.gen = x.gen /\ ~y.broken /\ (y.unread <=> ~e.readable) /\ y.rev = x.rev + 1
    BY <1>3, <1>7, <2>1, AfterEvent DEF y
  <2>6. CASE ~e.readable
    <3>1. w = v
      BY <2>1, <2>6 DEF Reduce, w
    <3>2. v.revision < y.rev
      BY <1>0, <2>3, <2>5
    <3> QED
      BY <2>1, <2>3, <2>5, <2>6, <3>1, <3>2 DEF Follows, Behind
  <2>7. CASE e.readable /\ v.revision # x.rev
    <3>1. Gap(v, e)
      BY <1>0, <1>3, <2>1, <2>3, <2>7 DEF Gap
    <3>2. w = [v EXCEPT !.needsResync = TRUE, !.received = e.revision,
                        !.phase = "reconnecting"]
      BY <2>1, <2>3, <2>4, <2>7, <3>1 DEF Reduce, w
    <3>3. w \in Views /\ w.connected = v.connected /\ w.needsResync
      BY <1>0, <3>2 DEF Views, Phases
    <3> QED
      BY <3>3 DEF Knows
  <2>8. CASE e.readable /\ v.revision = x.rev
    <3>1. ~Gap(v, e)
      BY <1>0, <1>3, <2>1, <2>3, <2>8 DEF Gap
    <3>2. w = OnDelta(v, e)
      BY <2>1, <2>3, <2>4, <2>8, <3>1 DEF Reduce, w
    <3>3. Stands(v, x)
      BY <1>0, <2>8 DEF Follows, Behind
    <3>4. CASE e.type = "delta"
      <4>1. y.draft = x.draft + 1 /\ y.draft \in Drafts /\ v.draft = x.draft
        BY <1>7, <2>1, <3>3, <3>4, AfterEvent DEF Stands, Standings, y
      <4>2. v.draft + 1 \in Drafts
        BY <4>1
      <4>3. w = [v EXCEPT !.revision = e.revision, !.phase = "streaming",
                          !.streaming = TRUE, !.draft = v.draft + 1]
        BY <3>2, <3>4 DEF OnDelta
      <4>4. /\ w \in Views /\ w.connected = v.connected
            /\ w.generation = v.generation /\ w.revision = e.revision
            /\ w.draft = v.draft + 1 /\ w.phase = "streaming"
        BY <1>0, <4>2, <4>3 DEF Views, Phases
      <4> QED
        BY <1>3, <2>1, <2>3, <2>5, <4>1, <4>4 DEF Follows, Current, Stands
    <3>5. CASE e.type # "delta"
      <4>1. y.draft = x.draft /\ v.draft = x.draft
        BY <1>7, <2>1, <3>3, <3>5, AfterEvent DEF Stands, y
      <4>2. w = [v EXCEPT !.revision = e.revision]
        BY <1>7, <3>2, <3>5 DEF OnDelta, Streamed
      <4>3. /\ w \in Views /\ w.connected = v.connected
            /\ w.generation = v.generation /\ w.revision = e.revision
            /\ w.draft = v.draft /\ w.phase = "streaming"
        BY <1>0, <2>3, <4>2 DEF Views
      <4> QED
        BY <1>3, <2>1, <2>3, <2>5, <4>1, <4>3 DEF Follows, Current, Stands
    <3> QED
      BY <3>4, <3>5
  <2> QED
    BY <1>0, <2>6, <2>7, <2>8
<1> QED
  BY <1>0, <1>2, <1>4, <1>5, <1>6, <1>7 DEF Streamed

------------------------------------------------------------------------------
(* The bus *)

(* The server stands at y: the bus does, and knows when the last event cannot  *)
(* be read.                                                                   *)
AtBus(y, b, g) ==
    /\ y.gen = b.active.generation /\ y.rev = b.revision /\ y.draft = b.active.draft
    /\ y.unread => g.unread

(* An event as it goes out, and what it leaves. *)
Sent(b, e, n) ==
    [e EXCEPT !.revision = b.revision + 1,
              !.generation = IF e.type = "stream_start" THEN n ELSE b.active.generation]
Sends(e, record, n, b, c, g, b2, c2, g2) ==
    /\ b2 = [revision |-> b.revision + 1, active |-> StreamAfter(b, e, Len(record), n)]
    /\ c2 = Enqueue(c, Sent(b, e, n))
    /\ g2.drafts = g.drafts \cup {<<b2.active.generation, b2.revision, b2.active.draft>>}
    /\ g2.unread <=> ~e.readable

(* An event that may be sent now. *)
Sendable(e, b, n) ==
    /\ e \in Messages /\ Revisioned(e) /\ e.type # "snapshot"
    /\ e.type # "delta" => e.readable
    /\ e.type = "stream_start" => n # 0
    /\ e.type \in Streamed => b.active.generation # 0
    /\ e.type = "delta" => b.active.draft < MaxEvents

(* What an emission does. *)
LEMMA ApplySends ==
    ASSUME NEW e, Revisioned(e), NEW record, NEW n, NEW b, NEW c, NEW g
    PROVE  \E b2, c2, g2 :
              /\ Apply([bus |-> b, conn |-> c, ghost |-> g, record |-> record, turn |-> n], e)
                    = [bus |-> b2, conn |-> c2, ghost |-> g2, record |-> record, turn |-> n]
              /\ Sends(e, record, n, b, c, g, b2, c2, g2)
<1> DEFINE next == StreamAfter(b, e, Len(record), n)
           b2 == [revision |-> b.revision + 1, active |-> next]
           c2 == Enqueue(c, Sent(b, e, n))
           D == g.drafts \cup {<<next.generation, b.revision + 1, next.draft>>}
           g2 == [drafts |-> D, unread |-> ~e.readable]
<1>1. Apply([bus |-> b, conn |-> c, ghost |-> g, record |-> record, turn |-> n], e)
         = [bus |-> b2, conn |-> c2, ghost |-> g2, record |-> record, turn |-> n]
  BY DEF Apply, Sent
<1>2. b2.revision = b.revision + 1 /\ b2.active = next
  OBVIOUS
<1>3. g2.drafts = D /\ (g2.unread <=> ~e.readable)
  OBVIOUS
<1> HIDE DEF b2, c2, g2
<1>4. Sends(e, record, n, b, c, g, b2, c2, g2)
  BY <1>2, <1>3 DEF Sends, b2, c2
<1> QED
  BY <1>1, <1>4

(* An emission of one event. *)
LEMMA EmitsOne ==
    ASSUME NEW e, NEW record, NEW n, Revisioned(e), Emit(<<e>>, record, n)
    PROVE  Sends(e, record, n, bus, conn, ghost, bus', conn', ghost')
<1> DEFINE start == [bus |-> bus, conn |-> conn, ghost |-> ghost, record |-> record, turn |-> n]
<1>1. <<e>> # <<>> /\ Len(<<e>>) = 1 /\ <<e>>[1] = e
  OBVIOUS
<1>2. PICK b2, c2, g2 :
         /\ Apply(start, e)
               = [bus |-> b2, conn |-> c2, ghost |-> g2, record |-> record, turn |-> n]
         /\ Sends(e, record, n, bus, conn, ghost, b2, c2, g2)
  BY ApplySends
<1>3. bus' = Apply(start, e).bus /\ conn' = Apply(start, e).conn /\ ghost' = Apply(start, e).ghost
  BY <1>1 DEF Emit
<1> QED
  BY <1>2, <1>3

(* An emission of two, one after the other. *)
LEMMA EmitsTwo ==
    ASSUME NEW e, NEW f, NEW record, NEW n, Revisioned(e), Revisioned(f),
           Emit(<<e, f>>, record, n)
    PROVE  \E b, c, g : /\ Sends(e, record, n, bus, conn, ghost, b, c, g)
                        /\ Sends(f, record, n, b, c, g, bus', conn', ghost')
<1> DEFINE start == [bus |-> bus, conn |-> conn, ghost |-> ghost, record |-> record, turn |-> n]
<1>1. /\ <<e, f>> # <<>> /\ Len(<<e, f>>) = 2
      /\ <<e, f>>[1] = e /\ <<e, f>>[2] = f
  OBVIOUS
<1>2. PICK b, c, g :
         /\ Apply(start, e)
               = [bus |-> b, conn |-> c, ghost |-> g, record |-> record, turn |-> n]
         /\ Sends(e, record, n, bus, conn, ghost, b, c, g)
  BY ApplySends
<1> DEFINE first == [bus |-> b, conn |-> c, ghost |-> g, record |-> record, turn |-> n]
<1>3. PICK b2, c2, g2 :
         /\ Apply(first, f)
               = [bus |-> b2, conn |-> c2, ghost |-> g2, record |-> record, turn |-> n]
         /\ Sends(f, record, n, b, c, g, b2, c2, g2)
  BY ApplySends
<1>4. /\ bus' = Apply(Apply(start, e), f).bus
      /\ conn' = Apply(Apply(start, e), f).conn
      /\ ghost' = Apply(Apply(start, e), f).ghost
  BY <1>1 DEF Emit
<1> QED
  BY <1>2, <1>3, <1>4

(* An emission of a snapshot or of a refusal goes to the connection only. *)
LEMMA EmitsMessage ==
    ASSUME NEW e, NEW record, NEW n, ~Revisioned(e), Emit(<<e>>, record, n)
    PROVE  bus' = bus /\ conn' = Enqueue(conn, e) /\ ghost' = ghost
<1> DEFINE start == [bus |-> bus, conn |-> conn, ghost |-> ghost, record |-> record, turn |-> n]
<1>1. <<e>> # <<>> /\ Len(<<e>>) = 1 /\ <<e>>[1] = e
  OBVIOUS
<1>2. Apply(start, e) = [start EXCEPT !.conn = Enqueue(conn, e)]
  BY DEF Apply
<1>3. bus' = Apply(start, e).bus /\ conn' = Apply(start, e).conn /\ ghost' = Apply(start, e).ghost
  BY <1>1 DEF Emit
<1> QED
  BY <1>2, <1>3

(* An emission of nothing. *)
LEMMA EmitsNothing ==
    ASSUME NEW record, NEW n, Emit(<<>>, record, n)
    PROVE  UNCHANGED <<bus, conn, ghost>>
<1>1. Len(<<>>) = 0
  OBVIOUS
<1> QED
  BY <1>1 DEF Emit

(* What it leaves: the message m behind all others, and the bus where it leads. *)
Moves(e, m, n, b, c, g, b2, c2, g2) ==
    /\ b2 \in Buses /\ (b2.active.generation = 0 => b2.active = NoStream)
    /\ c2 \in Connections /\ Bounded(c2)
    /\ g.drafts \subseteq g2.drafts
    /\ <<b2.active.generation, b2.revision, b2.active.draft>> \in g2.drafts
    /\ b2.active.generation = IF e.type = "stream_start" THEN n
                              ELSE IF e.type \in Streamed THEN b.active.generation ELSE 0
    /\ b2.active.draft = IF e.type = "delta" THEN b.active.draft + 1
                         ELSE IF e.type \in Streamed THEN b.active.draft ELSE 0
    /\ c2.open =>
          /\ c.open
          /\ m \in Messages
          /\ Pending(c2) = Append(Pending(c), m)
          /\ \A x, y : /\ Leads(Pending(c), x, y, g.drafts) /\ AtBus(y, b, g)
                       /\ e.type \in Streamed => ~y.broken
                       => /\ Leads(Pending(c2), x, After(y, m), g2.drafts)
                          /\ AtBus(After(y, m), b2, g2)

(* What is sent is a message that fits, and leads where the bus then is. *)
LEMMA SendsEffect ==
    ASSUME NEW b \in Buses, b.active.generation = 0 => b.active = NoStream,
           NEW c \in Connections, Bounded(c), NEW g,
           NEW record \in Seq(Entries), NEW n \in Nat,
           NEW e, Sendable(e, b, n),
           NEW b2, NEW c2, NEW g2, Sends(e, record, n, b, c, g, b2, c2, g2)
    PROVE  Moves(e, Sent(b, e, n), n, b, c, g, b2, c2, g2)
<1> DEFINE m == Sent(b, e, n)
           next == StreamAfter(b, e, Len(record), n)
<1>1. /\ e \in Messages /\ Revisioned(e) /\ e.type \in Types /\ e.type # "snapshot"
      /\ ~Refusing(e) /\ e.readable \in BOOLEAN
      /\ b.revision \in Nat /\ b.active \in [generation : Nat, baseline : Nat, draft : Drafts]
      /\ Len(record) \in Nat /\ 0 \in Drafts
  BY SizesAssumption DEF Sendable, Messages, Buses, Revisioned, Refusing, Drafts
<1>2. /\ next \in [generation : Nat, baseline : Nat, draft : Drafts]
      /\ next.generation = IF e.type = "stream_start" THEN n
                           ELSE IF e.type \in Streamed THEN b.active.generation ELSE 0
      /\ next.draft = IF e.type = "delta" THEN b.active.draft + 1
                      ELSE IF e.type \in Streamed THEN b.active.draft ELSE 0
      /\ next.generation = 0 => next = NoStream
  <2>1. CASE e.type = "stream_start"
    <3>1. next = [generation |-> n, baseline |-> Len(record), draft |-> 0]
      BY <2>1 DEF StreamAfter
    <3> QED
      BY <1>1, <2>1, <3>1 DEF Streamed, Sendable
  <2>2. CASE e.type \in {"chain_end", "error"}
    <3>1. next = NoStream
      BY <2>2 DEF StreamAfter
    <3> QED
      BY <1>1, <2>2, <3>1 DEF Streamed, NoStream
  <2>3. CASE e.type = "delta"
    <3>1. b.active # NoStream
      BY <2>3 DEF Streamed, Sendable, NoStream
    <3>2. next = [b.active EXCEPT !.draft = b.active.draft + 1]
      BY <2>3, <3>1 DEF StreamAfter
    <3>3. b.active.draft + 1 \in Drafts
      BY <1>1, <2>3, SizesAssumption DEF Sendable, Drafts
    <3> QED
      BY <1>1, <2>3, <3>2, <3>3 DEF Streamed, Sendable
  <2>4. CASE e.type \in {"llm_usage", "stream_end"}
    <3>1. b.active # NoStream
      BY <2>4 DEF Streamed, Sendable, NoStream
    <3>2. next = [b.active EXCEPT !.draft = b.active.draft]
      BY <2>4, <3>1 DEF StreamAfter
    <3>3. next = b.active
      BY <1>1, <3>2
    <3> QED
      BY <1>1, <2>4, <3>3 DEF Streamed, Sendable
  <2> QED
    BY <1>1, <2>1, <2>2, <2>3, <2>4 DEF Types
<1>3. /\ m \in Messages /\ m.type = e.type /\ m.revision = b.revision + 1
      /\ m.generation = (IF e.type = "stream_start" THEN n ELSE b.active.generation)
      /\ m.readable = e.readable /\ m.terminal = e.terminal
  <2>1. ASSUME NEW rev \in Nat, NEW gen \in Nat,
               m = [e EXCEPT !.revision = rev, !.generation = gen]
        PROVE  /\ m \in Messages /\ m.type = e.type /\ m.revision = rev
               /\ m.generation = gen /\ m.readable = e.readable /\ m.terminal = e.terminal
    <3> HIDE DEF m
    <3>1. e \in Messages
      BY <1>1
    <3> QED
      BY <2>1, <3>1 DEF Messages
  <2> DEFINE gen == IF e.type = "stream_start" THEN n ELSE b.active.generation
  <2>2. gen \in Nat /\ b.revision + 1 \in Nat
    BY <1>1
  <2>3. m = [e EXCEPT !.revision = b.revision + 1, !.generation = gen]
    BY DEF Sent
  <2> HIDE DEF m, gen
  <2>4. /\ m \in Messages /\ m.type = e.type /\ m.revision = b.revision + 1
        /\ m.generation = gen /\ m.readable = e.readable /\ m.terminal = e.terminal
    BY <2>1, <2>2, <2>3
  <2> QED
    BY <2>4 DEF gen
<1>4. b2.revision = b.revision + 1 /\ b2.active = next /\ c2 = Enqueue(c, m)
      /\ b2 = [revision |-> b.revision + 1, active |-> next]
      /\ g2.drafts = g.drafts \cup {<<next.generation, b.revision + 1, next.draft>>}
      /\ (g2.unread <=> ~e.readable)
  BY DEF Sends
<1> HIDE DEF m, next
<1>5. b2 \in Buses
  BY <1>1, <1>2, <1>4 DEF Buses
<1>6. ASSUME NEW x, NEW y, Leads(Pending(c), x, y, g.drafts), AtBus(y, b, g),
             e.type \in Streamed => ~y.broken, c2.open
      PROVE  Leads(Pending(c2), x, After(y, m), g2.drafts) /\ AtBus(After(y, m), b2, g2)
  <2> DEFINE z == After(y, m)
  <2>1. c.open /\ Pending(c2) = Append(Pending(c), m) /\ Pending(c) \in Seq(Messages)
    BY <1>3, <1>4, <1>6, EnqueueEffect, PendingOK
  <2>2. y \in Standings /\ y.rev = b.revision /\ y.gen = b.active.generation
        /\ y.draft = b.active.draft
    BY <1>6, <2>1, LeadsSomewhere DEF AtBus
  <2>3. ~Refusing(m) /\ Revisioned(m) /\ m.type # "snapshot"
    BY <1>1, <1>3 DEF Refusing, Revisioned
  <2>4. z.gen = next.generation /\ z.rev = b.revision + 1 /\ z.draft = next.draft
        /\ (z.unread <=> ~e.readable)
    BY <1>1, <1>2, <1>3, <2>2, <2>3, AfterEvent DEF Streamed, Types
  <2>5. Fits(y, m, g2.drafts)
    BY <1>1, <1>3, <1>4, <1>6, <2>2, <2>3, <2>4 DEF Fits, Sendable, Streamed
  <2>6. z \in Standings
    <3>1. m.messages \in Seq(Entries) /\ y.hist \in Seq(Entries) /\ y.broken \in BOOLEAN
          /\ m.readable \in BOOLEAN
      BY <1>3, <2>2 DEF Messages, Standings
    <3>2. z = [gen |-> z.gen, rev |-> z.rev, draft |-> z.draft, unread |-> z.unread,
               broken |-> z.broken, hist |-> z.hist]
          /\ z.unread \in BOOLEAN /\ z.broken \in BOOLEAN /\ z.hist \in Seq(Entries)
      BY <2>3, <3>1 DEF After
    <3> QED
      BY <1>1, <1>2, <2>4, <3>2 DEF Standings
  <2>7. Leads(Pending(c), x, y, g2.drafts)
    BY <1>4, <1>6, LeadsStill
  <2>8. Leads(Pending(c2), x, z, g2.drafts)
    BY <1>3, <2>1, <2>5, <2>6, <2>7, LeadsFurther
  <2> QED
    BY <1>4, <2>4, <2>8 DEF AtBus
<1> QED
  BY <1>2, <1>3, <1>4, <1>5, <1>6, EnqueueEffect DEF m, Moves

------------------------------------------------------------------------------
(* The invariant *)

Turns ==
    [at : {"idle", "preparing", "streaming", "killed"}, via : {"none", "websocket", "inbox"},
     base : Seq(Entries), n : Nat, events : 0 .. MaxEvents]
Sessions ==
    [record : Seq(Entries), status : {"running", "streaming", "error", "gone"},
     sealed : BOOLEAN, turn : Turns]

SessionOK ==
    /\ session \in Sessions
    /\ session.status = "gone" => session.turn.at = "idle"
    /\ session.turn.at = "killed" => session.sealed
    /\ session.turn.at = "streaming" => session.status = "streaming"
    /\ session.turn.at \in {"preparing", "streaming"} => session.turn.n # 0
    /\ session.turn.at = "preparing" =>
          session.record = Append(session.turn.base, Entry("user", session.turn.n))

BusOK ==
    /\ bus \in Buses
    /\ bus.active.generation = 0 => bus.active = NoStream
    /\ session.turn.at = "streaming" => /\ bus.active.generation = session.turn.n
                                        /\ bus.active.draft <= session.turn.events
    /\ session.turn.at \in {"idle", "preparing"} => bus.active = NoStream

(* The drafts the bus has had include its own, and that of no stream.        *)
GhostOK ==
    /\ <<0, 0, 0>> \in ghost.drafts
    /\ <<bus.active.generation, bus.revision, bus.active.draft>> \in ghost.drafts

Shape ==
    /\ SessionOK /\ BusOK /\ GhostOK
    /\ conn \in Connections /\ Bounded(conn)
    /\ view \in Views
    /\ requests \in Seq({"message", "resync"})
    /\ turns \in Nat

(* A list, or the list with a message of the user that was taken back.       *)
UpTo(hist, record) == hist = record \/ \E n \in Nat : hist = Append(record, Entry("user", n))

(* Where the server stands. *)
AtEnd(y) ==
    IF session.status = "gone" THEN y.broken
    ELSE /\ AtBus(y, bus, ghost)
         /\ session.turn.at = "streaming" => ~y.broken
         /\ y.gen = 0 /\ ~y.broken =>
               /\ session.turn.at = "idle" => UpTo(y.hist, session.record)
               /\ session.turn.at = "preparing" => UpTo(y.hist, session.turn.base)

(* The message the browser has sent is on its way, or what ends it is. *)
Ends == {"error", "chain_end", "stream_start"}
MessageOut ==
    \/ "message" \in ToSet(requests)
    \/ session.turn.at = "killed"
    \/ session.turn.at = "preparing" /\ session.turn.via = "websocket"
    \/ \E i \in DOMAIN Pending(conn) : Pending(conn)[i].type \in Ends

OnTrack(v, x) ==
    \/ Knows(v)
    \/ /\ Follows(v, x)
       /\ \/ Behind(v, x)
          \/ /\ Stands(v, x)
             /\ x.gen = 0 => \/ v.messages = x.hist
                             \/ v.messages = Append(x.hist, Optimistic) /\ MessageOut

(* A snapshot comes first. *)
Restarts(P) == P # <<>> /\ P[1].type = "snapshot"

(* What is pending leads from where the browser stands to where the server does. *)
JoinedOK ==
    conn.open =>
        \E x, y : /\ Leads(Pending(conn), x, y, ghost.drafts)
                  /\ AtEnd(y)
                  /\ view.connected => Restarts(Pending(conn)) \/ OnTrack(view, x)

------------------------------------------------------------------------------
(* Steps of the server *)

(* Messages are added behind. *)
Longer(P, Q) == Len(P) <= Len(Q) /\ \A i \in 1 .. Len(P) : Q[i] = P[i]

(* An appended message is behind the others. *)
LEMMA AppendedIsLonger ==
    ASSUME NEW P \in Seq(Messages), NEW e \in Messages
    PROVE  /\ Append(P, e) \in Seq(Messages)
           /\ Longer(P, Append(P, e))
           /\ Longer(P, P)
           /\ \E i \in DOMAIN Append(P, e) : Append(P, e)[i].type = e.type
<1>1. /\ Append(P, e) \in Seq(Messages)
      /\ Len(Append(P, e)) = Len(P) + 1 /\ Len(P) \in Nat
      /\ \A i \in 1 .. Len(P) : Append(P, e)[i] = P[i]
      /\ Append(P, e)[Len(P) + 1] = e
      /\ Len(P) + 1 \in DOMAIN Append(P, e)
  BY AppendProperties
<1> QED
  BY <1>1 DEF Longer

(* The browser goes on as it did when the server adds messages that lead where *)
(* the server then is, and does not forget about the browser's own.           *)
LEMMA ServerJoins ==
    ASSUME Shape, Shape', JoinedOK, view' = view,
           conn'.open => conn.open /\ Longer(Pending(conn), Pending(conn')),
           conn'.open /\ MessageOut => MessageOut',
           \A x, y : conn'.open /\ Leads(Pending(conn), x, y, ghost.drafts) /\ AtEnd(y) =>
              \E z : Leads(Pending(conn'), x, z, ghost'.drafts) /\ AtEnd(z)'
    PROVE  JoinedOK'
<1> SUFFICES ASSUME conn'.open
             PROVE  \E x, z : /\ Leads(Pending(conn'), x, z, ghost'.drafts)
                              /\ AtEnd(z)'
                              /\ view.connected => Restarts(Pending(conn')) \/ OnTrack(view, x)'
  BY DEF JoinedOK
<1>1. PICK x, y : /\ Leads(Pending(conn), x, y, ghost.drafts)
                  /\ AtEnd(y)
                  /\ view.connected => Restarts(Pending(conn)) \/ OnTrack(view, x)
  BY DEF JoinedOK
<1>2. PICK z : Leads(Pending(conn'), x, z, ghost'.drafts) /\ AtEnd(z)'
  BY <1>1
<1>3. Restarts(Pending(conn)) => Restarts(Pending(conn'))
  <2>1. Pending(conn) \in Seq(Messages) /\ Pending(conn') \in Seq(Messages)
    BY PendingOK DEF Shape
  <2> QED
    BY <2>1 DEF Restarts, Longer
<1>4. OnTrack(view, x) => OnTrack(view, x)'
  BY DEF OnTrack
<1> QED
  BY <1>1, <1>2, <1>3, <1>4

------------------------------------------------------------------------------
(* Events sent by the server *)

(* What an event leaves. *)
LEMMA EventEffect ==
    ASSUME Shape, NEW record \in Seq(Entries), NEW n \in Nat, NEW e, Sendable(e, bus, n),
           Emit(<<e>>, record, n)
    PROVE  /\ bus' \in Buses /\ (bus'.active.generation = 0 => bus'.active = NoStream)
           /\ GhostOK' /\ conn' \in Connections /\ Bounded(conn')
           /\ bus'.active.generation = IF e.type = "stream_start" THEN n
                                       ELSE IF e.type \in Streamed THEN bus.active.generation
                                       ELSE 0
           /\ bus'.active.draft = IF e.type = "delta" THEN bus.active.draft + 1
                                  ELSE IF e.type \in Streamed THEN bus.active.draft ELSE 0
           /\ conn'.open => /\ conn.open /\ Longer(Pending(conn), Pending(conn'))
                            /\ \E i \in DOMAIN Pending(conn') : Pending(conn')[i].type = e.type
           /\ \A x, y : /\ conn'.open /\ Leads(Pending(conn), x, y, ghost.drafts)
                        /\ AtBus(y, bus, ghost) /\ (e.type \in Streamed => ~y.broken)
                        => \E z : /\ Leads(Pending(conn'), x, z, ghost'.drafts)
                                  /\ AtBus(z, bus', ghost')
                                  /\ e.type = "chain_end" => z.hist = e.messages
                                  /\ e.type = "error" <=> z.broken
<1>1. Sends(e, record, n, bus, conn, ghost, bus', conn', ghost')
  BY EmitsOne DEF Sendable
<1> DEFINE m == Sent(bus, e, n)
<1>2. /\ bus' \in Buses /\ (bus'.active.generation = 0 => bus'.active = NoStream)
      /\ conn' \in Connections /\ Bounded(conn')
      /\ ghost.drafts \subseteq ghost'.drafts
      /\ <<bus'.active.generation, bus'.revision, bus'.active.draft>> \in ghost'.drafts
      /\ bus'.active.generation = IF e.type = "stream_start" THEN n
                                  ELSE IF e.type \in Streamed THEN bus.active.generation
                                  ELSE 0
      /\ bus'.active.draft = IF e.type = "delta" THEN bus.active.draft + 1
                             ELSE IF e.type \in Streamed THEN bus.active.draft ELSE 0
      /\ conn'.open =>
            /\ conn.open
            /\ m \in Messages
            /\ Pending(conn') = Append(Pending(conn), m)
            /\ \A x, y : /\ Leads(Pending(conn), x, y, ghost.drafts) /\ AtBus(y, bus, ghost)
                         /\ e.type \in Streamed => ~y.broken
                         => /\ Leads(Pending(conn'), x, After(y, m), ghost'.drafts)
                            /\ AtBus(After(y, m), bus', ghost')
  <2>1. Moves(e, m, n, bus, conn, ghost, bus', conn', ghost')
    BY <1>1, SendsEffect DEF Shape, BusOK
  <2> HIDE DEF m
  <2> QED
    BY <2>1 DEF Moves
<1>3. m.type = e.type /\ m.messages = e.messages /\ m.terminal = e.terminal
  BY DEF Sent, Sendable, Messages
<1> HIDE DEF m
<1>4. Pending(conn) \in Seq(Messages)
  BY PendingOK DEF Shape
<1>5. conn'.open => /\ Longer(Pending(conn), Pending(conn'))
                    /\ \E i \in DOMAIN Pending(conn') : Pending(conn')[i].type = e.type
  <2> SUFFICES ASSUME conn'.open
               PROVE  /\ Longer(Pending(conn), Pending(conn'))
                      /\ \E i \in DOMAIN Pending(conn') : Pending(conn')[i].type = e.type
    OBVIOUS
  <2> DEFINE Q == Append(Pending(conn), m)
  <2>1. Pending(conn') = Q /\ m \in Messages
    BY <1>2
  <2>2. Longer(Pending(conn), Q) /\ \E i \in DOMAIN Q : Q[i].type = m.type
    BY <1>4, <2>1, AppendedIsLonger
  <2> HIDE DEF Q
  <2> QED
    BY <1>3, <2>1, <2>2
<1>6. GhostOK'
  BY <1>2 DEF GhostOK, Shape
<1>7. ~Refusing(m) /\ m.type # "snapshot" /\ e.type \in Types
  BY <1>3 DEF Refusing, Sendable, Revisioned, Messages
<1>8. ASSUME NEW y, m \in Messages, e.type \in Streamed => ~y.broken
      PROVE  /\ e.type = "chain_end" => After(y, m).hist = e.messages
             /\ e.type = "error" <=> After(y, m).broken
  BY <1>3, <1>7, <1>8, AfterEvent DEF Types, Streamed
<1> QED
  BY <1>2, <1>5, <1>6, <1>8

(* What is out stays out, unless the message is taken or its turn ends. *)
LEMMA StillOut ==
    ASSUME Shape, MessageOut, Longer(Pending(conn), Pending(conn')),
           conn' \in Connections
    PROVE  \/ MessageOut'
           \/ "message" \in ToSet(requests) /\ requests' # requests
           \/ session.turn.at = "killed" /\ session'.turn.at # "killed"
           \/ /\ session.turn.at = "preparing" /\ session.turn.via = "websocket"
              /\ ~(session'.turn.at = "preparing" /\ session'.turn.via = "websocket")
<1>1. Pending(conn) \in Seq(Messages) /\ Pending(conn') \in Seq(Messages)
  BY PendingOK DEF Shape
<1>2. \A i \in DOMAIN Pending(conn) : /\ i \in DOMAIN Pending(conn')
                                      /\ Pending(conn')[i] = Pending(conn)[i]
  BY <1>1 DEF Longer
<1> QED
  BY <1>2 DEF MessageOut

------------------------------------------------------------------------------
(* One action of the server at a time *)

(* The events as they are made. *)
LEMMA EventsOK ==
    /\ \A t \in Types : /\ Event(t) \in Messages
                        /\ Event(t).type = t /\ Event(t).readable /\ Event(t).terminal
    /\ TerminalError \in Messages /\ TerminalError.type = "error"
    /\ TerminalError.readable /\ TerminalError.terminal
    /\ Refusal \in Messages /\ Refusal.type = "error" /\ ~Refusal.terminal
    /\ Refusal.readable /\ Refusal.revision = NoRevision /\ Refusal.generation = 0
    /\ \A r \in Seq(Entries) : /\ ChainEnd(r) \in Messages /\ ChainEnd(r).type = "chain_end"
                               /\ ChainEnd(r).readable /\ ChainEnd(r).messages = r
<1>1. 0 \in Drafts /\ <<>> \in Seq(Entries)
  BY SizesAssumption DEF Drafts
<1>2. \A t \in Types : /\ Event(t) \in Messages
                       /\ Event(t).type = t /\ Event(t).readable /\ Event(t).terminal
                       /\ Event(t).revision = NoRevision /\ Event(t).generation = 0
  BY <1>1 DEF Event, Messages, Types
<1>3. {"error", "chain_end"} \subseteq Types
  BY DEF Types
<1>4. /\ TerminalError \in Messages /\ TerminalError.type = "error"
      /\ TerminalError.readable /\ TerminalError.terminal
  BY <1>2, <1>3 DEF TerminalError
<1>5. /\ Refusal \in Messages /\ Refusal.type = "error" /\ ~Refusal.terminal
      /\ Refusal.readable /\ Refusal.revision = NoRevision /\ Refusal.generation = 0
  <2>1. /\ Event("error") \in Messages /\ Event("error").type = "error"
        /\ Event("error").readable /\ Event("error").revision = NoRevision
        /\ Event("error").generation = 0
    BY <1>2, <1>3
  <2>2. Refusal = [Event("error") EXCEPT !.terminal = FALSE]
    BY DEF Refusal
  <2>3. Refusal \in Messages
    BY <2>1, <2>2 DEF Messages
  <2>4. /\ Refusal.type = "error" /\ Refusal.revision = NoRevision
        /\ Refusal.generation = 0
    BY <2>1, <2>2 DEF Messages
  <2>5. Refusal.readable
    BY <2>1, <2>2 DEF Messages
  <2>6. ~Refusal.terminal
    BY <2>1, <2>2 DEF Messages
  <2> QED
    BY <2>3, <2>4, <2>5, <2>6
<1>6. ASSUME NEW r \in Seq(Entries)
      PROVE  /\ ChainEnd(r) \in Messages /\ ChainEnd(r).type = "chain_end"
             /\ ChainEnd(r).readable /\ ChainEnd(r).messages = r
  BY <1>2, <1>3 DEF ChainEnd, Messages
<1> QED
  BY <1>2, <1>4, <1>5, <1>6

(* A step that sends nothing. *)
LEMMA QuietStep ==
    ASSUME Shape, Shape', JoinedOK, UNCHANGED <<bus, conn, view, ghost>>,
           MessageOut => MessageOut', \A y : AtEnd(y) => AtEnd(y)'
    PROVE  JoinedOK'
<1>1. Longer(Pending(conn), Pending(conn)) /\ Pending(conn') = Pending(conn)
  BY PendingOK DEF Shape, Longer
<1> QED
  BY <1>1, ServerJoins

(* The record grows by an entry. *)
LEMMA RecordGrows ==
    ASSUME NEW r \in Seq(Entries), NEW n \in Nat, NEW by \in {"user", "assistant", "notice"}
    PROVE  Append(r, Entry(by, n)) \in Seq(Entries)
BY DEF Entry, Entries

(* A message is taken up, when it is nobody's turn. *)
LEMMA BeginStep ==
    ASSUME Shape, JoinedOK, NEW via \in {"websocket", "inbox"}, Begin(via),
           session.turn.at = "idle", session.status = "running",
           UNCHANGED <<bus, conn, view, ghost>>,
           \/ requests' = requests
           \/ requests # <<>> /\ requests' = Tail(requests) /\ via = "websocket"
    PROVE  Shape' /\ JoinedOK'
<1> DEFINE turn == [NoTurn EXCEPT !.at = "preparing", !.via = via, !.base = session.record,
                                  !.n = turns + 1]
           record == Append(session.record, Entry("user", turns + 1))
<1>1. session \in Sessions /\ turns \in Nat /\ session.record \in Seq(Entries)
  BY DEF Shape, SessionOK, Sessions
<1>2. /\ turn \in Turns /\ turn.at = "preparing" /\ turn.via = via
      /\ turn.base = session.record /\ turn.n = turns + 1
  <2>1. NoTurn \in Turns
    BY SizesAssumption DEF NoTurn, Turns
  <2>2. turn = [NoTurn EXCEPT !.at = "preparing", !.via = via, !.base = session.record,
                              !.n = turns + 1]
    OBVIOUS
  <2> HIDE DEF turn
  <2>3. turns + 1 \in Nat
    BY <1>1
  <2> QED
    BY <1>1, <2>1, <2>2, <2>3 DEF Turns
<1>3. record \in Seq(Entries) /\ turns + 1 \in Nat \ {0}
  BY <1>1, RecordGrows
<1>4. session' = [session EXCEPT !.record = record, !.turn = turn] /\ turns' = turns + 1
  BY DEF Begin
<1> HIDE DEF record, turn
<1>5. /\ session' \in Sessions /\ session'.record = record /\ session'.turn = turn
      /\ session'.status = session.status
  BY <1>1, <1>2, <1>3, <1>4 DEF Sessions
<1>6. SessionOK'
  BY <1>2, <1>3, <1>5 DEF SessionOK, record
<1>7. BusOK'
  BY <1>2, <1>5 DEF BusOK, Shape
<1>8. requests' \in Seq({"message", "resync"})
  BY DEF Shape
<1>9. Shape'
  BY <1>3, <1>4, <1>6, <1>7, <1>8 DEF Shape, GhostOK
<1>10. MessageOut => MessageOut'
  BY <1>2, <1>5, PendingOK, StillOut DEF Shape, MessageOut, Longer
<1>11. \A y : AtEnd(y) => AtEnd(y)'
  BY <1>2, <1>5 DEF AtEnd
<1> QED
  BY <1>9, <1>10, <1>11, QuietStep

(* A step that sends an event. *)
LEMMA EventStep ==
    ASSUME Shape, JoinedOK, view' = view, session.status # "gone",
           NEW record \in Seq(Entries), NEW n \in Nat, NEW e, Sendable(e, bus, n),
           Emit(<<e>>, record, n),
           SessionOK', BusOK', requests' \in Seq({"message", "resync"}), turns' \in Nat,
           e.type \in Streamed => session.turn.at = "streaming",
           e.type \in Ends \/ (session.turn.at = "streaming" /\ requests' = requests),
           \A z : /\ AtBus(z, bus', ghost') /\ (e.type = "chain_end" => z.hist = e.messages)
                  /\ e.type = "error" <=> z.broken
                  => AtEnd(z)'
    PROVE  Shape' /\ JoinedOK'
<1>1. /\ GhostOK' /\ conn' \in Connections /\ Bounded(conn')
      /\ conn'.open => /\ conn.open /\ Longer(Pending(conn), Pending(conn'))
                       /\ \E i \in DOMAIN Pending(conn') : Pending(conn')[i].type = e.type
      /\ \A x, y : /\ conn'.open /\ Leads(Pending(conn), x, y, ghost.drafts)
                   /\ AtBus(y, bus, ghost) /\ (e.type \in Streamed => ~y.broken)
                   => \E z : /\ Leads(Pending(conn'), x, z, ghost'.drafts)
                             /\ AtBus(z, bus', ghost')
                             /\ e.type = "chain_end" => z.hist = e.messages
                             /\ e.type = "error" <=> z.broken
  BY EventEffect
<1>2. Shape'
  BY <1>1 DEF Shape
<1>3. ASSUME conn'.open, MessageOut
      PROVE  MessageOut'
  <2>1. CASE e.type \in Ends
    BY <1>1, <1>3, <2>1 DEF MessageOut
  <2>2. CASE session.turn.at = "streaming" /\ requests' = requests
    BY <1>1, <1>3, <2>2, StillOut
  <2> QED
    BY <2>1, <2>2
<1>4. ASSUME NEW x, NEW y, conn'.open, Leads(Pending(conn), x, y, ghost.drafts), AtEnd(y)
      PROVE  \E z : Leads(Pending(conn'), x, z, ghost'.drafts) /\ AtEnd(z)'
  <2>1. AtBus(y, bus, ghost) /\ (e.type \in Streamed => ~y.broken)
    BY <1>4 DEF AtEnd
  <2>2. PICK z : /\ Leads(Pending(conn'), x, z, ghost'.drafts)
                 /\ AtBus(z, bus', ghost')
                 /\ e.type = "chain_end" => z.hist = e.messages
                 /\ e.type = "error" <=> z.broken
    BY <1>1, <1>4, <2>1
  <2> QED
    BY <2>2
<1> QED
  BY <1>1, <1>2, <1>3, <1>4, ServerJoins

(* The end of a turn, or of all turns, with an error. *)
LEMMA ErrorStep ==
    ASSUME Shape, JoinedOK, view' = view, session.status # "gone",
           NEW record \in Seq(Entries), NEW n \in Nat, Emit(<<TerminalError>>, record, n),
           SessionOK', session'.turn.at # "streaming",
           requests' \in Seq({"message", "resync"}), turns' \in Nat,
           session'.status # "gone"
    PROVE  Shape' /\ JoinedOK'
<1> DEFINE e == TerminalError
<1>1. /\ e \in Messages /\ e.type = "error" /\ e.readable /\ e.terminal
  BY EventsOK
<1> HIDE DEF e
<1>2. Sendable(e, bus, n) /\ e.type \in Ends /\ e.type \notin Streamed
  BY <1>1 DEF Sendable, Revisioned, Streamed, Ends
<1>3. Emit(<<e>>, record, n)
  BY DEF e
<1>4. /\ bus' \in Buses /\ (bus'.active.generation = 0 => bus'.active = NoStream)
      /\ bus'.active.generation = 0
  BY <1>1, <1>2, <1>3, EventEffect
<1>5. BusOK'
  BY <1>4 DEF BusOK
<1>6. \A z : AtBus(z, bus', ghost') /\ z.broken => AtEnd(z)'
  BY DEF AtEnd
<1> QED
  BY <1>1, <1>2, <1>3, <1>5, <1>6, EventStep

------------------------------------------------------------------------------
(* Snapshots *)

(* The smaller of two numbers. *)
LEMMA MinOfTwo ==
    ASSUME NEW i \in Nat, NEW j \in Nat
    PROVE  Min({i, j}) \in Nat /\ Min({i, j}) <= i /\ Min({i, j}) <= j
<1>1. \E k \in {i, j} : \A l \in {i, j} : k <= l
  BY SMT
<1>2. Min({i, j}) \in {i, j} /\ \A l \in {i, j} : Min({i, j}) <= l
  BY <1>1 DEF Min
<1> QED
  BY <1>2

(* What a snapshot leads to. *)
LEMMA AfterSnapshot ==
    ASSUME NEW x \in Standings, NEW e \in Messages, e.type = "snapshot", e.readable,
           e.revision \in Nat, NEW D, <<e.generation, e.revision, e.draft>> \in D
    PROVE  /\ Fits(x, e, D) /\ After(x, e) \in Standings
           /\ After(x, e).gen = e.generation /\ After(x, e).rev = e.revision
           /\ After(x, e).draft = e.draft /\ After(x, e).hist = e.messages
           /\ ~After(x, e).unread
           /\ After(x, e).broken <=> e.status = "error"
<1> DEFINE y == After(x, e)
<1>1. ~Refusing(e) /\ ~Revisioned(e)
  BY DEF Refusing, Revisioned
<1>2. /\ y.gen = e.generation /\ y.rev = e.revision /\ y.draft = e.draft
      /\ y.hist = e.messages /\ ~y.unread /\ (y.broken <=> e.status = "error")
  BY <1>1 DEF After
<1>3. y \in Standings
  BY <1>1 DEF After, Standings, Messages
<1> HIDE DEF y
<1>4. Fits(x, e, D)
  BY <1>1, <1>2 DEF Fits, NoRevision, Streamed, y
<1> QED
  BY <1>2, <1>3, <1>4 DEF y

(* A snapshot fits anywhere, and leads to where the server stands. *)
LEMMA SnapshotEffect ==
    ASSUME Shape, NEW s \in Sessions
    PROVE  LET e == Snapshot(bus, s)
           IN  /\ e \in Messages /\ e.type = "snapshot"
               /\ \A x \in Standings :
                     /\ Fits(x, e, ghost.drafts) /\ After(x, e) \in Standings
                     /\ s.status = "gone" => After(x, e).broken
                     /\ s.status # "gone" =>
                           /\ AtBus(After(x, e), bus, ghost)
                           /\ After(x, e).broken <=> s.status = "error"
                           /\ After(x, e).gen = 0 => After(x, e).hist = s.record
<1> DEFINE e == Snapshot(bus, s)
           first == SubSeq(s.record, 1, Min({bus.active.baseline, Len(s.record)}))
           list == IF bus.active = NoStream THEN s.record ELSE first
<1>1. /\ bus.revision \in Nat /\ bus.active.generation \in Nat /\ bus.active.draft \in Drafts
      /\ bus.active.baseline \in Nat /\ s.record \in Seq(Entries) /\ Len(s.record) \in Nat
      /\ s.status \in {"running", "streaming", "error", "gone"} /\ 0 \in Drafts
      /\ bus.active.generation = 0 => bus.active = NoStream
  BY SizesAssumption DEF Shape, BusOK, Buses, Sessions, Drafts
<1>2. first \in Seq(Entries)
  <2> DEFINE k == Min({bus.active.baseline, Len(s.record)})
  <2>1. k \in Nat /\ k <= Len(s.record)
    BY <1>1, MinOfTwo
  <2> HIDE DEF k
  <2>2. SubSeq(s.record, 1, k) \in Seq(Entries)
    BY <1>1, <2>1
  <2> QED
    BY <2>2 DEF k
<1>3. list \in Seq(Entries) /\ (bus.active.generation = 0 => list = s.record)
  BY <1>1, <1>2
<1>4. Event("snapshot") \in Messages /\ Event("snapshot").type = "snapshot"
      /\ Event("snapshot").readable
  BY EventsOK DEF Types
<1> HIDE DEF first, list
<1>5. CASE s.status = "gone"
  <2>1. e = [Event("snapshot") EXCEPT !.revision = 0, !.status = "error"]
    BY <1>5 DEF Snapshot
  <2> HIDE DEF e
  <2>2. /\ e \in Messages /\ e.type = "snapshot" /\ e.revision = 0 /\ e.status = "error"
        /\ e.readable
    BY <1>4, <2>1 DEF Messages
  <2>3. e.generation = 0 /\ e.draft = 0
    BY <2>1 DEF Event
  <2>4. ASSUME NEW x \in Standings
        PROVE  Fits(x, e, ghost.drafts) /\ After(x, e) \in Standings /\ After(x, e).broken
    <3>1. <<e.generation, e.revision, e.draft>> \in ghost.drafts
      BY <2>2, <2>3 DEF Shape, GhostOK
    <3> QED
      BY <2>2, <3>1, AfterSnapshot
  <2> QED
    BY <1>5, <2>2, <2>4 DEF e
<1>6. CASE s.status # "gone"
  <2>1. e = [Event("snapshot") EXCEPT
                !.revision = bus.revision, !.generation = bus.active.generation,
                !.status = s.status, !.draft = bus.active.draft, !.messages = list]
    BY <1>6 DEF Snapshot, list, first
  <2> HIDE DEF e
  <2>2. /\ e \in Messages /\ e.type = "snapshot" /\ e.revision = bus.revision
        /\ e.status = s.status /\ e.readable /\ e.generation = bus.active.generation
        /\ e.draft = bus.active.draft /\ e.messages = list
    BY <1>1, <1>3, <1>4, <1>6, <2>1 DEF Messages
  <2>4. ASSUME NEW x \in Standings
        PROVE  /\ Fits(x, e, ghost.drafts) /\ After(x, e) \in Standings
               /\ AtBus(After(x, e), bus, ghost)
               /\ After(x, e).broken <=> s.status = "error"
               /\ After(x, e).gen = 0 => After(x, e).hist = s.record
    <3>1. <<e.generation, e.revision, e.draft>> \in ghost.drafts
      BY <2>2 DEF Shape, GhostOK
    <3>2. /\ Fits(x, e, ghost.drafts) /\ After(x, e) \in Standings
          /\ After(x, e).gen = e.generation /\ After(x, e).rev = e.revision
          /\ After(x, e).draft = e.draft /\ After(x, e).hist = e.messages
          /\ ~After(x, e).unread
          /\ After(x, e).broken <=> e.status = "error"
      BY <1>1, <2>2, <3>1, AfterSnapshot
    <3> QED
      BY <1>3, <2>2, <3>2 DEF AtBus
  <2> QED
    BY <1>6, <2>2, <2>4 DEF e
<1> QED
  BY <1>5, <1>6

------------------------------------------------------------------------------
(* The actions of the server *)

(* What every action leaves alone. *)
LEMMA SessionFacts ==
    ASSUME Shape
    PROVE  /\ session.record \in Seq(Entries) /\ session.turn \in Turns
           /\ session.turn.base \in Seq(Entries) /\ session.turn.n \in Nat
           /\ session.turn.events \in 0 .. MaxEvents
           /\ session.turn.at \in {"idle", "preparing", "streaming", "killed"}
           /\ session.status \in {"running", "streaming", "error", "gone"}
           /\ turns \in Nat /\ requests \in Seq({"message", "resync"})
           /\ NoTurn \in Turns /\ NoTurn.at = "idle"
           /\ 0 \in Drafts
BY SizesAssumption DEF Shape, SessionOK, Sessions, Turns, NoTurn, Drafts

(* A step that sends a snapshot or a refusal. *)
LEMMA MessageStep ==
    ASSUME Shape, JoinedOK, view' = view, bus' = bus, ghost' = ghost,
           NEW e \in Messages, conn' = Enqueue(conn, e),
           SessionOK', BusOK', requests' \in Seq({"message", "resync"}), turns' \in Nat,
           \/ e.type \in Ends
           \/ /\ "message" \in ToSet(requests) => "message" \in ToSet(requests')
              /\ session'.turn = session.turn,
           \A y \in Standings : AtEnd(y) => /\ Fits(y, e, ghost.drafts)
                                            /\ After(y, e) \in Standings
                                            /\ AtEnd(After(y, e))'
    PROVE  Shape' /\ JoinedOK'
<1>1. /\ conn' \in Connections /\ Bounded(conn')
      /\ conn'.open => conn.open /\ Pending(conn') = Append(Pending(conn), e)
  BY EnqueueEffect DEF Shape
<1>2. Pending(conn) \in Seq(Messages)
  BY PendingOK DEF Shape
<1>3. Shape'
  BY <1>1 DEF Shape, GhostOK
<1>4. conn'.open => /\ Longer(Pending(conn), Pending(conn'))
                    /\ \E i \in DOMAIN Pending(conn') : Pending(conn')[i].type = e.type
  <2> DEFINE Q == Append(Pending(conn), e)
  <2>1. Longer(Pending(conn), Q) /\ \E i \in DOMAIN Q : Q[i].type = e.type
    BY <1>2, AppendedIsLonger
  <2>2. conn'.open => Pending(conn') = Q
    BY <1>1
  <2> HIDE DEF Q
  <2> QED
    BY <2>1, <2>2
<1>5. ASSUME conn'.open, MessageOut
      PROVE  MessageOut'
  <2>1. CASE e.type \in Ends
    BY <1>4, <1>5, <2>1 DEF MessageOut
  <2>2. CASE /\ "message" \in ToSet(requests) => "message" \in ToSet(requests')
             /\ session'.turn = session.turn
    BY <1>1, <1>4, <1>5, <2>2, StillOut DEF MessageOut
  <2> QED
    BY <2>1, <2>2
<1>6. ASSUME NEW x, NEW y, conn'.open, Leads(Pending(conn), x, y, ghost.drafts), AtEnd(y)
      PROVE  \E z : Leads(Pending(conn'), x, z, ghost'.drafts) /\ AtEnd(z)'
  <2>1. y \in Standings
    BY <1>2, <1>6, LeadsSomewhere
  <2>2. Leads(Pending(conn'), x, After(y, e), ghost'.drafts)
    BY <1>1, <1>2, <1>6, <2>1, LeadsFurther
  <2> QED
    BY <1>6, <2>1, <2>2
<1> QED
  BY <1>1, <1>3, <1>4, <1>5, <1>6, ServerJoins

(* A request that is taken was not the message. *)
LEMMA TailKeepsMessage ==
    ASSUME NEW r \in Seq({"message", "resync"}), r # <<>>, Head(r) # "message",
           "message" \in ToSet(r)
    PROVE  "message" \in ToSet(Tail(r))
<1>1. PICK i \in DOMAIN r : r[i] = "message"
  BY DEF ToSet
<1>2. /\ Len(r) \in Nat /\ DOMAIN r = 1 .. Len(r) /\ Head(r) = r[1]
      /\ Len(Tail(r)) = Len(r) - 1 /\ DOMAIN Tail(r) = 1 .. Len(r) - 1
      /\ \A j \in 1 .. Len(r) - 1 : Tail(r)[j] = r[j + 1]
  BY HeadTailProperties
<1>3. i # 1
  BY <1>1, <1>2
<1>4. i - 1 \in DOMAIN Tail(r) /\ Tail(r)[i - 1] = r[i]
  BY <1>2, <1>3
<1> QED
  BY <1>1, <1>4 DEF ToSet

(* Another writes to the session. *)
LEMMA OtherMessageStep == Shape /\ JoinedOK /\ OtherMessage => Shape' /\ JoinedOK'
BY BeginStep DEF OtherMessage

(* The browser's message is taken: refused, failed or begun. *)
LEMMA TakeMessageStep ==
    ASSUME Shape, JoinedOK, TakeMessage
    PROVE  Shape' /\ JoinedOK'
<1>1. /\ requests # <<>> /\ requests' = Tail(requests)
      /\ requests' \in Seq({"message", "resync"})
  BY SessionFacts DEF TakeMessage
<1>2. CASE /\ session.turn.at \in {"idle", "killed"} /\ session.status = "running"
           /\ session.sealed
  <2>1. /\ session' = [session EXCEPT !.status = "error"]
        /\ Emit(<<TerminalError>>, session.record, session.turn.n)
        /\ turns' = turns /\ view' = view
    BY <1>2 DEF TakeMessage
  <2>2. /\ session' \in Sessions /\ session'.status = "error" /\ session'.turn = session.turn
        /\ session'.sealed = session.sealed /\ session'.record = session.record
    BY <2>1 DEF Shape, SessionOK, Sessions
  <2>3. SessionOK'
    BY <1>2, <2>2 DEF SessionOK, Shape
  <2> QED
    BY <1>1, <1>2, <2>1, <2>2, <2>3, SessionFacts, ErrorStep
<1>3. CASE /\ session.turn.at \in {"idle", "killed"} /\ session.status = "running"
           /\ ~session.sealed
  <2>1. session.turn.at = "idle"
    BY <1>3 DEF Shape, SessionOK
  <2>2. Begin("websocket") /\ UNCHANGED <<bus, conn, view, ghost>>
    BY <1>3 DEF TakeMessage
  <2> QED
    BY <1>1, <1>3, <2>1, <2>2, BeginStep
<1>4. CASE ~(session.turn.at \in {"idle", "killed"} /\ session.status = "running")
  <2> DEFINE e == Refusal
  <2>1. Emit(<<e>>, session.record, session.turn.n) /\ UNCHANGED <<session, turns, view>>
    BY <1>4 DEF TakeMessage
  <2>2. /\ e \in Messages /\ e.type = "error" /\ ~e.terminal
        /\ e.readable /\ e.revision = NoRevision /\ e.generation = 0
    BY EventsOK
  <2> HIDE DEF e
  <2>3. /\ e.type \in Ends /\ Refusing(e) /\ ~Revisioned(e)
    BY <2>2 DEF Ends, Refusing, Revisioned
  <2>4. bus' = bus /\ conn' = Enqueue(conn, e) /\ ghost' = ghost
    BY <2>1, <2>3, EmitsMessage
  <2>5. \A y : Fits(y, e, ghost.drafts) /\ After(y, e) = y
    BY <2>2, <2>3 DEF Fits, After, Streamed
  <2>6. SessionOK' /\ BusOK' /\ \A y : AtEnd(y) => AtEnd(y)'
    BY <2>1, <2>4 DEF Shape, SessionOK, BusOK, AtEnd
  <2> QED
    BY <1>1, <2>1, <2>2, <2>3, <2>4, <2>5, <2>6, SessionFacts, MessageStep
<1> QED
  BY <1>2, <1>3, <1>4

(* A reply starts: from here on the bus has a stream. *)
LEMMA StreamStartStep ==
    ASSUME Shape, JoinedOK, StreamStart
    PROVE  Shape' /\ JoinedOK'
<1> DEFINE e == Event("stream_start")
           n == session.turn.n
<1>1. /\ session.turn.at = "preparing" /\ Emit(<<e>>, session.record, n)
      /\ session' = [session EXCEPT !.status = "streaming", !.turn.at = "streaming"]
      /\ UNCHANGED <<view, requests, turns>>
  BY DEF StreamStart
<1>2. e \in Messages /\ e.type = "stream_start" /\ e.readable
  BY EventsOK DEF Types
<1> HIDE DEF e
<1>3. n \in Nat \ {0} /\ session.status # "gone"
  BY <1>1, SessionFacts DEF Shape, SessionOK
<1>4. Sendable(e, bus, n) /\ e.type \in Ends /\ e.type \notin Streamed
  BY <1>2, <1>3 DEF Sendable, Revisioned, Streamed, Ends
<1>5. /\ session' \in Sessions /\ session'.status = "streaming"
      /\ session'.turn.at = "streaming" /\ session'.turn.n = n
      /\ session'.turn.events = session.turn.events
  BY <1>1 DEF Shape, SessionOK, Sessions, Turns
<1>6. SessionOK'
  BY <1>3, <1>5 DEF SessionOK
<1>7. /\ bus' \in Buses /\ (bus'.active.generation = 0 => bus'.active = NoStream)
      /\ bus'.active.generation = n /\ bus'.active.draft = 0
  BY <1>1, <1>2, <1>3, <1>4, SessionFacts, EventEffect DEF Streamed
<1>8. BusOK'
  BY <1>5, <1>7, SessionFacts DEF BusOK
<1>9. ASSUME NEW z, AtBus(z, bus', ghost'), e.type = "error" <=> z.broken
      PROVE  AtEnd(z)'
  BY <1>2, <1>3, <1>5, <1>7, <1>9 DEF AtEnd, AtBus
<1> QED
  BY <1>1, <1>3, <1>4, <1>6, <1>8, <1>9, SessionFacts, EventStep

(* What a rollback leaves of a record. *)
LEMMA RolledBackOK ==
    ASSUME NEW r \in Seq(Entries)
    PROVE  RolledBack(r) \in Seq(Entries)
<1>1. CASE r # <<>> /\ Last(r)[1] = "user"
  <2>1. RolledBack(r) = SubSeq(r, 1, Len(r) - 1)
    BY <1>1 DEF RolledBack, Front
  <2>2. Len(r) \in Nat /\ Len(r) # 0
    BY <1>1
  <2> QED
    BY <2>1, <2>2
<1>2. CASE ~(r # <<>> /\ Last(r)[1] = "user")
  BY <1>2 DEF RolledBack
<1> QED
  BY <1>1, <1>2

(* A turn that has ended. *)
LEMMA EndedTurn ==
    ASSUME Shape, NEW record \in Seq(Entries), NEW status \in {"running", "error"},
           session' = [session EXCEPT !.record = record, !.status = status, !.turn = NoTurn]
    PROVE  /\ SessionOK' /\ session'.turn.at = "idle" /\ session'.status = status
           /\ session'.record = record
<1>1. /\ session' \in Sessions /\ session'.turn = NoTurn /\ session'.status = status
      /\ session'.record = record
  BY SessionFacts DEF Shape, SessionOK, Sessions
<1> QED
  BY <1>1, SessionFacts DEF SessionOK

(* A reply that fails. *)
LEMMA StreamFailsStep ==
    ASSUME Shape, JoinedOK, StreamFails
    PROVE  Shape' /\ JoinedOK'
<1> DEFINE record == RolledBack(session.record)
<1>1. /\ session.turn.at = "streaming" /\ UNCHANGED <<view, requests, turns>>
      /\ session' = [session EXCEPT !.record = record, !.status = "error", !.turn = NoTurn]
      /\ Emit(<<TerminalError>>, record, session.turn.n)
  BY DEF StreamFails, EndTurn
<1>2. record \in Seq(Entries)
  BY SessionFacts, RolledBackOK
<1> HIDE DEF record
<1>3. session.status # "gone"
  BY <1>1 DEF Shape, SessionOK
<1> QED
  BY <1>1, <1>2, <1>3, SessionFacts, EndedTurn, ErrorStep

(* The killer answers when the turn has ended. *)
LEMMA KillEndsStep ==
    ASSUME Shape, JoinedOK, KillEnds
    PROVE  Shape' /\ JoinedOK'
<1>1. /\ session.turn.at = "killed" /\ UNCHANGED <<view, requests, turns>>
      /\ session' = [session EXCEPT !.record = session.record, !.status = "error",
                                    !.turn = NoTurn]
      /\ Emit(<<TerminalError>>, session.record, session.turn.n)
  BY DEF KillEnds, EndTurn
<1>2. session.status # "gone"
  BY <1>1 DEF Shape, SessionOK
<1> QED
  BY <1>1, <1>2, SessionFacts, EndedTurn, ErrorStep

(* A turn that ends with its history announced. *)
LEMMA ChainEndEffect ==
    ASSUME Shape, NEW record \in Seq(Entries), NEW r \in Seq(Entries), NEW n \in Nat
    PROVE  /\ Sendable(ChainEnd(record), bus, n) /\ ChainEnd(record).type = "chain_end"
           /\ ChainEnd(record).messages = record
           /\ "chain_end" \in Ends /\ "chain_end" \notin Streamed
BY EventsOK DEF Sendable, Revisioned, Streamed, Ends

(* A message that is taken back before any event: the browser is told when it was  *)
(* its own, and still may show it when it was another's.                          *)
LEMMA PreStreamAbortStep ==
    ASSUME Shape, JoinedOK, PreStreamAbort
    PROVE  Shape' /\ JoinedOK'
<1> DEFINE base == session.turn.base
           n == session.turn.n
<1>1. /\ session.turn.at = "preparing" /\ UNCHANGED <<view, requests, turns>>
      /\ session' = [session EXCEPT !.record = base, !.status = "running", !.turn = NoTurn]
      /\ Emit(IF session.turn.via = "websocket" THEN <<ChainEnd(base)>> ELSE <<>>, base, n)
  BY DEF PreStreamAbort, EndTurn
<1>2. /\ SessionOK' /\ session'.turn.at = "idle" /\ session'.status = "running"
      /\ session'.record = base /\ base \in Seq(Entries) /\ n \in Nat
      /\ session.status # "gone"
  BY <1>1, SessionFacts, EndedTurn DEF Shape, SessionOK
<1>3. CASE session.turn.via = "websocket"
  <2> DEFINE e == ChainEnd(base)
  <2>1. /\ Sendable(e, bus, n) /\ e.type = "chain_end" /\ e.messages = base
        /\ e.type \in Ends /\ e.type \notin Streamed /\ Emit(<<e>>, base, n)
    BY <1>1, <1>2, <1>3, ChainEndEffect
  <2> HIDE DEF e
  <2>2. /\ bus' \in Buses /\ (bus'.active.generation = 0 => bus'.active = NoStream)
        /\ bus'.active.generation = 0
    BY <1>2, <2>1, EventEffect
  <2>3. BusOK'
    BY <1>2, <2>2 DEF BusOK
  <2>4. ASSUME NEW z, AtBus(z, bus', ghost'), z.hist = base
        PROVE  AtEnd(z)'
    BY <1>2, <2>4 DEF AtEnd, UpTo
  <2> QED
    BY <1>1, <1>2, <2>1, <2>3, <2>4, SessionFacts, EventStep
<1>4. CASE session.turn.via # "websocket"
  <2>1. UNCHANGED <<bus, conn, ghost>>
    BY <1>1, <1>4, EmitsNothing
  <2>2. Shape'
    BY <1>1, <1>2, <2>1 DEF Shape, BusOK, GhostOK
  <2>3. MessageOut => MessageOut'
    BY <1>1, <1>4, <2>1, <1>2, PendingOK, StillOut DEF Shape, Longer, MessageOut
  <2>4. \A y : AtEnd(y) => AtEnd(y)'
    BY <1>1, <1>2, <2>1 DEF AtEnd, UpTo
  <2> QED
    BY <1>1, <2>1, <2>2, <2>3, <2>4, QuietStep
<1> QED
  BY <1>3, <1>4

(* An event of a reply that goes on. *)
LEMMA StreamedStep ==
    ASSUME Shape, JoinedOK, Streaming(session), UNCHANGED <<view, requests, turns>>,
           NEW record \in Seq(Entries),
           session' = [session EXCEPT !.record = record, !.turn = Count(session.turn)],
           NEW e, e \in Messages, e.type \in {"delta", "llm_usage"},
           e.type # "delta" => e.readable, Emit(<<e>>, record, session.turn.n)
    PROVE  Shape' /\ JoinedOK'
<1> DEFINE n == session.turn.n
           turn == Count(session.turn)
<1>1. /\ session.turn.at = "streaming" /\ session.turn.events < MaxEvents
      /\ session.status = "streaming" /\ n \in Nat \ {0} /\ MaxEvents \in Nat
      /\ bus.active.generation = n /\ bus.active.draft <= session.turn.events
      /\ bus.active.draft \in Drafts
  BY SessionFacts, SizesAssumption DEF Streaming, Shape, SessionOK, BusOK, Buses
<1>2. /\ turn \in Turns /\ turn.at = "streaming" /\ turn.n = n
      /\ turn.events = session.turn.events + 1
  <2>1. session.turn \in Turns /\ session.turn.events + 1 \in 0 .. MaxEvents
    BY <1>1, SessionFacts
  <2>2. turn = [session.turn EXCEPT !.events = session.turn.events + 1]
    BY DEF Count
  <2> HIDE DEF turn
  <2> QED
    BY <1>1, <2>1, <2>2 DEF Turns
<1>3. /\ session' \in Sessions /\ session'.turn = turn /\ session'.status = "streaming"
  <2> HIDE DEF turn
  <2>1. session' = [session EXCEPT !.record = record, !.turn = turn]
    BY DEF turn
  <2> QED
    BY <1>1, <1>2, <2>1 DEF Shape, SessionOK, Sessions
<1> HIDE DEF turn
<1>4. SessionOK'
  BY <1>1, <1>2, <1>3 DEF SessionOK
<1>5. Sendable(e, bus, n) /\ e.type \in Streamed /\ e.type # "stream_start"
  <2>1. bus.active.draft \in Nat /\ session.turn.events \in Nat
    BY <1>1, SessionFacts DEF Drafts
  <2>2. bus.active.draft < MaxEvents
    BY <1>1, <2>1
  <2>3. Revisioned(e) /\ e.type # "snapshot" /\ e.type \in Streamed /\ e.type # "stream_start"
    BY DEF Revisioned, Streamed
  <2> QED
    BY <1>1, <2>2, <2>3 DEF Sendable
<1>6. /\ bus' \in Buses /\ (bus'.active.generation = 0 => bus'.active = NoStream)
      /\ bus'.active.generation = n
      /\ bus'.active.draft = IF e.type = "delta" THEN bus.active.draft + 1
                             ELSE bus.active.draft
  BY <1>1, <1>5, EventEffect
<1>7. BusOK'
  <2>1. bus'.active.draft <= session.turn.events + 1
    <3>1. bus.active.draft \in Nat /\ session.turn.events \in Nat
      BY <1>1, SessionFacts DEF Drafts
    <3> QED
      BY <1>1, <1>6, <3>1
  <2> QED
    BY <1>2, <1>3, <1>6, <2>1 DEF BusOK
<1>8. ASSUME NEW z, AtBus(z, bus', ghost'), e.type = "error" <=> z.broken
      PROVE  AtEnd(z)'
  BY <1>1, <1>2, <1>3, <1>6, <1>8 DEF AtEnd, AtBus
<1> QED
  BY <1>1, <1>4, <1>5, <1>7, <1>8, SessionFacts, EventStep

(* A piece of the reply, readable or not. *)
LEMMA DeltaStep ==
    ASSUME Shape, JoinedOK, Delta
    PROVE  Shape' /\ JoinedOK'
<1>1. PICK readable \in BOOLEAN :
         Emit(<<[Event("delta") EXCEPT !.readable = readable]>>, session.record,
              session.turn.n)
  BY DEF Delta
<1> DEFINE e == [Event("delta") EXCEPT !.readable = readable]
<1>2. Event("delta") \in Messages /\ Event("delta").type = "delta"
  BY EventsOK DEF Types
<1>3. e \in Messages /\ e.type = "delta"
  BY <1>2 DEF Messages
<1> HIDE DEF e
<1>4. Emit(<<e>>, session.record, session.turn.n)
  BY <1>1 DEF e
<1>5. session' = [session EXCEPT !.record = session.record, !.turn = Count(session.turn)]
  BY DEF Delta, SetTurn, Shape, SessionOK, Sessions
<1>6. Streaming(session) /\ UNCHANGED <<view, requests, turns>>
  BY DEF Delta
<1> QED
  BY <1>3, <1>4, <1>5, <1>6, SessionFacts, StreamedStep

(* A part of the reply is complete, and in the record before the stream ends. *)
LEMMA ModelEndStep ==
    ASSUME Shape, JoinedOK, ModelEnd
    PROVE  Shape' /\ JoinedOK'
<1> DEFINE e == Event("llm_usage")
           record == Append(session.record, Entry("assistant", session.turn.n))
<1>1. e \in Messages /\ e.type = "llm_usage" /\ e.readable
  BY EventsOK DEF Types
<1>2. record \in Seq(Entries)
  BY SessionFacts, RecordGrows
<1>3. /\ session' = [session EXCEPT !.record = record, !.turn = Count(session.turn)]
      /\ Streaming(session) /\ UNCHANGED <<view, requests, turns>>
      /\ Emit(<<e>>, session'.record, session.turn.n)
  BY DEF ModelEnd
<1> HIDE DEF record, e
<1>4. session'.record = record
  BY <1>3 DEF Shape, SessionOK, Sessions
<1> QED
  BY <1>1, <1>2, <1>3, <1>4, StreamedStep

(* A session is sealed while its turn is at work: nothing is sent. *)
LEMMA KillStartsStep ==
    ASSUME Shape, JoinedOK, KillStarts
    PROVE  Shape' /\ JoinedOK'
<1> DEFINE record == IF session.turn.at = "idle" THEN session.record ELSE session.turn.base
           status == IF session.turn.via = "websocket" THEN "running" ELSE session.status
           turn == [session.turn EXCEPT !.at = "killed"]
<1>1. /\ session.status \in {"running", "streaming"} /\ UNCHANGED <<bus, conn, view, ghost>>
      /\ requests' = requests /\ turns' = turns
      /\ session' = [session EXCEPT !.sealed = TRUE, !.record = record, !.status = status,
                                    !.turn = turn]
  BY DEF KillStarts
<1>2. /\ record \in Seq(Entries) /\ status \in {"running", "streaming"}
      /\ turn \in Turns /\ turn.at = "killed"
  BY <1>1, SessionFacts DEF Turns
<1> HIDE DEF record, status, turn
<1>3. /\ session' \in Sessions /\ session'.sealed /\ session'.status = status
      /\ session'.turn.at = "killed"
  BY <1>1, <1>2 DEF Shape, SessionOK, Sessions
<1>4. SessionOK' /\ BusOK'
  BY <1>1, <1>2, <1>3 DEF SessionOK, BusOK, Shape
<1>5. Shape'
  BY <1>1, <1>4 DEF Shape, GhostOK
<1>6. MessageOut'
  BY <1>3 DEF MessageOut
<1>7. \A y : AtEnd(y) => AtEnd(y)'
  BY <1>1, <1>2, <1>3 DEF AtEnd
<1> QED
  BY <1>1, <1>5, <1>6, <1>7, QuietStep

(* Messages behind messages behind others are behind all. *)
LEMMA LongerStill ==
    ASSUME NEW P \in Seq(Messages), NEW Q \in Seq(Messages), NEW R \in Seq(Messages),
           Longer(P, Q), Longer(Q, R)
    PROVE  Longer(P, R)
<1>1. Len(P) \in Nat /\ Len(Q) \in Nat /\ Len(R) \in Nat
  OBVIOUS
<1>2. Len(P) <= Len(Q) /\ Len(Q) <= Len(R)
  BY DEF Longer
<1>3. Len(P) <= Len(R) /\ \A i \in 1 .. Len(P) : i \in 1 .. Len(Q)
  BY <1>1, <1>2
<1> QED
  BY <1>3 DEF Longer

(* A reply that ends: two events in a row, the second with the history. *)
LEMMA StreamEndStep ==
    ASSUME Shape, JoinedOK, StreamEnd
    PROVE  Shape' /\ JoinedOK'
<1> DEFINE n == session.turn.n
<1>1. PICK record \in {session.record, RolledBack(session.record),
                       Append(session.record, Entry("notice", n))} :
         EndTurn(record, Ending(record), "running")
  BY DEF StreamEnd
<1> DEFINE e == Event("stream_end")
           f == ChainEnd(record)
<1>2. /\ session.turn.at = "streaming" /\ session.status = "streaming" /\ n \in Nat \ {0}
      /\ UNCHANGED <<view, requests, turns>> /\ bus.active.generation = n
      /\ session' = [session EXCEPT !.record = record, !.status = "running", !.turn = NoTurn]
      /\ Emit(<<e, f>>, record, n)
  BY <1>1, SessionFacts DEF StreamEnd, EndTurn, Ending, Shape, SessionOK, BusOK
<1>3. record \in Seq(Entries)
  BY SessionFacts, RecordGrows, RolledBackOK
<1>4. /\ SessionOK' /\ session'.turn.at = "idle" /\ session'.status = "running"
      /\ session'.record = record
  BY <1>2, <1>3, EndedTurn
<1>5. e \in Messages /\ e.type = "stream_end" /\ e.readable
  BY EventsOK DEF Types
<1>6. f \in Messages /\ f.type = "chain_end" /\ f.readable /\ f.messages = record
  BY <1>3, EventsOK
<1> HIDE DEF e, f
<1>7. /\ Revisioned(e) /\ Revisioned(f) /\ e.type \in Streamed /\ f.type \notin Streamed
      /\ f.type \in Ends /\ Sendable(e, bus, n) /\ \A b : Sendable(f, b, n)
  BY <1>2, <1>5, <1>6 DEF Revisioned, Sendable, Streamed, Ends
<1>8. PICK b, c, g : /\ Sends(e, record, n, bus, conn, ghost, b, c, g)
                     /\ Sends(f, record, n, b, c, g, bus', conn', ghost')
  BY <1>2, <1>7, EmitsTwo
<1> DEFINE m == Sent(bus, e, n)
           k == Sent(b, f, n)
<1>9. /\ b \in Buses /\ (b.active.generation = 0 => b.active = NoStream)
      /\ c \in Connections /\ Bounded(c) /\ ghost.drafts \subseteq g.drafts
      /\ c.open =>
            /\ conn.open /\ m \in Messages /\ Pending(c) = Append(Pending(conn), m)
            /\ \A x, y : /\ Leads(Pending(conn), x, y, ghost.drafts) /\ AtBus(y, bus, ghost)
                         /\ e.type \in Streamed => ~y.broken
                         => /\ Leads(Pending(c), x, After(y, m), g.drafts)
                            /\ AtBus(After(y, m), b, g)
  <2>1. /\ bus \in Buses /\ (bus.active.generation = 0 => bus.active = NoStream)
        /\ conn \in Connections /\ Bounded(conn) /\ n \in Nat
    BY <1>2 DEF Shape, BusOK
  <2>2. Sendable(e, bus, n) /\ Sends(e, record, n, bus, conn, ghost, b, c, g)
    BY <1>7, <1>8
  <2>3. Moves(e, m, n, bus, conn, ghost, b, c, g)
    BY <1>3, <2>1, <2>2, SendsEffect
  <2> HIDE DEF m
  <2> QED
    BY <2>3 DEF Moves
<1>10. /\ bus' \in Buses /\ (bus'.active.generation = 0 => bus'.active = NoStream)
       /\ bus'.active.generation = 0
       /\ conn' \in Connections /\ Bounded(conn') /\ g.drafts \subseteq ghost'.drafts
       /\ <<bus'.active.generation, bus'.revision, bus'.active.draft>> \in ghost'.drafts
       /\ conn'.open =>
             /\ c.open /\ k \in Messages /\ Pending(conn') = Append(Pending(c), k)
             /\ \A x, y : /\ Leads(Pending(c), x, y, g.drafts) /\ AtBus(y, b, g)
                          /\ f.type \in Streamed => ~y.broken
                          => /\ Leads(Pending(conn'), x, After(y, k), ghost'.drafts)
                             /\ AtBus(After(y, k), bus', ghost')
  <2>1. /\ b \in Buses /\ (b.active.generation = 0 => b.active = NoStream)
        /\ c \in Connections /\ Bounded(c) /\ n \in Nat
    BY <1>2, <1>9
  <2>2. Sendable(f, b, n) /\ Sends(f, record, n, b, c, g, bus', conn', ghost')
    BY <1>7, <1>8
  <2>3. f.type \notin Streamed /\ f.type # "stream_start"
    BY <1>6, <1>7
  <2>4. Moves(f, k, n, b, c, g, bus', conn', ghost')
    BY <1>3, <2>1, <2>2, SendsEffect
  <2> HIDE DEF k
  <2> QED
    BY <2>3, <2>4 DEF Moves
<1>11. k.type = "chain_end" /\ k.messages = record
  BY <1>6 DEF Sent, Messages
<1> HIDE DEF m, k
<1>12. Shape'
  BY <1>2, <1>4, <1>9, <1>10, SessionFacts DEF Shape, BusOK, GhostOK
<1>13. /\ conn'.open => /\ conn.open /\ Longer(Pending(conn), Pending(conn'))
                        /\ \E i \in DOMAIN Pending(conn') : Pending(conn')[i].type = "chain_end"
  <2> SUFFICES ASSUME conn'.open
               PROVE  /\ conn.open /\ Longer(Pending(conn), Pending(conn'))
                      /\ \E i \in DOMAIN Pending(conn') : Pending(conn')[i].type = "chain_end"
    OBVIOUS
  <2> DEFINE P == Pending(conn)
             Q == Append(P, m)
             R == Append(Q, k)
  <2>1. P \in Seq(Messages) /\ m \in Messages /\ k \in Messages
    BY <1>9, <1>10, PendingOK DEF Shape
  <2>2. Pending(conn') = R /\ conn.open
    BY <1>9, <1>10
  <2> HIDE DEF P
  <2>3. Q \in Seq(Messages) /\ Longer(P, Q)
    BY <2>1, AppendedIsLonger
  <2> HIDE DEF Q
  <2>4. R \in Seq(Messages) /\ Longer(Q, R) /\ \E i \in DOMAIN R : R[i].type = k.type
    BY <2>1, <2>3, AppendedIsLonger
  <2> HIDE DEF R
  <2>5. Longer(P, R)
    BY <2>1, <2>3, <2>4, LongerStill
  <2> QED
    BY <1>11, <2>2, <2>4, <2>5 DEF P
<1>14. conn'.open => MessageOut'
  BY <1>13 DEF MessageOut, Ends
<1>15. ASSUME NEW x, NEW y, conn'.open, Leads(Pending(conn), x, y, ghost.drafts), AtEnd(y)
       PROVE  \E z : Leads(Pending(conn'), x, z, ghost'.drafts) /\ AtEnd(z)'
  <2>1. AtBus(y, bus, ghost) /\ ~y.broken
    BY <1>2, <1>15 DEF AtEnd
  <2>2. PICK z : /\ z = After(After(y, m), k)
                 /\ Leads(Pending(conn'), x, z, ghost'.drafts) /\ AtBus(z, bus', ghost')
    BY <1>7, <1>9, <1>10, <1>15, <2>1
  <2>3. z.hist = record
    <3>1. k \in Messages /\ ~Refusing(k) /\ k.type # "snapshot"
      BY <1>10, <1>11, <1>15 DEF Refusing
    <3> QED
      BY <1>11, <2>2, <3>1, AfterEvent
  <2>4. AtEnd(z)'
    BY <1>4, <2>2, <2>3 DEF AtEnd, UpTo
  <2> QED
    BY <2>2, <2>4
<1> QED
  BY <1>2, <1>12, <1>13, <1>14, <1>15, ServerJoins

(* A history that is changed between turns is announced as if a turn had ended,  *)
(* or with a snapshot for everybody.                                            *)
LEMMA AnnounceStep ==
    ASSUME Shape, JoinedOK, Announce
    PROVE  Shape' /\ JoinedOK'
<1> DEFINE record == Append(session.record, Entry("notice", 0))
<1>1. /\ session.turn.at = "idle" /\ session.status \in {"running", "error"}
      /\ session' = [session EXCEPT !.record = record]
      /\ UNCHANGED <<view, requests, turns>>
      /\ \/ Emit(<<ChainEnd(record)>>, record, 0)
         \/ Emit(<<Snapshot(bus, session')>>, record, 0)
  BY DEF Announce
<1>2. record \in Seq(Entries)
  BY SessionFacts, RecordGrows
<1> HIDE DEF record
<1>3. /\ session' \in Sessions /\ session'.record = record /\ session'.turn = session.turn
      /\ session'.status = session.status /\ session'.sealed = session.sealed
  BY <1>1, <1>2 DEF Shape, SessionOK, Sessions
<1>4. SessionOK'
  BY <1>1, <1>3 DEF SessionOK
<1>5. CASE Emit(<<ChainEnd(record)>>, record, 0)
  <2> DEFINE e == ChainEnd(record)
  <2>1. /\ Sendable(e, bus, 0) /\ e.type = "chain_end" /\ e.messages = record
        /\ e.type \in Ends /\ e.type \notin Streamed /\ Emit(<<e>>, record, 0)
    BY <1>2, <1>5, ChainEndEffect
  <2> HIDE DEF e
  <2>2. /\ bus' \in Buses /\ (bus'.active.generation = 0 => bus'.active = NoStream)
        /\ bus'.active.generation = 0
    BY <1>2, <2>1, EventEffect
  <2>3. BusOK'
    BY <1>1, <1>3, <2>2 DEF BusOK
  <2>4. ASSUME NEW z, AtBus(z, bus', ghost'), z.hist = record
        PROVE  AtEnd(z)'
    BY <1>1, <1>3, <2>4 DEF AtEnd, UpTo
  <2> QED
    BY <1>1, <1>2, <1>4, <2>1, <2>3, <2>4, SessionFacts, EventStep
<1>6. CASE Emit(<<Snapshot(bus, session')>>, record, 0)
  <2>0. PICK e : e = Snapshot(bus, session')
    OBVIOUS
  <2>1. /\ e \in Messages /\ e.type = "snapshot"
        /\ \A x \in Standings :
              /\ Fits(x, e, ghost.drafts) /\ After(x, e) \in Standings
              /\ AtBus(After(x, e), bus, ghost)
              /\ After(x, e).gen = 0 => After(x, e).hist = record
    BY <1>1, <1>3, <2>0, SnapshotEffect
  <2>2. Emit(<<e>>, record, 0) /\ ~Revisioned(e)
    BY <1>6, <2>0, <2>1 DEF Revisioned
  <2>3. bus' = bus /\ conn' = Enqueue(conn, e) /\ ghost' = ghost
    BY <2>2, EmitsMessage
  <2>4. BusOK'
    BY <1>3, <2>3 DEF Shape, BusOK
  <2>5. \A x \in Standings : AtEnd(After(x, e))'
    BY <1>1, <1>3, <2>1, <2>3 DEF AtEnd, UpTo
  <2> QED
    BY <1>1, <1>3, <1>4, <2>1, <2>3, <2>4, <2>5, SessionFacts, MessageStep
<1> QED
  BY <1>1, <1>5, <1>6

(* A session that is deleted tells its subscribers and forgets its stream: who   *)
(* reads the error knows.                                                       *)
LEMMA DeleteStep ==
    ASSUME Shape, JoinedOK, Delete
    PROVE  Shape' /\ JoinedOK'
<1> DEFINE e == TerminalError
           start == [bus |-> bus, conn |-> conn, ghost |-> ghost,
                     record |-> session.record, turn |-> 0]
<1>1. /\ session.turn.at = "idle" /\ session.status \in {"running", "error"}
      /\ session' = [session EXCEPT !.status = "gone", !.record = <<>>, !.sealed = TRUE]
      /\ bus' = [revision |-> 0, active |-> NoStream]
      /\ conn' = Apply(start, e).conn /\ ghost' = Apply(start, e).ghost
      /\ UNCHANGED <<view, requests, turns>>
  BY DEF Delete
<1>2. /\ e \in Messages /\ e.type = "error" /\ e.readable /\ e.terminal
  BY EventsOK
<1> HIDE DEF e
<1>3. Revisioned(e) /\ Sendable(e, bus, 0) /\ e.type \notin Streamed
  BY <1>2 DEF Sendable, Revisioned, Streamed
<1>4. PICK b2, c2, g2 :
         /\ Apply(start, e) = [bus |-> b2, conn |-> c2, ghost |-> g2,
                               record |-> session.record, turn |-> 0]
         /\ Sends(e, session.record, 0, bus, conn, ghost, b2, c2, g2)
  BY <1>3, ApplySends
<1>5. conn' = c2 /\ ghost' = g2
  BY <1>1, <1>4
<1> DEFINE m == Sent(bus, e, 0)
<1>6. /\ c2 \in Connections /\ Bounded(c2) /\ ghost.drafts \subseteq g2.drafts
      /\ c2.open =>
            /\ conn.open /\ m \in Messages /\ Pending(c2) = Append(Pending(conn), m)
            /\ \A x, y : /\ Leads(Pending(conn), x, y, ghost.drafts) /\ AtBus(y, bus, ghost)
                         /\ e.type \in Streamed => ~y.broken
                         => Leads(Pending(c2), x, After(y, m), g2.drafts)
  <2>1. /\ bus \in Buses /\ (bus.active.generation = 0 => bus.active = NoStream)
        /\ conn \in Connections /\ Bounded(conn) /\ session.record \in Seq(Entries)
    BY SessionFacts DEF Shape, BusOK
  <2>2. Moves(e, m, 0, bus, conn, ghost, b2, c2, g2)
    BY <1>3, <1>4, <2>1, SendsEffect
  <2> HIDE DEF m
  <2> QED
    BY <2>2 DEF Moves
<1>7. m.type = "error" /\ m.terminal
  BY <1>2 DEF Sent, Messages
<1> HIDE DEF m
<1>8. /\ session' \in Sessions /\ session'.status = "gone" /\ session'.turn = session.turn
      /\ session'.sealed
  <2>1. <<>> \in Seq(Entries) /\ session \in Sessions
    BY DEF Shape, SessionOK
  <2> QED
    BY <1>1, <2>1 DEF Sessions
<1>9. SessionOK'
  BY <1>1, <1>8 DEF SessionOK
<1>10. /\ bus' \in Buses /\ bus'.active = NoStream /\ bus'.revision = 0
       /\ NoStream.generation = 0 /\ NoStream.draft = 0
  BY <1>1, SessionFacts DEF Buses, NoStream
<1>11. BusOK' /\ GhostOK'
  BY <1>1, <1>5, <1>6, <1>8, <1>10 DEF BusOK, GhostOK, Shape
<1>12. Shape'
  BY <1>1, <1>5, <1>6, <1>9, <1>11, SessionFacts DEF Shape
<1>13. conn'.open => /\ conn.open /\ Longer(Pending(conn), Pending(conn'))
                     /\ \E i \in DOMAIN Pending(conn') : Pending(conn')[i].type = "error"
  <2> SUFFICES ASSUME conn'.open
               PROVE  /\ conn.open /\ Longer(Pending(conn), Pending(conn'))
                      /\ \E i \in DOMAIN Pending(conn') : Pending(conn')[i].type = "error"
    OBVIOUS
  <2> DEFINE P == Pending(conn)
             Q == Append(P, m)
  <2>1. P \in Seq(Messages) /\ m \in Messages /\ Pending(conn') = Q /\ conn.open
    BY <1>5, <1>6, PendingOK DEF Shape
  <2> HIDE DEF P
  <2>2. Longer(P, Q) /\ \E i \in DOMAIN Q : Q[i].type = m.type
    BY <2>1, AppendedIsLonger
  <2> HIDE DEF Q
  <2> QED
    BY <1>7, <2>1, <2>2 DEF P
<1>14. conn'.open => MessageOut'
  BY <1>13 DEF MessageOut, Ends
<1>15. ASSUME NEW x, NEW y, conn'.open, Leads(Pending(conn), x, y, ghost.drafts), AtEnd(y)
       PROVE  \E z : Leads(Pending(conn'), x, z, ghost'.drafts) /\ AtEnd(z)'
  <2>1. AtBus(y, bus, ghost)
    BY <1>1, <1>15 DEF AtEnd
  <2>2. PICK z : z = After(y, m) /\ Leads(Pending(conn'), x, z, ghost'.drafts)
    BY <1>3, <1>5, <1>6, <1>15, <2>1
  <2>3. z.broken
    <3>1. m \in Messages /\ ~Refusing(m) /\ m.type # "snapshot"
      BY <1>5, <1>6, <1>7, <1>15 DEF Refusing
    <3> QED
      BY <1>7, <2>2, <3>1, AfterEvent
  <2> QED
    BY <1>8, <2>2, <2>3 DEF AtEnd
<1> QED
  BY <1>1, <1>12, <1>13, <1>14, <1>15, ServerJoins

(* After a restart nobody is connected. *)
LEMMA RestartStep ==
    ASSUME Shape, JoinedOK, Restart
    PROVE  Shape' /\ JoinedOK'
<1> DEFINE status == IF session.status = "streaming" THEN "running" ELSE session.status
<1>1. /\ session.status # "gone"
      /\ session' = [session EXCEPT !.status = status, !.sealed = FALSE, !.turn = NoTurn]
      /\ bus' = [revision |-> 0, active |-> NoStream]
      /\ conn' = Closed /\ requests' = <<>> /\ UNCHANGED <<view, turns, ghost>>
  BY DEF Restart
<1>2. status \in {"running", "error"}
  BY <1>1, SessionFacts
<1> HIDE DEF status
<1>3. /\ session' \in Sessions /\ session'.turn = NoTurn /\ session'.status = status
  BY <1>1, <1>2, SessionFacts DEF Shape, SessionOK, Sessions
<1>4. SessionOK'
  BY <1>2, <1>3, SessionFacts DEF SessionOK
<1>5. /\ bus' \in Buses /\ bus'.active = NoStream /\ bus'.revision = 0
      /\ NoStream.generation = 0 /\ NoStream.draft = 0
  BY <1>1, SessionFacts DEF Buses, NoStream
<1>6. BusOK' /\ GhostOK'
  BY <1>1, <1>3, <1>5, SessionFacts DEF BusOK, GhostOK, Shape
<1>7. conn' \in Connections /\ Bounded(conn') /\ ~conn'.open
  BY <1>1, SizesAssumption DEF Connections, Bounded, Closed
<1>8. Shape'
  BY <1>1, <1>4, <1>6, <1>7, SessionFacts DEF Shape
<1> QED
  BY <1>7, <1>8 DEF JoinedOK

(* The first of two lists gives the first. *)
LEMMA TailOfConcat ==
    ASSUME NEW S, NEW q \in Seq(S), NEW o \in Seq(S), q # <<>>
    PROVE  Tail(q \o o) = Tail(q) \o o
<1>0. PICK t \in Seq(S) : /\ t = Tail(q) /\ Len(t) = Len(q) - 1
                          /\ \A i \in 1 .. Len(q) - 1 : t[i] = q[i + 1]
  <2>1. /\ Tail(q) \in Seq(S) /\ Len(Tail(q)) = Len(q) - 1
        /\ \A i \in 1 .. Len(Tail(q)) : Tail(q)[i] = q[i + 1]
    BY HeadTailProperties
  <2> QED
    BY <2>1
<1>1. PICK c \in Seq(S) :
         /\ c = q \o o /\ Len(c) = Len(q) + Len(o)
         /\ \A i \in 1 .. Len(q) + Len(o) : c[i] = IF i <= Len(q) THEN q[i] ELSE o[i - Len(q)]
  <2> DEFINE c == q \o o
  <2>1. /\ c \in Seq(S) /\ Len(c) = Len(q) + Len(o)
        /\ \A i \in 1 .. Len(q) + Len(o) : c[i] = IF i <= Len(q) THEN q[i] ELSE o[i - Len(q)]
    BY ConcatProperties
  <2> HIDE DEF c
  <2> QED
    BY <2>1 DEF c
<1>2. Len(q) \in Nat /\ Len(o) \in Nat /\ Len(q) # 0
  OBVIOUS
<1>3. c # <<>>
  BY <1>1, <1>2
<1>4. PICK u \in Seq(S) : /\ u = Tail(c) /\ Len(u) = Len(q) + Len(o) - 1
                          /\ \A i \in 1 .. Len(q) + Len(o) - 1 : u[i] = c[i + 1]
  <2>1. Tail(c) \in Seq(S) /\ Len(Tail(c)) = Len(c) - 1
        /\ \A i \in 1 .. Len(Tail(c)) : Tail(c)[i] = c[i + 1]
    BY <1>3, HeadTailProperties
  <2>2. Len(Tail(c)) = Len(q) + Len(o) - 1
    BY <1>1, <2>1
  <2> QED
    BY <2>1, <2>2
<1>5. PICK d \in Seq(S) :
         /\ d = t \o o /\ Len(d) = Len(q) - 1 + Len(o)
         /\ \A i \in 1 .. Len(q) - 1 + Len(o) :
               d[i] = IF i <= Len(q) - 1 THEN t[i] ELSE o[i - (Len(q) - 1)]
  <2>1. /\ t \o o \in Seq(S) /\ Len(t \o o) = Len(t) + Len(o)
        /\ \A i \in 1 .. Len(t) + Len(o) :
              (t \o o)[i] = IF i <= Len(t) THEN t[i] ELSE o[i - Len(t)]
    BY ConcatProperties
  <2> DEFINE d == t \o o
  <2>2. /\ d \in Seq(S) /\ Len(d) = Len(t) + Len(o)
        /\ \A i \in 1 .. Len(t) + Len(o) : d[i] = IF i <= Len(t) THEN t[i] ELSE o[i - Len(t)]
    BY <2>1
  <2> HIDE DEF d
  <2>3. /\ d \in Seq(S) /\ Len(d) = Len(q) - 1 + Len(o)
        /\ \A i \in 1 .. Len(q) - 1 + Len(o) :
              d[i] = IF i <= Len(q) - 1 THEN t[i] ELSE o[i - (Len(q) - 1)]
    BY <1>0, <2>2
  <2> QED
    BY <2>3 DEF d
<1>6. ASSUME NEW i \in 1 .. Len(q) + Len(o) - 1
      PROVE  u[i] = d[i]
  <2>1. i + 1 \in 1 .. Len(q) + Len(o) /\ i \in 1 .. Len(q) - 1 + Len(o)
        /\ (i + 1) - Len(q) = i - (Len(q) - 1)
    BY <1>2
  <2>2. u[i] = IF i + 1 <= Len(q) THEN q[i + 1] ELSE o[(i + 1) - Len(q)]
    BY <1>1, <1>4, <2>1
  <2>3. d[i] = IF i <= Len(q) - 1 THEN t[i] ELSE o[i - (Len(q) - 1)]
    BY <1>5, <2>1
  <2>4. i <= Len(q) - 1 <=> i + 1 <= Len(q)
    BY <1>2
  <2>5. i <= Len(q) - 1 => t[i] = q[i + 1]
    BY <1>0, <1>2
  <2> QED
    BY <2>1, <2>2, <2>3, <2>4, <2>5
<1>7. Len(u) = Len(d) /\ \A i \in 1 .. Len(u) : u[i] = d[i]
  BY <1>2, <1>4, <1>5, <1>6
<1>8. u = d
  BY <1>7, SeqEqual
<1> QED
  BY <1>0, <1>1, <1>4, <1>5, <1>8

(* The next message is taken from the queue, and from the overflow when the queue *)
(* is empty: always the first that is pending.                                   *)
LEMMA TakenInOrder ==
    ASSUME NEW c \in Connections, Bounded(c), Pending(c) # <<>>,
           NEW d, d = IF c.queue # <<>> THEN [c EXCEPT !.queue = Tail(@)]
                      ELSE [c EXCEPT !.overflow = Tail(@)]
    PROVE  /\ d \in Connections /\ Bounded(d) /\ (d.open <=> c.open)
           /\ Pending(d) = Tail(Pending(c))
           /\ Head(Pending(c)) \in Messages
<1> DEFINE q == c.queue
           o == c.overflow
<1>1. q \in Seq(Messages) /\ o \in Seq(Messages) /\ Pending(c) = q \o o
  BY DEF Connections, Pending
<1>2. Len(q) <= QueueSize /\ Len(o) <= OverflowSize /\ Len(q) \in Nat /\ Len(o) \in Nat
  BY <1>1 DEF Bounded
<1>3. Head(Pending(c)) \in Messages
  BY <1>1, ConcatProperties, HeadTailProperties
<1>4. CASE q # <<>>
  <2> DEFINE t == Tail(q)
  <2>1. t \in Seq(Messages) /\ Len(t) = Len(q) - 1
    BY <1>1, <1>4, HeadTailProperties
  <2>2. d = [c EXCEPT !.queue = t]
    BY <1>4
  <2>3. Tail(q \o o) = t \o o
    BY <1>1, <1>4, TailOfConcat
  <2> HIDE DEF t
  <2>4. d \in Connections /\ d.queue = t /\ d.overflow = o /\ (d.open <=> c.open)
    BY <1>1, <2>1, <2>2 DEF Connections
  <2>5. Len(d.queue) <= QueueSize /\ Len(d.overflow) <= OverflowSize
    <3>1. Len(t) <= QueueSize
      BY <1>2, <2>1, SizesAssumption
    <3> QED
      BY <1>2, <2>4, <3>1
  <2>6. Pending(d) = d.queue \o d.overflow
    BY DEF Pending
  <2> QED
    BY <1>1, <1>3, <2>3, <2>4, <2>5, <2>6 DEF Bounded
<1>5. CASE q = <<>>
  <2> DEFINE t == Tail(o)
  <2>1. Pending(c) = o /\ o # <<>>
    BY <1>1, <1>5, ConcatEmptySeq
  <2>2. t \in Seq(Messages) /\ Len(t) = Len(o) - 1
    BY <1>1, <2>1, HeadTailProperties
  <2>3. d = [c EXCEPT !.overflow = t]
    BY <1>5
  <2>4. <<>> \o t = t
    BY <2>2, ConcatEmptySeq
  <2> HIDE DEF t
  <2>5. d \in Connections /\ d.queue = q /\ d.overflow = t /\ (d.open <=> c.open)
    BY <1>1, <2>2, <2>3 DEF Connections
  <2>6. Pending(d) = t
    BY <1>5, <2>4, <2>5 DEF Pending
  <2>7. Len(d.queue) <= QueueSize /\ Len(d.overflow) <= OverflowSize
    <3>1. Len(t) <= OverflowSize
      BY <1>2, <2>2, SizesAssumption
    <3> QED
      BY <1>2, <2>5, <3>1
  <2> QED
    BY <1>3, <2>1, <2>5, <2>6, <2>7 DEF t, Bounded
<1> QED
  BY <1>4, <1>5

------------------------------------------------------------------------------
(* The actions of the browser *)

(* The effect asks for a snapshot or does not. *)
LEMMA Asks ==
    ASSUME Shape, NEW v \in Views, ShowAndAsk(v)
    PROVE  view' = v /\ requests' \in Seq({"message", "resync"})
BY SessionFacts DEF ShowAndAsk

(* What is not touched keeps its shape. *)
LEMMA OthersKeepShape ==
    ASSUME Shape, UNCHANGED <<session, bus, ghost>>, turns' \in Nat,
           conn' \in Connections, Bounded(conn'), view' \in Views,
           requests' \in Seq({"message", "resync"})
    PROVE  Shape' /\ \A y : AtEnd(y) <=> AtEnd(y)'
<1>1. Shape'
  BY DEF Shape, SessionOK, BusOK, GhostOK
<1>2. \A y : AtEnd(y) <=> AtEnd(y)'
  BY DEF AtEnd
<1> QED
  BY <1>1, <1>2

(* The browser reads the next message. *)
LEMMA DeliverStep ==
    ASSUME Shape, JoinedOK, ShownDraftIsReal, Deliver
    PROVE  Shape' /\ JoinedOK' /\ ShownDraftIsReal'
<1> DEFINE P == Pending(conn)
           e == Head(P)
<1>1. /\ conn.open /\ view.connected /\ P # <<>>
      /\ ShowAndAsk(Reduce(view, e))
      /\ conn' = IF conn.queue # <<>> THEN [conn EXCEPT !.queue = Tail(@)]
                 ELSE [conn EXCEPT !.overflow = Tail(@)]
      /\ UNCHANGED <<session, bus, turns, faults, ghost>>
  BY DEF Deliver
<1>2. /\ conn' \in Connections /\ Bounded(conn') /\ conn'.open
      /\ Pending(conn') = Tail(P) /\ e \in Messages
      /\ P \in Seq(Messages) /\ e = P[1]
  <2>1. conn \in Connections /\ Bounded(conn) /\ P \in Seq(Messages)
    BY PendingOK DEF Shape
  <2>2. /\ conn' \in Connections /\ Bounded(conn') /\ (conn'.open <=> conn.open)
        /\ Pending(conn') = Tail(P) /\ e \in Messages
    BY <1>1, <2>1, TakenInOrder
  <2>3. e = P[1]
    BY <1>1, <2>1
  <2> QED
    BY <1>1, <2>1, <2>2, <2>3
<1>3. PICK x, y : /\ Leads(P, x, y, ghost.drafts) /\ AtEnd(y)
                  /\ Restarts(P) \/ OnTrack(view, x)
  BY <1>1 DEF JoinedOK
<1>4. PICK m, z : /\ m = e /\ z = After(x, m)
                  /\ x \in Standings /\ Fits(x, m, ghost.drafts) /\ z \in Standings
                  /\ Leads(Pending(conn'), z, y, ghost'.drafts)
  BY <1>1, <1>2, <1>3, LeadsOn
<1>5. PICK w : w = Reduce(view, m)
  OBVIOUS
<1> HIDE DEF P, e
<1>6. /\ w \in Views /\ w.connected = view.connected
      /\ \/ Knows(w)
         \/ /\ Follows(w, z)
            /\ \/ Behind(w, z) /\ w = view
               \/ Current(w, z) /\ ~Refusing(m)
  <2>1. CASE m.type = "snapshot"
    <3>1. ~Refusing(m)
      BY <2>1 DEF Refusing
    <3> QED
      BY <1>2, <1>4, <1>5, <2>1, <3>1, SnapshotShown DEF Shape
  <2>2. CASE m.type # "snapshot"
    <3>1. ~Restarts(P)
      BY <1>2, <1>4, <2>2 DEF Restarts
    <3>2. Knows(view) \/ Follows(view, x)
      BY <1>3, <3>1 DEF OnTrack
    <3> QED
      BY <1>2, <1>4, <1>5, <2>2, <3>2, EventShown DEF Shape
  <2> QED
    BY <2>1, <2>2
<1>7. view' = w /\ requests' \in Seq({"message", "resync"})
  BY <1>1, <1>4, <1>5, <1>6, Asks
<1>8. Shape' /\ AtEnd(y)'
  BY <1>1, <1>2, <1>3, <1>6, <1>7, SessionFacts, OthersKeepShape
<1>9. OnTrack(view, z)'
  BY <1>6, <1>7 DEF OnTrack, Current
<1>10. JoinedOK'
  BY <1>2, <1>4, <1>8, <1>9 DEF JoinedOK
<1>11. ShownDraftIsReal'
  <2> SUFFICES ASSUME w.phase = "streaming", ~w.needsResync
               PROVE  <<w.generation, w.revision, w.draft>> \in ghost.drafts
    BY <1>1, <1>7 DEF ShownDraftIsReal
  <2>1. ~Knows(w)
    BY DEF Knows
  <2>2. CASE w = view
    BY <2>2 DEF ShownDraftIsReal
  <2>3. CASE Current(w, z) /\ ~Refusing(m)
    <3>1. w.generation = z.gen /\ w.revision = z.rev /\ w.draft = z.draft
      BY <2>3 DEF Current, Stands
    <3>2. <<z.gen, z.rev, z.draft>> \in ghost.drafts
      BY <1>4, <2>3 DEF Fits
    <3> QED
      BY <3>1, <3>2
  <2> QED
    BY <1>6, <2>1, <2>2, <2>3
<1> QED
  BY <1>8, <1>10, <1>11

(* A connection that is dropped leaves nothing to read. *)
LEMMA SendFailsStep ==
    ASSUME Shape, JoinedOK, ShownDraftIsReal, SendFails
    PROVE  Shape' /\ JoinedOK' /\ ShownDraftIsReal'
<1>1. conn' = Closed /\ UNCHANGED <<session, bus, view, requests, turns, ghost>>
  BY DEF SendFails
<1>2. conn' \in Connections /\ Bounded(conn') /\ ~conn'.open
  BY <1>1, SizesAssumption DEF Connections, Bounded, Closed
<1>3. Shape'
  BY <1>1, <1>2, SessionFacts, OthersKeepShape DEF Shape
<1> QED
  BY <1>1, <1>2, <1>3 DEF JoinedOK, ShownDraftIsReal

(* A browser without a socket reads nothing, whatever is pending. *)
LEMMA DisconnectedStep ==
    ASSUME Shape, JoinedOK, ShownDraftIsReal, ShowAndAsk(Disconnected(view)),
           UNCHANGED <<session, bus, conn, turns, ghost>>
    PROVE  Shape' /\ JoinedOK' /\ ShownDraftIsReal'
<1> DEFINE w == Disconnected(view)
<1>1. /\ w \in Views /\ ~w.connected
      /\ w.phase = (IF view.streaming THEN "reconnecting" ELSE view.phase)
      /\ w.generation = view.generation /\ w.revision = view.revision
      /\ w.draft = view.draft /\ w.needsResync = view.needsResync
  BY DEF Disconnected, Shape, Views, Phases
<1> HIDE DEF w
<1>2. view' = w /\ requests' \in Seq({"message", "resync"})
  BY <1>1, Asks DEF w
<1>3. Shape' /\ \A y : AtEnd(y) => AtEnd(y)'
  BY <1>1, <1>2, SessionFacts, OthersKeepShape DEF Shape
<1>4. JoinedOK'
  BY <1>1, <1>2, <1>3 DEF JoinedOK
<1>5. ShownDraftIsReal'
  BY <1>1, <1>2 DEF ShownDraftIsReal
<1> QED
  BY <1>3, <1>4, <1>5

(* A snapshot that is made now leads to where the server stands, also in a turn   *)
(* whose message may still be taken back.                                       *)
LEMMA SnapshotIsTheEnd ==
    ASSUME Shape, NEW e, e = Snapshot(bus, session)
    PROVE  /\ e \in Messages /\ e.type = "snapshot"
           /\ \A x \in Standings : /\ Fits(x, e, ghost.drafts) /\ After(x, e) \in Standings
                                   /\ AtEnd(After(x, e))
<1>1. /\ e \in Messages /\ e.type = "snapshot"
      /\ \A x \in Standings :
            /\ Fits(x, e, ghost.drafts) /\ After(x, e) \in Standings
            /\ session.status = "gone" => After(x, e).broken
            /\ session.status # "gone" =>
                  /\ AtBus(After(x, e), bus, ghost)
                  /\ After(x, e).broken <=> session.status = "error"
                  /\ After(x, e).gen = 0 => After(x, e).hist = session.record
  BY SnapshotEffect DEF Shape, SessionOK
<1>2. ASSUME NEW x \in Standings
      PROVE  AtEnd(After(x, e))
  <2>1. CASE session.status = "gone"
    BY <1>1, <2>1 DEF AtEnd
  <2>2. CASE session.status # "gone"
    <3> DEFINE y == After(x, e)
    <3>1. /\ AtBus(y, bus, ghost) /\ (y.broken <=> session.status = "error")
          /\ y.gen = 0 => y.hist = session.record
      BY <1>1, <2>2
    <3> HIDE DEF y
    <3>2. session.turn.at = "streaming" => ~y.broken
      BY <3>1 DEF Shape, SessionOK
    <3>3. y.gen = 0 /\ session.turn.at = "idle" => UpTo(y.hist, session.record)
      BY <3>1 DEF UpTo
    <3>4. y.gen = 0 /\ session.turn.at = "preparing" => UpTo(y.hist, session.turn.base)
      BY <3>1, SessionFacts DEF UpTo, Shape, SessionOK
    <3>5. AtEnd(y)
      BY <2>2, <3>1, <3>2, <3>3, <3>4 DEF AtEnd
    <3> QED
      BY <3>5 DEF y
  <2> QED
    BY <2>1, <2>2
<1> QED
  BY <1>1, <1>2

(* A new connection starts with a snapshot. *)
LEMMA ConnectStep ==
    ASSUME Shape, JoinedOK, ShownDraftIsReal, Connect
    PROVE  Shape' /\ JoinedOK' /\ ShownDraftIsReal'
<1>1. PICK e : e = Snapshot(bus, session)
  OBVIOUS
<1>2. /\ conn' = Enqueue(Opened, e) /\ view' = [view EXCEPT !.connected = TRUE]
      /\ requests' \in Seq({"message", "resync"})
      /\ UNCHANGED <<session, bus, turns, ghost>>
  <2>1. <<>> \in Seq({"message", "resync"}) /\ <<"resync">> \in Seq({"message", "resync"})
    OBVIOUS
  <2>2. requests' \in {<<>>, <<"resync">>}
    BY DEF Connect
  <2>3. requests' \in Seq({"message", "resync"})
    BY <2>1, <2>2
  <2> QED
    BY <1>1, <2>3 DEF Connect
<1>3. /\ e \in Messages /\ e.type = "snapshot"
      /\ \A x \in Standings : /\ Fits(x, e, ghost.drafts) /\ After(x, e) \in Standings
                              /\ AtEnd(After(x, e))
  BY <1>1, SnapshotIsTheEnd
<1>4. Opened \in Connections /\ Bounded(Opened) /\ Pending(Opened) = <<>>
  <2>1. <<>> \in Seq(Messages) /\ Len(<<>>) = 0
    OBVIOUS
  <2>2. Closed \in Connections /\ Closed.queue = <<>> /\ Closed.overflow = <<>>
    BY <2>1 DEF Closed, Connections
  <2>3. Opened \in Connections /\ Opened.queue = <<>> /\ Opened.overflow = <<>>
    BY <2>2 DEF Opened, Connections
  <2>4. <<>> \o <<>> = <<>>
    BY <2>1, ConcatEmptySeq
  <2> HIDE DEF Opened
  <2> QED
    BY <2>1, <2>3, <2>4, SizesAssumption DEF Bounded, Pending
<1>5. /\ conn' \in Connections /\ Bounded(conn')
      /\ conn'.open => Pending(conn') = Append(<<>>, e)
  BY <1>2, <1>3, <1>4, EnqueueEffect
<1>6. /\ view' \in Views /\ view'.phase = view.phase /\ view'.draft = view.draft
      /\ view'.generation = view.generation /\ view'.revision = view.revision
      /\ view'.needsResync = view.needsResync
  BY <1>2 DEF Shape, Views
<1>7. Shape' /\ \A y : AtEnd(y) => AtEnd(y)'
  BY <1>2, <1>5, <1>6, SessionFacts, OthersKeepShape
<1>8. PICK x : x \in Standings
  <2>1. 0 \in Nat /\ 0 \in Drafts /\ FALSE \in BOOLEAN /\ <<>> \in Seq(Entries)
    BY SessionFacts
  <2>2. [gen |-> 0, rev |-> 0, draft |-> 0, unread |-> FALSE, broken |-> FALSE, hist |-> <<>>]
           \in Standings
    BY <2>1 DEF Standings
  <2> QED
    BY <2>2
<1>9. JoinedOK'
  <2> SUFFICES ASSUME conn'.open
               PROVE  \E u, y : /\ Leads(Pending(conn'), u, y, ghost'.drafts)
                                /\ AtEnd(y)'
                                /\ Restarts(Pending(conn'))
    BY DEF JoinedOK
  <2>1. <<>> \in Seq(Messages) /\ Append(<<>>, e) # <<>> /\ Append(<<>>, e)[1] = e
    BY <1>3
  <2>2. Leads(<<>>, x, x, ghost.drafts)
    BY <1>8, LeadsNowhere
  <2>3. Leads(Append(<<>>, e), x, After(x, e), ghost.drafts)
    BY <1>3, <1>8, <2>1, <2>2, LeadsFurther
  <2>4. PICK y : y = After(x, e)
    OBVIOUS
  <2>5. AtEnd(y)'
    BY <1>3, <1>7, <1>8, <2>4
  <2>6. Restarts(Pending(conn'))
    BY <1>3, <1>5, <2>1 DEF Restarts
  <2>7. Leads(Pending(conn'), x, y, ghost'.drafts)
    BY <1>2, <1>5, <2>3, <2>4
  <2> QED
    BY <2>5, <2>6, <2>7
<1>10. ShownDraftIsReal'
  BY <1>2, <1>6 DEF ShownDraftIsReal
<1> QED
  BY <1>7, <1>9, <1>10

(* A snapshot that was asked for comes behind what is pending. *)
LEMMA TakeResyncStep ==
    ASSUME Shape, JoinedOK, ShownDraftIsReal, TakeResync
    PROVE  Shape' /\ JoinedOK' /\ ShownDraftIsReal'
<1>1. PICK e : e = Snapshot(bus, session)
  OBVIOUS
<1>2. /\ requests # <<>> /\ Head(requests) = "resync" /\ requests' = Tail(requests)
      /\ conn' = Enqueue(conn, e)
      /\ UNCHANGED <<session, bus, view, turns, ghost>>
  BY <1>1 DEF TakeResync
<1>3. /\ e \in Messages /\ e.type = "snapshot"
      /\ \A x \in Standings : /\ Fits(x, e, ghost.drafts) /\ After(x, e) \in Standings
                              /\ AtEnd(After(x, e))
  BY <1>1, SnapshotIsTheEnd
<1>4. /\ requests' \in Seq({"message", "resync"})
      /\ "message" \in ToSet(requests) => "message" \in ToSet(requests')
  BY <1>2, SessionFacts, HeadTailProperties, TailKeepsMessage
<1>5. SessionOK' /\ BusOK'
  BY <1>2 DEF Shape, SessionOK, BusOK
<1>6. \A y \in Standings : AtEnd(After(y, e))'
  BY <1>2, <1>3 DEF AtEnd
<1>7. Shape' /\ JoinedOK'
  BY <1>2, <1>3, <1>4, <1>5, <1>6, SessionFacts, MessageStep
<1> QED
  BY <1>2, <1>7 DEF ShownDraftIsReal

(* The message the browser shows before it is confirmed is one that is out. *)
LEMMA SendMessageStep ==
    ASSUME Shape, JoinedOK, ShownDraftIsReal, SendMessage
    PROVE  Shape' /\ JoinedOK' /\ ShownDraftIsReal'
<1> DEFINE list == Append(view.messages, Optimistic)
<1>1. /\ view.connected /\ view.phase = "ready" /\ Optimistic \notin ToSet(view.messages)
      /\ view' = [view EXCEPT !.messages = list] /\ requests' = Append(requests, "message")
      /\ UNCHANGED <<session, bus, conn, turns, ghost>>
  BY DEF SendMessage
<1>2. Optimistic \in Entries /\ view.messages \in Seq(Entries) /\ list \in Seq(Entries)
  BY DEF Optimistic, Entry, Entries, Shape, Views
<1> HIDE DEF list
<1>3. /\ view' \in Views /\ view'.messages = list /\ view'.phase = view.phase
      /\ view'.draft = view.draft /\ view'.generation = view.generation
      /\ view'.revision = view.revision /\ view'.needsResync = view.needsResync
  BY <1>1, <1>2 DEF Shape, Views
<1>4. requests' \in Seq({"message", "resync"}) /\ "message" \in ToSet(requests')
  <2>1. requests \in Seq({"message", "resync"})
    BY SessionFacts
  <2>2. /\ requests' \in Seq({"message", "resync"})
        /\ Len(requests) + 1 \in DOMAIN requests' /\ requests'[Len(requests) + 1] = "message"
    BY <1>1, <2>1, AppendProperties
  <2> QED
    BY <2>2 DEF ToSet
<1>5. Shape' /\ \A y : AtEnd(y) => AtEnd(y)'
  BY <1>1, <1>3, <1>4, SessionFacts, OthersKeepShape DEF Shape
<1>6. MessageOut'
  BY <1>4 DEF MessageOut
<1>7. ASSUME NEW x \in Standings, OnTrack(view, x)
      PROVE  OnTrack(view, x)'
  <2>1. CASE Knows(view)
    BY <1>3, <2>1 DEF OnTrack, Knows
  <2>2. CASE ~Knows(view)
    <3>1. /\ Follows(view, x) /\ Stands(view, x)
          /\ x.gen = 0 => \/ view.messages = x.hist
                          \/ view.messages = Append(x.hist, Optimistic)
      BY <1>1, <1>7, <2>2 DEF OnTrack, Behind
    <3>2. x.gen = 0
      BY <1>1, <3>1 DEF Stands
    <3>3. view.messages # Append(x.hist, Optimistic)
      <4> SUFFICES ASSUME view.messages = Append(x.hist, Optimistic)
                   PROVE  FALSE
        OBVIOUS
      <4>1. x.hist \in Seq(Entries)
        BY DEF Standings
      <4>2. Len(x.hist) + 1 \in DOMAIN view.messages /\ view.messages[Len(x.hist) + 1] = Optimistic
        BY <1>2, <4>1, AppendProperties
      <4> QED
        BY <1>1, <4>2 DEF ToSet
    <3>4. Follows(view', x) /\ Stands(view', x)
      BY <1>3, <3>1 DEF Follows, Stands, Behind
    <3>5. view'.messages = Append(x.hist, Optimistic)
      BY <1>3, <3>1, <3>2, <3>3 DEF list
    <3> QED
      BY <1>6, <3>4, <3>5 DEF OnTrack
  <2> QED
    BY <2>1, <2>2
<1>8. JoinedOK'
  <2> SUFFICES ASSUME conn.open
               PROVE  \E x, y : /\ Leads(Pending(conn), x, y, ghost.drafts) /\ AtEnd(y)'
                                /\ Restarts(Pending(conn)) \/ OnTrack(view, x)'
    BY <1>1 DEF JoinedOK
  <2>1. PICK x, y : /\ Leads(Pending(conn), x, y, ghost.drafts) /\ AtEnd(y)
                    /\ Restarts(Pending(conn)) \/ OnTrack(view, x)
    BY <1>1 DEF JoinedOK
  <2>2. x \in Standings
    BY <2>1, PendingOK, LeadsSomewhere DEF Shape
  <2> QED
    BY <1>5, <1>7, <2>1, <2>2
<1>9. ShownDraftIsReal'
  BY <1>1, <1>3 DEF ShownDraftIsReal
<1> QED
  BY <1>5, <1>8, <1>9

------------------------------------------------------------------------------
(* The invariant, and what it is for *)

(* What an emission works on. *)
Stage(b, c, g, record, n) ==
    [bus |-> b, conn |-> c, ghost |-> g, record |-> record, turn |-> n]

(* The bus keeps what it has had, whatever it is given. *)
LEMMA ApplyKeepsDrafts ==
    ASSUME NEW e, NEW record, NEW n, NEW b, NEW c, NEW g
    PROVE  \E b2, c2, g2 :
              /\ Apply(Stage(b, c, g, record, n), e) = Stage(b2, c2, g2, record, n)
              /\ g.drafts \subseteq g2.drafts
<1>1. CASE Revisioned(e)
  <2>1. PICK b2, c2, g2 :
           /\ Apply([bus |-> b, conn |-> c, ghost |-> g, record |-> record, turn |-> n], e)
                 = [bus |-> b2, conn |-> c2, ghost |-> g2, record |-> record, turn |-> n]
           /\ Sends(e, record, n, b, c, g, b2, c2, g2)
    BY <1>1, ApplySends
  <2>2. g.drafts \subseteq g2.drafts
    BY <2>1 DEF Sends
  <2> QED
    BY <2>1, <2>2 DEF Stage
<1>2. CASE ~Revisioned(e)
  <2> DEFINE c2 == Enqueue(c, e)
  <2>1. Apply([bus |-> b, conn |-> c, ghost |-> g, record |-> record, turn |-> n], e)
           = [bus |-> b, conn |-> c2, ghost |-> g, record |-> record, turn |-> n]
    BY <1>2 DEF Apply
  <2> HIDE DEF c2
  <2> QED
    BY <2>1 DEF Stage
<1> QED
  BY <1>1, <1>2

(* So does an emission of events. *)
LEMMA EmitKeepsDrafts ==
    ASSUME NEW events, NEW record, NEW n, Emit(events, record, n)
    PROVE  ghost.drafts \subseteq ghost'.drafts
<1> DEFINE start == Stage(bus, conn, ghost, record, n)
           first == IF events = <<>> THEN start ELSE Apply(start, events[1])
           end == IF Len(events) < 2 THEN first ELSE Apply(first, events[2])
<1>1. PICK b, c, g : first = Stage(b, c, g, record, n) /\ ghost.drafts \subseteq g.drafts
  BY ApplyKeepsDrafts
<1>2. PICK b2, c2, g2 : end = Stage(b2, c2, g2, record, n) /\ g.drafts \subseteq g2.drafts
  <2> HIDE DEF first
  <2> QED
    BY <1>1, ApplyKeepsDrafts
<1>3. ghost' = end.ghost
  BY DEF Emit, Stage
<1> HIDE DEF end
<1> QED
  BY <1>1, <1>2, <1>3 DEF Stage

(* The server never touches what the browser shows, and never forgets a draft.  *)
LEMMA ServerKeepsShown ==
    ASSUME Server, ShownDraftIsReal
    PROVE  ShownDraftIsReal'
<1>1. view' = view
  BY DEF Server, OtherMessage, TakeMessage, PreStreamAbort, StreamStart, Delta, ModelEnd,
         StreamEnd, StreamFails, KillStarts, KillEnds, Announce, Delete, Restart
<1>2. CASE ghost' = ghost
  BY <1>1, <1>2 DEF ShownDraftIsReal
<1>3. CASE Delete
  <2> DEFINE start == Stage(bus, conn, ghost, session.record, 0)
  <2>1. PICK b2, c2, g2 : /\ Apply(start, TerminalError) = Stage(b2, c2, g2, session.record, 0)
                          /\ ghost.drafts \subseteq g2.drafts
    BY ApplyKeepsDrafts
  <2>2. ghost' = Apply(start, TerminalError).ghost
    BY <1>3 DEF Delete, Stage
  <2>3. ghost.drafts \subseteq ghost'.drafts
    BY <2>1, <2>2 DEF Stage
  <2> QED
    BY <1>1, <2>3 DEF ShownDraftIsReal
<1>4. CASE \E events, record, n : Emit(events, record, n)
  BY <1>1, <1>4, EmitKeepsDrafts DEF ShownDraftIsReal
<1>5. ghost' = ghost \/ Delete \/ \E events, record, n : Emit(events, record, n)
  <2>1. CASE OtherMessage \/ KillStarts \/ Restart
    BY <2>1 DEF OtherMessage, KillStarts, Restart
  <2>2. CASE TakeMessage
    BY <2>2 DEF TakeMessage
  <2>3. CASE StreamStart
    BY <2>3 DEF StreamStart
  <2>4. CASE Delta
    BY <2>4 DEF Delta
  <2>5. CASE ModelEnd
    BY <2>5 DEF ModelEnd
  <2>6. CASE PreStreamAbort
    BY <2>6 DEF PreStreamAbort, EndTurn
  <2>7. CASE StreamEnd
    BY <2>7 DEF StreamEnd, EndTurn
  <2>8. CASE StreamFails
    BY <2>8 DEF StreamFails, EndTurn
  <2>9. CASE KillEnds
    BY <2>9 DEF KillEnds, EndTurn
  <2>10. CASE Announce
    BY <2>10 DEF Announce
  <2> QED
    BY <2>1, <2>2, <2>3, <2>4, <2>5, <2>6, <2>7, <2>8, <2>9, <2>10 DEF Server
<1> QED
  BY <1>2, <1>3, <1>4, <1>5

Inv == Shape /\ JoinedOK /\ ShownDraftIsReal

(* It holds before anybody is connected ... *)
LEMMA InvInit == Init => Inv
<1> SUFFICES ASSUME Init
             PROVE  Inv
  OBVIOUS
<1>1. <<>> \in Seq(Entries) /\ <<>> \in Seq(Messages) /\ Len(<<>>) = 0
      /\ <<>> \in Seq({"message", "resync"}) /\ 0 \in Drafts
  BY SizesAssumption DEF Drafts
<1>2. NoTurn \in Turns /\ NoTurn.at = "idle"
  BY <1>1, SizesAssumption DEF NoTurn, Turns
<1>3. /\ session \in Sessions /\ session.status = "running" /\ session.turn = NoTurn
  BY <1>1, <1>2 DEF Init, Sessions
<1>4. SessionOK
  BY <1>2, <1>3 DEF SessionOK
<1>5. /\ bus \in Buses /\ bus.active = NoStream /\ bus.revision = 0
      /\ NoStream.generation = 0 /\ NoStream.draft = 0
  BY <1>1 DEF Init, Buses, NoStream
<1>6. BusOK
  BY <1>2, <1>3, <1>5 DEF BusOK
<1>7. GhostOK
  BY <1>5 DEF Init, GhostOK
<1>8. conn \in Connections /\ Bounded(conn) /\ ~conn.open
  BY <1>1, SizesAssumption DEF Init, Closed, Connections, Bounded
<1>9. view \in Views /\ view.phase = "loading"
  BY <1>1 DEF Init, Fresh, Views, Phases
<1>10. Shape
  BY <1>1, <1>4, <1>6, <1>7, <1>8, <1>9 DEF Init, Shape
<1> QED
  BY <1>8, <1>9, <1>10 DEF Inv, JoinedOK, ShownDraftIsReal

(* ... and after every step. *)
LEMMA InvStep == Inv /\ [Next]_vars => Inv'
<1> SUFFICES ASSUME Shape, JoinedOK, ShownDraftIsReal, [Next]_vars
             PROVE  Inv'
  BY DEF Inv
<1>1. CASE Server
  <2>1. Shape' /\ JoinedOK'
    BY <1>1, OtherMessageStep, TakeMessageStep, PreStreamAbortStep, StreamStartStep, DeltaStep,
       ModelEndStep, StreamEndStep, StreamFailsStep, KillStartsStep, KillEndsStep,
       AnnounceStep, DeleteStep, RestartStep DEF Server
  <2> QED
    BY <1>1, <2>1, ServerKeepsShown DEF Inv
<1>2. CASE SocketLost
  BY <1>2, DisconnectedStep DEF SocketLost, Inv
<1>3. CASE SocketClosed
  BY <1>3, DisconnectedStep DEF SocketClosed, Inv
<1>4. CASE Deliver \/ SendFails \/ Connect \/ TakeResync \/ SendMessage
  BY <1>4, DeliverStep, SendFailsStep, ConnectStep, TakeResyncStep, SendMessageStep DEF Inv
<1>5. CASE UNCHANGED vars
  <2>1. Shape' /\ ShownDraftIsReal'
    BY <1>5 DEF vars, Shape, SessionOK, BusOK, GhostOK, ShownDraftIsReal
  <2>2. MessageOut => MessageOut'
    BY <1>5 DEF vars, MessageOut
  <2>3. \A y : AtEnd(y) => AtEnd(y)'
    BY <1>5 DEF vars, AtEnd
  <2> QED
    BY <1>5, <2>1, <2>2, <2>3, QuietStep DEF vars, Inv
<1> QED
  BY <1>1, <1>2, <1>3, <1>4, <1>5 DEF Next, Browser

(* The invariant holds at all times. *)
LEMMA Invariance == Spec => []Inv
BY InvInit, InvStep, PTL DEF Spec

(* What is shown of a reply that is being streamed has been on the bus, at the    *)
(* revision the browser stands at: the snapshot it was connected with and the     *)
(* events after it join (event_bus.py's subscribe and the reducer's gap check).   *)
THEOREM ShownDraftsAreReal == Spec => []ShownDraftIsReal
<1>1. Inv => ShownDraftIsReal
  BY DEF Inv
<1> QED
  BY <1>1, Invariance, PTL

(* Where a browser stands that has received all there is and knows of no gap.    *)
LEMMA NothingPending ==
    ASSUME Inv, conn.open, view.connected, Pending(conn) = <<>>,
           view.phase \in {"ready", "streaming"}, ~view.needsResync
    PROVE  \E x \in Standings :
              /\ AtEnd(x) /\ session.status # "gone" /\ AtBus(x, bus, ghost)
              /\ Follows(view, x) /\ OnTrack(view, x)
<1>1. PICK x, y : /\ Leads(<<>>, x, y, ghost.drafts) /\ AtEnd(y)
                  /\ Restarts(<<>>) \/ OnTrack(view, x)
  BY DEF Inv, JoinedOK
<1>2. x = y /\ x \in Standings
  BY <1>1, LeadsNowhere
<1>3. OnTrack(view, x)
  BY <1>1 DEF Restarts
<1>4. Follows(view, x) /\ ~x.broken
  BY <1>3 DEF OnTrack, Knows, Follows
<1>5. session.status # "gone"
  BY <1>1, <1>2, <1>4 DEF AtEnd
<1> QED
  BY <1>1, <1>2, <1>3, <1>4, <1>5 DEF AtEnd

(* However small the queues and whatever they dropped: a browser that has read all *)
(* there is, the last of it readable, and knows of no gap stands where the server   *)
(* stands.                                                                        *)
THEOREM NothingIsLostSilently == Spec => []NothingLostSilently
<1>1. Inv => TypeOK
  BY DEF Inv, Shape, SessionOK, Sessions, Turns, BusOK, Buses, Bounded, Views, Phases, Drafts,
         TypeOK
<1>2. ASSUME Inv, ~ghost.unread, conn.open, view.connected, Pending(conn) = <<>>,
             view.phase \in {"ready", "streaming"}, ~view.needsResync
      PROVE  view.revision = bus.revision /\ view.draft = bus.active.draft
  BY <1>2, NothingPending DEF Follows, Stands, Behind, AtBus
<1>3. Inv => NothingLostSilently
  BY <1>1, <1>2 DEF NothingLostSilently
<1> QED
  BY <1>3, Invariance, PTL

(* A list without its last entry. *)
LEMMA FrontOfAppended ==
    ASSUME NEW r \in Seq(Entries), NEW e \in Entries
    PROVE  Front(Append(r, e)) = r /\ Last(Append(r, e)) = e
<1> DEFINE q == Append(r, e)
<1>1. /\ q \in Seq(Entries) /\ Len(q) = Len(r) + 1 /\ Len(r) \in Nat
      /\ \A i \in 1 .. Len(r) : q[i] = r[i]
      /\ q[Len(r) + 1] = e
  BY AppendProperties
<1> HIDE DEF q
<1>2. SubSeq(q, 1, Len(r)) = r
  <2> DEFINE f == SubSeq(q, 1, Len(r))
  <2>1. f \in Seq(Entries) /\ Len(f) = Len(r) /\ \A i \in 1 .. Len(r) : f[i] = r[i]
    BY <1>1
  <2> HIDE DEF f
  <2> QED
    BY <2>1, SeqEqual DEF f
<1>3. Front(q) = r /\ Last(q) = e
  BY <1>1, <1>2 DEF Front, Last
<1> QED
  BY <1>3 DEF q

(* Between turns a browser that has read all there is, and whose message is not    *)
(* on its way, shows the history as the session has it, or that and a message of   *)
(* the user that was taken back.                                                  *)
THEOREM TheHistoryIsShown == Spec => []HistoryIsShown
<1>1. ASSUME Inv, conn.open, view.connected, Pending(conn) = <<>>, view.phase = "ready",
             ~view.needsResync, requests = <<>>, session.turn.at = "idle"
      PROVE  \/ view.messages = session.record
             \/ Front(view.messages) = session.record /\ Last(view.messages)[1] = "user"
  <2>1. PICK x \in Standings : /\ AtEnd(x) /\ session.status # "gone"
                               /\ Follows(view, x) /\ OnTrack(view, x)
    BY <1>1, NothingPending
  <2>2. x.gen = 0 /\ ~x.broken
    BY <1>1, <2>1 DEF Follows, Stands, Behind
  <2>3. ~MessageOut
    <3>1. ToSet(<<>>) = {} /\ DOMAIN <<>> = {}
      BY DEF ToSet
    <3> QED
      BY <1>1, <3>1 DEF MessageOut
  <2>4. view.messages = x.hist
    BY <1>1, <2>1, <2>2, <2>3 DEF OnTrack, Knows, Behind
  <2>5. UpTo(x.hist, session.record)
    BY <1>1, <2>1, <2>2 DEF AtEnd
  <2>6. ASSUME NEW n \in Nat, view.messages = Append(session.record, Entry("user", n))
        PROVE  Front(view.messages) = session.record /\ Last(view.messages)[1] = "user"
    <3>1. session.record \in Seq(Entries) /\ Entry("user", n) \in Entries
          /\ Entry("user", n)[1] = "user"
      BY <1>1, SessionFacts DEF Inv, Entry, Entries
    <3> QED
      BY <2>6, <3>1, FrontOfAppended
  <2> QED
    BY <2>4, <2>5, <2>6 DEF UpTo
<1>2. Inv => HistoryIsShown
  BY <1>1 DEF HistoryIsShown
<1> QED
  BY <1>2, Invariance, PTL
==============================================================================
