--------------------------- MODULE TaskFlowProofs ---------------------------
(* Proofs about TaskFlow, for any drawings of finitely many places and any bounds.

   Shape says what file, copy, thread and place in the plan are, that a run works
   on what is in the file, and that every loop of the plan has a cursor of its
   own, which is shown by induction over the walk that makes the plan.  That a
   completed node is not done again follows from Shape alone, action by action.

   CountInv says of each loop that its nodes remember as many passes as its
   cursor has passed, numbered in order; that the loop is finished once the run
   is behind it; and that an iteration is begun while the run is in it.  A node
   in the bodies of two loops would remember the passes of both, so that this
   needs the loops to have bodies of their own (BodiesApart). *)
EXTENDS TaskFlow, SequenceTheorems, FiniteSetTheorems, WellFoundedInduction, TLAPS

Statuses == {"pending", "running", "waiting_approval", "retry_waiting", "completed", "failed", "skipped"}
Passes == [i : Nat, status : Statuses, attempt : Nat]
NodeStates ==
    [status : Statuses, attempt : Nat, auto : Nat,
     trigger : {"initial", "auto_retry", "manual_retry", "recovery_reissue", "validator_retry"},
     deadline : BOOLEAN, history : SUBSET Nat, sentBack : Nat, refused : Nat,
     made : Nat, input : Nat, iterations : Seq(Passes)]
Cursors ==
    [phase : {"none", "ready", "running", "completed", "failed", "retry_waiting"},
     next : Nat \ {0}, active : Nat, total : Nat]
Gates(d) == OfType(d, "condition") \cup OfType(d, "loop")

\* A task of the definition d.
IsTask(d, t) ==
    /\ t \in [status : {"pending", "running", "retry_waiting", "resume_pending", "completed", "failed"},
              nodes : [d.nodes -> NodeStates], chosen : {t.chosen}, loops : [Gates(d) -> Cursors]]

Spots == {"none", "plan", "step", "left", "while", "loop", "body", "bodystep", "exit"}
IsThread(t) == t \in [ids : {t.ids}, i : {t.i}, at : {t.at}]
Returning(t) == t.at \in {"sentback", "rework"}
IsRun(r) ==
    /\ r \in [at : Spots, n : Nat, threads : {r.threads}, place : {r.place}, been : {r.been}]
    /\ r.threads = [k \in DOMAIN r.threads |-> r.threads[k]]
    /\ \A k \in DOMAIN r.threads : IsThread(r.threads[k])

\* Where the run is in the plan goes with what is there.
Fits(r) ==
    /\ r.at # "none" => r.n \in 1 .. Len(steps) + 1
    /\ r.at \notin {"none", "plan"} => r.n \in 1 .. Len(steps)
    /\ r.at = "step" => steps[r.n].type \notin {"loop", "while"}
    /\ r.at = "while" => steps[r.n].type = "while"
    /\ r.at \in {"loop", "body", "bodystep"} => steps[r.n].type = "loop"
    /\ r.at \in {"exit", "left"} => steps[r.n].type \in {"loop", "while"}
    /\ r.at = "none" => DOMAIN r.threads = {}
    /\ \A k \in DOMAIN r.threads : Returning(r.threads[k]) => Judges(Here(r.threads[k]))

\* Every loop of the plan has a cursor, and no other has the same.
PlanOK ==
    /\ Len(steps) \in Nat /\ DOMAIN steps = 1 .. Len(steps)
    /\ \A i \in LoopSteps : steps[i].id \in Gates(def)
    /\ \A i, j \in LoopSteps : steps[i].id = steps[j].id => i = j

\* The types, and how they go with each other.
Shape ==
    /\ IsTask(def, disk) /\ IsTask(def, task)
    /\ IsRun(run) /\ Fits(run)
    /\ run.at # "none" => task = disk /\ disk.status = "running"
    /\ PlanOK

\* What an action that is no loop's leaves alone.
Quiet ==
    /\ disk'.loops = disk.loops
    /\ \A n \in def.nodes : disk'.nodes[n].iterations = disk.nodes[n].iterations
-----------------------------------------------------------------------------
(* The pure functions on a node's state *)
\* They change neither the type nor the iterations.
Alike(s, t) == s \in NodeStates /\ s.iterations = t.iterations

LEMMA BeginAlike ==
    ASSUME NEW s \in NodeStates
    PROVE  Alike(Policy!BeginAttempt(s), s) /\ Policy!BeginAttempt(s).status = "running"
<1>1. s.attempt + 1 \in Nat
  BY DEF NodeStates
<1>2. PICK m \in Nat : m = s.attempt + 1
  BY <1>1
<1>3. Policy!BeginAttempt(s) = [s EXCEPT !.status = "running", !.attempt = m, !.deadline = FALSE]
  BY <1>2 DEF Policy!BeginAttempt
<1> QED
  BY <1>3 DEF Alike, NodeStates, Statuses

LEMMA RecordAlike ==
    ASSUME NEW s \in NodeStates, NEW x \in Statuses
    PROVE  Alike(Policy!Record(s, x), s) /\ Policy!Record(s, x).status = x
BY DEF Alike, NodeStates, Policy!Record, Statuses

LEMMA PolicyAlike ==
    ASSUME NEW n, NEW s \in NodeStates, s.status = "failed"
    PROVE  /\ Alike(Policy!ApplyPolicy(n, s), s)
           /\ Policy!ApplyPolicy(n, s).status \in {"retry_waiting", "skipped", "failed"}
<1>1. Alike(Policy!PrepareAutoRetry(s), s) /\ Policy!PrepareAutoRetry(s).status = "retry_waiting"
  <2>1. PICK m \in Nat : m = s.auto + 1
    BY DEF NodeStates
  <2>2. Policy!PrepareAutoRetry(s) = [s EXCEPT !.status = "retry_waiting", !.auto = m,
                                              !.trigger = "auto_retry", !.deadline = TRUE]
    BY <2>1 DEF Policy!PrepareAutoRetry
  <2> QED
    BY <2>2 DEF Alike, NodeStates, Statuses
<1>2. Alike(Policy!FailureSkip(s), s) /\ Policy!FailureSkip(s).status = "skipped"
  BY DEF Alike, NodeStates, Statuses, Policy!FailureSkip
<1>3. Alike(s, s)
  BY DEF Alike
<1> QED
  BY <1>1, <1>2, <1>3 DEF Policy!ApplyPolicy

LEMMA DecidedAlike ==
    ASSUME NEW n, NEW s \in NodeStates
    PROVE  Alike(Decided(n, s), s) /\ Decided(n, s).status \in {"retry_waiting", "skipped", "failed"}
<1>1. Alike(Policy!Record(s, "failed"), s) /\ Policy!Record(s, "failed").status = "failed"
  BY RecordAlike DEF Statuses
<1> QED
  BY <1>1, PolicyAlike DEF Decided, Alike

LEMMA CompletedAlike ==
    ASSUME NEW s \in NodeStates
    PROVE  Alike(Completed(s), s) /\ Completed(s).status = "completed"
BY DEF Alike, NodeStates, Statuses, Completed, Policy!Record

LEMMA RecoveredAlike ==
    ASSUME NEW n, NEW s \in NodeStates
    PROVE  /\ Alike(Policy!RecoverNode(n, s), s)
           /\ s.status = "completed" => Policy!RecoverNode(n, s).status = "completed"
<1> DEFINE cut == Policy!Interrupted(s)
<1>1. Alike(cut, s) /\ cut.status = "failed"
  <2>1. PICK c : c = [s EXCEPT !.attempt = IF @ < 1 THEN 1 ELSE @]
    OBVIOUS
  <2>2. Alike(c, s)
    BY <2>1 DEF Alike, NodeStates
  <2>3. cut = Policy!Record(c, "failed")
    BY <2>1 DEF Policy!Interrupted
  <2> QED
    BY <2>2, <2>3, RecordAlike DEF Alike, Statuses
<1> HIDE DEF cut
<1>2. Alike(Policy!ApplyPolicy(n, cut), s)
  BY <1>1, PolicyAlike DEF Alike
<1>3. Alike(Policy!Reissue(cut), s)
  BY <1>1 DEF Alike, NodeStates, Statuses, Policy!Reissue
<1>4. Alike([s EXCEPT !.status = "failed"], s) /\ Alike(s, s)
  BY DEF Alike, NodeStates, Statuses
<1>5. CASE s.status = "running"
  BY <1>2, <1>5 DEF Policy!RecoverNode, cut
<1>6. CASE s.status = "waiting_approval"
  BY <1>3, <1>6 DEF Policy!RecoverNode, cut
<1>7. CASE s.status \notin {"running", "waiting_approval"}
  BY <1>4, <1>7 DEF Policy!RecoverNode
<1> QED
  BY <1>5, <1>6, <1>7

-----------------------------------------------------------------------------
(* One node of a task, or two, get a new state. *)
Put(t, n, s) == [t EXCEPT !.nodes[n] = s]
LEMMA PutNode ==
    ASSUME NEW d, NEW t, IsTask(d, t), NEW n, NEW s, n \in d.nodes => s \in NodeStates
    PROVE  /\ IsTask(d, Put(t, n, s)) /\ Put(t, n, s).status = t.status /\ Put(t, n, s).loops = t.loops
           /\ \A m \in d.nodes : Put(t, n, s).nodes[m] = IF m = n THEN s ELSE t.nodes[m]
<1>1. PICK f : f = [t.nodes EXCEPT ![n] = s]
  OBVIOUS
<1>2. Put(t, n, s) = [t EXCEPT !.nodes = f]
  BY <1>1 DEF Put
<1>3. f \in [d.nodes -> NodeStates] /\ \A m \in d.nodes : f[m] = IF m = n THEN s ELSE t.nodes[m]
  BY <1>1 DEF IsTask
<1> QED
  BY <1>2, <1>3 DEF IsTask

PutBoth(t, n, s, m, r) == [t EXCEPT !.nodes[n] = s, !.nodes[m] = r]
LEMMA PutTwo ==
    ASSUME NEW d, NEW t, IsTask(d, t), NEW n, NEW s, n \in d.nodes => s \in NodeStates,
           NEW m, NEW r, m \in d.nodes => r \in NodeStates
    PROVE  LET u == PutBoth(t, n, s, m, r)
           IN  /\ IsTask(d, u) /\ u.status = t.status /\ u.loops = t.loops
               /\ \A o \in d.nodes : u.nodes[o] = IF o = m THEN r ELSE IF o = n THEN s ELSE t.nodes[o]
<1>1. PICK v : v = Put(t, n, s)
  OBVIOUS
<1>2. PutBoth(t, n, s, m, r) = Put(v, m, r)
  BY <1>1 DEF IsTask, Put, PutBoth
<1>3. /\ IsTask(d, v) /\ v.status = t.status /\ v.loops = t.loops
      /\ \A o \in d.nodes : v.nodes[o] = IF o = n THEN s ELSE t.nodes[o]
  BY <1>1, PutNode
<1>4. /\ IsTask(d, Put(v, m, r)) /\ Put(v, m, r).status = v.status /\ Put(v, m, r).loops = v.loops
      /\ \A o \in d.nodes : Put(v, m, r).nodes[o] = IF o = m THEN r ELSE v.nodes[o]
  BY <1>3, PutNode
<1> QED
  BY <1>2, <1>3, <1>4

LEMMA PutAll ==
    ASSUME NEW d, NEW t, IsTask(d, t), NEW f \in [d.nodes -> NodeStates],
           NEW u, u = [t EXCEPT !.nodes = f]
    PROVE  IsTask(d, u) /\ u.status = t.status /\ u.loops = t.loops /\ u.nodes = f
BY DEF IsTask

\* What a step of a sequence does to the task.
Keeps ==
    /\ IsTask(def, disk') /\ task' = disk' /\ disk'.status = disk.status
    /\ def' = def /\ steps' = steps /\ Quiet

\* The state n had becomes that one, and nothing else changes.
LEMMA OneKept ==
    ASSUME Shape, task = disk, NEW n, NEW s, n \in def.nodes => Alike(s, task.nodes[n]),
           SetNode(n, s), Save, def' = def, steps' = steps
    PROVE  Keeps /\ \A m \in def.nodes : disk'.nodes[m] = IF m = n THEN s ELSE disk.nodes[m]
<1>1. task' = Put(task, n, s) /\ disk' = task' /\ IsTask(def, task)
  BY DEF SetNode, Save, Shape, Put
<1>2. /\ IsTask(def, task') /\ task'.status = task.status /\ task'.loops = task.loops
      /\ \A m \in def.nodes : task'.nodes[m] = IF m = n THEN s ELSE task.nodes[m]
  <2>1. n \in def.nodes => s \in NodeStates
    BY DEF Alike
  <2> QED
    BY <1>1, <2>1, PutNode
<1>3. \A m \in def.nodes : task'.nodes[m].iterations = task.nodes[m].iterations
  BY <1>2 DEF Alike
<1> QED
  BY <1>1, <1>2, <1>3 DEF Keeps, Quiet

\* Its thread becomes another.
LEMMA ThreadKept ==
    ASSUME Shape, NEW k \in DOMAIN run.threads, NEW t, Becomes(k, t), IsThread(t),
           Returning(t) => Judges(Here(t)), def' = def, steps' = steps
    PROVE  IsRun(run') /\ run'.at = run.at /\ run'.n = run.n /\ Fits(run')
<1>1. run' = [run EXCEPT !.threads[k] = t]
  BY DEF Becomes
<1>2. PICK f : f = [run.threads EXCEPT ![k] = t]
  OBVIOUS
<1>3. /\ DOMAIN f = DOMAIN run.threads /\ f = [o \in DOMAIN f |-> f[o]]
      /\ \A o \in DOMAIN f : f[o] = IF o = k THEN t ELSE run.threads[o]
  BY <1>2 DEF Shape, IsRun
<1>4. run' = [run EXCEPT !.threads = f]
  BY <1>1, <1>2
<1>5. /\ run'.at = run.at /\ run'.n = run.n /\ run'.threads = f
      /\ run'.place = run.place /\ run'.been = run.been
      /\ run' \in [at : Spots, n : Nat, threads : {f}, place : {run.place}, been : {run.been}]
  BY <1>4 DEF Shape, IsRun
<1>6. \A o \in DOMAIN f : IsThread(f[o]) /\ (Returning(f[o]) => Judges(Here(f[o])))
  BY <1>3 DEF Shape, IsRun, Fits
<1>7. IsRun(run')
  BY <1>3, <1>5, <1>6 DEF IsRun
<1>8. Fits(run')
  BY <1>3, <1>5, <1>6 DEF Shape, Fits
<1> QED
  BY <1>5, <1>7, <1>8

\* Threads that are not returning anything.
LEMMA PlainThread ==
    ASSUME NEW t, IsThread(t)
    PROVE  /\ IsThread(Moved(t)) /\ ~Returning(Moved(t))
           /\ \A at : IsThread([t EXCEPT !.at = at]) /\ (at \notin {"sentback", "rework"} => ~Returning([t EXCEPT !.at = at]))
           /\ \A at : Here([t EXCEPT !.at = at]) = Here(t) /\ [t EXCEPT !.at = at].at = at
<1>1. t = [ids |-> t.ids, i |-> t.i, at |-> t.at]
  BY DEF IsThread
<1>2. Moved(t) = [ids |-> t.ids, i |-> t.i + 1, at |-> "head"]
  <2>1. Moved(t) = [t EXCEPT !.i = t.i + 1, !.at = "head"]
    BY DEF Moved
  <2>2. PICK j : j = t.i + 1
    OBVIOUS
  <2>3. [t EXCEPT !.i = j, !.at = "head"] = [ids |-> t.ids, i |-> j, at |-> "head"]
    <3>1. PICK v : v = [ids |-> t.ids, i |-> j, at |-> t.at]
      OBVIOUS
    <3>2. [t EXCEPT !.i = j] = v
      BY <1>1, <3>1
    <3>3. [v EXCEPT !.at = "head"] = [ids |-> t.ids, i |-> j, at |-> "head"]
      BY <3>1
    <3> QED
      BY <3>2, <3>3
  <2> QED
    BY <2>1, <2>2, <2>3
<1>3. \A at : [t EXCEPT !.at = at] = [ids |-> t.ids, i |-> t.i, at |-> at]
  BY <1>1
<1> QED
  BY <1>2, <1>3 DEF IsThread, Returning, Here

LEMMA EndedThread ==
    ASSUME NEW result, result \notin {"sentback", "rework"}
    PROVE  IsThread(Ends(result)) /\ ~Returning(Ends(result))
BY DEF IsThread, Returning, Ends

-----------------------------------------------------------------------------
(* The steps of a sequence *)
Proceeds ==
    /\ Keeps /\ IsRun(run') /\ Fits(run')
    /\ run'.at = run.at /\ run'.n = run.n
    /\ IsNotRedone

\* A node in the drawing has a state.
LEMMA NodeTyped ==
    ASSUME Shape, NEW k \in DOMAIN run.threads, Here(run.threads[k]) \in def.nodes
    PROVE  Node(k) \in NodeStates /\ Node(k) = task.nodes[Here(run.threads[k])]
BY DEF Shape, IsTask, Node

\* While a sequence runs, what it has done is in the file.
LEMMA ThreadsRun ==
    ASSUME Shape, NEW k \in DOMAIN run.threads
    PROVE  /\ task = disk /\ IsTask(def, task) /\ IsThread(run.threads[k])
           /\ run.at # "none" /\ IsRun(run) /\ Fits(run)
           /\ Returning(run.threads[k]) => Judges(Here(run.threads[k]))
BY DEF Shape, Fits, IsRun

LEMMA OneProceeds ==
    ASSUME Shape, NEW k \in DOMAIN run.threads,
           NEW n, NEW s, n \in def.nodes => Alike(s, task.nodes[n]) /\ s.status # "pending",
           SetNode(n, s), Save, def' = def, steps' = steps,
           NEW t, Becomes(k, t), IsThread(t), Returning(t) => Judges(Here(t))
    PROVE  Proceeds
<1>1. Keeps /\ \A m \in def.nodes : disk'.nodes[m] = IF m = n THEN s ELSE disk.nodes[m]
  BY ThreadsRun, OneKept
<1>2. IsRun(run') /\ run'.at = run.at /\ run'.n = run.n /\ Fits(run')
  BY ThreadKept
<1>3. IsNotRedone
  BY <1>1 DEF IsNotRedone
<1> QED
  BY <1>1, <1>2, <1>3 DEF Proceeds

LEMMA NoneProceeds ==
    ASSUME Shape, NEW k \in DOMAIN run.threads, UNCHANGED <<def, steps, disk, task>>,
           NEW t, Becomes(k, t), IsThread(t), Returning(t) => Judges(Here(t))
    PROVE  Proceeds
<1>1. Keeps
  BY ThreadsRun DEF Keeps, Quiet
<1>2. IsRun(run') /\ run'.at = run.at /\ run'.n = run.n /\ Fits(run')
  BY ThreadKept
<1>3. IsNotRedone
  BY DEF IsNotRedone
<1> QED
  BY <1>1, <1>2, <1>3 DEF Proceeds

LEMMA EndsProceeds ==
    ASSUME Shape, NEW k \in DOMAIN run.threads, SequenceEnds(k)
    PROVE  Proceeds
BY EndedThread, NoneProceeds DEF SequenceEnds

LEMMA OverProceeds ==
    ASSUME Shape, NEW k \in DOMAIN run.threads, StepOver(k)
    PROVE  Proceeds
<1> DEFINE t == run.threads[k]
           n == Here(t)
<1>1. IsThread(t) /\ task = disk /\ IsTask(def, task) /\ def' = def /\ steps' = steps
  BY ThreadsRun DEF StepOver
<1>2. IsThread(Moved(t)) /\ ~Returning(Moved(t))
  BY <1>1, PlainThread
<1>3. CASE n \in Disabled
  <2>1. PICK s : s = [Node(k) EXCEPT !.status = "skipped"]
    OBVIOUS
  <2>2. SetNode(n, s) /\ Save /\ Becomes(k, Moved(t))
    BY <1>3, <2>1 DEF StepOver
  <2>3. n \in def.nodes => Alike(s, task.nodes[n]) /\ s.status # "pending"
    <3> SUFFICES ASSUME n \in def.nodes PROVE Alike(s, task.nodes[n]) /\ s.status # "pending"
      OBVIOUS
    <3>1. PICK old \in NodeStates : old = Node(k) /\ old = task.nodes[n]
      BY NodeTyped
    <3>2. s = [old EXCEPT !.status = "skipped"]
      BY <2>1, <3>1
    <3>3. Alike(s, old) /\ s.status # "pending"
      BY <3>2 DEF Alike, NodeStates, Statuses
    <3> QED
      BY <3>1, <3>3
  <2> QED
    BY <1>1, <1>2, <2>2, <2>3, OneProceeds
<1>4. CASE n \notin Disabled
  <2>1. /\ UNCHANGED <<disk, task>>
        /\ \/ Becomes(k, Moved(t)) \/ Becomes(k, Ends("failed")) \/ Becomes(k, Ends("retry_waiting"))
    BY <1>4 DEF StepOver
  <2> QED
    BY <1>1, <1>2, <2>1, EndedThread, NoneProceeds
<1> QED
  BY <1>3, <1>4

LEMMA BeginProceeds ==
    ASSUME Shape, NEW k \in DOMAIN run.threads, Begin(k)
    PROVE  Proceeds
<1> DEFINE t == run.threads[k]
           n == Here(t)
<1>1. IsThread(t) /\ def' = def /\ steps' = steps /\ IsTask(def, task)
  BY ThreadsRun DEF Begin
<1>2. PICK s : s = Policy!BeginAttempt(Frozen(n, Node(k)))
  OBVIOUS
<1>3. n \in def.nodes => Alike(s, task.nodes[n]) /\ s.status # "pending"
  <2> SUFFICES ASSUME n \in def.nodes PROVE Alike(s, task.nodes[n]) /\ s.status # "pending"
    OBVIOUS
  <2>1. PICK old \in NodeStates : old = Node(k) /\ old = task.nodes[n]
    BY NodeTyped
  <2>2. PICK frozen : frozen = Frozen(n, old)
    OBVIOUS
  <2>3. Alike(frozen, old)
    <3>1. CASE Judges(n)
      <4>1. task.nodes[Rework[n]].made \in Nat
        BY <1>1, <3>1 DEF Judges, IsTask, NodeStates
      <4>2. PICK v \in Nat : v = task.nodes[Rework[n]].made
        BY <4>1
      <4>3. frozen = [old EXCEPT !.input = v] \/ frozen = old
        BY <2>2, <4>2 DEF Frozen
      <4> QED
        BY <4>3 DEF Alike, NodeStates
    <3>2. CASE ~Judges(n)
      BY <2>2, <3>2 DEF Frozen, Alike
    <3> QED
      BY <3>1, <3>2
  <2>4. Alike(s, frozen) /\ s.status = "running"
    BY <1>2, <2>1, <2>2, <2>3, BeginAlike DEF Alike
  <2> QED
    BY <2>1, <2>3, <2>4 DEF Alike
<1>4. PICK u : u = [t EXCEPT !.at = "executing"]
  OBVIOUS
<1>5. IsThread(u) /\ ~Returning(u)
  BY <1>1, <1>4, PlainThread
<1>6. SetNode(n, s) /\ Save /\ Becomes(k, u)
  BY <1>2, <1>4 DEF Begin
<1> QED
  BY <1>1, <1>3, <1>5, <1>6, OneProceeds

LEMMA WaitsProceeds ==
    ASSUME Shape, NEW k \in DOMAIN run.threads, Waits(k)
    PROVE  Proceeds
<1> DEFINE n == Here(run.threads[k])
<1>1. /\ def' = def /\ steps' = steps /\ run' = run /\ task = disk
      /\ IsRun(run) /\ Fits(run)
  BY ThreadsRun DEF Waits
<1>2. PICK s : s = [Node(k) EXCEPT !.status = "waiting_approval"]
  OBVIOUS
<1>3. n \in def.nodes => Alike(s, task.nodes[n]) /\ s.status # "pending"
  <2> SUFFICES ASSUME n \in def.nodes PROVE Alike(s, task.nodes[n]) /\ s.status # "pending"
    OBVIOUS
  <2>1. PICK old \in NodeStates : old = Node(k) /\ old = task.nodes[n]
    BY NodeTyped
  <2>2. s = [old EXCEPT !.status = "waiting_approval"]
    BY <1>2, <2>1
  <2>3. Alike(s, old) /\ s.status # "pending"
    BY <2>2 DEF Alike, NodeStates, Statuses
  <2> QED
    BY <2>1, <2>3
<1>4. SetNode(n, s) /\ Save
  BY <1>2 DEF Waits
<1>5. Keeps /\ \A m \in def.nodes : disk'.nodes[m] = IF m = n THEN s ELSE disk.nodes[m]
  BY <1>1, <1>3, <1>4, OneKept
<1>6. IsNotRedone
  BY <1>3, <1>5 DEF IsNotRedone
<1> QED
  BY <1>1, <1>5, <1>6 DEF Proceeds

LEMMA SucceedsProceeds ==
    ASSUME Shape, NEW k \in DOMAIN run.threads, Succeeds(k)
    PROVE  Proceeds
<1> DEFINE t == run.threads[k]
           n == Here(t)
<1>1. IsThread(t) /\ def' = def /\ steps' = steps
  BY ThreadsRun DEF Succeeds
<1>2. PICK s : s = Completed(Node(k))
  OBVIOUS
<1>3. n \in def.nodes => Alike(s, task.nodes[n]) /\ s.status # "pending"
  BY <1>2, NodeTyped, CompletedAlike
<1>4. SetNode(n, s) /\ Save /\ Becomes(k, Moved(t))
  BY <1>2 DEF Succeeds
<1>5. IsThread(Moved(t)) /\ ~Returning(Moved(t))
  BY <1>1, PlainThread
<1> QED
  BY <1>1, <1>3, <1>4, <1>5, OneProceeds

\* What comes of a node that failed is no thread that returns something.
LEMMA AfterPlain ==
    ASSUME NEW t, IsThread(t), NEW status
    PROVE  IsThread(After(t, status)) /\ ~Returning(After(t, status))
BY PlainThread, EndedThread DEF After

LEMMA FailsProceeds ==
    ASSUME Shape, NEW k \in DOMAIN run.threads, Fails(k)
    PROVE  Proceeds
<1> DEFINE t == run.threads[k]
           n == Here(t)
<1>1. IsThread(t) /\ def' = def /\ steps' = steps
  BY ThreadsRun DEF Fails
<1>2. PICK s : s = Decided(n, Node(k))
  OBVIOUS
<1>3. n \in def.nodes => Alike(s, task.nodes[n]) /\ s.status # "pending"
  BY <1>2, NodeTyped, DecidedAlike
<1>4. SetNode(n, s) /\ Save /\ Becomes(k, After(t, s.status))
  BY <1>2 DEF Fails
<1>5. IsThread(After(t, s.status)) /\ ~Returning(After(t, s.status))
  BY <1>1, AfterPlain
<1> QED
  BY <1>1, <1>3, <1>4, <1>5, OneProceeds

\* The node sent back is ready for another attempt, and counts that.
LEMMA SendsBackProceeds ==
    ASSUME Shape, NEW k \in DOMAIN run.threads, SendsBack(k)
    PROVE  Proceeds
<1> DEFINE t == run.threads[k]
           n == Here(t)
           u == Rework[n]
<1>1. /\ IsThread(t) /\ def' = def /\ steps' = steps /\ task = disk /\ IsTask(def, task)
      /\ Judges(n) /\ u \in def.nodes /\ disk' = task'
  BY ThreadsRun DEF SendsBack, Judges, Save
<1>2. PICK old \in NodeStates : old = task.nodes[u]
  BY <1>1 DEF IsTask
<1>3. PICK c \in Nat : c = old.sentBack + 1
  BY DEF NodeStates
<1>4. PICK s : s = [old EXCEPT !.status = "pending", !.auto = 0, !.deadline = FALSE,
                               !.trigger = "validator_retry", !.sentBack = c]
  OBVIOUS
<1>5. Alike(s, old) /\ s.sentBack > old.sentBack
  <2>1. s.sentBack = c /\ s.iterations = old.iterations
    BY <1>4 DEF NodeStates
  <2>2. s \in NodeStates
    BY <1>4 DEF NodeStates, Statuses
  <2>3. c > old.sentBack
    BY <1>3 DEF NodeStates
  <2> QED
    BY <2>1, <2>2, <2>3 DEF Alike
<1>6. PICK v : v = Put(task, u, s)
  OBVIOUS
<1>7. /\ IsTask(def, v) /\ v.status = task.status /\ v.loops = task.loops
      /\ \A m \in def.nodes : v.nodes[m] = IF m = u THEN s ELSE task.nodes[m]
  BY <1>1, <1>5, <1>6, PutNode DEF Alike
<1>8. PICK r : r = Policy!Record(v.nodes[n], "completed")
  OBVIOUS
<1>9. n \in def.nodes => r \in NodeStates /\ r.iterations = task.nodes[n].iterations /\ r.status = "completed"
  <2> SUFFICES ASSUME n \in def.nodes
               PROVE  r \in NodeStates /\ r.iterations = task.nodes[n].iterations /\ r.status = "completed"
    OBVIOUS
  <2>1. v.nodes[n] \in NodeStates /\ v.nodes[n].iterations = task.nodes[n].iterations
    BY <1>2, <1>5, <1>7 DEF IsTask, Alike
  <2> QED
    BY <1>8, <2>1, RecordAlike DEF Alike, Statuses
<1>10. task' = Put(v, n, r)
  <2>1. s = [old EXCEPT !.status = "pending", !.auto = 0, !.deadline = FALSE,
                        !.trigger = "validator_retry", !.sentBack = @ + 1]
    BY <1>3, <1>4
  <2>2. v = [task EXCEPT !.nodes[u] = s]
    BY <1>6 DEF Put
  <2>3. task' = [v EXCEPT !.nodes[n] = Policy!Record(@, "completed")]
    BY <1>2, <2>1, <2>2 DEF SendsBack
  <2>4. [v EXCEPT !.nodes[n] = Policy!Record(@, "completed")] = [v EXCEPT !.nodes[n] = r]
    BY <1>8
  <2> QED
    BY <2>3, <2>4 DEF Put
<1>11. /\ IsTask(def, task') /\ task'.status = task.status /\ task'.loops = task.loops
       /\ \A m \in def.nodes : task'.nodes[m] = IF m = n THEN r ELSE IF m = u THEN s ELSE task.nodes[m]
  <2>1. /\ IsTask(def, Put(v, n, r)) /\ Put(v, n, r).status = v.status /\ Put(v, n, r).loops = v.loops
        /\ \A m \in def.nodes : Put(v, n, r).nodes[m] = IF m = n THEN r ELSE v.nodes[m]
    BY <1>7, <1>9, PutNode
  <2> QED
    BY <1>7, <1>10, <2>1
<1>12. Keeps
  BY <1>1, <1>2, <1>5, <1>9, <1>11 DEF Keeps, Quiet, Alike
<1>13. IsNotRedone
  <2> SUFFICES ASSUME NEW m \in def.nodes, disk'.nodes[m].status = "pending"
               PROVE  disk'.nodes[m].sentBack > disk.nodes[m].sentBack \/ disk.nodes[m].status # "completed"
    BY DEF IsNotRedone
  <2>1. m # n
    BY <1>1, <1>9, <1>11
  <2> QED
    BY <1>1, <1>2, <1>5, <1>11, <2>1
<1>14. PICK w : w = [t EXCEPT !.at = "sentback"]
  OBVIOUS
<1>15. IsThread(w) /\ Here(w) = n /\ Becomes(k, w)
  BY <1>1, <1>14, PlainThread DEF SendsBack
<1>16. IsRun(run') /\ run'.at = run.at /\ run'.n = run.n /\ Fits(run')
  BY <1>1, <1>15, ThreadKept
<1> QED
  BY <1>12, <1>13, <1>16 DEF Proceeds

LEMMA ReworkBeginsProceeds ==
    ASSUME Shape, NEW k \in DOMAIN run.threads, ReworkBegins(k)
    PROVE  Proceeds
<1> DEFINE t == run.threads[k]
           n == Here(t)
           u == Rework[n]
<1>1. /\ IsThread(t) /\ def' = def /\ steps' = steps /\ IsTask(def, task) /\ Judges(n)
  BY ThreadsRun DEF ReworkBegins, Ready, Returning
<1>2. PICK s : s = Policy!BeginAttempt(task.nodes[u])
  OBVIOUS
<1>3. u \in def.nodes => Alike(s, task.nodes[u]) /\ s.status # "pending"
  BY <1>1, <1>2, BeginAlike DEF IsTask
<1>4. PICK w : w = [t EXCEPT !.at = "rework"]
  OBVIOUS
<1>5. IsThread(w) /\ Here(w) = n
  BY <1>1, <1>4, PlainThread
<1>6. SetNode(u, s) /\ Save /\ Becomes(k, w)
  BY <1>2, <1>4 DEF ReworkBegins
<1> QED
  BY <1>1, <1>3, <1>5, <1>6, OneProceeds

LEMMA ReworkEndsProceeds ==
    ASSUME Shape, NEW k \in DOMAIN run.threads, ReworkEnds(k)
    PROVE  Proceeds
<1> DEFINE t == run.threads[k]
           n == Here(t)
           u == Rework[n]
<1>1. /\ IsThread(t) /\ def' = def /\ steps' = steps /\ task = disk /\ IsTask(def, task)
      /\ Judges(n) /\ u \in def.nodes /\ disk' = task' /\ t.at = "rework"
  BY ThreadsRun DEF ReworkEnds, Ready, Returning, Judges, Save
<1>2. PICK old \in NodeStates : old = task.nodes[u]
  BY <1>1 DEF IsTask
<1>3. PICK again : again = [Node(k) EXCEPT !.status = "pending"]
  OBVIOUS
<1>4. PICK failed : failed = Decided(u, old)
  OBVIOUS
<1>5. Alike(failed, old) /\ failed.status \in {"retry_waiting", "skipped", "failed"}
  BY <1>4, DecidedAlike
<1>6. PICK s, r, w :
          /\ task' = [task EXCEPT !.nodes[u] = s, !.nodes[n] = r]
          /\ Becomes(k, w)
          /\ \/ s = Completed(old) /\ r = again /\ w = [t EXCEPT !.at = "head"]
             \/ /\ s = failed /\ w = After(t, failed.status)
                /\ r = IF failed.status = "skipped" THEN [again EXCEPT !.status = "skipped"] ELSE again
  <2>1. CASE task' = [task EXCEPT !.nodes[u] = Completed(@), !.nodes[n] = again]
             /\ Becomes(k, [t EXCEPT !.at = "head"])
    <3>1. task' = [task EXCEPT !.nodes[u] = Completed(old), !.nodes[n] = again]
      BY <1>2, <2>1
    <3> QED
      BY <2>1, <3>1
  <2>2. CASE /\ task' = [task EXCEPT !.nodes[u] = failed,
                            !.nodes[n] = IF failed.status = "skipped" THEN [again EXCEPT !.status = "skipped"] ELSE again]
             /\ Becomes(k, After(t, failed.status))
    BY <2>2
  <2> QED
    BY <1>2, <1>3, <1>4, <2>1, <2>2 DEF ReworkEnds
<1>7. Alike(s, old) /\ s.status \in {"completed", "retry_waiting", "skipped", "failed"}
  BY <1>5, <1>6, CompletedAlike
<1>8. n \in def.nodes => Alike(r, task.nodes[n]) /\ r.status \in {"pending", "skipped"}
  <2> SUFFICES ASSUME n \in def.nodes
               PROVE  Alike(r, task.nodes[n]) /\ r.status \in {"pending", "skipped"}
    OBVIOUS
  <2>1. PICK mine \in NodeStates : mine = Node(k) /\ mine = task.nodes[n]
    BY NodeTyped
  <2>2. again = [mine EXCEPT !.status = "pending"]
    BY <1>3, <2>1
  <2>3. Alike(again, mine) /\ again.status = "pending"
    BY <2>2 DEF Alike, NodeStates, Statuses
  <2>4. Alike([again EXCEPT !.status = "skipped"], again) /\ [again EXCEPT !.status = "skipped"].status = "skipped"
    BY <2>3 DEF Alike, NodeStates, Statuses
  <2> QED
    BY <1>6, <2>1, <2>3, <2>4 DEF Alike
<1>9. /\ IsTask(def, task') /\ task'.status = task.status /\ task'.loops = task.loops
      /\ \A m \in def.nodes : task'.nodes[m] = IF m = n THEN r ELSE IF m = u THEN s ELSE task.nodes[m]
  <2>1. (u \in def.nodes => s \in NodeStates) /\ (n \in def.nodes => r \in NodeStates)
    BY <1>7, <1>8 DEF Alike
  <2>2. task' = PutBoth(task, u, s, n, r)
    BY <1>6 DEF PutBoth
  <2> QED
    BY <1>1, <2>1, <2>2, PutTwo
<1>10. Keeps
  BY <1>1, <1>2, <1>7, <1>8, <1>9 DEF Keeps, Quiet, Alike
<1>11. disk'.nodes[u].status # "running"
  BY <1>1, <1>7, <1>8, <1>9
<1>12. IsNotRedone
  <2> SUFFICES ASSUME NEW m \in def.nodes, disk'.nodes[m].status = "pending",
                      disk.nodes[m].status = "completed"
               PROVE  \E o \in DOMAIN run.threads :
                          /\ run.threads[o].at = "rework" /\ Here(run.threads[o]) = m
                          /\ disk'.nodes[Rework[m]].status # "running"
    BY DEF IsNotRedone
  <2>1. m = n
    BY <1>1, <1>7, <1>9
  <2> QED
    BY <1>1, <1>11, <2>1
<1>13. IsThread(w) /\ ~Returning(w)
  BY <1>1, <1>6, PlainThread, AfterPlain
<1>14. IsRun(run') /\ run'.at = run.at /\ run'.n = run.n /\ Fits(run')
  BY <1>1, <1>6, <1>13, ThreadKept
<1> QED
  BY <1>10, <1>12, <1>14 DEF Proceeds

LEMMA RefusedProceeds ==
    ASSUME Shape, NEW k \in DOMAIN run.threads, Refused(k)
    PROVE  Proceeds
<1> DEFINE t == run.threads[k]
           n == Here(t)
           p == t.ids[t.i - 1]
<1>1. /\ IsThread(t) /\ def' = def /\ steps' = steps /\ task = disk /\ IsTask(def, task)
      /\ disk' = task' /\ Save
  BY ThreadsRun DEF Refused, Save
<1>2. PICK s : s = [Policy!Record(Node(k), "failed") EXCEPT !.refused = @ + 1]
  OBVIOUS
<1>3. n \in def.nodes => /\ Alike(s, task.nodes[n]) /\ s.status = "failed"
                         /\ disk.nodes[n].status = "waiting_approval"
  <2> SUFFICES ASSUME n \in def.nodes
               PROVE  Alike(s, task.nodes[n]) /\ s.status = "failed" /\ disk.nodes[n].status = "waiting_approval"
    OBVIOUS
  <2>1. PICK mine \in NodeStates : mine = Node(k) /\ mine = task.nodes[n]
    BY NodeTyped
  <2>2. PICK c : c = Policy!Record(mine, "failed")
    OBVIOUS
  <2>3. Alike(c, mine) /\ c.status = "failed"
    BY <2>2, RecordAlike DEF Statuses
  <2>4. PICK m \in Nat : m = c.refused + 1
    BY <2>3 DEF Alike, NodeStates
  <2>5. s = [c EXCEPT !.refused = m]
    BY <1>2, <2>1, <2>2, <2>4
  <2>6. Alike(s, c) /\ s.status = "failed"
    BY <2>3, <2>5 DEF Alike, NodeStates
  <2>7. mine.status = "waiting_approval"
    BY <2>1 DEF Refused, Decidable
  <2> QED
    BY <1>1, <2>1, <2>3, <2>6, <2>7 DEF Alike
<1>4. CASE SetNode(n, s) /\ Becomes(k, Ends("failed"))
  BY <1>1, <1>3, <1>4, EndedThread, OneProceeds
<1>5. CASE /\ task' = [task EXCEPT !.nodes[p].status = "running", !.nodes[n] = [s EXCEPT !.status = "pending"]]
           /\ Becomes(k, [t EXCEPT !.i = @ - 1, !.at = "head"])
  <2>1. PICK q : q = [task.nodes[p] EXCEPT !.status = "running"]
    OBVIOUS
  <2>2. PICK r : r = [s EXCEPT !.status = "pending"]
    OBVIOUS
  <2>3. p \in def.nodes => Alike(q, task.nodes[p]) /\ q.status = "running"
    <3> SUFFICES ASSUME p \in def.nodes PROVE Alike(q, task.nodes[p]) /\ q.status = "running"
      OBVIOUS
    <3>1. PICK old \in NodeStates : old = task.nodes[p]
      BY <1>1 DEF IsTask
    <3>2. q = [old EXCEPT !.status = "running"]
      BY <2>1, <3>1
    <3>3. Alike(q, old) /\ q.status = "running"
      BY <3>2 DEF Alike, NodeStates, Statuses
    <3> QED
      BY <3>1, <3>3
  <2>4. n \in def.nodes => Alike(r, task.nodes[n])
    <3>1. s \in NodeStates => Alike(r, s)
      BY <2>2 DEF Alike, NodeStates, Statuses
    <3> QED
      BY <1>3, <3>1 DEF Alike
  <2>5. task' = [task EXCEPT !.nodes[p] = q, !.nodes[n] = r]
    BY <1>5, <2>1, <2>2
  <2>6. /\ IsTask(def, task') /\ task'.status = task.status /\ task'.loops = task.loops
        /\ \A m \in def.nodes : task'.nodes[m] = IF m = n THEN r ELSE IF m = p THEN q ELSE task.nodes[m]
    <3>1. (p \in def.nodes => q \in NodeStates) /\ (n \in def.nodes => r \in NodeStates)
      BY <2>3, <2>4 DEF Alike
    <3>2. task' = PutBoth(task, p, q, n, r)
      BY <2>5 DEF PutBoth
    <3>3. PICK a, b : a = p /\ b = n
      OBVIOUS
    <3>4. PICK v : v = PutBoth(task, a, q, b, r)
      OBVIOUS
    <3>5. /\ IsTask(def, v) /\ v.status = task.status /\ v.loops = task.loops
          /\ \A m \in def.nodes : v.nodes[m] = IF m = b THEN r ELSE IF m = a THEN q ELSE task.nodes[m]
      <4>1. (a \in def.nodes => q \in NodeStates) /\ (b \in def.nodes => r \in NodeStates)
        BY <3>1, <3>3
      <4> QED
        BY <1>1, <3>4, <4>1, PutTwo
    <3> QED
      BY <3>2, <3>3, <3>4, <3>5
  <2>7. Keeps
    BY <1>1, <2>3, <2>4, <2>6 DEF Keeps, Quiet, Alike
  <2>8. IsNotRedone
    BY <1>1, <1>3, <2>3, <2>6 DEF IsNotRedone
  <2>9. PICK w : w = [t EXCEPT !.i = @ - 1, !.at = "head"]
    OBVIOUS
  <2>10. IsThread(w) /\ ~Returning(w)
    <3>1. PICK j : j = t.i - 1
      OBVIOUS
    <3>2. t = [ids |-> t.ids, i |-> t.i, at |-> t.at]
      BY <1>1 DEF IsThread
    <3>3. [t EXCEPT !.i = j] = [ids |-> t.ids, i |-> j, at |-> t.at]
      BY <3>2
    <3>4. w = [[t EXCEPT !.i = j] EXCEPT !.at = "head"]
      BY <2>9, <3>1
    <3>5. PICK v : v = [ids |-> t.ids, i |-> j, at |-> t.at]
      OBVIOUS
    <3>6. [v EXCEPT !.at = "head"] = [ids |-> t.ids, i |-> j, at |-> "head"]
      BY <3>5
    <3>7. w = [ids |-> t.ids, i |-> j, at |-> "head"]
      BY <3>3, <3>4, <3>5, <3>6
    <3> QED
      BY <3>7 DEF IsThread, Returning
  <2>11. IsRun(run') /\ run'.at = run.at /\ run'.n = run.n /\ Fits(run')
    BY <1>1, <1>5, <2>9, <2>10, ThreadKept
  <2> QED
    BY <2>7, <2>8, <2>11 DEF Proceeds
<1> QED
  BY <1>2, <1>4, <1>5 DEF Refused

LEMMA SequenceProceeds ==
    ASSUME Shape, NEW k \in DOMAIN run.threads, Sequence(k)
    PROVE  Proceeds
BY EndsProceeds, OverProceeds, BeginProceeds, WaitsProceeds, SucceedsProceeds, FailsProceeds,
   SendsBackProceeds, ReworkBeginsProceeds, ReworkEndsProceeds, RefusedProceeds DEF Sequence

-----------------------------------------------------------------------------
(* What a loop's cursor and the passes its nodes remember say of each other. *)
\* How many iterations there are, or may be.
Cap(t, i) == IF steps[i].type = "loop" THEN t.loops[steps[i].id].total ELSE MaxIterations

\* The iteration at work is the next one, and none is passed over.
CursorOK(t, i) ==
    LET c == t.loops[steps[i].id]
    IN  /\ c.active \in {0, c.next}
        /\ c.phase = "none" => c.next = 1 /\ c.active = 0
        /\ c.active > 0 => c.active <= Cap(t, i) /\ c.phase # "completed"
        /\ c.phase # "completed" \/ steps[i].type = "loop" => c.next <= Cap(t, i) + 1
        /\ c.phase = "completed" => c.next > Cap(t, i) \/ steps[i].type = "while"

\* The nodes of the body remember those before the next one, in order.
PassesOK(t, i) ==
    LET c == t.loops[steps[i].id]
    IN  \A n \in ToSet(steps[i].body) \cap def.nodes :
            /\ Len(t.nodes[n].iterations) = IF c.next > Cap(t, i) THEN Cap(t, i) ELSE c.next - 1
            /\ \A j \in DOMAIN t.nodes[n].iterations : t.nodes[n].iterations[j].i = j

Finished(t, i) ==
    t.loops[steps[i].id].phase = "completed" \/ (steps[i].type = "loop" /\ t.loops[steps[i].id].total = 0)

\* The loop i is behind the run, or the run is in one of its iterations.
IsPast(t, r, i) ==
    \/ t.status = "completed"
    \/ r.at # "none" /\ i < r.n
    \/ r.at \in {"exit", "left"} /\ i = r.n
Turns(r, i) == r.at \in {"while", "body", "bodystep"} /\ i = r.n

Counted(t, r, i) ==
    /\ CursorOK(t, i) /\ PassesOK(t, i)
    /\ IsPast(t, r, i) => Finished(t, i)
    /\ Turns(r, i) => t.loops[steps[i].id].active > 0

\* The invariant of the second theorem, in addition to Shape.
CountInv == BodiesApart /\ MaxIterations \in Nat /\ \A i \in LoopSteps : Counted(disk, run, i)

LEMMA ShapeNext ==
    ASSUME Shape, def' = def, steps' = steps, IsTask(def, disk'), IsTask(def, task'),
           IsRun(run'), Fits(run'), run'.at # "none" => task' = disk' /\ disk'.status = "running"
    PROVE  Shape'
BY DEF Shape, PlanOK, LoopSteps, Fits, Judges, Gates, IsTask, IsRun

LEMMA CountNext ==
    ASSUME CountInv, def' = def, steps' = steps, \A i \in LoopSteps : Counted(disk', run', i)
    PROVE  CountInv'
BY DEF CountInv, LoopSteps, Counted, CursorOK, PassesOK, Finished, IsPast, Turns, Cap, BodiesApart

\* No action that leaves the loops alone makes a difference, if it passes no loop.
LEMMA QuietCounted ==
    ASSUME Quiet, NEW i \in LoopSteps, Counted(disk, run, i),
           IsPast(disk', run', i) => Finished(disk, i), Turns(run', i) => Turns(run, i)
    PROVE  Counted(disk', run', i)
<1>1. disk'.loops = disk.loops /\ \A n \in def.nodes : disk'.nodes[n].iterations = disk.nodes[n].iterations
  BY DEF Quiet
<1>2. CursorOK(disk', i) /\ (Finished(disk, i) => Finished(disk', i)) /\ Cap(disk', i) = Cap(disk, i)
  BY <1>1 DEF Counted, CursorOK, Finished, Cap
<1>3. PassesOK(disk', i)
  BY <1>1, <1>2 DEF Counted, PassesOK
<1> QED
  BY <1>1, <1>2, <1>3 DEF Counted

\* What each action comes to.
Preserves == Shape' /\ IsNotRedone /\ (CountInv => CountInv')

LEMMA QuietPreserves ==
    ASSUME Quiet, def' = def, steps' = steps, Shape', IsNotRedone,
           \A i \in LoopSteps : Counted(disk, run, i) =>
               (IsPast(disk', run', i) => Finished(disk, i)) /\ (Turns(run', i) => Turns(run, i))
    PROVE  Preserves
<1>1. SUFFICES ASSUME CountInv, NEW i \in LoopSteps PROVE Counted(disk', run', i)
  BY CountNext DEF Preserves
<1>2. Counted(disk, run, i)
  BY <1>1 DEF CountInv
<1> QED
  BY <1>1, <1>2, QuietCounted

LEMMA SequencePreserves ==
    ASSUME Shape, NEW k \in DOMAIN run.threads, Sequence(k)
    PROVE  Preserves
<1>1. run.at # "none" /\ disk.status = "running"
  BY ThreadsRun DEF Shape
<1>2. Proceeds
  BY <1>1, SequenceProceeds
<1>3. Shape'
  BY <1>1, <1>2, ShapeNext DEF Proceeds, Keeps
<1>4. \A i \in LoopSteps : Counted(disk, run, i) =>
         (IsPast(disk', run', i) => Finished(disk, i)) /\ (Turns(run', i) => Turns(run, i))
  BY <1>2 DEF Proceeds, Keeps, IsPast, Turns, Counted
<1> QED
  BY <1>2, <1>3, <1>4, QuietPreserves DEF Proceeds, Keeps

-----------------------------------------------------------------------------
(* The steps of the plan *)
Threads(f) ==
    f = [k \in DOMAIN f |-> f[k]] /\ \A k \in DOMAIN f : IsThread(f[k]) /\ ~Returning(f[k])

LEMMA GoesRun ==
    ASSUME Shape, NEW at \in Spots, NEW n \in Nat, NEW f, Threads(f), Goes(at, n, f)
    PROVE  IsRun(run') /\ run'.at = at /\ run'.n = n /\ run'.threads = f
<1>1. run' = [run EXCEPT !.at = at, !.n = n, !.threads = f]
  BY DEF Goes
<1>2. run \in [at : Spots, n : Nat, threads : {run.threads}, place : {run.place}, been : {run.been}]
  BY DEF Shape, IsRun
<1>3. /\ run'.at = at /\ run'.n = n /\ run'.threads = f /\ run'.place = run.place /\ run'.been = run.been
      /\ run' \in [at : Spots, n : Nat, threads : {f}, place : {run.place}, been : {run.been}]
  BY <1>1, <1>2
<1> QED
  BY <1>3 DEF IsRun, Threads

LEMMA NoThreads == Threads(<<>>) /\ DOMAIN <<>> = {}
<1>1. <<>> = [k \in DOMAIN <<>> |-> <<>>[k]] /\ DOMAIN <<>> = {}
  OBVIOUS
<1> QED
  BY <1>1 DEF Threads

LEMMA FreshThreads ==
    ASSUME NEW s
    PROVE  Threads([i \in DOMAIN s |-> Thread(s[i])])
BY DEF Threads, Thread, IsThread, Returning

LEMMA RunsRun ==
    ASSUME Shape, NEW at \in Spots, NEW s, Runs(at, s)
    PROVE  IsRun(run') /\ run'.at = at /\ run'.n = run.n /\ Threads(run'.threads)
<1>1. PICK f : f = [i \in DOMAIN s |-> Thread(s[i])]
  OBVIOUS
<1>2. Threads(f) /\ Goes(at, run.n, f) /\ run.n \in Nat
  BY <1>1, FreshThreads DEF Runs, Shape, IsRun
<1> QED
  BY <1>2, GoesRun

LEMMA NowhereRun ==
    ASSUME run' = NoRun
    PROVE  IsRun(run') /\ Fits(run') /\ run'.at = "none" /\ run'.threads = <<>>
<1>1. /\ run'.at = "none" /\ run'.n = 0 /\ run'.threads = <<>> /\ run'.place = "" /\ run'.been = {}
      /\ run' \in [at : Spots, n : Nat, threads : {<<>>}, place : {""}, been : {{}}]
  BY DEF NoRun, Spots
<1> QED
  BY <1>1, NoThreads DEF IsRun, Fits, Threads, Returning

\* What a run may be at, wherever it has no thread that is returning something.
LEMMA PlainFits ==
    ASSUME NEW r, Threads(r.threads), r.at = "none" => DOMAIN r.threads = {},
           r.at # "none" => r.n \in 1 .. Len(steps) + 1,
           r.at \notin {"none", "plan"} => r.n \in 1 .. Len(steps),
           r.at = "step" => steps[r.n].type \notin {"loop", "while"},
           r.at = "while" => steps[r.n].type = "while",
           r.at \in {"loop", "body", "bodystep"} => steps[r.n].type = "loop",
           r.at \in {"exit", "left"} => steps[r.n].type \in {"loop", "while"}
    PROVE  Fits(r)
BY DEF Fits, Threads

Made(t, status, f, l) == [t EXCEPT !.status = status, !.nodes = f, !.loops = l]
TaskStatuses == {"pending", "running", "retry_waiting", "resume_pending", "completed", "failed"}
LEMMA MadeTask ==
    ASSUME NEW t, IsTask(def, t), NEW s \in TaskStatuses, NEW f \in [def.nodes -> NodeStates],
           NEW l \in [Gates(def) -> Cursors], NEW u, u = Made(t, s, f, l)
    PROVE  IsTask(def, u) /\ u.status = s /\ u.nodes = f /\ u.loops = l
BY DEF IsTask, Made, TaskStatuses

\* A run that is somewhere works on what is in the file.
LEMMA RunsOn ==
    ASSUME Shape, run.at # "none"
    PROVE  /\ task = disk /\ IsTask(def, task) /\ disk.status = "running"
           /\ IsRun(run) /\ Fits(run) /\ run.n \in Nat
           /\ run.n \in 1 .. Len(steps) + 1 /\ Len(steps) \in Nat
BY DEF Shape, IsRun, Fits, PlanOK

LEMMA FailPreserves ==
    ASSUME Shape, run.at # "none", def' = def, steps' = steps,
           NEW status \in TaskStatuses, Fail(status),
           status = "completed" => run.n > Len(steps)
    PROVE  Preserves
<1>1. /\ task' = [task EXCEPT !.status = status] /\ disk' = task' /\ run' = NoRun
      /\ task = disk /\ IsTask(def, task)
  BY RunsOn DEF Fail, Finish, Save
<1>2. /\ IsTask(def, task') /\ disk'.nodes = disk.nodes /\ disk'.loops = disk.loops
      /\ disk'.status = status
  BY <1>1 DEF IsTask, TaskStatuses
<1>3. Quiet /\ IsNotRedone
  BY <1>2 DEF Quiet, IsNotRedone
<1>4. IsRun(run') /\ Fits(run') /\ run'.at = "none" /\ run'.threads = <<>>
  BY <1>1, NowhereRun
<1>5. Shape'
  BY <1>1, <1>2, <1>4, ShapeNext
<1>6. ASSUME NEW i \in LoopSteps, Counted(disk, run, i)
      PROVE  (IsPast(disk', run', i) => Finished(disk, i)) /\ (Turns(run', i) => Turns(run, i))
  <2>1. status = "completed" => i < run.n
    BY RunsOn DEF LoopSteps, Shape, PlanOK
  <2>2. status = "completed" => Finished(disk, i)
    BY <1>6, <2>1 DEF Counted, IsPast
  <2> QED
    BY <1>2, <1>4, <2>2 DEF IsPast, Turns
<1> QED
  BY <1>3, <1>5, <1>6, QuietPreserves

\* Where the run goes on with the task as it is.
LEMMA MovePreserves ==
    ASSUME Shape, run.at # "none", UNCHANGED <<def, steps, disk, task>>,
           IsRun(run'), Fits(run'), run'.at # "none",
           \A i \in LoopSteps : Counted(disk, run, i) =>
               (IsPast(disk', run', i) => Finished(disk, i)) /\ (Turns(run', i) => Turns(run, i))
    PROVE  Preserves
<1>1. Quiet /\ IsNotRedone
  BY DEF Quiet, IsNotRedone
<1>2. Shape'
  BY RunsOn, ShapeNext
<1> QED
  BY <1>1, <1>2, QuietPreserves

LEMMA StartPreserves ==
    ASSUME Shape, Start
    PROVE  Preserves
<1>1. PICK f : f = [n \in def.nodes |-> IF n \in Disabled THEN [disk.nodes[n] EXCEPT !.status = "skipped"] ELSE disk.nodes[n]]
  OBVIOUS
<1>2. IsTask(def, disk) /\ def' = def /\ steps' = steps /\ disk' = task'
  BY DEF Shape, Start, Save
<1>3. ASSUME NEW n \in def.nodes
      PROVE  f[n] \in NodeStates /\ f[n].iterations = disk.nodes[n].iterations
             /\ (f[n].status = "pending" => disk.nodes[n].status = "pending")
  <2>1. PICK s \in NodeStates : s = disk.nodes[n]
    BY <1>2 DEF IsTask
  <2>2. f[n] = [s EXCEPT !.status = "skipped"] \/ f[n] = s
    BY <1>1, <2>1
  <2>3. [s EXCEPT !.status = "skipped"] \in NodeStates /\ [s EXCEPT !.status = "skipped"].iterations = s.iterations
        /\ [s EXCEPT !.status = "skipped"].status = "skipped"
    BY DEF NodeStates, Statuses
  <2> QED
    BY <2>1, <2>2, <2>3
<1>4. f \in [def.nodes -> NodeStates]
  BY <1>1, <1>3
<1>5. task' = [disk EXCEPT !.status = "running", !.nodes = f]
  BY <1>1 DEF Start
<1>6. IsTask(def, task') /\ disk'.status = "running" /\ disk'.nodes = f /\ disk'.loops = disk.loops
  BY <1>2, <1>4, <1>5 DEF IsTask
<1>7. Quiet /\ IsNotRedone
  BY <1>3, <1>6 DEF Quiet, IsNotRedone
<1>8. /\ run'.at = "plan" /\ run'.n = 1 /\ run'.threads = <<>> /\ run'.place = "" /\ run'.been = {}
      /\ run' \in [at : Spots, n : Nat, threads : {<<>>}, place : {""}, been : {{}}]
  BY DEF Start, NoRun, Spots
<1>9. IsRun(run')
  BY <1>8, NoThreads DEF IsRun, Threads
<1>10. Fits(run')
  <2>1. Len(steps) \in Nat
    BY DEF Shape, PlanOK
  <2>2. run'.n \in 1 .. Len(steps) + 1
    <3>1. 1 \in 1 .. Len(steps) + 1
      BY <2>1
    <3>2. run'.n = 1
      BY <1>8
    <3> QED
      BY <3>1, <3>2
  <2>3. Threads(run'.threads)
    <3>1. run'.threads = <<>>
      BY <1>8
    <3> QED
      BY <3>1, NoThreads
  <2> QED
    BY <1>8, <2>2, <2>3, PlainFits
<1>11. Shape'
  BY <1>2, <1>6, <1>9, <1>10, ShapeNext
<1>12. ASSUME NEW i \in LoopSteps, Counted(disk, run, i)
       PROVE  (IsPast(disk', run', i) => Finished(disk, i)) /\ (Turns(run', i) => Turns(run, i))
  <2>1. i \in 1 .. Len(steps) /\ Len(steps) \in Nat
    BY DEF LoopSteps, Shape, PlanOK
  <2>2. ~(i < 1)
    BY <2>1
  <2> QED
    BY <1>6, <1>8, <2>2 DEF IsPast, Turns
<1> QED
  BY <1>2, <1>7, <1>11, <1>12, QuietPreserves

LEMMA PlanEndsPreserves ==
    ASSUME Shape, PlanEnds
    PROVE  Preserves
<1>1. Fail("completed")
  BY DEF PlanEnds, Fail
<1> QED
  BY <1>1, FailPreserves DEF PlanEnds, TaskStatuses

\* A step of the plan that is no loop is left for the next one.
LEMMA NextStepPreserves ==
    ASSUME Shape, run.at \in {"plan", "step", "left", "exit"}, run.n <= Len(steps),
           steps[run.n].type \notin {"loop", "while"} \/ run.at \in {"left", "exit"},
           Goes("plan", run.n + 1, <<>>), UNCHANGED <<def, steps, disk, task>>
    PROVE  Preserves
<1>1. run.n \in 1 .. Len(steps) /\ Len(steps) \in Nat /\ disk.status = "running" /\ run.n + 1 \in Nat
  BY RunsOn
<1>2. IsRun(run') /\ run'.at = "plan" /\ run'.n = run.n + 1 /\ run'.threads = <<>>
  BY <1>1, NoThreads, GoesRun DEF Spots
<1>3. Fits(run')
  BY <1>1, <1>2, NoThreads, PlainFits
<1>4. ASSUME NEW i \in LoopSteps, Counted(disk, run, i)
      PROVE  (IsPast(disk', run', i) => Finished(disk, i)) /\ (Turns(run', i) => Turns(run, i))
  <2>1. i \in Nat /\ steps[i].type \in {"loop", "while"}
    BY <1>1 DEF LoopSteps, Shape, PlanOK
  <2>2. i = run.n => run.at \in {"left", "exit"}
    BY <2>1
  <2>3. IsPast(disk', run', i) => IsPast(disk, run, i)
    BY <1>1, <1>2, <2>1, <2>2 DEF IsPast
  <2> QED
    BY <1>2, <1>4, <2>3 DEF Turns, Counted
<1> QED
  BY <1>2, <1>3, <1>4, MovePreserves

\* Its sequences are run.
LEMMA RunsPreserves ==
    ASSUME Shape, run.at \in {"plan", "exit"}, run.n <= Len(steps), NEW at, NEW s, Runs(at, s),
           \/ at = "step" /\ run.at = "plan" /\ steps[run.n].type \notin {"loop", "while"}
           \/ at = "left" /\ run.at = "exit" /\ steps[run.n].type \in {"loop", "while"},
           UNCHANGED <<def, steps, disk, task>>
    PROVE  Preserves
<1>1. run.n \in 1 .. Len(steps) /\ Len(steps) \in Nat /\ disk.status = "running"
  BY RunsOn
<1>2. at \in Spots
  BY DEF Spots
<1>3. IsRun(run') /\ run'.at = at /\ run'.n = run.n /\ Threads(run'.threads)
  BY <1>2, RunsRun
<1>4. Fits(run')
  BY <1>1, <1>3, PlainFits
<1>5. ASSUME NEW i \in LoopSteps, Counted(disk, run, i)
      PROVE  (IsPast(disk', run', i) => Finished(disk, i)) /\ (Turns(run', i) => Turns(run, i))
  BY <1>1, <1>3, <1>5 DEF IsPast, Turns, Counted
<1> QED
  BY <1>3, <1>4, <1>5, MovePreserves

LEMMA RunNodePreserves ==
    ASSUME Shape, RunNode
    PROVE  Preserves
<1>1. run.at = "plan" /\ run.n <= Len(steps) /\ steps[run.n].type = "node"
  BY DEF RunNode, AtStep, Step
<1>2. CASE Goes("plan", run.n + 1, <<>>)
  BY <1>1, <1>2, NextStepPreserves DEF RunNode
<1>3. CASE Runs("step", <<<<Step.node>>>>)
  <2>1. PICK s : s = <<<<Step.node>>>>
    OBVIOUS
  <2> QED
    BY <1>1, <1>3, <2>1, RunsPreserves DEF RunNode
<1> QED
  BY <1>2, <1>3 DEF RunNode

LEMMA RunParallelPreserves ==
    ASSUME Shape, RunParallel
    PROVE  Preserves
<1>1. run.at = "plan" /\ run.n <= Len(steps) /\ steps[run.n].type = "parallel"
  BY DEF RunParallel, AtStep, Step
<1> QED
  BY <1>1, RunsPreserves DEF RunParallel

LEMMA RunBranchPreserves ==
    ASSUME Shape, RunBranch
    PROVE  Preserves
<1>1. run.at = "plan" /\ run.n <= Len(steps) /\ steps[run.n].type = "condition"
  BY DEF RunBranch, AtStep, Step
<1>2. PICK s : Runs("step", s)
  BY DEF RunBranch
<1> QED
  BY <1>1, <1>2, RunsPreserves DEF RunBranch

LEMMA ChoosePreserves ==
    ASSUME Shape, Choose
    PROVE  Preserves
<1>1. /\ run.at = "plan" /\ task = disk /\ IsTask(def, task) /\ disk.status = "running"
      /\ def' = def /\ steps' = steps /\ run' = run /\ disk' = task' /\ IsRun(run) /\ Fits(run)
  BY RunsOn DEF Choose, AtStep, Save
<1>2. PICK c, others :
          task' = [task EXCEPT !.chosen = c,
                      !.nodes = [n \in def.nodes |-> IF n \in others THEN [@[n] EXCEPT !.status = "skipped"] ELSE @[n]]]
  <2>1. PICK target \in ToSet(Step.targets) :
          LET others == UNION {ToSet(Branch(t)) : t \in ToSet(Step.targets) \ {target}}
          IN  task' = [task EXCEPT !.chosen[Step.id] = target,
                          !.nodes = [n \in def.nodes |-> IF n \in others THEN [@[n] EXCEPT !.status = "skipped"] ELSE @[n]]]
    BY DEF Choose
  <2>2. PICK others : others = UNION {ToSet(Branch(t)) : t \in ToSet(Step.targets) \ {target}}
    OBVIOUS
  <2>3. PICK c : c = [task.chosen EXCEPT ![Step.id] = target]
    OBVIOUS
  <2>4. task' = [task EXCEPT !.chosen[Step.id] = target,
                    !.nodes = [n \in def.nodes |-> IF n \in others THEN [@[n] EXCEPT !.status = "skipped"] ELSE @[n]]]
    BY <2>1, <2>2
  <2>5. task' = [task EXCEPT !.chosen = c,
                    !.nodes = [n \in def.nodes |-> IF n \in others THEN [@[n] EXCEPT !.status = "skipped"] ELSE @[n]]]
    BY <2>3, <2>4
  <2> QED
    BY <2>5
<1>3. PICK f : f = [n \in def.nodes |-> IF n \in others THEN [task.nodes[n] EXCEPT !.status = "skipped"] ELSE task.nodes[n]]
  OBVIOUS
<1>4. ASSUME NEW n \in def.nodes
      PROVE  f[n] \in NodeStates /\ f[n].iterations = disk.nodes[n].iterations
             /\ (f[n].status = "pending" => disk.nodes[n].status = "pending")
  <2>1. PICK s \in NodeStates : s = task.nodes[n] /\ s = disk.nodes[n]
    BY <1>1 DEF IsTask
  <2>2. f[n] = [s EXCEPT !.status = "skipped"] \/ f[n] = s
    BY <1>3, <2>1
  <2>3. [s EXCEPT !.status = "skipped"] \in NodeStates /\ [s EXCEPT !.status = "skipped"].iterations = s.iterations
        /\ [s EXCEPT !.status = "skipped"].status = "skipped"
    BY DEF NodeStates, Statuses
  <2> QED
    BY <2>1, <2>2, <2>3
<1>5. f \in [def.nodes -> NodeStates]
  BY <1>3, <1>4
<1>6. task' = [task EXCEPT !.chosen = c, !.nodes = f]
  BY <1>2, <1>3
<1>7. IsTask(def, task') /\ task'.status = task.status /\ task'.nodes = f /\ task'.loops = task.loops
  BY <1>1, <1>5, <1>6 DEF IsTask
<1>8. Quiet /\ IsNotRedone
  BY <1>1, <1>4, <1>7 DEF Quiet, IsNotRedone
<1>9. Shape'
  BY <1>1, <1>7, ShapeNext
<1>10. ASSUME NEW i \in LoopSteps, Counted(disk, run, i)
       PROVE  (IsPast(disk', run', i) => Finished(disk, i)) /\ (Turns(run', i) => Turns(run, i))
  BY <1>1, <1>7, <1>10 DEF IsPast, Turns, Counted
<1> QED
  BY <1>1, <1>8, <1>9, <1>10, QuietPreserves

LEMMA StepDonePreserves ==
    ASSUME Shape, StepDone
    PROVE  Preserves
<1>1. /\ run.at \in {"step", "left"} /\ run.n <= Len(steps)
      /\ run.at = "step" => steps[run.n].type \notin {"loop", "while"}
      /\ def' = def /\ steps' = steps
  BY DEF StepDone, Shape, Fits
<1>2. CASE Outcome = "completed"
  BY <1>1, <1>2, NextStepPreserves DEF StepDone
<1>3. CASE Outcome # "completed"
  <2>1. Outcome \in TaskStatuses
    BY DEF Outcome, TaskStatuses
  <2>2. Fail(Outcome)
    BY <1>3 DEF StepDone
  <2> QED
    BY <1>1, <1>3, <2>1, <2>2, FailPreserves
<1> QED
  BY <1>2, <1>3

-----------------------------------------------------------------------------
(* Afterwards *)
LEMMA ResumePreserves ==
    ASSUME Shape, NEW f, NEW status \in TaskStatuses \ {"completed"},
           disk' = [disk EXCEPT !.status = status, !.nodes = f],
           f = [n \in def.nodes |-> f[n]],
           \A n \in def.nodes : Alike(f[n], disk.nodes[n])
               /\ (f[n].status = "pending" => disk.nodes[n].status # "completed"),
           run' = NoRun \/ (run.at = "none" /\ run' = run), UNCHANGED <<def, steps, task>>
    PROVE  Preserves
<1>1. f \in [def.nodes -> NodeStates]
  BY DEF Alike
<1>2. IsTask(def, disk') /\ disk'.status = status /\ disk'.nodes = f /\ disk'.loops = disk.loops
  BY <1>1 DEF Shape, IsTask, TaskStatuses
<1>3. Quiet /\ IsNotRedone
  BY <1>2 DEF Quiet, IsNotRedone, Alike
<1>4. IsRun(run') /\ Fits(run') /\ run'.at = "none"
  BY NowhereRun DEF Shape
<1>5. IsTask(def, task')
  BY DEF Shape
<1>6. Shape'
  BY <1>2, <1>4, <1>5, ShapeNext
<1>7. ASSUME NEW i \in LoopSteps, Counted(disk, run, i)
      PROVE  (IsPast(disk', run', i) => Finished(disk, i)) /\ (Turns(run', i) => Turns(run, i))
  BY <1>2, <1>4 DEF IsPast, Turns
<1> QED
  BY <1>3, <1>6, <1>7, QuietPreserves

\* A node that failed, or waits for its retry, is dealt with.
LEMMA OneResumePreserves ==
    ASSUME Shape, NEW n \in def.nodes, NEW s, Alike(s, disk.nodes[n]), disk.nodes[n].status # "completed",
           run.at = "none", Resume([disk.nodes EXCEPT ![n] = s]), UNCHANGED <<def, steps, task, run>>
    PROVE  Preserves
<1>1. PICK f : f = [disk.nodes EXCEPT ![n] = s]
  OBVIOUS
<1>2. disk' = [disk EXCEPT !.status = "resume_pending", !.nodes = f]
  BY <1>1 DEF Resume
<1>3. disk.nodes \in [def.nodes -> NodeStates]
  BY DEF Shape, IsTask
<1>4. f = [m \in def.nodes |-> f[m]] /\ \A m \in def.nodes : f[m] = IF m = n THEN s ELSE disk.nodes[m]
  BY <1>1, <1>3
<1>5. \A m \in def.nodes : Alike(f[m], disk.nodes[m]) /\ (f[m].status = "pending" => disk.nodes[m].status # "completed")
  BY <1>3, <1>4 DEF Alike
<1> QED
  BY <1>2, <1>4, <1>5, ResumePreserves DEF TaskStatuses

LEMMA RetryNodePreserves ==
    ASSUME Shape, NEW n \in def.nodes, RetryNode(n)
    PROVE  Preserves
<1>1. PICK old \in NodeStates : old = disk.nodes[n]
  BY DEF Shape, IsTask
<1>2. PICK s : s = Policy!PrepareManualRetry(old)
  OBVIOUS
<1>3. Alike(s, old)
  BY <1>2 DEF Alike, NodeStates, Statuses, Policy!PrepareManualRetry
<1>4. Resume([disk.nodes EXCEPT ![n] = s])
  BY <1>1, <1>2 DEF RetryNode
<1>5. disk.nodes[n].status # "completed"
  BY DEF RetryNode, Policy!Controllable
<1> QED
  BY <1>1, <1>3, <1>4, <1>5, OneResumePreserves DEF RetryNode, Idle

LEMMA SkipNodePreserves ==
    ASSUME Shape, NEW n \in def.nodes, SkipNode(n)
    PROVE  Preserves
<1>1. PICK old \in NodeStates : old = disk.nodes[n]
  BY DEF Shape, IsTask
<1>2. PICK s : s = Policy!FailureSkip(old)
  OBVIOUS
<1>3. Alike(s, old)
  BY <1>2 DEF Alike, NodeStates, Statuses, Policy!FailureSkip
<1>4. Resume([disk.nodes EXCEPT ![n] = s])
  BY <1>1, <1>2 DEF SkipNode
<1>5. disk.nodes[n].status # "completed"
  BY DEF SkipNode, Policy!Controllable
<1> QED
  BY <1>1, <1>3, <1>4, <1>5, OneResumePreserves DEF SkipNode, Idle

LEMMA RetryDuePreserves ==
    ASSUME Shape, RetryDue
    PROVE  Preserves
<1>1. PICK f : f = [n \in def.nodes |-> IF disk.nodes[n].status = "retry_waiting"
                                       THEN Policy!ActivateRetry(disk.nodes[n]) ELSE disk.nodes[n]]
  OBVIOUS
<1>2. disk' = [disk EXCEPT !.status = "resume_pending", !.nodes = f]
  BY <1>1 DEF RetryDue, Resume
<1>3. ASSUME NEW n \in def.nodes
      PROVE  Alike(f[n], disk.nodes[n]) /\ (f[n].status = "pending" => disk.nodes[n].status # "completed")
  <2>1. PICK old \in NodeStates : old = disk.nodes[n]
    BY DEF Shape, IsTask
  <2>2. f[n] = IF old.status = "retry_waiting" THEN Policy!ActivateRetry(old) ELSE old
    BY <1>1, <2>1
  <2>3. Alike(Policy!ActivateRetry(old), old)
    BY DEF Alike, NodeStates, Statuses, Policy!ActivateRetry
  <2> QED
    BY <2>1, <2>2, <2>3 DEF Alike
<1> QED
  BY <1>1, <1>2, <1>3, ResumePreserves DEF RetryDue, Idle, TaskStatuses

LEMMA CrashPreserves ==
    ASSUME Shape, Crash
    PROVE  Preserves
<1>1. PICK f : f = [n \in def.nodes |-> Policy!RecoverNode(n, disk.nodes[n])]
  OBVIOUS
<1>2. PICK status \in {"retry_waiting", "failed", "resume_pending"} :
          disk' = [disk EXCEPT !.status = status, !.nodes = f]
  <2>1. PICK promised, some, none \in BOOLEAN :
          disk' = [disk EXCEPT !.nodes = f,
                     !.status = CASE disk.status \notin {"running", "retry_waiting", "resume_pending"} -> @
                         [] ~promised /\ disk.status # "resume_pending" /\ some -> "retry_waiting"
                         [] ~promised /\ disk.status # "resume_pending" /\ ~some /\ none -> "failed"
                         [] OTHER -> "resume_pending"]
    <3>1. PICK g : g = [n \in def.nodes |-> Policy!RecoverNode(n, disk.nodes[n])]
      OBVIOUS
    <3>2. PICK promised \in BOOLEAN : promised = \E n \in def.nodes : Policy!LaunchPromised(g[n])
      OBVIOUS
    <3>3. PICK some \in BOOLEAN : some = \E n \in def.nodes : g[n].status = "retry_waiting"
      OBVIOUS
    <3>4. PICK none \in BOOLEAN : none = \E n \in def.nodes : g[n].status = "failed"
      OBVIOUS
    <3>5. disk' = [disk EXCEPT !.nodes = g,
                     !.status = CASE disk.status \notin {"running", "retry_waiting", "resume_pending"} -> @
                         [] ~promised /\ disk.status # "resume_pending" /\ some -> "retry_waiting"
                         [] ~promised /\ disk.status # "resume_pending" /\ ~some /\ none -> "failed"
                         [] OTHER -> "resume_pending"]
      BY <3>1, <3>2, <3>3, <3>4 DEF Crash, Recovered
    <3> QED
      BY <1>1, <3>1, <3>5
  <2>2. disk.status \in {"running", "retry_waiting", "resume_pending"}
    BY DEF Crash
  <2>3. CASE ~promised /\ disk.status # "resume_pending" /\ some
    <3>1. disk' = [disk EXCEPT !.nodes = f, !.status = "retry_waiting"]
      BY <2>1, <2>2, <2>3
    <3> QED
      BY <3>1
  <2>4. CASE ~promised /\ disk.status # "resume_pending" /\ ~some /\ none
    <3>1. disk' = [disk EXCEPT !.nodes = f, !.status = "failed"]
      BY <2>1, <2>2, <2>4
    <3> QED
      BY <3>1
  <2>5. CASE ~(~promised /\ disk.status # "resume_pending" /\ (some \/ none))
    <3>1. disk' = [disk EXCEPT !.nodes = f, !.status = "resume_pending"]
      BY <2>1, <2>2, <2>5
    <3> QED
      BY <3>1
  <2> QED
    BY <2>3, <2>4, <2>5
<1>3. ASSUME NEW n \in def.nodes
      PROVE  Alike(f[n], disk.nodes[n]) /\ (f[n].status = "pending" => disk.nodes[n].status # "completed")
  <2>1. disk.nodes[n] \in NodeStates
    BY DEF Shape, IsTask
  <2> QED
    BY <1>1, <2>1, RecoveredAlike
<1>4. status \in TaskStatuses \ {"completed"}
  BY <1>2 DEF TaskStatuses
<1>5. f = [n \in def.nodes |-> f[n]] /\ disk' = [disk EXCEPT !.status = status, !.nodes = f]
  BY <1>1, <1>2
<1>6. run' = NoRun /\ UNCHANGED <<def, steps, task>>
  BY DEF Crash
<1> QED
  BY <1>3, <1>4, <1>5, <1>6, ResumePreserves

-----------------------------------------------------------------------------
(* What the loops write of their cursors *)
\* One field of a loop's cursor is written, all others stay.
OthersStay(t, u, g) == \A h \in Gates(def) \ {g} : u.loops[h] = t.loops[h]
Sets(t, u, g, c) ==
    /\ IsTask(def, u) /\ u.status = t.status /\ u.nodes = t.nodes
    /\ u.loops[g] = c /\ OthersStay(t, u, g)
Active(t, g, x) == [t EXCEPT !.loops[g].active = x]
Phase(t, g, x) == [t EXCEPT !.loops[g].phase = x]
NextUp(t, g, x) == [t EXCEPT !.loops[g].next = x]
Total(t, g, x) == [t EXCEPT !.loops[g].total = x]
Phases == {"none", "ready", "running", "completed", "failed", "retry_waiting"}

LEMMA CursorPut ==
    ASSUME NEW t, IsTask(def, t), NEW g \in Gates(def), NEW c \in Cursors,
           NEW u, u = [t EXCEPT !.loops[g] = c]
    PROVE  Sets(t, u, g, c)
<1>1. PICK l : l = [t.loops EXCEPT ![g] = c]
  OBVIOUS
<1>2. u = [t EXCEPT !.loops = l]
  BY <1>1
<1>3. l \in [Gates(def) -> Cursors] /\ l[g] = c /\ \A h \in Gates(def) \ {g} : l[h] = t.loops[h]
  BY <1>1 DEF IsTask
<1> QED
  BY <1>2, <1>3 DEF IsTask, OthersStay, Sets

LEMMA ActivePut ==
    ASSUME NEW t, IsTask(def, t), NEW g \in Gates(def), NEW x \in Nat
    PROVE  Sets(t, Active(t, g, x), g, [t.loops[g] EXCEPT !.active = x])
<1>1. PICK c : c = [t.loops[g] EXCEPT !.active = x]
  OBVIOUS
<1>2. c \in Cursors
  BY <1>1 DEF IsTask, Cursors
<1>3. PICK u : u = [t EXCEPT !.loops[g] = c]
  OBVIOUS
<1>4. Active(t, g, x) = u
  BY <1>1, <1>3 DEF Active
<1> QED
  BY <1>1, <1>2, <1>3, <1>4, CursorPut

LEMMA PhasePut ==
    ASSUME NEW t, IsTask(def, t), NEW g \in Gates(def), NEW x \in Phases
    PROVE  Sets(t, Phase(t, g, x), g, [t.loops[g] EXCEPT !.phase = x])
<1>1. PICK c : c = [t.loops[g] EXCEPT !.phase = x]
  OBVIOUS
<1>2. c \in Cursors
  BY <1>1 DEF IsTask, Cursors, Phases
<1>3. PICK u : u = [t EXCEPT !.loops[g] = c]
  OBVIOUS
<1>4. Phase(t, g, x) = u
  BY <1>1, <1>3 DEF Phase
<1> QED
  BY <1>1, <1>2, <1>3, <1>4, CursorPut

LEMMA NextPut ==
    ASSUME NEW t, IsTask(def, t), NEW g \in Gates(def), NEW x \in Nat \ {0}
    PROVE  Sets(t, NextUp(t, g, x), g, [t.loops[g] EXCEPT !.next = x])
<1>1. PICK c : c = [t.loops[g] EXCEPT !.next = x]
  OBVIOUS
<1>2. c \in Cursors
  BY <1>1 DEF IsTask, Cursors
<1>3. PICK u : u = [t EXCEPT !.loops[g] = c]
  OBVIOUS
<1>4. NextUp(t, g, x) = u
  BY <1>1, <1>3 DEF NextUp
<1> QED
  BY <1>1, <1>2, <1>3, <1>4, CursorPut

LEMMA TotalPut ==
    ASSUME NEW t, IsTask(def, t), NEW g \in Gates(def), NEW x \in Nat
    PROVE  Sets(t, Total(t, g, x), g, [t.loops[g] EXCEPT !.total = x])
<1>1. PICK c : c = [t.loops[g] EXCEPT !.total = x]
  OBVIOUS
<1>2. c \in Cursors
  BY <1>1 DEF IsTask, Cursors
<1>3. PICK u : u = [t EXCEPT !.loops[g] = c]
  OBVIOUS
<1>4. Total(t, g, x) = u
  BY <1>1, <1>3 DEF Total
<1> QED
  BY <1>1, <1>2, <1>3, <1>4, CursorPut

Nodes(t, f) == [t EXCEPT !.nodes = f]
LEMMA NodesPut ==
    ASSUME NEW t, IsTask(def, t), NEW f \in [def.nodes -> NodeStates]
    PROVE  LET u == Nodes(t, f) IN
           IsTask(def, u) /\ u.status = t.status /\ u.nodes = f /\ u.loops = t.loops
BY DEF IsTask, Nodes

\* What the loops' actions make of a task.
Began(t, g, f, i) == [t EXCEPT !.nodes = f, !.loops[g].active = i, !.loops[g].phase = "running"]
Ended(t, g, f, i, phase) ==
    [t EXCEPT !.nodes = f, !.loops[g].active = 0, !.loops[g].next = i, !.loops[g].phase = phase]

\* The cursor of g is this one then, and the nodes are those.
Becoming(t, u, g, status, f, phase, next, active, total) ==
    /\ IsTask(def, u) /\ u.status = status /\ u.nodes = f /\ OthersStay(t, u, g)
    /\ u.loops[g].phase = phase /\ u.loops[g].next = next
    /\ u.loops[g].active = active /\ u.loops[g].total = total

LEMMA BeganIs ==
    ASSUME NEW t, IsTask(def, t), NEW g \in Gates(def), NEW f \in [def.nodes -> NodeStates], NEW i \in Nat
    PROVE  Becoming(t, Began(t, g, f, i), g, t.status, f, "running", t.loops[g].next, i, t.loops[g].total)
<1>1. PICK u : u = Nodes(t, f)
  OBVIOUS
<1>2. IsTask(def, u) /\ u.status = t.status /\ u.nodes = f /\ u.loops = t.loops
  BY <1>1, NodesPut
<1>3. PICK v : v = Active(u, g, i)
  OBVIOUS
<1>4. Sets(u, v, g, [u.loops[g] EXCEPT !.active = i])
  BY <1>2, <1>3, ActivePut
<1>5. PICK w : w = Phase(v, g, "running")
  OBVIOUS
<1>6. Sets(v, w, g, [v.loops[g] EXCEPT !.phase = "running"])
  <2>1. "running" \in Phases
    BY DEF Phases
  <2>2. IsTask(def, v)
    BY <1>4 DEF Sets
  <2> QED
    BY <1>5, <2>1, <2>2, PhasePut
<1>7. Began(t, g, f, i) = w
  BY <1>1, <1>3, <1>5 DEF Began, Nodes, Active, Phase
<1>8. t.loops[g] \in Cursors /\ u.loops[g] \in Cursors /\ v.loops[g] \in Cursors
  BY <1>2, <1>4 DEF IsTask, Sets
<1>9. /\ w.loops[g].phase = "running" /\ w.loops[g].next = t.loops[g].next
      /\ w.loops[g].active = i /\ w.loops[g].total = t.loops[g].total
  BY <1>2, <1>4, <1>6, <1>8 DEF Cursors, Sets
<1>10. OthersStay(t, w, g)
  BY <1>2, <1>4, <1>6 DEF OthersStay, Sets
<1> QED
  BY <1>2, <1>4, <1>6, <1>7, <1>9, <1>10 DEF Becoming, Sets

LEMMA EndedIs ==
    ASSUME NEW t, IsTask(def, t), NEW g \in Gates(def), NEW f \in [def.nodes -> NodeStates],
           NEW i \in Nat \ {0}, NEW phase \in Phases
    PROVE  Becoming(t, Ended(t, g, f, i, phase), g, t.status, f, phase, i, 0, t.loops[g].total)
<1>1. PICK u : u = Nodes(t, f)
  OBVIOUS
<1>2. IsTask(def, u) /\ u.status = t.status /\ u.nodes = f /\ u.loops = t.loops
  BY <1>1, NodesPut
<1>3. PICK v : v = Active(u, g, 0)
  OBVIOUS
<1>4. Sets(u, v, g, [u.loops[g] EXCEPT !.active = 0])
  BY <1>2, <1>3, ActivePut
<1>5. PICK w : w = NextUp(v, g, i)
  OBVIOUS
<1>6. Sets(v, w, g, [v.loops[g] EXCEPT !.next = i])
  <2>1. IsTask(def, v)
    BY <1>4 DEF Sets
  <2> QED
    BY <1>5, <2>1, NextPut
<1>7. PICK x : x = Phase(w, g, phase)
  OBVIOUS
<1>8. Sets(w, x, g, [w.loops[g] EXCEPT !.phase = phase])
  <2>1. IsTask(def, w)
    BY <1>6 DEF Sets
  <2> QED
    BY <1>7, <2>1, PhasePut
<1>9. Ended(t, g, f, i, phase) = x
  BY <1>1, <1>3, <1>5, <1>7 DEF Ended, Nodes, Active, NextUp, Phase
<1>10. t.loops[g] \in Cursors /\ v.loops[g] \in Cursors /\ w.loops[g] \in Cursors
  BY <1>4, <1>6 DEF IsTask, Sets
<1>11. v.loops[g].active = 0 /\ v.loops[g].total = t.loops[g].total
  BY <1>2, <1>4, <1>10 DEF Cursors, Sets
<1>12. w.loops[g].active = 0 /\ w.loops[g].total = t.loops[g].total /\ w.loops[g].next = i
  BY <1>6, <1>10, <1>11 DEF Cursors, Sets
<1>13. /\ x.loops[g].phase = phase /\ x.loops[g].next = i
       /\ x.loops[g].active = 0 /\ x.loops[g].total = t.loops[g].total
  BY <1>8, <1>10, <1>12 DEF Cursors, Sets
<1>14. OthersStay(t, x, g)
  BY <1>2, <1>4, <1>6, <1>8 DEF OthersStay, Sets
<1> QED
  BY <1>2, <1>4, <1>6, <1>8, <1>9, <1>13, <1>14 DEF Becoming, Sets

\* The last of a while loop's iterations, or of a loop's items, is behind it.
Closed(t, g, i) ==
    [t EXCEPT !.loops[g].active = 0, !.loops[g].next = i, !.loops[g].phase = "completed"]
LEMMA ClosedIs ==
    ASSUME NEW t, IsTask(def, t), NEW g \in Gates(def), NEW i \in Nat \ {0}
    PROVE  Becoming(t, Closed(t, g, i), g, t.status, t.nodes, "completed", i, 0, t.loops[g].total)
<1>1. PICK f \in [def.nodes -> NodeStates] : f = t.nodes
  BY DEF IsTask, Sets
<1>2. t = [t EXCEPT !.nodes = f]
  BY <1>1 DEF IsTask, Sets
<1>3. PICK u : u = [t EXCEPT !.nodes = f]
  OBVIOUS
<1>4. Ended(t, g, f, i, "completed")
        = [u EXCEPT !.loops[g].active = 0, !.loops[g].next = i, !.loops[g].phase = "completed"]
  BY <1>3 DEF Ended
<1>5. Closed(t, g, i) = Ended(t, g, f, i, "completed")
  BY <1>2, <1>3, <1>4 DEF Closed
<1>6. "completed" \in Phases
  BY DEF Phases
<1> QED
  BY <1>1, <1>5, <1>6, EndedIs

\* A loop that begins, with its items.
Opened(t, g, n) == [t EXCEPT !.loops[g].phase = "ready", !.loops[g].total = n]
LEMMA OpenedIs ==
    ASSUME NEW t, IsTask(def, t), NEW g \in Gates(def), NEW n \in Nat
    PROVE  Becoming(t, Opened(t, g, n), g, t.status, t.nodes, "ready", t.loops[g].next, t.loops[g].active, n)
<1>1. PICK u : u = Phase(t, g, "ready")
  OBVIOUS
<1>2. Sets(t, u, g, [t.loops[g] EXCEPT !.phase = "ready"])
  <2>1. "ready" \in Phases
    BY DEF Phases
  <2> QED
    BY <1>1, <2>1, PhasePut
<1>3. PICK v : v = Total(u, g, n)
  OBVIOUS
<1>4. Sets(u, v, g, [u.loops[g] EXCEPT !.total = n])
  <2>1. IsTask(def, u)
    BY <1>2 DEF Sets
  <2> QED
    BY <1>3, <2>1, TotalPut
<1>5. Opened(t, g, n) = v
  BY <1>1, <1>3 DEF Opened, Phase, Total
<1>6. t.loops[g] \in Cursors /\ u.loops[g] \in Cursors
  BY <1>2 DEF IsTask, Sets
<1>7. /\ v.loops[g].phase = "ready" /\ v.loops[g].next = t.loops[g].next
      /\ v.loops[g].active = t.loops[g].active /\ v.loops[g].total = n
  BY <1>2, <1>4, <1>6 DEF Cursors, Sets
<1>8. OthersStay(t, v, g)
  BY <1>2, <1>4 DEF OthersStay, Sets
<1> QED
  BY <1>2, <1>4, <1>5, <1>7, <1>8 DEF Becoming, Sets

\* One that stops with an iteration it has not been through.
Broken(t, g, status) == [t EXCEPT !.status = status, !.loops[g].phase = status]
LEMMA BrokenIs ==
    ASSUME NEW t, IsTask(def, t), NEW g \in Gates(def), NEW status \in {"failed", "retry_waiting"}
    PROVE  Becoming(t, Broken(t, g, status), g, status, t.nodes, status,
                    t.loops[g].next, t.loops[g].active, t.loops[g].total)
<1>1. PICK u : u = [t EXCEPT !.status = status]
  OBVIOUS
<1>2. IsTask(def, u) /\ u.status = status /\ u.nodes = t.nodes /\ u.loops = t.loops
  BY <1>1 DEF IsTask, Sets
<1>3. PICK v : v = Phase(u, g, status)
  OBVIOUS
<1>4. Sets(u, v, g, [u.loops[g] EXCEPT !.phase = status])
  <2>1. status \in Phases
    BY DEF Phases
  <2> QED
    BY <1>2, <1>3, <2>1, PhasePut
<1>5. Broken(t, g, status) = v
  BY <1>1, <1>3 DEF Broken, Phase
<1>6. t.loops[g] \in Cursors /\ u.loops[g] \in Cursors
  BY <1>2 DEF IsTask, Sets
<1>7. /\ v.loops[g].phase = status /\ v.loops[g].next = t.loops[g].next
      /\ v.loops[g].active = t.loops[g].active /\ v.loops[g].total = t.loops[g].total
  BY <1>2, <1>4, <1>6 DEF Cursors, Sets
<1>8. OthersStay(t, v, g)
  BY <1>2, <1>4 DEF OthersStay, Sets
<1> QED
  BY <1>2, <1>4, <1>5, <1>7, <1>8 DEF Becoming, Sets

-----------------------------------------------------------------------------
(* The loops *)
\* A loop is at work on its cursor and on the nodes of its body, and on no other.
LEMMA LoopPreserves ==
    ASSUME Shape, run.at # "none", run.n \in LoopSteps,
           disk' = task', def' = def, steps' = steps,
           NEW status \in {"running", "failed", "retry_waiting"}, NEW f,
           NEW phase, NEW next, NEW active, NEW total,
           Becoming(task, task', steps[run.n].id, status, f, phase, next, active, total),
           IsRun(run'), Fits(run'), run'.at = "none" \/ (run'.n = run.n /\ status = "running"),
           \A n \in def.nodes \ ToSet(steps[run.n].body) : f[n].iterations = task.nodes[n].iterations,
           IsNotRedone, CountInv => Counted(disk', run', run.n)
    PROVE  Preserves
<1> DEFINE p == run.n
           g == steps[p].id
<1>1. /\ task = disk /\ IsTask(def, task') /\ disk'.status = status /\ disk'.nodes = f
      /\ \A h \in Gates(def) \ {g} : disk'.loops[h] = disk.loops[h]
  BY RunsOn DEF Becoming, OthersStay
<1>2. Shape'
  BY <1>1, ShapeNext
<1>3. SUFFICES ASSUME CountInv, NEW i \in LoopSteps PROVE Counted(disk', run', i)
  BY <1>2, CountNext DEF Preserves
<1>4. CASE i = p
  BY <1>3, <1>4
<1>5. CASE i # p
  <2>1. steps[i].id \in Gates(def) /\ steps[i].id # g
    BY <1>5 DEF Shape, PlanOK
  <2>2. disk'.loops[steps[i].id] = disk.loops[steps[i].id]
    BY <1>1, <2>1
  <2>3. Counted(disk, run, i)
    BY <1>3 DEF CountInv
  <2>4. CursorOK(disk', i) /\ (Finished(disk, i) => Finished(disk', i)) /\ Cap(disk', i) = Cap(disk, i)
    BY <2>2, <2>3 DEF Counted, CursorOK, Finished, Cap
  <2>5. ToSet(steps[i].body) \cap ToSet(steps[p].body) = {}
    BY <1>3, <1>5 DEF CountInv, BodiesApart
  <2>6. \A n \in ToSet(steps[i].body) \cap def.nodes : disk'.nodes[n].iterations = disk.nodes[n].iterations
    BY <1>1, <2>5
  <2>7. PassesOK(disk', i)
    BY <2>2, <2>3, <2>4, <2>6 DEF Counted, PassesOK
  <2>8. IsPast(disk', run', i) => IsPast(disk, run, i)
    BY <1>1, <1>5 DEF IsPast
  <2>9. ~Turns(run', i)
    BY <1>5 DEF Turns
  <2> QED
    BY <2>3, <2>4, <2>7, <2>8, <2>9 DEF Counted
<1> QED
  BY <1>4, <1>5

\* Where a loop of the plan is, and its cursor.
LEMMA AtLoop ==
    ASSUME Shape, run.at # "none", run.n \in LoopSteps
    PROVE  /\ task = disk /\ IsTask(def, task) /\ task.status = "running"
           /\ IsRun(run) /\ Fits(run) /\ run.n \in 1 .. Len(steps) /\ run.n \in Nat /\ Len(steps) \in Nat
           /\ Step = steps[run.n] /\ Step.type \in {"loop", "while"}
           /\ Step.id \in Gates(def) /\ Cursor \in Cursors /\ Cursor = task.loops[steps[run.n].id]
           /\ Iteration \in Nat \ {0} /\ (Cursor.active = 0 => Iteration = Cursor.next)
           /\ (Cursor.active > 0 => Iteration = Cursor.active)
<1>1. /\ task = disk /\ IsTask(def, task) /\ task.status = "running"
      /\ IsRun(run) /\ Fits(run) /\ run.n \in 1 .. Len(steps) /\ run.n \in Nat /\ Len(steps) \in Nat
      /\ Step = steps[run.n] /\ Step.type \in {"loop", "while"} /\ Step.id \in Gates(def)
  BY RunsOn DEF Shape, PlanOK, LoopSteps, Step
<1>2. Cursor \in Cursors /\ Cursor = task.loops[steps[run.n].id]
  BY <1>1 DEF Cursor, IsTask
<1>3. Cursor.active \in Nat /\ Cursor.next \in Nat \ {0}
  BY <1>2 DEF Cursors
<1>4. /\ Iteration \in Nat \ {0} /\ (Cursor.active = 0 => Iteration = Cursor.next)
      /\ (Cursor.active > 0 => Iteration = Cursor.active)
  BY <1>3 DEF Iteration
<1> QED
  BY <1>1, <1>2, <1>4

\* An iteration begins, and its nodes anew unless it had begun before.
LEMMA BegunIs ==
    ASSUME Shape, run.at # "none", run.n \in LoopSteps, task' = IterationBegun(Iteration), disk' = task'
    PROVE  \E f \in [def.nodes -> NodeStates] :
              /\ Becoming(task, task', steps[run.n].id, "running", f,
                          "running", Cursor.next, Iteration, Cursor.total)
              /\ \A n \in def.nodes : f[n].iterations = task.nodes[n].iterations
              /\ IsNotRedone
<1> DEFINE p == run.n
           g == steps[p].id
           body == ToSet(Step.body)
<1>1. PICK f : f = [n \in def.nodes |-> IF Cursor.active # Iteration /\ n \in body
                                        THEN Reset(task.nodes[n]) ELSE task.nodes[n]]
  OBVIOUS
<1>2. task = disk /\ IsTask(def, task) /\ task.nodes \in [def.nodes -> NodeStates]
  BY AtLoop DEF IsTask
<1>3. ASSUME NEW n \in def.nodes
      PROVE  f[n] \in NodeStates /\ f[n].iterations = task.nodes[n].iterations
             /\ (f[n].status = "pending" => task.nodes[n].status = "pending" \/ (Cursor.active # Iteration /\ n \in body))
  <2>1. PICK s \in NodeStates : s = task.nodes[n]
    BY <1>2
  <2>2. Reset(s) \in NodeStates /\ Reset(s).iterations = s.iterations
    BY DEF Reset, NodeStates, Statuses
  <2>3. f[n] = IF Cursor.active # Iteration /\ n \in body THEN Reset(s) ELSE s
    BY <1>1, <2>1
  <2> QED
    BY <2>1, <2>2, <2>3
<1>4. f \in [def.nodes -> NodeStates]
  BY <1>1, <1>3
<1>5. f = IF Cursor.active # Iteration THEN ResetAll(Step.body) ELSE task.nodes
  <2>1. CASE Cursor.active # Iteration
    BY <1>1, <2>1 DEF ResetAll
  <2>2. CASE Cursor.active = Iteration
    <3>1. f = [n \in def.nodes |-> task.nodes[n]]
      BY <1>1, <2>2
    <3> QED
      BY <1>2, <2>2, <3>1
  <2> QED
    BY <2>1, <2>2
<1>6. task' = Began(task, g, f, Iteration)
  <2>1. task' = [task EXCEPT !.nodes = IF Cursor.active # Iteration THEN ResetAll(Step.body) ELSE @,
                     !.loops[Step.id].active = Iteration, !.loops[Step.id].phase = "running"]
    BY DEF IterationBegun
  <2>2. [task EXCEPT !.nodes = IF Cursor.active # Iteration THEN ResetAll(Step.body) ELSE @,
                     !.loops[Step.id].active = Iteration, !.loops[Step.id].phase = "running"]
        = [task EXCEPT !.nodes = f, !.loops[Step.id].active = Iteration, !.loops[Step.id].phase = "running"]
    BY <1>5
  <2> QED
    BY <2>1, <2>2, AtLoop DEF Began
<1>7. Becoming(task, task', g, "running", f, "running", Cursor.next, Iteration, Cursor.total)
  BY <1>2, <1>4, <1>6, AtLoop, BeganIs
<1>8. IsNotRedone
  <2> SUFFICES ASSUME NEW n \in def.nodes, disk.nodes[n].status = "completed", disk'.nodes[n].status = "pending"
               PROVE  \E i \in DOMAIN steps :
                          /\ steps[i].type \in {"loop", "while"} /\ n \in ToSet(steps[i].body)
                          /\ disk'.loops[steps[i].id].active \notin {0, disk.loops[steps[i].id].active}
    BY DEF IsNotRedone
  <2>1. n \in body /\ Cursor.active # Iteration
    BY <1>2, <1>3, <1>7 DEF Becoming
  <2>2. disk'.loops[g].active = Iteration /\ disk.loops[g].active = Cursor.active /\ Iteration # 0
    BY <1>2, <1>7, AtLoop DEF Becoming
  <2> QED
    BY <2>1, <2>2, AtLoop DEF LoopSteps
<1> QED
  BY <1>3, <1>4, <1>7, <1>8

LEMMA BegunCounts ==
    ASSUME Shape, run.at # "none", run.n \in LoopSteps, CountInv, disk' = task',
           NEW f, Becoming(task, task', steps[run.n].id, "running", f,
                           "running", Cursor.next, Iteration, Cursor.total),
           \A n \in def.nodes : f[n].iterations = task.nodes[n].iterations,
           run'.n = run.n, run'.at \notin {"exit", "left"},
           Cursor.phase # "completed", Iteration <= Cap(task, run.n)
    PROVE  Counted(disk', run', run.n)
<1> DEFINE p == run.n
<1>1. Counted(task, run, p) /\ MaxIterations \in Nat
  BY AtLoop DEF CountInv
<1>2. PICK c : c = disk'.loops[steps[p].id]
  OBVIOUS
<1>3. /\ c.phase = "running" /\ c.next = Cursor.next /\ c.active = Iteration /\ c.total = Cursor.total
      /\ disk'.nodes = f /\ disk'.status = "running"
  BY <1>2 DEF Becoming
<1>4. Cap(disk', p) = Cap(task, p) /\ Cap(task, p) \in Nat
  BY <1>1, <1>2, <1>3, AtLoop DEF Cap, Cursors
<1>5. CursorOK(task, p) /\ PassesOK(task, p) /\ Cursor = task.loops[steps[p].id]
  BY <1>1, AtLoop DEF Counted
<1>6. CursorOK(disk', p)
  <2>1. Iteration = Cursor.next
    <3>1. Cursor.active \in {0, Cursor.next}
      BY <1>5 DEF CursorOK
    <3>2. Cursor.next \in Nat \ {0} /\ (Cursor.active = 0 => Iteration = Cursor.next)
          /\ (Cursor.active > 0 => Iteration = Cursor.active)
      <4>1. Cursor \in Cursors
        BY AtLoop
      <4> QED
        BY <4>1, AtLoop DEF Cursors
    <3> QED
      BY <3>1, <3>2
  <2>2. Cursor.next <= Cap(task, p) + 1
    BY <1>5 DEF CursorOK
  <2> QED
    BY <1>2, <1>3, <1>4, <2>1, <2>2 DEF CursorOK
<1>7. PassesOK(disk', p)
  BY <1>2, <1>3, <1>4, <1>5 DEF PassesOK
<1>8. ~IsPast(disk', run', p)
  BY <1>3, AtLoop DEF IsPast
<1>9. disk'.loops[steps[p].id].active > 0
  BY <1>2, <1>3, AtLoop
<1> QED
  BY <1>6, <1>7, <1>8, <1>9 DEF Counted

\* An iteration ends, and every node of the body remembers what it came to.
Remembers(f, n, i) ==
    \E r \in Passes : r.i = i /\ f[n].iterations = Append(task.nodes[n].iterations, r)
LEMMA OverIs ==
    ASSUME Shape, run.at # "none", run.n \in LoopSteps, NEW phase \in Phases,
           task' = IterationEnded(Cursor.active, phase), disk' = task'
    PROVE  \E f \in [def.nodes -> NodeStates] :
              /\ Becoming(task, task', steps[run.n].id, "running", f,
                          phase, Cursor.active + 1, 0, Cursor.total)
              /\ \A n \in def.nodes \ ToSet(steps[run.n].body) : f[n].iterations = task.nodes[n].iterations
              /\ \A n \in def.nodes \cap ToSet(steps[run.n].body) : Remembers(f, n, Cursor.active)
              /\ IsNotRedone
<1> DEFINE g == steps[run.n].id
           body == ToSet(Step.body)
<1>1. PICK a \in Nat : a = Cursor.active
  <2>1. Cursor \in Cursors
    BY AtLoop
  <2> QED
    BY <2>1 DEF Cursors
<1>2. PICK f : f = Snapshot(Step.body, a)
  OBVIOUS
<1>3. task = disk /\ IsTask(def, task) /\ task.nodes \in [def.nodes -> NodeStates]
  BY AtLoop DEF IsTask
<1>4. ASSUME NEW n \in def.nodes
      PROVE  /\ f[n] \in NodeStates /\ f[n].status = task.nodes[n].status
             /\ n \notin body => f[n].iterations = task.nodes[n].iterations
             /\ n \in body => Remembers(f, n, a)
  <2>1. PICK s \in NodeStates : s = task.nodes[n]
    BY <1>3
  <2>2. PICK r : r = [i |-> a, status |-> s.status, attempt |-> s.attempt]
    OBVIOUS
  <2>3. r \in Passes /\ r.i = a
    BY <2>2 DEF Passes, NodeStates
  <2>4. PICK x : x = Append(s.iterations, r)
    OBVIOUS
  <2>5. x \in Seq(Passes)
    BY <2>3, <2>4 DEF NodeStates
  <2>6. f[n] = IF n \in body THEN [s EXCEPT !.iterations = x] ELSE s
    BY <1>2, <2>1, <2>2, <2>4 DEF Snapshot
  <2>7. /\ [s EXCEPT !.iterations = x] \in NodeStates
        /\ [s EXCEPT !.iterations = x].status = s.status /\ [s EXCEPT !.iterations = x].iterations = x
    BY <2>5 DEF NodeStates
  <2>8. n \in body => Remembers(f, n, a)
    BY <2>1, <2>3, <2>4, <2>6, <2>7 DEF Remembers
  <2> QED
    BY <2>1, <2>6, <2>7, <2>8
<1>5. f = [n \in def.nodes |-> f[n]]
  BY <1>2 DEF Snapshot
<1>6. f \in [def.nodes -> NodeStates]
  BY <1>4, <1>5
<1>7. task' = Ended(task, g, f, a + 1, phase)
  BY <1>1, <1>2, AtLoop DEF IterationEnded, Ended
<1>8. a + 1 \in Nat \ {0}
  OBVIOUS
<1>9. g \in Gates(def)
  BY AtLoop
<1>10. Becoming(task, Ended(task, g, f, a + 1, phase), g, task.status, f, phase, a + 1, 0, task.loops[g].total)
  BY <1>3, <1>6, <1>8, <1>9, EndedIs
<1>11. Becoming(task, task', g, "running", f, phase, Cursor.active + 1, 0, Cursor.total)
  BY <1>1, <1>7, <1>10, AtLoop
<1>12. IsNotRedone
  BY <1>3, <1>4, <1>11 DEF IsNotRedone, Becoming
<1>13. body = ToSet(steps[run.n].body)
  BY AtLoop
<1> QED
  BY <1>1, <1>4, <1>6, <1>11, <1>12, <1>13

LEMMA OverCounts ==
    ASSUME Shape, run.at # "none", run.n \in LoopSteps, CountInv, disk' = task',
           NEW f, NEW phase \in {"ready", "completed"},
           Becoming(task, task', steps[run.n].id, "running", f,
                    phase, Cursor.active + 1, 0, Cursor.total),
           \A n \in def.nodes \cap ToSet(steps[run.n].body) : Remembers(f, n, Cursor.active),
           phase = "completed" => Step.type = "while",
           Cursor.active > 0, run'.n = run.n, run'.at \in {"plan", "exit", "loop"},
           run'.at = "exit" => phase = "completed"
    PROVE  Counted(disk', run', run.n)
<1> DEFINE p == run.n
<1>1. Counted(task, run, p) /\ MaxIterations \in Nat
  BY AtLoop DEF CountInv
<1>2. PICK c : c = disk'.loops[steps[p].id]
  OBVIOUS
<1>3. /\ c.phase = phase /\ c.next = Cursor.active + 1 /\ c.active = 0 /\ c.total = Cursor.total
      /\ disk'.nodes = f /\ disk'.status = "running"
  BY <1>2 DEF Becoming
<1>4. Cap(disk', p) = Cap(task, p) /\ Cap(task, p) \in Nat
  <2>1. Cursor \in Cursors
    BY AtLoop
  <2> QED
    BY <1>1, <1>2, <1>3, <2>1, AtLoop DEF Cap, Cursors
<1>5. PICK a \in Nat : a = Cursor.active
  <2>1. Cursor \in Cursors
    BY AtLoop
  <2> QED
    BY <2>1 DEF Cursors
<1>6. Cursor.next = a /\ a > 0 /\ a <= Cap(task, p)
  <2>1. CursorOK(task, p) /\ Cursor = task.loops[steps[p].id]
    BY <1>1, AtLoop DEF Counted
  <2>2. Cursor.active \in {0, Cursor.next} /\ (Cursor.active > 0 => Cursor.active <= Cap(task, p))
    BY <2>1 DEF CursorOK
  <2>3. Cursor.active > 0 /\ Cursor.active # 0
    BY <1>5
  <2> QED
    BY <1>5, <2>2, <2>3
<1>7. steps[p].type = Step.type /\ Step.type \in {"loop", "while"}
  BY AtLoop
<1>8. CursorOK(disk', p)
  BY <1>2, <1>3, <1>4, <1>5, <1>6, <1>7 DEF CursorOK
<1>9. PassesOK(disk', p)
  <2> SUFFICES ASSUME NEW n \in ToSet(steps[p].body) \cap def.nodes
               PROVE  /\ Len(f[n].iterations) = IF a + 1 > Cap(task, p) THEN Cap(task, p) ELSE (a + 1) - 1
                      /\ \A j \in DOMAIN f[n].iterations : f[n].iterations[j].i = j
    BY <1>2, <1>3, <1>4, <1>5 DEF PassesOK
  <2>1. PICK r \in Passes : r.i = a /\ f[n].iterations = Append(task.nodes[n].iterations, r)
    BY <1>5 DEF Remembers
  <2>2. PICK old \in Seq(Passes) : old = task.nodes[n].iterations
    <3>1. task.nodes[n] \in NodeStates
      BY AtLoop DEF IsTask
    <3> QED
      BY <3>1 DEF NodeStates
  <2>3. Len(old) = a - 1 /\ \A j \in DOMAIN old : old[j].i = j
    <3>1. /\ Len(old) = IF Cursor.next > Cap(task, p) THEN Cap(task, p) ELSE Cursor.next - 1
          /\ \A j \in DOMAIN old : old[j].i = j
      BY <1>1, <2>2, AtLoop DEF Counted, PassesOK
    <3> QED
      BY <1>4, <1>6, <3>1
  <2>4. PICK new : new = Append(old, r)
    OBVIOUS
  <2>5. Len(new) = a /\ DOMAIN new = 1 .. a /\ \A j \in 1 .. a : new[j] = IF j = a THEN r ELSE old[j]
    BY <1>5, <1>6, <2>3, <2>4
  <2>6. \A j \in DOMAIN new : new[j].i = j
    BY <1>5, <1>6, <2>1, <2>3, <2>5
  <2> QED
    BY <1>4, <1>5, <1>6, <2>1, <2>2, <2>4, <2>5, <2>6
<1>10. IsPast(disk', run', p) => Finished(disk', p)
  BY <1>2, <1>3, AtLoop DEF IsPast, Finished
<1>11. ~Turns(run', p)
  BY DEF Turns
<1> QED
  BY <1>8, <1>9, <1>10, <1>11 DEF Counted

\* A loop that has no turn left.
LEMMA ClosedCounts ==
    ASSUME Shape, run.at # "none", run.n \in LoopSteps, CountInv, disk' = task', NEW next,
           Becoming(task, task', steps[run.n].id, "running", task.nodes,
                    "completed", next, 0, Cursor.total),
           Iteration > Cap(task, run.n), Cursor.phase # "completed",
           \/ Step.type = "while" /\ next = Iteration + 1
           \/ Step.type = "loop" /\ next = Cursor.next,
           run'.n = run.n, run'.at = "exit"
    PROVE  Counted(disk', run', run.n)
<1> DEFINE p == run.n
<1>1. Counted(task, run, p) /\ MaxIterations \in Nat
  BY AtLoop DEF CountInv
<1>2. PICK c : c = disk'.loops[steps[p].id]
  OBVIOUS
<1>3. /\ c.phase = "completed" /\ c.next = next /\ c.active = 0 /\ c.total = Cursor.total
      /\ disk'.nodes = task.nodes /\ disk'.status = "running"
  BY <1>2 DEF Becoming
<1>4. Cap(disk', p) = Cap(task, p) /\ Cap(task, p) \in Nat
  <2>1. Cursor \in Cursors
    BY AtLoop
  <2> QED
    BY <1>1, <1>2, <1>3, <2>1, AtLoop DEF Cap, Cursors
<1>5. CursorOK(task, p) /\ PassesOK(task, p) /\ Cursor = task.loops[steps[p].id]
  BY <1>1, AtLoop DEF Counted
<1>6. /\ Iteration = Cursor.next /\ Cursor.next \in Nat \ {0} /\ Cursor.next > Cap(task, p)
      /\ Cursor.next <= Cap(task, p) + 1
  <2>1. /\ Cursor.active \in {0, Cursor.next} /\ (Cursor.active > 0 => Cursor.active <= Cap(task, p))
        /\ Cursor.next <= Cap(task, p) + 1
    BY <1>5 DEF CursorOK
  <2>2. Cursor.active \in Nat /\ Cursor.next \in Nat \ {0}
    <3>1. Cursor \in Cursors
      BY AtLoop
    <3> QED
      BY <3>1 DEF Cursors
  <2>3. (Cursor.active = 0 => Iteration = Cursor.next) /\ (Cursor.active > 0 => Iteration = Cursor.active)
    BY AtLoop
  <2> QED
    BY <1>4, <2>1, <2>2, <2>3
<1>7. steps[p].type = Step.type /\ Step.type \in {"loop", "while"}
  BY AtLoop
<1>8. next \in Nat /\ next > Cap(task, p) /\ (Step.type = "loop" => next <= Cap(task, p) + 1)
  BY <1>4, <1>6
<1>9. CursorOK(disk', p)
  BY <1>2, <1>3, <1>4, <1>7, <1>8 DEF CursorOK
<1>10. PassesOK(disk', p)
  BY <1>2, <1>3, <1>4, <1>5, <1>6, <1>8 DEF PassesOK
<1>11. Finished(disk', p) /\ ~Turns(run', p)
  BY <1>2, <1>3 DEF Finished, Turns
<1> QED
  BY <1>9, <1>10, <1>11 DEF Counted

\* Where a loop lets the run go.
LEMMA LoopGoes ==
    ASSUME Shape, run.at # "none", run.n \in LoopSteps, NEW at, Goes(at, run.n, <<>>),
           at \in {"plan", "exit"} \/ (at \in {"loop", "body"} /\ Step.type = "loop")
    PROVE  IsRun(run') /\ Fits(run') /\ run'.at = at /\ run'.n = run.n
<1>1. at \in Spots /\ run.n \in 1 .. Len(steps) /\ run.n \in Nat /\ Len(steps) \in Nat
  BY AtLoop DEF Spots
<1>2. Step = steps[run.n] /\ Step.type \in {"loop", "while"}
  BY AtLoop
<1>3. IsRun(run') /\ run'.at = at /\ run'.n = run.n /\ run'.threads = <<>>
  BY <1>1, NoThreads, GoesRun
<1>4. Threads(run'.threads)
  BY <1>3, NoThreads
<1>5. run'.n \in 1 .. Len(steps) + 1
  BY <1>1, <1>3
<1>6. Fits(run')
  BY <1>1, <1>2, <1>3, <1>4, <1>5, PlainFits
<1> QED
  BY <1>3, <1>6

LEMMA LoopRuns ==
    ASSUME Shape, run.at # "none", run.n \in LoopSteps, NEW s, Runs("while", s), Step.type = "while"
    PROVE  IsRun(run') /\ Fits(run') /\ run'.at = "while" /\ run'.n = run.n
<1>1. run.n \in 1 .. Len(steps) /\ run.n \in Nat /\ Len(steps) \in Nat /\ Step = steps[run.n]
  BY AtLoop
<1>2. "while" \in Spots
  BY DEF Spots
<1>3. IsRun(run') /\ run'.at = "while" /\ run'.n = run.n /\ Threads(run'.threads)
  BY <1>2, RunsRun
<1>4. run'.n \in 1 .. Len(steps) + 1
  BY <1>1, <1>3
<1>5. Fits(run')
  BY <1>1, <1>3, <1>4, PlainFits
<1> QED
  BY <1>3, <1>5

LEMMA StayPreserves ==
    ASSUME Shape, run.at # "none", run.n \in LoopSteps, UNCHANGED <<def, steps, disk, task>>,
           IsRun(run'), Fits(run'), run'.at # "none", run'.n = run.n,
           run'.at \in {"exit", "left"} => Finished(disk, run.n),
           run'.at \in {"while", "body", "bodystep"} => run.at \in {"while", "body", "bodystep"}
    PROVE  Preserves
<1>1. ASSUME NEW i \in LoopSteps, Counted(disk, run, i)
      PROVE  (IsPast(disk', run', i) => Finished(disk, i)) /\ (Turns(run', i) => Turns(run, i))
  <2>1. IsPast(disk', run', i) => IsPast(disk, run, i) \/ (run'.at \in {"exit", "left"} /\ i = run.n)
    BY DEF IsPast
  <2> QED
    BY <1>1, <2>1 DEF Turns, Counted
<1> QED
  BY <1>1, MovePreserves

LEMMA LoopPlace ==
    ASSUME Shape, NEW type \in {"loop", "while"}, AtStep(type)
    PROVE  run.at = "plan" /\ run.n \in LoopSteps /\ Step.type = type
<1>1. run.at = "plan" /\ run.n <= Len(steps) /\ Step.type = type /\ steps[run.n].type = type
  BY DEF AtStep, Step
<1>2. run.n \in 1 .. Len(steps)
  BY <1>1, RunsOn
<1> QED
  BY <1>1, <1>2 DEF LoopSteps, Shape, PlanOK

\* The part of the cursor the guards of the loops read.
LEMMA CursorTyped ==
    ASSUME Shape, run.at # "none", run.n \in LoopSteps
    PROVE  Cursor.next \in Nat \ {0} /\ Cursor.active \in Nat /\ Cursor.total \in Nat
<1>1. Cursor \in Cursors
  BY AtLoop
<1> QED
  BY <1>1 DEF Cursors

LEMMA WhilePreserves ==
    ASSUME Shape, While
    PROVE  Preserves
<1>1. run.at = "plan" /\ run.n \in LoopSteps /\ Step.type = "while"
  BY LoopPlace DEF While
<1>2. def' = def /\ steps' = steps
  BY DEF While
<1>3. CASE Cursor.phase = "completed"
  <2>1. Goes("exit", run.n, <<>>) /\ UNCHANGED <<disk, task>>
    BY <1>3 DEF While
  <2>2. IsRun(run') /\ Fits(run') /\ run'.at = "exit" /\ run'.n = run.n
    BY <1>1, <2>1, LoopGoes
  <2>3. Finished(disk, run.n)
    BY <1>1, <1>3, AtLoop DEF Finished
  <2> QED
    BY <1>1, <1>2, <2>1, <2>2, <2>3, StayPreserves
<1>4. CASE Cursor.phase # "completed" /\ Iteration > MaxIterations
  <2>1. task' = LoopCompleted(Iteration + 1) /\ disk' = task' /\ Goes("exit", run.n, <<>>)
    BY <1>4 DEF While, Save
  <2>2. IsRun(run') /\ Fits(run') /\ run'.at = "exit" /\ run'.n = run.n
    BY <1>1, <2>1, LoopGoes
  <2>3. PICK next \in Nat \ {0} : next = Iteration + 1
    BY <1>1, AtLoop
  <2>4. task' = Closed(task, Step.id, next)
    BY <2>1, <2>3 DEF LoopCompleted, Closed
  <2>5. Becoming(task, task', steps[run.n].id, "running", task.nodes, "completed", next, 0, Cursor.total)
    <3>1. Becoming(task, Closed(task, Step.id, next), Step.id, task.status, task.nodes, "completed", next, 0,
                   task.loops[Step.id].total)
      BY <1>1, AtLoop, ClosedIs
    <3> QED
      BY <1>1, <2>4, <3>1, AtLoop
  <2>6. IsNotRedone
    BY <1>1, <2>1, <2>5, AtLoop DEF IsNotRedone, Becoming
  <2>7. CountInv => Counted(disk', run', run.n)
    <3>1. Cap(task, run.n) = MaxIterations
      BY <1>1, AtLoop DEF Cap
    <3> QED
      BY <1>1, <1>4, <2>1, <2>2, <2>3, <2>5, <3>1, ClosedCounts
  <2> QED
    BY <1>1, <1>2, <2>1, <2>2, <2>5, <2>6, <2>7, LoopPreserves
<1>5. CASE Cursor.phase # "completed" /\ ~(Iteration > MaxIterations)
  <2>1. task' = IterationBegun(Iteration) /\ disk' = task' /\ Runs("while", <<Step.body>>)
    BY <1>5 DEF While, Save
  <2>2. PICK s : s = <<Step.body>>
    OBVIOUS
  <2>3. IsRun(run') /\ Fits(run') /\ run'.at = "while" /\ run'.n = run.n
    BY <1>1, <2>1, <2>2, LoopRuns
  <2>4. PICK f \in [def.nodes -> NodeStates] :
              /\ Becoming(task, task', steps[run.n].id, "running", f,
                          "running", Cursor.next, Iteration, Cursor.total)
              /\ \A n \in def.nodes : f[n].iterations = task.nodes[n].iterations
              /\ IsNotRedone
    BY <1>1, <2>1, BegunIs
  <2>5. CountInv => Counted(disk', run', run.n)
    <3>1. SUFFICES ASSUME CountInv PROVE Counted(disk', run', run.n)
      OBVIOUS
    <3>2. Iteration <= Cap(task, run.n)
      <4>1. Cap(task, run.n) = MaxIterations /\ MaxIterations \in Nat
        BY <1>1, <3>1, AtLoop DEF Cap, CountInv
      <4>2. Iteration \in Nat
        BY <1>1, AtLoop
      <4> QED
        BY <1>5, <4>1, <4>2
    <3> QED
      BY <1>1, <1>5, <2>1, <2>3, <2>4, <3>1, <3>2, BegunCounts
  <2> QED
    BY <1>1, <1>2, <2>1, <2>3, <2>4, <2>5, LoopPreserves
<1> QED
  BY <1>3, <1>4, <1>5

\* An iteration that is not completed.
LEMMA BreaksPreserves ==
    ASSUME Shape, run.at \in {"while", "bodystep"}, NEW status \in {"failed", "retry_waiting"},
           IterationBreaks(status), UNCHANGED <<def, steps>>
    PROVE  Preserves
<1>1. run.at # "none" /\ run.n \in LoopSteps
  BY RunsOn DEF Shape, Fits, PlanOK, LoopSteps
<1>2. task' = Broken(task, Step.id, status) /\ disk' = task' /\ run' = NoRun
  BY DEF IterationBreaks, Finish, Save, Broken
<1>3. IsRun(run') /\ Fits(run') /\ run'.at = "none"
  BY <1>2, NowhereRun
<1>4. Becoming(task, task', steps[run.n].id, status, task.nodes, status,
               Cursor.next, Cursor.active, Cursor.total)
  <2>1. Becoming(task, Broken(task, Step.id, status), Step.id, status, task.nodes, status,
                 task.loops[Step.id].next, task.loops[Step.id].active, task.loops[Step.id].total)
    BY <1>1, AtLoop, BrokenIs
  <2> QED
    BY <1>1, <1>2, <2>1, AtLoop
<1>5. IsNotRedone
  BY <1>1, <1>2, <1>4, AtLoop DEF IsNotRedone, Becoming
<1>6. ASSUME CountInv PROVE Counted(disk', run', run.n)
  <2>1. Counted(task, run, run.n) /\ Turns(run, run.n)
    BY <1>1, <1>6, AtLoop DEF CountInv, Turns
  <2>2. PICK c : c = disk'.loops[steps[run.n].id]
    OBVIOUS
  <2>3. /\ c.phase = status /\ c.next = Cursor.next /\ c.active = Cursor.active /\ c.total = Cursor.total
        /\ disk'.nodes = task.nodes /\ disk'.status = status
    BY <1>2, <1>4, <2>2 DEF Becoming
  <2>4. Cap(disk', run.n) = Cap(task, run.n) /\ Cursor = task.loops[steps[run.n].id]
    BY <1>1, <2>2, <2>3, AtLoop DEF Cap
  <2>5. /\ Cursor.active \in {0, Cursor.next} /\ Cursor.active > 0 /\ Cursor.phase # "completed"
        /\ Cursor.active <= Cap(task, run.n) /\ Cursor.next <= Cap(task, run.n) + 1
    BY <2>1, <2>4 DEF Counted, CursorOK
  <2>6. CursorOK(disk', run.n)
    BY <2>2, <2>3, <2>4, <2>5 DEF CursorOK
  <2>7. PassesOK(disk', run.n)
    BY <2>1, <2>2, <2>3, <2>4 DEF Counted, PassesOK
  <2>8. ~IsPast(disk', run', run.n) /\ ~Turns(run', run.n)
    BY <1>3, <2>3 DEF IsPast, Turns
  <2> QED
    BY <2>6, <2>7, <2>8 DEF Counted
<1> QED
  BY <1>1, <1>2, <1>3, <1>4, <1>5, <1>6, LoopPreserves

\* One that is.
LEMMA OverPreserves ==
    ASSUME Shape, run.at \in {"while", "body"}, NEW phase \in {"ready", "completed"},
           task' = IterationEnded(Cursor.active, phase), disk' = task', UNCHANGED <<def, steps>>,
           NEW at \in {"plan", "exit", "loop"}, Goes(at, run.n, <<>>),
           phase = "completed" => Step.type = "while", at = "exit" => phase = "completed",
           at = "loop" => Step.type = "loop"
    PROVE  Preserves
<1>1. run.at # "none" /\ run.n \in LoopSteps
  BY RunsOn DEF Shape, Fits, PlanOK, LoopSteps
<1>2. IsRun(run') /\ Fits(run') /\ run'.at = at /\ run'.n = run.n
  BY <1>1, LoopGoes
<1>3. phase \in Phases
  BY DEF Phases
<1>4. PICK f \in [def.nodes -> NodeStates] :
          /\ Becoming(task, task', steps[run.n].id, "running", f,
                      phase, Cursor.active + 1, 0, Cursor.total)
          /\ \A n \in def.nodes \ ToSet(steps[run.n].body) : f[n].iterations = task.nodes[n].iterations
          /\ \A n \in def.nodes \cap ToSet(steps[run.n].body) : Remembers(f, n, Cursor.active)
          /\ IsNotRedone
  BY <1>1, <1>3, OverIs
<1>5. CountInv => Counted(disk', run', run.n)
  <2>1. SUFFICES ASSUME CountInv PROVE Counted(disk', run', run.n)
    OBVIOUS
  <2>2. Counted(task, run, run.n) /\ Turns(run, run.n)
    BY <1>1, <2>1, AtLoop DEF CountInv, Turns
  <2>3. Cursor.active > 0
    BY <1>1, <2>2, AtLoop DEF Counted
  <2> QED
    BY <1>1, <1>2, <1>4, <2>1, <2>3, OverCounts
<1> QED
  BY <1>1, <1>2, <1>4, <1>5, LoopPreserves

LEMMA Outcomes == Outcome # "completed" => Outcome \in {"failed", "retry_waiting"}
BY DEF Outcome

LEMMA WhileJoinedPreserves ==
    ASSUME Shape, WhileJoined
    PROVE  Preserves
<1>1. /\ run.at = "while" /\ run.n \in LoopSteps /\ Step.type = "while" /\ UNCHANGED <<def, steps>>
  BY RunsOn DEF WhileJoined, Shape, Fits, PlanOK, LoopSteps, Step
<1>2. CASE Outcome # "completed"
  <2>1. PICK status \in {"failed", "retry_waiting"} : status = Outcome
    BY <1>2, Outcomes
  <2>2. IterationBreaks(status)
    BY <1>2, <2>1 DEF WhileJoined
  <2> QED
    BY <1>1, <2>2, BreaksPreserves
<1>3. CASE task' = IterationEnded(Cursor.active, "ready") /\ Save /\ Goes("plan", run.n, <<>>)
  BY <1>1, <1>3, OverPreserves DEF Save
<1>4. CASE task' = IterationEnded(Cursor.active, "completed") /\ Save /\ Goes("exit", run.n, <<>>)
  BY <1>1, <1>4, OverPreserves DEF Save
<1> QED
  BY <1>2, <1>3, <1>4 DEF WhileJoined

LEMMA LoopBeginsPreserves ==
    ASSUME Shape, LoopBegins
    PROVE  Preserves
<1>1. /\ run.at = "plan" /\ run.n \in LoopSteps /\ Step.type = "loop" /\ Cursor.phase = "none"
      /\ UNCHANGED <<def, steps>>
  BY LoopPlace DEF LoopBegins
<1>2. CASE Fail("failed")
  BY <1>1, <1>2, FailPreserves DEF TaskStatuses
<1>3. ASSUME NEW n \in 0 .. MaxIterations, Goes("loop", run.n, <<>>), Save,
             task' = [task EXCEPT !.loops[Step.id].phase = "ready", !.loops[Step.id].total = n]
      PROVE  Preserves
  <2>1. IsRun(run') /\ Fits(run') /\ run'.at = "loop" /\ run'.n = run.n
    BY <1>1, <1>3, LoopGoes
  <2>2. n \in Nat
    OBVIOUS
  <2>3. task' = Opened(task, Step.id, n) /\ disk' = task'
    BY <1>3 DEF Opened, Save
  <2>4. Becoming(task, task', steps[run.n].id, "running", task.nodes, "ready", Cursor.next, Cursor.active, n)
    <3>1. Becoming(task, Opened(task, Step.id, n), Step.id, task.status, task.nodes, "ready",
                   task.loops[Step.id].next, task.loops[Step.id].active, n)
      BY <1>1, <2>2, AtLoop, OpenedIs
    <3> QED
      BY <1>1, <2>3, <3>1, AtLoop
  <2>5. IsNotRedone
    BY <1>1, <2>3, <2>4, AtLoop DEF IsNotRedone, Becoming
  <2>6. ASSUME CountInv PROVE Counted(disk', run', run.n)
    <3>1. Counted(task, run, run.n)
      BY <1>1, <2>6, AtLoop DEF CountInv
    <3>2. PICK c : c = disk'.loops[steps[run.n].id]
      OBVIOUS
    <3>3. /\ c.phase = "ready" /\ c.next = Cursor.next /\ c.active = Cursor.active /\ c.total = n
          /\ disk'.nodes = task.nodes /\ disk'.status = "running"
      BY <2>3, <2>4, <3>2 DEF Becoming
    <3>4. Cap(disk', run.n) = n /\ Cap(task, run.n) = Cursor.total /\ Cursor.total \in Nat
      BY <1>1, <3>2, <3>3, AtLoop, CursorTyped DEF Cap
    <3>5. Cursor.next = 1 /\ Cursor.active = 0
      BY <1>1, <3>1, AtLoop DEF Counted, CursorOK
    <3>6. CursorOK(disk', run.n)
      BY <2>2, <3>2, <3>3, <3>4, <3>5 DEF CursorOK
    <3>7. PassesOK(disk', run.n)
      <4>1. PassesOK(task, run.n) /\ Cursor = task.loops[steps[run.n].id]
        BY <1>1, <3>1, AtLoop DEF Counted
      <4>2. (IF 1 > Cursor.total THEN Cursor.total ELSE 1 - 1) = 0 /\ (IF 1 > n THEN n ELSE 1 - 1) = 0
        BY <2>2, <3>4
      <4> QED
        BY <3>2, <3>3, <3>4, <3>5, <4>1, <4>2 DEF PassesOK
    <3>8. ~IsPast(disk', run', run.n) /\ ~Turns(run', run.n)
      BY <1>1, <2>1, <3>3, AtLoop DEF IsPast, Turns
    <3> QED
      BY <3>6, <3>7, <3>8 DEF Counted
  <2> QED
    BY <1>1, <2>1, <2>3, <2>4, <2>5, <2>6, LoopPreserves
<1> QED
  BY <1>2, <1>3 DEF LoopBegins

LEMMA LoopResumesPreserves ==
    ASSUME Shape, LoopResumes
    PROVE  Preserves
<1>1. run.at = "plan" /\ run.n \in LoopSteps /\ Step.type = "loop"
  BY LoopPlace DEF LoopResumes
<1>2. IsRun(run') /\ Fits(run') /\ run'.at = "loop" /\ run'.n = run.n
  BY <1>1, LoopGoes DEF LoopResumes
<1> QED
  BY <1>1, <1>2, StayPreserves DEF LoopResumes

LEMMA AtBody ==
    ASSUME Shape, run.at \in {"loop", "body", "bodystep"}
    PROVE  run.at # "none" /\ run.n \in LoopSteps /\ Step.type = "loop"
BY RunsOn DEF Shape, Fits, PlanOK, LoopSteps, Step

\* The run moves within the body of a loop.
LEMMA BodyMoves ==
    ASSUME Shape, run.at \in {"loop", "body", "bodystep"}, NEW at \in {"body", "bodystep"},
           NEW place, NEW been, NEW f, Threads(f) \/ f = run.threads,
           run' = [run EXCEPT !.at = at, !.place = place, !.been = been, !.threads = f]
    PROVE  IsRun(run') /\ Fits(run') /\ run'.at = at /\ run'.n = run.n
<1>1. run \in [at : Spots, n : Nat, threads : {run.threads}, place : {run.place}, been : {run.been}]
  BY DEF Shape, IsRun
<1>2. /\ run'.at = at /\ run'.n = run.n /\ run'.threads = f /\ run'.place = place /\ run'.been = been
      /\ run' \in [at : Spots, n : Nat, threads : {f}, place : {place}, been : {been}]
  BY <1>1 DEF Spots
<1>3. f = [k \in DOMAIN f |-> f[k]] /\ \A k \in DOMAIN f : IsThread(f[k])
  BY DEF Threads, Shape, IsRun
<1>4. \A k \in DOMAIN f : Returning(f[k]) => Judges(Here(f[k]))
  BY DEF Threads, Shape, Fits
<1>5. IsRun(run')
  BY <1>2, <1>3 DEF IsRun
<1>6. run.n \in 1 .. Len(steps) + 1 /\ run.n \in 1 .. Len(steps) /\ steps[run.n].type = "loop"
  BY DEF Shape, Fits
<1>7. Fits(run')
  BY <1>2, <1>4, <1>6 DEF Fits
<1> QED
  BY <1>2, <1>5, <1>7

LEMMA LoopTurnPreserves ==
    ASSUME Shape, LoopTurn
    PROVE  Preserves
<1>1. /\ run.at = "loop" /\ run.at # "none" /\ run.n \in LoopSteps /\ Step.type = "loop"
      /\ def' = def /\ steps' = steps
  BY AtBody DEF LoopTurn
<1>2. /\ Cursor.next \in Nat \ {0} /\ Cursor.active \in Nat /\ Cursor.total \in Nat /\ Iteration \in Nat
      /\ Cap(task, run.n) = Cursor.total
  BY <1>1, AtLoop, CursorTyped DEF Cap
<1>3. CASE Cursor.total = 0 \/ Cursor.phase = "completed"
  <2>1. Goes("exit", run.n, <<>>) /\ UNCHANGED <<disk, task>>
    BY <1>2, <1>3 DEF LoopTurn
  <2>2. IsRun(run') /\ Fits(run') /\ run'.at = "exit" /\ run'.n = run.n
    BY <1>1, <2>1, LoopGoes
  <2>3. Finished(disk, run.n)
    BY <1>1, <1>3, AtLoop DEF Finished
  <2> QED
    BY <1>1, <2>1, <2>2, <2>3, StayPreserves
<1>4. CASE Cursor.total > 0 /\ Cursor.phase # "completed" /\ Iteration > Cursor.total
  <2>1. task' = LoopCompleted(Cursor.next) /\ disk' = task' /\ Goes("exit", run.n, <<>>)
    BY <1>2, <1>4 DEF LoopTurn, Save
  <2>2. IsRun(run') /\ Fits(run') /\ run'.at = "exit" /\ run'.n = run.n
    BY <1>1, <2>1, LoopGoes
  <2>3. PICK next \in Nat \ {0} : next = Cursor.next
    BY <1>2
  <2>4. task' = Closed(task, Step.id, next)
    BY <2>1, <2>3 DEF LoopCompleted, Closed
  <2>5. Becoming(task, task', steps[run.n].id, "running", task.nodes, "completed", next, 0, Cursor.total)
    <3>1. Becoming(task, Closed(task, Step.id, next), Step.id, task.status, task.nodes, "completed", next, 0,
                   task.loops[Step.id].total)
      BY <1>1, AtLoop, ClosedIs
    <3> QED
      BY <1>1, <2>4, <3>1, AtLoop
  <2>6. IsNotRedone
    BY <1>1, <2>1, <2>5, AtLoop DEF IsNotRedone, Becoming
  <2>7. CountInv => Counted(disk', run', run.n)
    BY <1>1, <1>2, <1>4, <2>1, <2>2, <2>3, <2>5, ClosedCounts
  <2> QED
    BY <1>1, <2>1, <2>2, <2>5, <2>6, <2>7, LoopPreserves
<1>5. CASE Cursor.total # 0 /\ Cursor.phase # "completed" /\ ~(Iteration > Cursor.total)
  <2>1. /\ task' = IterationBegun(Iteration) /\ disk' = task'
        /\ run' = [run EXCEPT !.at = "body", !.place = Entry(Step.body), !.been = {}]
    BY <1>2, <1>5 DEF LoopTurn, Save
  <2>2. run' = [run EXCEPT !.at = "body", !.place = Entry(Step.body), !.been = {}, !.threads = run.threads]
    BY <2>1 DEF Shape, IsRun
  <2>3. IsRun(run') /\ Fits(run') /\ run'.at = "body" /\ run'.n = run.n
    BY <1>1, <2>2, BodyMoves
  <2>4. PICK f \in [def.nodes -> NodeStates] :
              /\ Becoming(task, task', steps[run.n].id, "running", f,
                          "running", Cursor.next, Iteration, Cursor.total)
              /\ \A n \in def.nodes : f[n].iterations = task.nodes[n].iterations
              /\ IsNotRedone
    BY <1>1, <2>1, BegunIs
  <2>5. CountInv => Counted(disk', run', run.n)
    <3>1. Iteration <= Cap(task, run.n)
      BY <1>2, <1>5
    <3> QED
      BY <1>1, <1>5, <2>1, <2>3, <2>4, <3>1, BegunCounts
  <2> QED
    BY <1>1, <2>1, <2>3, <2>4, <2>5, LoopPreserves
<1> QED
  BY <1>2, <1>3, <1>4, <1>5

LEMMA BodyStepPreserves ==
    ASSUME Shape, BodyStep
    PROVE  Preserves
<1>1. /\ run.at = "body" /\ run.at # "none" /\ run.n \in LoopSteps /\ Step.type = "loop"
      /\ UNCHANGED <<def, steps, disk, task>>
  BY AtBody DEF BodyStep
<1>2. PICK at, place, been, s : at \in {"body", "bodystep"} /\ Moves(at, place, been, s)
  <2>1. PICK x : x = run.place
    OBVIOUS
  <2>2. \/ \E place, been, s : Moves("body", place, been, s)
        \/ \E place, been, s : Moves("bodystep", place, been, s)
    <3>1. CASE x \in Disabled
      BY <2>1, <3>1 DEF BodyStep
    <3>2. CASE x \notin Disabled /\ Type(def, x) = "parallel"
      BY <2>1, <3>2 DEF BodyStep
    <3>3. CASE x \notin Disabled /\ Type(def, x) = "condition"
      BY <2>1, <3>3 DEF BodyStep
    <3>4. CASE x \notin Disabled /\ Type(def, x) = "node"
      BY <2>1, <3>4 DEF BodyStep
    <3>5. CASE x \notin Disabled /\ Type(def, x) \notin {"parallel", "condition", "node"}
      BY <2>1, <3>5 DEF BodyStep
    <3> QED
      BY <3>1, <3>2, <3>3, <3>4, <3>5
  <2> QED
    BY <2>2
<1>3. PICK f : f = [i \in DOMAIN s |-> Thread(s[i])]
  OBVIOUS
<1>4. Threads(f) /\ run' = [run EXCEPT !.at = at, !.place = place, !.been = been, !.threads = f]
  BY <1>2, <1>3, FreshThreads DEF Moves
<1>5. IsRun(run') /\ Fits(run') /\ run'.at = at /\ run'.n = run.n
  BY <1>1, <1>2, <1>4, BodyMoves
<1> QED
  BY <1>1, <1>2, <1>5, StayPreserves

LEMMA BodyJoinedPreserves ==
    ASSUME Shape, BodyJoined
    PROVE  Preserves
<1>1. /\ run.at = "bodystep" /\ run.at # "none" /\ run.n \in LoopSteps /\ Step.type = "loop"
      /\ UNCHANGED <<def, steps>>
  BY AtBody DEF BodyJoined
<1>2. CASE Outcome = "completed"
  <2>1. Goes("body", run.n, <<>>) /\ UNCHANGED <<disk, task>>
    BY <1>2 DEF BodyJoined
  <2>2. IsRun(run') /\ Fits(run') /\ run'.at = "body" /\ run'.n = run.n
    BY <1>1, <2>1, LoopGoes
  <2> QED
    BY <1>1, <2>1, <2>2, StayPreserves
<1>3. CASE Outcome # "completed"
  <2>1. PICK status \in {"failed", "retry_waiting"} : status = Outcome
    BY <1>3, Outcomes
  <2>2. IterationBreaks(status)
    BY <1>3, <2>1 DEF BodyJoined
  <2> QED
    BY <1>1, <2>2, BreaksPreserves
<1> QED
  BY <1>2, <1>3

LEMMA BodyEndsPreserves ==
    ASSUME Shape, BodyEnds
    PROVE  Preserves
<1>1. run.at = "body" /\ Step.type = "loop"
  BY AtBody DEF BodyEnds
<1> QED
  BY <1>1, OverPreserves DEF BodyEnds, Save

LEMMA LoopExitPreserves ==
    ASSUME Shape, LoopExit
    PROVE  Preserves
<1>1. /\ run.at = "exit" /\ run.n <= Len(steps) /\ steps[run.n].type \in {"loop", "while"}
      /\ UNCHANGED <<def, steps, disk, task>>
  BY RunsOn DEF LoopExit, Fits, Shape, PlanOK
<1>2. CASE Goes("plan", run.n + 1, <<>>)
  BY <1>1, <1>2, NextStepPreserves
<1>3. CASE Runs("left", <<<<Step.exit>>>>)
  <2>1. PICK s : s = <<<<Step.exit>>>>
    OBVIOUS
  <2> QED
    BY <1>1, <1>3, <2>1, RunsPreserves
<1> QED
  BY <1>2, <1>3 DEF LoopExit

LEMMA NextPreserves ==
    ASSUME Shape, Next
    PROVE  Preserves
<1>1. CASE Loop
  BY <1>1, WhilePreserves, WhileJoinedPreserves, LoopBeginsPreserves, LoopResumesPreserves,
     LoopTurnPreserves, BodyStepPreserves, BodyJoinedPreserves, BodyEndsPreserves, LoopExitPreserves
     DEF Loop
<1>2. CASE \E k \in DOMAIN run.threads : Sequence(k)
  BY <1>2, SequencePreserves
<1>3. CASE \E n \in def.nodes : RetryNode(n) \/ SkipNode(n)
  BY <1>3, RetryNodePreserves, SkipNodePreserves
<1>4. CASE Start \/ PlanEnds \/ RunNode \/ RunParallel \/ Choose \/ RunBranch \/ StepDone \/ RetryDue \/ Crash
  BY <1>4, StartPreserves, PlanEndsPreserves, RunNodePreserves, RunParallelPreserves, ChoosePreserves,
     RunBranchPreserves, StepDonePreserves, RetryDuePreserves, CrashPreserves
<1> QED
  BY <1>1, <1>2, <1>3, <1>4 DEF Next

LEMMA StutterPreserves ==
    ASSUME Shape, UNCHANGED vars
    PROVE  Preserves
<1>1. def' = def /\ steps' = steps /\ disk' = disk /\ task' = task /\ run' = run
  BY DEF vars
<1>2. Shape' /\ IsNotRedone
  BY <1>1 DEF IsNotRedone, Shape, PlanOK, LoopSteps, Fits, Judges, Gates, IsTask, IsRun
<1>3. CountInv => CountInv'
  BY <1>1, CountNext DEF CountInv
<1> QED
  BY <1>2, <1>3 DEF Preserves

-----------------------------------------------------------------------------
(* The plan made of a drawing *)
LEMMA LeastNumber ==
    ASSUME NEW T \in SUBSET Nat, T # {}
    PROVE  \E x \in T : \A y \in T : x <= y
<1> DEFINE less == {ss \in Nat \X Nat : ss[1] < ss[2]}
<1>1. IsWellFoundedOn(less, Nat)
  BY NatLessThanWellFounded DEF OpToRel
<1>2. \A x, y \in Nat : y < x => <<y, x>> \in less
  OBVIOUS
<1> HIDE DEF less
<1>3. PICK x \in T : \A y \in T : ~(<<y, x>> \in less)
  BY <1>1, WFMin
<1>4. \A y \in T : x <= y
  <2> SUFFICES ASSUME NEW y \in T PROVE x <= y
    OBVIOUS
  <2>1. x \in Nat /\ y \in Nat /\ ~(y < x)
    BY <1>2, <1>3
  <2> QED
    BY <2>1
<1> QED
  BY <1>4

\* get_execution_plan goes n places along the drawing.
First == [at |-> "start", seen |-> {}, order |-> <<>>, steps |-> <<>>]
Walks(d, f, n) == f = [k \in 0 .. n |-> IF k = 0 THEN First ELSE WalkTurn(d, f[k - 1])]

LEMMA WalkExists ==
    ASSUME NEW d, NEW n \in Nat
    PROVE  \E f : Walks(d, f, n)
<1> DEFINE T == {k \in Nat : ~\E f : Walks(d, f, k)}
<1> SUFFICES ASSUME T # {} PROVE FALSE
  OBVIOUS
<1>1. PICK k \in T : \A j \in T : k <= j
  BY LeastNumber
<1>2. k # 0
  <2>1. PICK f : f = [j \in 0 .. 0 |-> First]
    OBVIOUS
  <2>2. f = [j \in 0 .. 0 |-> IF j = 0 THEN First ELSE WalkTurn(d, f[j - 1])]
    BY <2>1
  <2> QED
    BY <1>1, <2>2 DEF Walks
<1>3. k - 1 \in Nat /\ k - 1 \notin T
  BY <1>1, <1>2
<1>4. PICK f : Walks(d, f, k - 1)
  BY <1>3
<1>5. PICK h : h = [j \in 0 .. k |-> IF j = k THEN WalkTurn(d, f[k - 1]) ELSE f[j]]
  OBVIOUS
<1>6. \A j \in 0 .. k : h[j] = IF j = 0 THEN First ELSE WalkTurn(d, h[j - 1])
  <2> SUFFICES ASSUME NEW j \in 0 .. k
               PROVE  h[j] = IF j = 0 THEN First ELSE WalkTurn(d, h[j - 1])
    OBVIOUS
  <2>1. CASE j = k
    <3>1. h[k] = WalkTurn(d, f[k - 1]) /\ h[k - 1] = f[k - 1]
      BY <1>1, <1>3, <1>5
    <3> QED
      BY <1>2, <2>1, <3>1
  <2>2. CASE j # k
    <3>1. j \in 0 .. k - 1
      BY <1>1, <2>2
    <3>2. f[j] = IF j = 0 THEN First ELSE WalkTurn(d, f[j - 1])
      BY <1>4, <3>1 DEF Walks
    <3>3. h[j] = f[j] /\ (j # 0 => h[j - 1] = f[j - 1])
      BY <1>1, <1>5, <2>2, <3>1
    <3> QED
      BY <3>2, <3>3
  <2> QED
    BY <2>1, <2>2
<1>7. h = [j \in 0 .. k |-> IF j = 0 THEN First ELSE WalkTurn(d, h[j - 1])]
  BY <1>5, <1>6
<1> QED
  BY <1>1, <1>7 DEF Walks

LEMMA PlanWalks ==
    ASSUME NEW d, IsFiniteSet(Places(d))
    PROVE  \E f : Walks(d, f, Cardinality(Places(d))) /\ Plan(d) = f[Cardinality(Places(d))].steps
<1>1. PICK n \in Nat : n = Cardinality(Places(d))
  BY FS_CardinalityType
<1>2. PICK h : Walks(d, h, n)
  BY WalkExists
<1>3. PICK f : /\ f = CHOOSE g : g = [i \in 0 .. n |-> IF i = 0 THEN First ELSE WalkTurn(d, g[i - 1])]
  OBVIOUS
<1>4. Walks(d, f, n)
  BY <1>2, <1>3 DEF Walks
<1>5. Plan(d) = f[n].steps
  BY <1>1, <1>3 DEF Plan, Iterate, First
<1> QED
  BY <1>1, <1>4, <1>5

IsLoop(e) == e.type \in {"loop", "while"}
\* What the walk has made of the places it has seen.
Placed(d, s) ==
    /\ \E S : s.steps \in Seq(S)
    /\ \A i \in DOMAIN s.steps : IsLoop(s.steps[i]) => s.steps[i].id \in s.seen \cap Gates(d)
    /\ \A i, j \in DOMAIN s.steps :
          IsLoop(s.steps[i]) /\ IsLoop(s.steps[j]) /\ s.steps[i].id = s.steps[j].id => i = j

\* A place makes one step, or none; a loop has the name of its place.
LEMMA LeadsToOne ==
    ASSUME NEW d, NEW x, NEW seen, NEW order
    PROVE  \/ Leads(d, x, seen, order).steps = <<>>
           \/ \E e : Leads(d, x, seen, order).steps = <<e>> /\ (IsLoop(e) => e.id = x /\ x \in Gates(d))
<1>1. CASE Type(d, x) = "parallel"
  <2>1. PICK e : e = ParallelStep(d, x)
    OBVIOUS
  <2>2. e.type = "parallel"
    BY <2>1 DEF ParallelStep
  <2>3. Leads(d, x, seen, order).steps = <<e>>
    BY <1>1, <2>1 DEF Leads, Onward
  <2> QED
    BY <2>2, <2>3 DEF IsLoop
<1>2. CASE Type(d, x) = "condition"
  <2>1. PICK e : e = ConditionStep(d, x, seen, order)
    OBVIOUS
  <2>2. e.type = "condition" \/ e.id = x
    BY <2>1 DEF ConditionStep
  <2>3. Leads(d, x, seen, order).steps = <<e>>
    BY <1>2, <2>1 DEF Leads, Onward
  <2>4. x \in Gates(d)
    BY <1>2 DEF Type, Gates, OfType
  <2> QED
    BY <2>2, <2>3, <2>4 DEF IsLoop
<1>3. CASE Type(d, x) = "loop"
  <2>1. PICK e : e = LoopStep(d, x)
    OBVIOUS
  <2>2. e.id = x
    BY <2>1 DEF LoopStep
  <2>3. Leads(d, x, seen, order).steps = <<e>>
    BY <1>3, <2>1 DEF Leads, Onward
  <2>4. x \in Gates(d)
    BY <1>3 DEF Type, Gates, OfType
  <2> QED
    BY <2>2, <2>3, <2>4
<1>4. CASE Type(d, x) = "node"
  <2>1. PICK e : e = NodeStep(x)
    OBVIOUS
  <2>2. e.type = "node"
    BY <2>1 DEF NodeStep
  <2>3. Leads(d, x, seen, order).steps = <<e>>
    BY <1>4, <2>1 DEF Leads, Onward
  <2> QED
    BY <2>2, <2>3 DEF IsLoop
<1>5. CASE Type(d, x) \notin {"parallel", "condition", "loop", "node"}
  BY <1>5 DEF Leads, Onward
<1> QED
  BY <1>1, <1>2, <1>3, <1>4, <1>5

LEMMA TurnPlaced ==
    ASSUME NEW d, NEW s, Placed(d, s)
    PROVE  Placed(d, WalkTurn(d, s))
<1>1. CASE s.at = "" \/ s.at \in s.seen
  BY <1>1 DEF WalkTurn
<1>2. CASE ~(s.at = "" \/ s.at \in s.seen)
  <2>1. PICK x, next, t : /\ x = s.at /\ t = WalkTurn(d, s)
                          /\ next = Leads(d, x, s.seen \cup {x}, Append(s.order, x)).steps
    OBVIOUS
  <2>2. t.steps = s.steps \o next /\ s.seen \subseteq t.seen /\ x \in t.seen /\ x \notin s.seen
    BY <1>2, <2>1 DEF WalkTurn
  <2>3. PICK S : s.steps \in Seq(S)
    BY DEF Placed
  <2>4. CASE next = <<>>
    <3>1. t.steps = s.steps
      BY <2>2, <2>3, <2>4
    <3> QED
      BY <2>1, <2>2, <3>1 DEF Placed
  <2>5. ASSUME NEW e, next = <<e>>, IsLoop(e) => e.id = x /\ x \in Gates(d)
        PROVE  Placed(d, t)
    <3>1. PICK T : T = S \cup {e}
      OBVIOUS
    <3>2. s.steps \in Seq(T) /\ next \in Seq(T) /\ Len(next) = 1 /\ next[1] = e
      BY <2>3, <2>5, <3>1
    <3>3. PICK m \in Nat : m = Len(s.steps)
      BY <3>2
    <3>4. /\ t.steps \in Seq(T) /\ Len(t.steps) = m + 1 /\ DOMAIN t.steps = 1 .. m + 1
          /\ \A i \in 1 .. m + 1 : t.steps[i] = IF i = m + 1 THEN e ELSE s.steps[i]
          /\ DOMAIN s.steps = 1 .. m
      BY <2>2, <3>2, <3>3
    <3>5. \A i \in 1 .. m : t.steps[i] = s.steps[i] /\ (IsLoop(s.steps[i]) => s.steps[i].id \in s.seen \cap Gates(d))
      BY <3>3, <3>4 DEF Placed
    <3>6. \A i \in DOMAIN t.steps : IsLoop(t.steps[i]) => t.steps[i].id \in t.seen \cap Gates(d)
      <4> SUFFICES ASSUME NEW i \in 1 .. m + 1, IsLoop(t.steps[i]) PROVE t.steps[i].id \in t.seen \cap Gates(d)
        BY <3>4
      <4>1. CASE i = m + 1
        BY <2>2, <2>5, <3>4, <4>1
      <4>2. CASE i # m + 1
        <5>1. i \in 1 .. m
          BY <3>3, <4>2
        <5> QED
          BY <2>2, <3>5, <5>1
      <4> QED
        BY <4>1, <4>2
    <3>7. ASSUME NEW i \in DOMAIN t.steps, NEW j \in DOMAIN t.steps,
                 IsLoop(t.steps[i]), IsLoop(t.steps[j]), t.steps[i].id = t.steps[j].id
          PROVE  i = j
      <4>1. i \in 1 .. m + 1 /\ j \in 1 .. m + 1
        BY <3>4, <3>7
      <4>2. i = m + 1 => t.steps[i].id = x
        BY <2>5, <3>4, <3>7, <4>1
      <4>3. j = m + 1 => t.steps[j].id = x
        BY <2>5, <3>4, <3>7, <4>1
      <4>4. i # m + 1 => i \in 1 .. m /\ t.steps[i].id # x
        <5>1. i # m + 1 => i \in 1 .. m
          BY <3>3, <4>1
        <5> QED
          BY <2>2, <3>5, <3>7, <5>1
      <4>5. j # m + 1 => j \in 1 .. m /\ t.steps[j].id # x
        <5>1. j # m + 1 => j \in 1 .. m
          BY <3>3, <4>1
        <5> QED
          BY <2>2, <3>5, <3>7, <5>1
      <4>6. CASE i # m + 1 /\ j # m + 1
        BY <3>4, <3>5, <3>7, <4>4, <4>5, <4>6 DEF Placed
      <4> QED
        BY <3>7, <4>2, <4>3, <4>4, <4>5, <4>6
    <3> QED
      BY <3>4, <3>6, <3>7 DEF Placed
  <2>6. next = <<>> \/ \E e : next = <<e>> /\ (IsLoop(e) => e.id = x /\ x \in Gates(d))
    <3>1. PICK seen, order : seen = s.seen \cup {x} /\ order = Append(s.order, x)
      OBVIOUS
    <3>2. next = Leads(d, x, seen, order).steps
      BY <2>1, <3>1
    <3> QED
      BY <3>2, LeadsToOne
  <2> QED
    BY <2>1, <2>4, <2>5, <2>6
<1> QED
  BY <1>1, <1>2

LEMMA WalkPlaced ==
    ASSUME NEW d, NEW n \in Nat, NEW f, Walks(d, f, n)
    PROVE  Placed(d, f[n])
<1> DEFINE T == {k \in Nat : k <= n /\ ~Placed(d, f[k])}
<1> SUFFICES ASSUME T # {} PROVE FALSE
  OBVIOUS
<1>1. PICK k \in T : \A j \in T : k <= j
  BY LeastNumber
<1>2. k \in 0 .. n /\ ~Placed(d, f[k])
  BY <1>1
<1>3. f[k] = IF k = 0 THEN First ELSE WalkTurn(d, f[k - 1])
  BY <1>2 DEF Walks
<1>4. Placed(d, First)
  <2>1. <<>> \in Seq({}) /\ DOMAIN <<>> = {}
    OBVIOUS
  <2> QED
    BY <2>1 DEF Placed, First
<1>5. CASE k = 0
  BY <1>2, <1>3, <1>4, <1>5
<1>6. CASE k # 0
  <2>1. k - 1 \in Nat /\ k - 1 <= n /\ ~(k <= k - 1)
    BY <1>2, <1>6
  <2>2. Placed(d, f[k - 1])
    BY <1>1, <2>1
  <2>3. PICK s : s = f[k - 1]
    OBVIOUS
  <2> QED
    BY <1>2, <1>3, <1>6, <2>2, <2>3, TurnPlaced
<1> QED
  BY <1>5, <1>6

LEMMA PlanPlaced ==
    ASSUME NEW d, IsFiniteSet(Places(d)), NEW plan, plan = Plan(d)
    PROVE  /\ Len(plan) \in Nat /\ DOMAIN plan = 1 .. Len(plan)
           /\ \A i \in DOMAIN plan : IsLoop(plan[i]) => plan[i].id \in Gates(d)
           /\ \A i, j \in DOMAIN plan : IsLoop(plan[i]) /\ IsLoop(plan[j]) /\ plan[i].id = plan[j].id => i = j
<1>1. PICK n \in Nat : n = Cardinality(Places(d))
  BY FS_CardinalityType
<1>2. PICK f : Walks(d, f, n) /\ plan = f[n].steps
  BY <1>1, PlanWalks
<1>3. Placed(d, f[n])
  BY <1>2, WalkPlaced
<1>4. PICK S : plan \in Seq(S)
  BY <1>2, <1>3 DEF Placed
<1> QED
  BY <1>2, <1>3, <1>4 DEF Placed

LEMMA FreshTask ==
    ASSUME NEW d
    PROVE  /\ IsTask(d, NewTask(d)) /\ NewTask(d).status = "pending"
           /\ \A n \in d.nodes : NewTask(d).nodes[n].iterations = <<>>
           /\ \A g \in Gates(d) : NewTask(d).loops[g] = NoCursor
<1>1. PICK f : f = [n \in d.nodes |-> NewNode]
  OBVIOUS
<1>2. PICK l : l = [g \in Gates(d) |-> NoCursor]
  OBVIOUS
<1>3. PICK c : c = [g \in OfType(d, "condition") |-> ""]
  OBVIOUS
<1>4. NewTask(d) = [status |-> "pending", nodes |-> f, chosen |-> c, loops |-> l]
  BY <1>1, <1>2, <1>3 DEF NewTask, Gates
<1>5. NewNode \in NodeStates /\ NewNode.iterations = <<>>
  <2>1. <<>> \in Seq(Passes) /\ {} \in SUBSET Nat
    OBVIOUS
  <2> QED
    BY <2>1 DEF NewNode, NodeStates, Statuses
<1>6. NoCursor \in Cursors
  BY DEF NoCursor, Cursors
<1>7. f \in [d.nodes -> NodeStates] /\ l \in [Gates(d) -> Cursors]
  BY <1>1, <1>2, <1>5, <1>6
<1> QED
  BY <1>1, <1>2, <1>4, <1>5, <1>7 DEF IsTask

LEMMA InitShape ==
    ASSUME Init, Drawn
    PROVE  Shape
<1>1. steps = Plan(def) /\ IsFiniteSet(Places(def))
  BY DEF Init, Drawn
<1>2. PICK plan : plan = Plan(def)
  OBVIOUS
<1>3. /\ Len(plan) \in Nat /\ DOMAIN plan = 1 .. Len(plan)
      /\ \A i \in DOMAIN plan : IsLoop(plan[i]) => plan[i].id \in Gates(def)
      /\ \A i, j \in DOMAIN plan : IsLoop(plan[i]) /\ IsLoop(plan[j]) /\ plan[i].id = plan[j].id => i = j
  BY <1>1, <1>2, PlanPlaced
<1>4. PlanOK
  BY <1>1, <1>2, <1>3 DEF PlanOK, LoopSteps, IsLoop
<1>5. PICK t : t = NewTask(def)
  OBVIOUS
<1>6. IsTask(def, t) /\ disk = t /\ task = t
  BY <1>5, FreshTask DEF Init
<1>7. IsRun(run) /\ Fits(run) /\ run.at = "none"
  <2>1. /\ run.at = "none" /\ run.n = 0 /\ run.threads = <<>> /\ run.place = "" /\ run.been = {}
        /\ run \in [at : Spots, n : Nat, threads : {<<>>}, place : {""}, been : {{}}]
    BY DEF Init, NoRun, Spots
  <2> QED
    BY <2>1, NoThreads DEF IsRun, Fits, Threads, Returning
<1> QED
  BY <1>4, <1>6, <1>7 DEF Shape

LEMMA InitCounts ==
    ASSUME Init, Drawn, BodiesApart, MaxIterations \in Nat
    PROVE  CountInv
<1> SUFFICES ASSUME NEW i \in LoopSteps PROVE Counted(disk, run, i)
  BY DEF CountInv
<1>1. Shape
  BY InitShape
<1>2. steps[i].id \in Gates(def)
  BY <1>1 DEF Shape, PlanOK
<1>3. PICK c : c = disk.loops[steps[i].id]
  OBVIOUS
<1>4. c.phase = "none" /\ c.next = 1 /\ c.active = 0 /\ c.total = 0
  <2>1. c = NoCursor
    BY <1>2, <1>3, FreshTask DEF Init
  <2> QED
    BY <2>1 DEF NoCursor
<1>5. disk.status = "pending" /\ \A n \in def.nodes : disk.nodes[n].iterations = <<>>
  BY FreshTask DEF Init
<1>6. Cap(disk, i) \in Nat
  BY <1>3, <1>4 DEF Cap
<1>7. CursorOK(disk, i)
  BY <1>3, <1>4, <1>6 DEF CursorOK
<1>8. PassesOK(disk, i)
  <2>1. (IF 1 > Cap(disk, i) THEN Cap(disk, i) ELSE 1 - 1) = 0
    BY <1>6
  <2>2. Len(<<>>) = 0 /\ DOMAIN <<>> = {}
    OBVIOUS
  <2> QED
    BY <1>3, <1>4, <1>5, <2>1, <2>2 DEF PassesOK
<1>9. ~IsPast(disk, run, i) /\ ~Turns(run, i)
  BY <1>5 DEF Init, NoRun, IsPast, Turns
<1> QED
  BY <1>7, <1>8, <1>9 DEF Counted

LEMMA CountsCounted ==
    ASSUME Shape, CountInv
    PROVE  IterationsAreCounted
<1> SUFFICES ASSUME disk.status = "completed", NEW i \in LoopSteps, NEW n \in BodyOf(i)
             PROVE  LET seen == disk.nodes[n].iterations
                        cursor == disk.loops[steps[i].id]
                    IN  /\ Len(seen) = IF steps[i].type = "loop" THEN cursor.total
                                       ELSE IF cursor.next > MaxIterations THEN MaxIterations ELSE cursor.next - 1
                        /\ \A j \in DOMAIN seen : seen[j].i = j
  BY DEF IterationsAreCounted
<1>1. Counted(disk, run, i)
  BY DEF CountInv
<1>2. PICK c : c = disk.loops[steps[i].id]
  OBVIOUS
<1>3. c \in Cursors
  BY <1>2 DEF Shape, PlanOK, IsTask
<1>4. n \in ToSet(steps[i].body) \cap def.nodes
  BY DEF BodyOf
<1>5. /\ Len(disk.nodes[n].iterations) = IF c.next > Cap(disk, i) THEN Cap(disk, i) ELSE c.next - 1
      /\ \A j \in DOMAIN disk.nodes[n].iterations : disk.nodes[n].iterations[j].i = j
  BY <1>1, <1>2, <1>4 DEF Counted, PassesOK
<1>6. CASE steps[i].type = "loop"
  <2>1. c.next \in Nat \ {0} /\ c.total \in Nat /\ Cap(disk, i) = c.total
    BY <1>2, <1>3, <1>6 DEF Cursors, Cap
  <2>2. c.phase = "completed" \/ c.total = 0
    BY <1>1, <1>2 DEF Counted, IsPast, Finished
  <2>3. c.next > c.total
    BY <1>1, <1>2, <1>6, <2>1, <2>2 DEF Counted, CursorOK
  <2> QED
    BY <1>2, <1>5, <1>6, <2>1, <2>3
<1>7. CASE steps[i].type # "loop"
  BY <1>2, <1>5, <1>7 DEF Cap
<1> QED
  BY <1>6, <1>7

LEMMA ShapeHolds == ASSUME Drawn PROVE Spec => []Shape
<1>1. Init => Shape
  BY InitShape
<1>2. Shape /\ [Next]_vars => Shape'
  BY NextPreserves, StutterPreserves DEF Preserves
<1> QED
  BY <1>1, <1>2, PTL DEF Spec

-----------------------------------------------------------------------------
(* The results *)
\* A step keeps the plan, and counts one fault or none.
LEMMA Bounded ==
    ASSUME [Next]_vars
    PROVE  UNCHANGED steps /\ (UNCHANGED faults \/ Fault)
<1>1. ASSUME NEW k \in DOMAIN run.threads, Sequence(k)
      PROVE  UNCHANGED steps /\ (UNCHANGED faults \/ Fault)
  <2>1. CASE SequenceEnds(k) \/ StepOver(k) \/ Begin(k) \/ Waits(k) \/ Succeeds(k) \/ ReworkBegins(k)
    BY <2>1 DEF SequenceEnds, StepOver, Begin, Waits, Succeeds, ReworkBegins
  <2>2. CASE Fails(k) \/ SendsBack(k) \/ Refused(k)
    BY <2>2 DEF Fails, SendsBack, Refused
  <2>3. CASE ReworkEnds(k)
    BY <2>3 DEF ReworkEnds
  <2> QED
    BY <1>1, <2>1, <2>2, <2>3 DEF Sequence
<1>2. ASSUME Loop
      PROVE  UNCHANGED steps /\ (UNCHANGED faults \/ Fault)
  <2>1. CASE While \/ WhileJoined \/ LoopResumes \/ LoopTurn \/ BodyStep
    BY <2>1 DEF While, WhileJoined, LoopResumes, LoopTurn, BodyStep
  <2>2. CASE BodyJoined \/ BodyEnds \/ LoopExit
    BY <2>2 DEF BodyJoined, BodyEnds, LoopExit
  <2>3. CASE LoopBegins
    BY <2>3 DEF LoopBegins
  <2> QED
    BY <1>2, <2>1, <2>2, <2>3 DEF Loop
<1>3. CASE Start \/ PlanEnds \/ RunNode \/ RunParallel \/ Choose \/ RunBranch \/ StepDone
  BY <1>3 DEF Start, PlanEnds, RunNode, RunParallel, Choose, RunBranch, StepDone
<1>4. ASSUME NEW n \in def.nodes, RetryNode(n) \/ SkipNode(n)
      PROVE  UNCHANGED <<steps, faults>>
  BY <1>4 DEF RetryNode, SkipNode
<1>5. CASE RetryDue
  BY <1>5 DEF RetryDue
<1>6. CASE Crash
  BY <1>6 DEF Crash
<1>7. CASE UNCHANGED vars
  BY <1>7 DEF vars
<1> QED
  BY <1>1, <1>2, <1>3, <1>4, <1>5, <1>6, <1>7 DEF Next

\* The types: a file, its copy and the place in the plan stay what they are,
\* through every failure, retry, crash and recovery.
THEOREM TypesHold ==
    ASSUME Drawn, MaxFaults \in Nat PROVE Spec /\ BodiesApart => []TypeOK
<1> DEFINE Faults == faults \in 0 .. MaxFaults
<1>1. Init => Faults
  BY DEF Init
<1>2. Faults /\ [Next]_vars => Faults'
  BY Bounded DEF Fault
<1>3. BodiesApart /\ [Next]_vars => BodiesApart'
  BY Bounded DEF BodiesApart, LoopSteps
<1>4. Shape /\ BodiesApart /\ Faults => TypeOK
  <2> SUFFICES ASSUME Shape, BodiesApart, Faults PROVE TypeOK
    OBVIOUS
  <2>1. /\ disk.status \in {"pending", "running", "retry_waiting", "resume_pending", "completed", "failed"}
        /\ disk.nodes \in [def.nodes -> NodeStates]
    BY DEF Shape, IsTask
  <2>2. \A n \in def.nodes : disk.nodes[n].status \in Statuses
    BY <2>1 DEF NodeStates
  <2> QED
    BY <2>1, <2>2 DEF TypeOK, Statuses
<1> QED
  BY <1>1, <1>2, <1>3, <1>4, ShapeHolds, PTL DEF Spec

\* What is done is not done again (docs/architecture.md:71): whatever is retried,
\* resumed or recovered, a completed node becomes pending only in a new
\* iteration of its loop, or when its work is sent back.
THEOREM NotRedone == ASSUME Drawn PROVE Spec => [][IsNotRedone]_vars
<1>1. Shape /\ [Next]_vars => [IsNotRedone]_vars
  BY NextPreserves DEF Preserves
<1> QED
  BY <1>1, ShapeHolds, PTL DEF Spec

\* A completed task has been through every iteration of every loop, in order and
\* each of them once, wherever it failed, was cut off and taken up again.
THEOREM CountedAll ==
    ASSUME Drawn, MaxIterations \in Nat PROVE Spec /\ BodiesApart => []IterationsAreCounted
<1>1. Init /\ BodiesApart => Shape /\ CountInv
  BY InitShape, InitCounts
<1>2. Shape /\ CountInv /\ [Next]_vars => (Shape /\ CountInv)'
  BY NextPreserves, StutterPreserves DEF Preserves
<1>3. Shape /\ CountInv => IterationsAreCounted
  BY CountsCounted
<1> QED
  BY <1>1, <1>2, <1>3, PTL DEF Spec
=============================================================================
