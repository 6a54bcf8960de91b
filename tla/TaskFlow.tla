------------------------------- MODULE TaskFlow -------------------------------
(***************************************************************************)
(* One task going through its plan: sequences of nodes, parallel branches, *)
(* conditions whose choice is kept, loops with their cursor, nodes that    *)
(* send the work of another one back, approvals; failures, retries, skips, *)
(* and crashes anywhere in between.                                        *)
(*                                                                         *)
(* src/workflow/execution_flow.py and execution_loop.py on top of          *)
(* WorkflowPlan and NodeState.  TaskControl has stops, timers, checkpoints *)
(* that fail and second runs, and no control flow.  What is written        *)
(* without anything happening before it in memory is one step with it.     *)
(***************************************************************************)
EXTENDS WorkflowPlan

CONSTANTS
    Definitions,  \* what may be drawn; what is not valid is refused
    Rework,       \* nodes that may send work back, and whose
    Approvals,    \* the approval nodes
    OneRetry,     \* the nodes with one automatic retry
    AutoSkip,     \* the nodes skipped when they have failed for good
    Disabled,     \* the nodes an execution scheme leaves out
    MaxIterations,  \* MAX_LOOP_ITERATIONS, 100 in the code
    MaxRejections,  \* max_reject_count
    MaxFaults       \* bound: failures, rejections and crashes

VARIABLES
    def,     \* snapshot_definition of the task
    steps,   \* its plan
    disk,    \* the task file: status, nodes, conditions, loops
    task,    \* the copy the run works on
    run,     \* where the run is in its plan
    faults   \* faults so far (bound)
vars == <<def, steps, disk, task, run, faults>>

Policy == INSTANCE NodeState
    WITH Nodes <- def.nodes, RetryCount <- [n \in def.nodes |-> IF n \in OneRetry THEN 1 ELSE 0],
         AutoSkip <- AutoSkip, MaxAutoRetry <- 20

\* A node's state: NodeState's, and reject_upstream_count, rejection_count, the
\* attempt its output is from, the output of another node its input was frozen
\* with, and iteration_history.
NewNode == [status |-> "pending", attempt |-> 0, auto |-> 0, trigger |-> "initial",
            deadline |-> FALSE, history |-> {}, sentBack |-> 0, refused |-> 0,
            made |-> 0, input |-> 0, iterations |-> <<>>]
NoCursor == [phase |-> "none", next |-> 1, active |-> 0, total |-> 0]
NewTask(d) == [status |-> "pending", nodes |-> [n \in d.nodes |-> NewNode],
               chosen |-> [g \in OfType(d, "condition") |-> ""],
               loops |-> [g \in OfType(d, "condition") \cup OfType(d, "loop") |-> NoCursor]]
NoRun == [at |-> "none", n |-> 0, threads |-> <<>>, place |-> "", been |-> {}]

Judges(n) == n \in DOMAIN Rework /\ Rework[n] \in def.nodes
Step == steps[run.n]
Cursor == task.loops[Step.id]
Fault == faults < MaxFaults /\ faults' = faults + 1
Save == disk' = task'
SetNode(n, s) == task' = [task EXCEPT !.nodes[n] = s]

------------------------------------------------------------------------------
(* One sequence of nodes, a thread of its own in a parallel block          *)
Thread(ids) == [ids |-> ids, i |-> 1, at |-> "head"]
Here(t) == t.ids[t.i]
Ends(result) == [at |-> result, ids |-> <<>>, i |-> 0]
Becomes(k, t) == run' = [run EXCEPT !.threads[k] = t]
Moved(t) == [t EXCEPT !.i = @ + 1, !.at = "head"]
Ready(k, at) == run.threads[k].at = at /\ run.threads[k].i <= Len(run.threads[k].ids)
Node(k) == task.nodes[Here(run.threads[k])]

SequenceEnds(k) ==
    /\ run.threads[k].at = "head" /\ run.threads[k].i > Len(run.threads[k].ids)
    /\ Becomes(k, Ends("completed"))
    /\ UNCHANGED <<def, steps, disk, task, faults>>

\* What the head of the loop in _execute_node_sequence does not execute
StepOver(k) ==
    /\ Ready(k, "head")
    /\ LET t == run.threads[k]
           n == Here(t)
       IN  IF n \in Disabled
           THEN /\ SetNode(n, [Node(k) EXCEPT !.status = "skipped"]) /\ Save
                /\ Becomes(k, Moved(t))
           ELSE /\ UNCHANGED <<disk, task>>
                /\ CASE Node(k).status \in {"skipped", "completed"} -> Becomes(k, Moved(t))
                     [] Node(k).status \in {"failed", "running"} -> Becomes(k, Ends("failed"))
                     [] Node(k).status = "retry_waiting" -> Becomes(k, Ends("retry_waiting"))
                     [] OTHER -> FALSE
    /\ UNCHANGED <<def, steps, faults>>

\* begin_node_attempt: the input is frozen at the first attempt, and whenever
\* the attempt is not a retry; what a node is asked to check is part of it.
Frozen(n, s) ==
    IF Judges(n) /\ (s.attempt = 0 \/ s.trigger = "initial")
    THEN [s EXCEPT !.input = task.nodes[Rework[n]].made] ELSE s
Begin(k) ==
    /\ Ready(k, "head")
    /\ LET n == Here(run.threads[k])
       IN  /\ n \notin Disabled
           /\ Node(k).status = "pending"
           /\ SetNode(n, Policy!BeginAttempt(Frozen(n, Node(k)))) /\ Save
    /\ Becomes(k, [run.threads[k] EXCEPT !.at = "executing"])
    /\ UNCHANGED <<def, steps, faults>>

\* An approval node waits; a restart in the meantime costs it no attempt.
Waits(k) ==
    /\ Ready(k, "executing")
    /\ Here(run.threads[k]) \in Approvals /\ Node(k).status = "running"
    /\ SetNode(Here(run.threads[k]), [Node(k) EXCEPT !.status = "waiting_approval"]) /\ Save
    /\ UNCHANGED <<def, steps, run, faults>>
Decidable(k) == Here(run.threads[k]) \in Approvals => Node(k).status = "waiting_approval"

Completed(s) == [Policy!Record(s, "completed") EXCEPT !.made = s.attempt]
Succeeds(k) ==
    /\ Ready(k, "executing") /\ Decidable(k)
    /\ SetNode(Here(run.threads[k]), Completed(Node(k))) /\ Save
    /\ Becomes(k, Moved(run.threads[k]))
    /\ UNCHANGED <<def, steps, faults>>

\* _apply_failed_node_policy, and what the sequence makes of its outcome
Decided(n, s) == Policy!ApplyPolicy(n, Policy!Record(s, "failed"))
After(t, status) ==
    CASE status = "skipped" -> Moved(t)
      [] status = "retry_waiting" -> Ends("retry_waiting")
      [] OTHER -> Ends("failed")
Fails(k) ==
    /\ Ready(k, "executing") /\ Fault
    /\ LET n == Here(run.threads[k])
           s == Decided(n, Node(k))
       IN  /\ SetNode(n, s) /\ Save
           /\ Becomes(k, After(run.threads[k], s.status))
    /\ UNCHANGED <<def, steps>>

\* reject_upstream: the node's own attempt is recorded with whatever came of it,
\* and the other node made ready for a new failure chain.
SendsBack(k) ==
    /\ Ready(k, "executing") /\ Fault
    /\ LET n == Here(run.threads[k])
       IN  /\ Judges(n)
           /\ LET u == task.nodes[Rework[n]]
                  again == [u EXCEPT !.status = "pending", !.auto = 0, !.deadline = FALSE,
                                     !.trigger = "validator_retry", !.sentBack = @ + 1]
                  back == [task EXCEPT !.nodes[Rework[n]] = again]
              IN  /\ u.attempt > 0 /\ u.sentBack < MaxRejections
                  /\ task' = [back EXCEPT !.nodes[n] = Policy!Record(@, "completed")]
    /\ Save
    /\ Becomes(k, [run.threads[k] EXCEPT !.at = "sentback"])
    /\ UNCHANGED <<def, steps>>

ReworkBegins(k) ==
    /\ Ready(k, "sentback")
    /\ LET u == Rework[Here(run.threads[k])]
       IN  SetNode(u, Policy!BeginAttempt(task.nodes[u]))
    /\ Save
    /\ Becomes(k, [run.threads[k] EXCEPT !.at = "rework"])
    /\ UNCHANGED <<def, steps, faults>>

\* Only now does the node that sent the work back become pending again.
ReworkEnds(k) ==
    /\ Ready(k, "rework")
    /\ LET n == Here(run.threads[k])
           u == Rework[n]
           again == [Node(k) EXCEPT !.status = "pending"]
           failed == Decided(u, task.nodes[u])
       IN  \/ /\ task' = [task EXCEPT !.nodes[u] = Completed(@), !.nodes[n] = again]
              /\ Becomes(k, [run.threads[k] EXCEPT !.at = "head"])
              /\ UNCHANGED faults
           \/ /\ Fault
              /\ task' = [task EXCEPT !.nodes[u] = failed,
                    !.nodes[n] = IF failed.status = "skipped" THEN [again EXCEPT !.status = "skipped"] ELSE again]
              /\ Becomes(k, After(run.threads[k], failed.status))
    /\ Save
    /\ UNCHANGED <<def, steps>>

\* An approver refuses.  The node before is asked for more if its session still
\* lives in this process; the loop's head then finds it running.
Refused(k) ==
    /\ Ready(k, "executing") /\ Decidable(k) /\ Fault
    /\ LET t == run.threads[k]
           n == Here(t)
           s == [Policy!Record(Node(k), "failed") EXCEPT !.refused = @ + 1]
       IN  /\ n \in Approvals
           /\ \/ /\ t.i > 1 /\ s.refused < 3 /\ task.nodes[t.ids[t.i - 1]].status = "completed"
                 /\ task' = [task EXCEPT !.nodes[t.ids[t.i - 1]].status = "running",
                                         !.nodes[n] = [s EXCEPT !.status = "pending"]]
                 /\ Becomes(k, [t EXCEPT !.i = @ - 1, !.at = "head"])
              \/ /\ SetNode(n, s)
                 /\ Becomes(k, Ends("failed"))
    /\ Save
    /\ UNCHANGED <<def, steps>>

Sequence(k) ==
    \/ SequenceEnds(k) \/ StepOver(k) \/ Begin(k) \/ Waits(k) \/ Succeeds(k) \/ Fails(k)
    \/ SendsBack(k) \/ ReworkBegins(k) \/ ReworkEnds(k) \/ Refused(k)

------------------------------------------------------------------------------
(* The plan                                                                *)
Goes(at, n, threads) == run' = [run EXCEPT !.at = at, !.n = n, !.threads = threads]
Runs(at, sequences) == Goes(at, run.n, [i \in DOMAIN sequences |-> Thread(sequences[i])])
Joined == \A i \in DOMAIN run.threads : run.threads[i].at \in {"completed", "failed", "retry_waiting"}
Outcome ==
    LET all == {run.threads[i].at : i \in DOMAIN run.threads}
    IN  IF "retry_waiting" \in all THEN "retry_waiting" ELSE IF "failed" \in all THEN "failed" ELSE "completed"

Finish(t) == task' = t /\ Save /\ run' = NoRun
Fail(status) == Finish([task EXCEPT !.status = status])

\* execute_task, from a pending task or one to be resumed
Start ==
    /\ run.at = "none" /\ disk.status \in {"pending", "resume_pending"}
    /\ task' = [disk EXCEPT !.status = "running",
                            !.nodes = [n \in def.nodes |-> IF n \in Disabled THEN [@[n] EXCEPT !.status = "skipped"] ELSE @[n]]]
    /\ Save
    /\ run' = [NoRun EXCEPT !.at = "plan", !.n = 1]
    /\ UNCHANGED <<def, steps, faults>>

AtStep(type) == run.at = "plan" /\ run.n <= Len(steps) /\ Step.type = type

PlanEnds ==
    /\ run.at = "plan" /\ run.n > Len(steps)
    /\ Finish([task EXCEPT !.status = "completed"])
    /\ UNCHANGED <<def, steps, faults>>

RunNode ==
    /\ AtStep("node")
    /\ IF Step.node \in Disabled THEN Goes("plan", run.n + 1, <<>>) ELSE Runs("step", <<<<Step.node>>>>)
    /\ UNCHANGED <<def, steps, disk, task, faults>>

RunParallel ==
    /\ AtStep("parallel")
    /\ Runs("step", Step.branches)
    /\ UNCHANGED <<def, steps, disk, task, faults>>

\* _evaluate_condition_gateway: the choice is made once; the nodes of the other
\* branches are marked skipped, up to where all branches meet.
Branch(target) == Follow(def, target, {Step.stop})
\* Mutant: the choice is made again by every run.
ChooseAgain ==
    /\ AtStep("condition")
    /\ \E target \in ToSet(Step.targets) :
          LET others == UNION {ToSet(Branch(t)) : t \in ToSet(Step.targets) \ {target}}
          IN  task' = [task EXCEPT !.chosen[Step.id] = target,
                          !.nodes = [n \in def.nodes |-> IF n \in others THEN [@[n] EXCEPT !.status = "skipped"] ELSE @[n]]]
    /\ Save
    /\ UNCHANGED <<def, steps, run, faults>>

Choose ==
    /\ AtStep("condition") /\ task.chosen[Step.id] = ""
    /\ \E target \in ToSet(Step.targets) :
          LET others == UNION {ToSet(Branch(t)) : t \in ToSet(Step.targets) \ {target}}
          IN  task' = [task EXCEPT !.chosen[Step.id] = target,
                          !.nodes = [n \in def.nodes |-> IF n \in others THEN [@[n] EXCEPT !.status = "skipped"] ELSE @[n]]]
    /\ Save
    /\ UNCHANGED <<def, steps, run, faults>>

RunBranch ==
    /\ AtStep("condition") /\ task.chosen[Step.id] # ""
    /\ LET target == task.chosen[Step.id]
       IN  Runs("step", <<IF Branch(target) = <<>> THEN SelectSeq(<<target>>, LAMBDA x : x \in def.nodes)
                          ELSE Branch(target)>>)
    /\ UNCHANGED <<def, steps, disk, task, faults>>

StepDone ==
    /\ run.at \in {"step", "left"} /\ Joined
    /\ IF Outcome = "completed"
       THEN Goes("plan", run.n + 1, <<>>) /\ UNCHANGED <<disk, task>>
       ELSE Fail(Outcome)
    /\ UNCHANGED <<def, steps, faults>>

------------------------------------------------------------------------------
(* Loops: nodes are reset when an iteration begins that is not the one the *)
(* cursor says was begun already.                                          *)
Reset(s) == [s EXCEPT !.status = "pending", !.auto = 0, !.deadline = FALSE, !.trigger = "initial",
                      !.sentBack = 0, !.refused = 0]
ResetAll(body) == [n \in def.nodes |-> IF n \in ToSet(body) THEN Reset(task.nodes[n]) ELSE task.nodes[n]]
Snapshot(body, i) ==
    [n \in def.nodes |->
        IF n \in ToSet(body)
        THEN [task.nodes[n] EXCEPT !.iterations = Append(@, [i |-> i, status |-> task.nodes[n].status, attempt |-> task.nodes[n].attempt])]
        ELSE task.nodes[n]]
Iteration == IF Cursor.active > 0 THEN Cursor.active ELSE Cursor.next

\* Mutant: an iteration taken up again starts from its beginning.
IterationResetAlways(i) ==
    [task EXCEPT !.nodes = ResetAll(Step.body), !.loops[Step.id].active = i, !.loops[Step.id].phase = "running"]
\* Mutant: the nodes keep what they did in the iteration before.
IterationUnreset(i) ==
    [task EXCEPT !.loops[Step.id].active = i, !.loops[Step.id].phase = "running"]
IterationBegun(i) ==
    [task EXCEPT !.nodes = IF Cursor.active # i THEN ResetAll(Step.body) ELSE @,
                 !.loops[Step.id].active = i, !.loops[Step.id].phase = "running"]
IterationEnded(i, phase) ==
    [task EXCEPT !.nodes = Snapshot(Step.body, i), !.loops[Step.id].active = 0,
                 !.loops[Step.id].next = i + 1, !.loops[Step.id].phase = phase]
LoopCompleted(next) ==
    [task EXCEPT !.loops[Step.id].active = 0, !.loops[Step.id].next = next, !.loops[Step.id].phase = "completed"]
IterationBreaks(status) ==
    Finish([task EXCEPT !.status = status, !.loops[Step.id].phase = status])

\* _execute_loop: a condition gateway with an edge back
While ==
    /\ AtStep("while")
    /\ CASE Cursor.phase = "completed" -> Goes("exit", run.n, <<>>) /\ UNCHANGED <<disk, task>>
         [] Cursor.phase # "completed" /\ Iteration > MaxIterations ->
                /\ task' = LoopCompleted(Iteration + 1) /\ Save
                /\ Goes("exit", run.n, <<>>)
         [] OTHER ->
                /\ task' = IterationBegun(Iteration) /\ Save
                /\ Runs("while", <<Step.body>>)
    /\ UNCHANGED <<def, steps, faults>>

WhileJoined ==
    /\ run.at = "while" /\ Joined
    /\ IF Outcome # "completed" THEN IterationBreaks(Outcome)
       ELSE \/ /\ task' = IterationEnded(Cursor.active, "ready") /\ Save
               /\ Goes("plan", run.n, <<>>)
            \/ /\ task' = IterationEnded(Cursor.active, "completed") /\ Save
               /\ Goes("exit", run.n, <<>>)
    /\ UNCHANGED <<def, steps, faults>>

\* Mutant: every run takes the items anew.
LoopBeginsAgain ==
    /\ AtStep("loop")
    /\ \E total \in 0 .. MaxIterations :
          task' = [task EXCEPT !.loops[Step.id].phase = "ready", !.loops[Step.id].total = total]
    /\ Save
    /\ Goes("loop", run.n, <<>>)
    /\ UNCHANGED <<def, steps, faults>>

\* _execute_loop_gateway: the items are taken once; too many, or none that can
\* be read, are refused.
LoopBegins ==
    /\ AtStep("loop") /\ Cursor.phase = "none"
    /\ \/ /\ Step.body # <<>> /\ Step.exit # ""
          /\ \E total \in 0 .. MaxIterations :
                task' = [task EXCEPT !.loops[Step.id].phase = "ready", !.loops[Step.id].total = total]
          /\ Save
          /\ Goes("loop", run.n, <<>>)
          /\ UNCHANGED faults
       \/ /\ IF Step.body = <<>> \/ Step.exit = "" THEN UNCHANGED faults ELSE Fault
          /\ Fail("failed")
    /\ UNCHANGED <<def, steps>>

LoopResumes ==
    /\ AtStep("loop") /\ Cursor.phase # "none"
    /\ Goes("loop", run.n, <<>>)
    /\ UNCHANGED <<def, steps, disk, task, faults>>

\* Where _execute_loop_body begins: at a node with nothing but gateways before it.
Entry(body) ==
    LET first == SelectSeq(body, LAMBDA n : Into(def, n) \subseteq DOMAIN def.gate)
    IN  IF first = <<>> THEN Head(body) ELSE Head(first)

LoopTurn ==
    /\ run.at = "loop"
    /\ CASE Cursor.total = 0 \/ Cursor.phase = "completed" ->
                Goes("exit", run.n, <<>>) /\ UNCHANGED <<disk, task>>
         [] Cursor.total > 0 /\ Cursor.phase # "completed" /\ Iteration > Cursor.total ->
                /\ task' = LoopCompleted(Cursor.next) /\ Save
                /\ Goes("exit", run.n, <<>>)
         [] OTHER ->
                /\ task' = IterationBegun(Iteration) /\ Save
                /\ run' = [run EXCEPT !.at = "body", !.place = Entry(Step.body), !.been = {}]
    /\ UNCHANGED <<def, steps, faults>>

\* _execute_loop_body: first edges among the nodes of the body and all gateways
Within(x) == SelectSeq(def.adj[x], LAMBDA t : t \in ToSet(Step.body) \cup DOMAIN def.gate)
Following(x, been) ==
    IF x = "" \/ Within(x) = <<>> \/ Head(Within(x)) \in been THEN "" ELSE Head(Within(x))
Moves(at, place, been, sequences) ==
    run' = [run EXCEPT !.at = at, !.place = place, !.been = been,
                       !.threads = [i \in DOMAIN sequences |-> Thread(sequences[i])]]

BodyStep ==
    /\ run.at = "body" /\ run.place # "" /\ run.place \notin run.been
    /\ LET x == run.place
           been == run.been \cup {x}
       IN  CASE x \in Disabled -> Moves("body", Following(x, {}), been, <<>>)
             [] x \notin Disabled /\ Type(def, x) = "parallel" ->
                    LET s == [i \in DOMAIN Within(x) |-> Follow(def, Within(x)[i], {Pair(def, x)})]
                    IN  Moves("bodystep", IF Pair(def, x) = "" THEN "" ELSE Following(Pair(def, x), {}),
                              run.been \cup {Pair(def, x)} \cup UNION {ToSet(s[i]) : i \in DOMAIN s}, s)
             [] x \notin Disabled /\ Type(def, x) = "condition" ->
                    \E t \in ToSet(Within(x)) :
                        Moves("bodystep", Following(t, been), been,
                              IF t \in def.nodes \ Disabled THEN <<<<t>>>> ELSE <<>>)
             [] x \notin Disabled /\ Type(def, x) = "node" ->
                    Moves("bodystep", Following(x, been), been, <<<<x>>>>)
             [] OTHER -> Moves("body", Following(x, been), been, <<>>)
    /\ UNCHANGED <<def, steps, disk, task, faults>>

BodyJoined ==
    /\ run.at = "bodystep" /\ Joined
    /\ IF Outcome = "completed"
       THEN Goes("body", run.n, <<>>) /\ UNCHANGED <<disk, task>>
       ELSE IterationBreaks(Outcome)
    /\ UNCHANGED <<def, steps, faults>>

BodyEnds ==
    /\ run.at = "body" /\ (run.place = "" \/ run.place \in run.been)
    /\ task' = IterationEnded(Cursor.active, "ready") /\ Save
    /\ Goes("loop", run.n, <<>>)
    /\ UNCHANGED <<def, steps, faults>>

LoopExit ==
    /\ run.at = "exit"
    /\ IF Step.exit \in def.nodes \ Disabled
       THEN Runs("left", <<<<Step.exit>>>>)
       ELSE Goes("plan", run.n + 1, <<>>)
    /\ UNCHANGED <<def, steps, disk, task, faults>>

Loop == While \/ WhileJoined \/ LoopBegins \/ LoopResumes \/ LoopTurn \/ BodyStep
        \/ BodyJoined \/ BodyEnds \/ LoopExit

------------------------------------------------------------------------------
(* Afterwards: a user, the timer, or a restart                             *)
Idle == run.at = "none"
Resume(nodes) == disk' = [disk EXCEPT !.status = "resume_pending", !.nodes = nodes]

RetryNode(n) ==
    /\ Idle /\ disk.status \in {"failed", "retry_waiting"} /\ Policy!Controllable(disk.nodes[n])
    /\ Resume([disk.nodes EXCEPT ![n] = Policy!PrepareManualRetry(@)])
    /\ UNCHANGED <<def, steps, task, run, faults>>

SkipNode(n) ==
    /\ Idle /\ disk.status \in {"failed", "retry_waiting"} /\ Policy!Controllable(disk.nodes[n])
    /\ Resume([disk.nodes EXCEPT ![n] = Policy!FailureSkip(@)])
    /\ UNCHANGED <<def, steps, task, run, faults>>

RetryDue ==
    /\ Idle /\ disk.status = "retry_waiting"
    /\ Resume([n \in def.nodes |-> IF disk.nodes[n].status = "retry_waiting"
                                   THEN Policy!ActivateRetry(disk.nodes[n]) ELSE disk.nodes[n]])
    /\ UNCHANGED <<def, steps, task, run, faults>>

\* recover_workflow_tasks, after the process has died
Recovered ==
    LET nodes == [n \in def.nodes |-> Policy!RecoverNode(n, disk.nodes[n])]
        Some(status) == \E n \in def.nodes : nodes[n].status = status
        promised == \E n \in def.nodes : Policy!LaunchPromised(nodes[n])
    IN  [disk EXCEPT !.nodes = nodes,
            !.status = CASE disk.status \notin {"running", "retry_waiting", "resume_pending"} -> @
                         [] ~promised /\ disk.status # "resume_pending" /\ Some("retry_waiting") -> "retry_waiting"
                         [] ~promised /\ disk.status # "resume_pending" /\ ~Some("retry_waiting") /\ Some("failed") -> "failed"
                         [] OTHER -> "resume_pending"]
Crash ==
    /\ disk.status \in {"running", "retry_waiting", "resume_pending"} /\ Fault
    /\ disk' = Recovered
    /\ run' = NoRun
    /\ UNCHANGED <<def, steps, task>>

Init ==
    /\ def \in {d \in Definitions : Valid(d)}
    /\ steps = Plan(def)
    /\ disk = NewTask(def) /\ task = NewTask(def)
    /\ run = NoRun
    /\ faults = 0

Next ==
    \/ Start \/ PlanEnds \/ RunNode \/ RunParallel \/ Choose \/ RunBranch \/ StepDone
    \/ \E k \in DOMAIN run.threads : Sequence(k)
    \/ Loop
    \/ \E n \in def.nodes : RetryNode(n) \/ SkipNode(n)
    \/ RetryDue \/ Crash
Spec == Init /\ [][Next]_vars

------------------------------------------------------------------------------
LoopSteps == {i \in DOMAIN steps : steps[i].type \in {"loop", "while"}}

(* No two loops of a plan share a node: true of the workflows drawn here;  *)
(* validate does not ask for it.                                           *)
BodiesApart ==
    \A i, j \in LoopSteps : i # j => ToSet(steps[i].body) \cap ToSet(steps[j].body) = {}

\* Plan counts the places of a drawing.
Drawn == \A d \in Definitions : IsFiniteSet(Places(d))

TypeOK ==
    /\ BodiesApart /\ Drawn
    /\ disk.status \in {"pending", "running", "retry_waiting", "resume_pending", "completed", "failed"}
    /\ \A n \in def.nodes : disk.nodes[n].status \in
          {"pending", "running", "waiting_approval", "retry_waiting", "completed", "failed", "skipped"}
    /\ faults \in 0 .. MaxFaults

(* Whatever failed, was retried, was cut off by a crash and taken up again *)
(* meanwhile: a completed task has been through every iteration of every   *)
(* loop, in order and each of them once ...                                *)
BodyOf(i) == (ToSet(steps[i].body) \cap def.nodes) \ Disabled
IterationsAreCounted ==
    disk.status = "completed" =>
        \A i \in LoopSteps : \A n \in BodyOf(i) :
            LET seen == disk.nodes[n].iterations
                cursor == disk.loops[steps[i].id]
            IN  /\ Len(seen) = IF steps[i].type = "loop" THEN cursor.total
                               ELSE IF cursor.next > MaxIterations THEN MaxIterations ELSE cursor.next - 1
                /\ \A j \in DOMAIN seen : seen[j].i = j

(* ... and has done every node of the body anew in each; nodes behind a    *)
(* choice within the body apart.                                           *)
Optional == UNION {ToSet(def.adj[g]) : g \in OfType(def, "condition")}
IterationsAreDone ==
    disk.status = "completed" =>
        \A i \in LoopSteps : \A n \in BodyOf(i) \ Optional :
            LET seen == disk.nodes[n].iterations
            IN  /\ \A j \in DOMAIN seen : seen[j].status \in {"completed", "skipped"}
                /\ \A j \in 2 .. Len(seen) : seen[j].attempt > seen[j - 1].attempt

(* What is done is not done again by a retry, a resumption or a recovery   *)
(* (docs/architecture.md:71): a completed node is made pending only by a   *)
(* new iteration of its loop, by another node that sends its work back, or *)
(* when the work it sent back itself has been redone, and not before.      *)
IsNotRedone ==
    \A n \in def.nodes : disk.nodes[n].status = "completed" /\ disk'.nodes[n].status = "pending" =>
        \/ \E i \in DOMAIN steps :
              /\ steps[i].type \in {"loop", "while"} /\ n \in ToSet(steps[i].body)
              /\ disk'.loops[steps[i].id].active \notin {0, disk.loops[steps[i].id].active}
        \/ disk'.nodes[n].sentBack > disk.nodes[n].sentBack
        \/ \E k \in DOMAIN run.threads :
              /\ run.threads[k].at = "rework" /\ Here(run.threads[k]) = n
              /\ disk'.nodes[Rework[n]].status # "running"

(* And it has been to every node the drawing leads to with the choices     *)
(* that were made, and to no other (execution_flow.py:679, "freezes the    *)
(* choice and executes the whole branch"); loops may have had no items.    *)
Led(d, chosen) ==
    LET cut == [g \in Places(d) |-> IF g \in DOMAIN chosen /\ chosen[g] # "" THEN <<chosen[g]>> ELSE d.adj[g]]
    IN  Reach([d EXCEPT !.adj = cut], "start", {}) \cap d.nodes
NothingLeftOut ==
    disk.status = "completed" =>
        \A n \in def.nodes \ (Disabled \cup UNION {ToSet(LoopBody(def, l)) : l \in OfType(def, "loop")}) :
            IF n \in Led(def, disk.chosen)
            THEN disk.nodes[n].status \in {"completed", "skipped"} /\ disk.nodes[n].attempt > 0
            ELSE disk.nodes[n].attempt = 0

(* A node that sent work back and then lets it pass has looked at the new  *)
(* work (execution_flow.py:445: it waits until the other one has really    *)
(* finished, and is executed again).                                       *)
ReworkIsLookedAt ==
    disk.status = "completed" =>
        \A n \in {m \in def.nodes : Judges(m)} :
            disk.nodes[n].status = "completed" /\ disk.nodes[Rework[n]].status = "completed" =>
                disk.nodes[n].input = disk.nodes[Rework[n]].made
==============================================================================
