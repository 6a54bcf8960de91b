----------------------------- MODULE TaskControl -----------------------------
(* One workflow task from launch to its end: WorkflowManager (run_task,
   stop_task, _run_task_coroutine), its recovery mixin (retry, skip, retry
   timer, restart recovery) and the engine run underneath, reduced to the order
   in which nodes start, end and are saved.

   "disk" is the task file, the only state that survives the process. "mem" is
   the copy each engine run works on; it reaches the disk at checkpoints. The
   program is one event loop: an action is what the loop does between two
   awaits, cut further at each write of the task file because the process may
   die there. A second run exists only while the branches of a stopped parallel
   block outlive their run. *)
EXTENDS NodeState, FiniteSets

CONSTANTS
    Pred,      \* the nodes directly before a node in the execution plan
    Par,       \* the nodes that belong to a branch of a parallel gateway
    Approval,  \* the nodes of type approval
    Judges,    \* the nodes with enable_reject_upstream, off by default
    RunIds,    \* identifiers of concurrent engine runs: a bound
    Limit      \* how often each outside event may happen: a bound

\* User retry/skip, user stop, crash, clean shutdown, failed checkpoint, no model
\* for the run's main session, work returned to the node before.
Events == {"control", "stop", "crash", "close", "io", "setup", "return"}

ASSUME PredAssumption == Pred \in [Nodes -> SUBSET Nodes]
\* The plan orders the nodes: in any set of them one comes first.
ASSUME PlanAssumption ==
    \A S \in SUBSET Nodes : S # {} => \E n \in S : Pred[n] \cap S = {}
ASSUME ParAssumption ==
    /\ Par \subseteq Nodes
    /\ \A n \in Par : \A p \in Pred[n] : p \in Par => Pred[n] = {p}
ASSUME ApprovalAssumption == Approval \subseteq Nodes
\* A judge rejects the output of the one node that leads to it, which it picks by
\* default; the plan goes on from there with the judge alone, in the same sequence
\* of steps or of a branch. Judges that name an earlier node are left out.
ASSUME JudgesAssumption ==
    /\ Judges \subseteq Nodes \ Approval
    /\ \A n \in Judges : \E u \in Nodes \ Approval :
          /\ Pred[n] = {u}
          /\ u \in Par <=> n \in Par
          /\ \A m \in Nodes : u \in Pred[m] => m = n
ASSUME RunIdsAssumption == RunIds # {}
ASSUME LimitAssumption == Limit \in [Events -> Nat]

VARIABLES
    disk,       \* the task file: status and node states
    mem,        \* per run, the task object the engine mutates
    main,       \* per run, where its main coroutine is
    pc,         \* per run and node, where the node's execution is
    launching,  \* a handler has saved resume_pending and is about to run_task
    stop,       \* the last stop request: none, asked (holds the control lock), ...
    timer,      \* _retry_timers has a live timer for the task
    owner,      \* is_workflow_owner_enabled
    proc,       \* the process: up, closing (lifespan exit) or down
    handled,    \* history: the attempt a user last retried or skipped, per node
    spent       \* history: outside events so far

taskVars == <<disk, mem, main, pc>>
ctlVars == <<launching, stop, timer, owner, proc>>
vars == <<disk, mem, main, pc, launching, stop, timer, owner, proc, handled,
          spent>>

TaskStatus == {"absent", "pending", "pre_running", "running", "retry_waiting",
               "resume_pending", "completed", "failed", "stopped"}

Task == [status: TaskStatus, nodes: [Nodes -> NodeState]]

\* starting, asking, sending and ending wait for their checkpoint to be written;
\* judging is a judge that has rejected and is still executing, sent one that waits
\* for the node it has sent back; dead is a branch that ended with an exception.
NodePC == {"idle", "starting", "executing", "asking", "waiting", "judging",
           "sending", "sent", "ending", "dead"}

\* created has not run yet; cancelled unwinds to "stopped"; swallowed lost the
\* cancellation inside _execute_parallel_branches; gone left branches behind.
MainPC == {"none", "created", "driving", "cancelled", "swallowed", "gone"}

StopState == {"none", "asked", "done", "cut"}

NewTask(status) == [status |-> status, nodes |-> [n \in Nodes |-> Fresh]]
NoNodes == [n \in Nodes |-> "idle"]

\* The type of every variable; the task file is always a task with a known status.
TypeOK ==
    /\ disk \in Task
    /\ mem \in [RunIds -> Task]
    /\ main \in [RunIds -> MainPC]
    /\ pc \in [RunIds -> [Nodes -> NodePC]]
    /\ launching \in BOOLEAN
    /\ stop \in StopState
    /\ timer \in BOOLEAN
    /\ owner \in BOOLEAN
    /\ proc \in {"up", "closing", "down"}
    /\ handled \in [Nodes -> Nat]
    /\ spent \in [Events -> Nat]

Init ==
    /\ \E s \in {"pending", "pre_running"} : disk = NewTask(s)
    /\ mem = [r \in RunIds |-> NewTask("pending")]
    /\ main = [r \in RunIds |-> "none"]
    /\ pc = [r \in RunIds |-> NoNodes]
    /\ launching = FALSE
    /\ stop = "none"
    /\ timer = FALSE
    /\ owner = TRUE
    /\ proc = "up"
    /\ handled = [n \in Nodes |-> 0]
    /\ spent = [e \in Events |-> 0]

Happens(e) ==
    /\ spent[e] < Limit[e]
    /\ spent' = [spent EXCEPT ![e] = @ + 1]

-----------------------------------------------------------------------------
(* The engine's view of a run *)

\* _running_tasks holds a coroutine that is not done.
Active == {r \in RunIds : main[r] \notin {"none", "gone"}}

\* The sequence has gone past n: done, and its last checkpoint is written.
Passed(r, n) == Done(mem[r].nodes[n]) /\ pc[r][n] = "idle"

\* A judge is busy with the node it has sent back only when that is over.
Busy(r, n) ==
    \/ pc[r][n] \in {"starting", "executing", "asking", "waiting", "judging",
                     "sending", "ending"}
    \/ pc[r][n] = "sent" /\ \A p \in Pred[n] : Passed(r, p)

\* The node each live sequence stands at.
Frontier(r) ==
    {n \in Nodes : ~Passed(r, n) /\ \A p \in Pred[n] : Passed(r, p)}

\* A node that was rejected waits until the judge's execution is over and saved;
\* it waits for ever if that save fails.
Held(r, n) ==
    \E m \in Judges : n \in Pred[m] /\ pc[r][m] \in {"judging", "sending", "dead"}

Startable(r, n) ==
    /\ n \in Frontier(r)
    /\ pc[r][n] = "idle"
    /\ mem[r].nodes[n].status \in {"pending", "waiting_approval"}
    /\ ~Held(r, n)

\* Nodes whose branch is still running.
Branches(r) == {n \in Par : Busy(r, n) \/ Startable(r, n)}

\* What execute_task returns once no sequence can go on: retry_waiting wins over
\* failed, and an exception in a branch counts as failed.
Outcome(r) ==
    IF \A n \in Nodes : Passed(r, n) THEN "completed"
    ELSE IF \E n \in Frontier(r) : pc[r][n] = "idle"
                                   /\ mem[r].nodes[n].status = "retry_waiting"
         THEN "retry_waiting"
         ELSE "failed"

\* A node of run r may take its next step: the run is driven, or the node is in
\* a branch, a task of its own that nobody cancelled.
MayStep(r, n) ==
    /\ proc # "down"
    /\ \/ main[r] = "driving"
       \/ main[r] \in {"swallowed", "gone"} /\ n \in Par

SetNode(r, n, s, next) ==
    /\ mem' = [mem EXCEPT ![r].nodes[n] = s]
    /\ pc' = [pc EXCEPT ![r][n] = next]

SetNodes(r, nodes, positions) ==
    /\ mem' = [mem EXCEPT ![r].nodes = nodes]
    /\ pc' = [pc EXCEPT ![r] = positions]

ClearRun(r) ==
    /\ mem' = [mem EXCEPT ![r] = NewTask("pending")]
    /\ main' = [main EXCEPT ![r] = "none"]
    /\ pc' = [pc EXCEPT ![r] = NoNodes]

\* Mutant: the timer is not armed.
ScheduleNothing(t) == UNCHANGED timer

\* _schedule_retry_for_task, after the task was saved as t.
Schedule(t) ==
    timer' = (/\ proc # "closing"
              /\ t.status = "retry_waiting"
              /\ \E n \in Nodes : /\ t.nodes[n].status = "retry_waiting"
                                  /\ t.nodes[n].deadline)

-----------------------------------------------------------------------------
(* Launching: run_task, start_pre_running_task *)

LoopFree == proc = "up" /\ ~launching
LockFree == stop # "asked"

\* Mutant: the run starts from fresh node states.
StartRunFresh(r) ==
    /\ main[r] = "none"
    /\ disk' = NewTask("running")
    /\ mem' = [mem EXCEPT ![r] = NewTask("running")]
    /\ main' = [main EXCEPT ![r] = "created"]
    /\ pc' = [pc EXCEPT ![r] = NoNodes]

\* The file is saved as running before the coroutine exists.
StartRun(r) ==
    /\ main[r] = "none"
    /\ disk' = [disk EXCEPT !.status = "running"]
    /\ mem' = [mem EXCEPT ![r] = [disk EXCEPT !.status = "running"]]
    /\ main' = [main EXCEPT ![r] = "created"]
    /\ pc' = [pc EXCEPT ![r] = NoNodes]

\* run_task from the API, without from_node_id.
RunTask(r) ==
    /\ LoopFree
    /\ owner
    /\ disk.status \in {"pending", "resume_pending"}
    /\ Active = {}
    /\ StartRun(r)
    /\ stop' = IF stop = "done" THEN "none" ELSE stop
    /\ UNCHANGED <<launching, timer, owner, proc, handled, spent>>

StartPreRunning(r) ==
    /\ LoopFree
    /\ owner
    /\ disk.status = "pre_running"
    /\ Active = {}
    /\ StartRun(r)
    /\ UNCHANGED <<ctlVars, handled, spent>>

\* The run_task call that ends retry_node, skip_node, _activate_due_retries and
\* _recover_task. It reads the file again, which a left-over branch may have
\* rewritten meanwhile; then the launch is refused.
Launch ==
    /\ proc = "up"
    /\ launching
    /\ launching' = FALSE
    /\ \/ /\ disk.status \in {"pending", "resume_pending"}
          /\ \E r \in RunIds : StartRun(r)
       \/ /\ disk.status \notin {"pending", "resume_pending"}
          /\ UNCHANGED taskVars
    /\ UNCHANGED <<stop, timer, owner, proc, handled, spent>>

-----------------------------------------------------------------------------
(* The engine: _execute_node_sequence, _execute_node, _apply_failed_node_policy *)

\* execute_task enters its execution plan.
Begin(r) ==
    /\ proc # "down"
    /\ ~launching
    /\ main[r] = "created"
    /\ main' = [main EXCEPT ![r] = "driving"]
    /\ UNCHANGED <<disk, mem, pc, ctlVars, handled, spent>>

\* The run's main session cannot be created, so that no node is ever looked at.
BeginFails(r) ==
    /\ proc # "down"
    /\ ~launching
    /\ main[r] = "created"
    /\ Happens("setup")
    /\ disk' = [mem[r] EXCEPT !.status = "failed"]
    /\ ClearRun(r)
    /\ UNCHANGED <<ctlVars, handled>>

StartNode(r, n) ==
    /\ MayStep(r, n)
    /\ ~launching
    /\ Startable(r, n)
    /\ SetNode(r, n, BeginAttempt(mem[r].nodes[n]), "starting")
    /\ UNCHANGED <<disk, main, ctlVars, handled, spent>>

\* _save_task_state: the whole in-memory task replaces the file, then the
\* coroutine goes on.
AfterSave == [starting |-> "executing", asking |-> "waiting", sending |-> "sent",
              ending |-> "idle"]

Checkpoint(r, n) ==
    /\ MayStep(r, n)
    /\ pc[r][n] \in DOMAIN AfterSave
    /\ disk' = mem[r]
    /\ pc' = [pc EXCEPT ![r][n] = AfterSave[@]]
    /\ UNCHANGED <<mem, main, ctlVars, handled, spent>>

\* The write fails. Inside the plugin this is one more failure of the node;
\* elsewhere the exception ends the node's sequence where it stands.
CheckpointFails(r, n) ==
    /\ MayStep(r, n)
    /\ Happens("io")
    /\ \/ /\ pc[r][n] \in {"starting", "sending", "ending"}
          /\ pc' = [pc EXCEPT ![r][n] = "dead"]
          /\ UNCHANGED mem
       \/ /\ pc[r][n] = "asking"
          /\ SetNode(r, n, ApplyPolicy(n, Record(mem[r].nodes[n], "failed")), "ending")
    /\ UNCHANGED <<disk, main, ctlVars, handled>>

\* An approval node registers its waiter and saves waiting_approval.
AskApproval(r, n) ==
    /\ MayStep(r, n)
    /\ ~launching
    /\ n \in Approval
    /\ pc[r][n] = "executing"
    /\ SetNode(r, n, [mem[r].nodes[n] EXCEPT !.status = "waiting_approval"], "asking")
    /\ UNCHANGED <<disk, main, ctlVars, handled, spent>>

\* n runs once more because the judge behind it has sent it back.
Reworked(r, n) == \E m \in Judges : n \in Pred[m] /\ pc[r][m] = "sent"

\* The plugin returns: success or approval, a failure the policy applies to, or
\* an approver's rejection, which fails the node whatever its policy says.
NodeEnds(r, n) ==
    /\ MayStep(r, n)
    /\ ~launching
    /\ pc[r][n] = IF n \in Approval THEN "waiting" ELSE "executing"
    /\ ~Reworked(r, n)
    /\ LET s == mem[r].nodes[n] IN
       \/ SetNode(r, n, Record(s, "completed"), "ending")
       \/ SetNode(r, n, ApplyPolicy(n, Record(s, "failed")), "ending")
       \/ n \in Approval /\ SetNode(r, n, Record(s, "failed"), "ending")
    /\ UNCHANGED <<disk, main, ctlVars, handled, spent>>

(* Work that is returned: the approver's rejection and reject_upstream *)

\* The node before n in its own _execute_node_sequence. A step outside parallel
\* blocks is a sequence of one node.
Behind(n) == IF n \in Par THEN Pred[n] \cap Par ELSE {}

\* An approver's rejection behind a completed node whose session is still there
\* makes that node "running" and the approval "pending" again. The head of the
\* loop takes such a node for one that was left unfinished and answers "failed".
RollsBack(r, n) ==
    /\ MayStep(r, n)
    /\ ~launching
    /\ n \in Approval
    /\ pc[r][n] = "waiting"
    /\ Happens("return")
    /\ \E u \in Behind(n) \ Approval :
          /\ Passed(r, u)
          /\ mem[r].nodes[u].status = "completed"
          /\ SetNodes(r, [mem[r].nodes EXCEPT
                             ![u].status = "running",
                             ![n] = [Record(@, "failed") EXCEPT !.status = "pending"]],
                         [pc[r] EXCEPT ![n] = "ending"])
    /\ UNCHANGED <<disk, main, ctlVars, handled>>

\* _on_reject_upstream, called by a judge while it executes. One that is run again
\* by a judge behind it is not given the callback.
Rejects(r, n) ==
    /\ MayStep(r, n)
    /\ ~launching
    /\ n \in Judges
    /\ pc[r][n] = "executing"
    /\ ~Reworked(r, n)
    /\ Happens("return")
    /\ \E u \in Pred[n] :
          /\ Passed(r, u)
          /\ SetNodes(r, [mem[r].nodes EXCEPT ![u] = SentBack(@)],
                         [pc[r] EXCEPT ![n] = "judging"])
    /\ UNCHANGED <<disk, main, ctlVars, handled>>

\* The judge's execution ends, well or badly: no policy is applied to it, and the
\* rejected node starts a new chain of automatic retries.
SendsBack(r, n) ==
    /\ MayStep(r, n)
    /\ ~launching
    /\ n \in Judges
    /\ pc[r][n] = "judging"
    /\ \E u \in Pred[n], outcome \in {"completed", "failed"} :
          SetNodes(r, [mem[r].nodes EXCEPT ![n] = Record(@, outcome), ![u].auto = 0],
                      [pc[r] EXCEPT ![n] = "sending"])
    /\ UNCHANGED <<disk, main, ctlVars, handled, spent>>

\* The node that was sent back ends, run by the judge's own coroutine (StartNode and
\* Checkpoint are the same): the judge is pending again.
ReworkEnds(r, n) ==
    /\ MayStep(r, n)
    /\ ~launching
    /\ n \in Judges
    /\ pc[r][n] = "sent"
    /\ \E u \in Pred[n] :
          /\ pc[r][u] = "executing"
          /\ \E s \in {Record(mem[r].nodes[u], "completed"),
                       ApplyPolicy(u, Record(mem[r].nodes[u], "failed"))} :
                SetNodes(r, [mem[r].nodes EXCEPT ![u] = s, ![n].status = "pending"],
                            [pc[r] EXCEPT ![u] = "ending",
                                          ![n] = IF s.status = "skipped"
                                                 THEN "sent" ELSE "idle"])
    /\ UNCHANGED <<disk, main, ctlVars, handled, spent>>

\* It was skipped by its policy, which is saved: the judge is skipped as well.
PassesOver(r, n) ==
    /\ MayStep(r, n)
    /\ ~launching
    /\ n \in Judges
    /\ pc[r][n] = "sent"
    /\ \A u \in Pred[n] : Passed(r, u)
    /\ SetNodes(r, [mem[r].nodes EXCEPT ![n].status = "skipped"],
                   [pc[r] EXCEPT ![n] = "ending"])
    /\ UNCHANGED <<disk, main, ctlVars, handled, spent>>

Returns(r, n) ==
    \/ RollsBack(r, n)
    \/ Rejects(r, n)
    \/ SendsBack(r, n)
    \/ ReworkEnds(r, n)
    \/ PassesOver(r, n)

-----------------------------------------------------------------------------
(* The end of a run *)

\* The end of execute_task and of _run_task_coroutine, one step of the loop.
Finish(r) ==
    /\ proc # "down"
    /\ ~launching
    /\ main[r] = "driving"
    /\ \A n \in Nodes : ~Busy(r, n) /\ ~Startable(r, n)
    /\ disk' = [mem[r] EXCEPT !.status = Outcome(r)]
    /\ ClearRun(r)
    /\ IF Outcome(r) = "retry_waiting" THEN Schedule(disk') ELSE UNCHANGED timer
    /\ UNCHANGED <<launching, stop, owner, proc, handled, spent>>

-----------------------------------------------------------------------------
(* stop_task *)

\* No coroutine: the request is decided by the file alone.
StopIdle ==
    /\ LoopFree
    /\ LockFree
    /\ owner
    /\ Active = {}
    /\ Happens("stop")
    /\ \/ /\ disk.status \in {"pre_running", "running", "retry_waiting",
                              "resume_pending"}
          /\ disk' = [disk EXCEPT !.status = "stopped"]
          /\ timer' = IF disk.status = "pre_running" THEN timer ELSE FALSE
       \/ /\ disk.status = "pending"
          /\ disk' = [disk EXCEPT !.status = "absent"]
          /\ UNCHANGED timer
    /\ stop' = "done"
    /\ UNCHANGED <<mem, main, pc, launching, owner, proc, handled>>

\* Mutant: stop_task answers without awaiting the coroutine.
StopRunningAtOnce(r) ==
    /\ LoopFree
    /\ LockFree
    /\ owner
    /\ Happens("stop")
    /\ main[r] = "driving"
    /\ stop' = "done"
    /\ main' = [main EXCEPT ![r] = "cancelled"]
    /\ UNCHANGED <<disk, mem, pc, launching, timer, owner, proc, handled>>

\* coro.cancel(): a coroutine that has not run yet just ends; else the await it
\* hits is either the node's own, or the one inside _execute_parallel_branches,
\* which swallows it.
StopRunning(r) ==
    /\ LoopFree
    /\ LockFree
    /\ owner
    /\ Happens("stop")
    /\ stop' = "asked"
    /\ timer' = FALSE
    /\ \/ main[r] = "created" /\ ClearRun(r)
       \/ /\ main[r] = "driving"
          /\ main' = [main EXCEPT ![r] = IF Branches(r) = {} THEN "cancelled"
                                         ELSE "swallowed"]
          /\ UNCHANGED <<mem, pc>>
    /\ UNCHANGED <<disk, launching, owner, proc, handled>>

\* Mutant: the handler writes a status nothing else knows.
CancelUnwindsOddly(r) ==
    /\ proc # "down"
    /\ ~launching
    /\ main[r] = "cancelled"
    /\ disk' = [mem[r] EXCEPT !.status = "cancelled"]
    /\ ClearRun(r)
    /\ UNCHANGED <<ctlVars, handled, spent>>

\* except asyncio.CancelledError in _run_task_coroutine.
CancelUnwinds(r) ==
    /\ proc # "down"
    /\ ~launching
    /\ main[r] = "cancelled"
    /\ disk' = [mem[r] EXCEPT !.status = "stopped"]
    /\ ClearRun(r)
    /\ UNCHANGED <<ctlVars, handled, spent>>

\* What a parallel block that swallowed a cancellation reports.
SwallowedOutcome(r) ==
    IF \E n \in Frontier(r) \cap Par : /\ pc[r][n] = "idle"
                                       /\ mem[r].nodes[n].status = "retry_waiting"
    THEN "retry_waiting" ELSE "failed"

\* The swallowed cancellation stood for one branch: the block ends when all but
\* one branch have, and the run ends as if that branch had failed.
SwallowFinish(r) ==
    /\ proc # "down"
    /\ ~launching
    /\ main[r] = "swallowed"
    /\ Cardinality(Branches(r)) <= 1
    /\ disk' = [mem[r] EXCEPT !.status = SwallowedOutcome(r)]
    /\ IF Branches(r) = {}
       THEN ClearRun(r)
       ELSE /\ mem' = [mem EXCEPT ![r].status = SwallowedOutcome(r)]
            /\ main' = [main EXCEPT ![r] = "gone"]
            /\ UNCHANGED pc
    /\ IF SwallowedOutcome(r) = "retry_waiting" THEN Schedule(disk')
       ELSE UNCHANGED timer
    /\ UNCHANGED <<launching, stop, owner, proc, handled, spent>>

\* A left-over branch has ended and nothing refers to its task object any more.
BranchEnds(r) ==
    /\ main[r] = "gone"
    /\ Branches(r) = {}
    /\ ClearRun(r)
    /\ UNCHANGED <<disk, ctlVars, handled, spent>>

\* The coroutine is done: stop_task reads the file again and answers.
StopReturns ==
    /\ proc # "down"
    /\ ~launching
    /\ stop = "asked"
    /\ Active = {}
    /\ disk' = IF disk.status \in {"completed", "failed", "stopped", "absent"}
               THEN disk ELSE [disk EXCEPT !.status = "stopped"]
    /\ stop' = "done"
    /\ UNCHANGED <<mem, main, pc, launching, timer, owner, proc, handled, spent>>

-----------------------------------------------------------------------------
(* Node control and the retry timer *)

\* Mutants: no comparison with the attempt the user saw; no look at the task.
ValidatedBlindly(n, expected) ==
    /\ disk.status \in {"failed", "retry_waiting"}
    /\ Active = {}
    /\ Controllable(disk.nodes[n])

ValidatedAnyTask(n, expected) ==
    /\ Active = {}
    /\ Controllable(disk.nodes[n])
    /\ disk.nodes[n].attempt = expected

\* _validate_node_control: expected is the attempt the user was looking at.
Validated(n, expected) ==
    /\ disk.status \in {"failed", "retry_waiting"}
    /\ Active = {}
    /\ Controllable(disk.nodes[n])
    /\ disk.nodes[n].attempt = expected

\* The shared end of retry_node and skip_node: cancel the timer, save the node
\* and resume_pending; run_task comes next.
ResumeWith(n, s) ==
    /\ disk' = [disk EXCEPT !.status = "resume_pending", !.nodes[n] = s]
    /\ timer' = FALSE
    /\ launching' = TRUE
    /\ stop' = IF stop = "done" THEN "none" ELSE stop

Attempts == UNION {0..disk.nodes[n].attempt : n \in Nodes}

RetryNode(n, expected) ==
    /\ LoopFree
    /\ LockFree
    /\ owner
    /\ Validated(n, expected)
    /\ Happens("control")
    /\ ResumeWith(n, PrepareManualRetry([disk.nodes[n] EXCEPT !.status = "failed"]))
    /\ handled' = [handled EXCEPT ![n] = expected]
    /\ UNCHANGED <<mem, main, pc, owner, proc>>

SkipNode(n, expected) ==
    /\ LoopFree
    /\ LockFree
    /\ owner
    /\ Validated(n, expected)
    /\ Happens("control")
    /\ ResumeWith(n, FailureSkip([disk.nodes[n] EXCEPT !.status = "failed"]))
    /\ handled' = [handled EXCEPT ![n] = expected]
    /\ UNCHANGED <<mem, main, pc, owner, proc>>

\* Retries whose deadline the file still holds.
Waiting(t) == {n \in Nodes : t.nodes[n].status = "retry_waiting" /\ t.nodes[n].deadline}

\* Mutant: the activated retry is saved but run_task is not called.
TimerOnlyActivates(due) ==
    /\ LoopFree
    /\ LockFree
    /\ timer
    /\ owner
    /\ Active = {}
    /\ disk.status = "retry_waiting"
    /\ due # {}
    /\ disk' = [disk EXCEPT !.status = "resume_pending",
                            !.nodes = [n \in Nodes |-> IF n \in due
                                                       THEN ActivateRetry(@[n])
                                                       ELSE @[n]]]
    /\ timer' = FALSE
    /\ UNCHANGED <<mem, main, pc, launching, stop, owner, proc, handled, spent>>

\* The timer wakes and "due" are the retries whose time has come. A timer that
\* wakes before any of them arms itself again, which changes nothing here.
TimerActivates(due) ==
    /\ LoopFree
    /\ LockFree
    /\ timer
    /\ owner
    /\ Active = {}
    /\ disk.status = "retry_waiting"
    /\ due # {}
    /\ disk' = [disk EXCEPT !.status = "resume_pending",
                            !.nodes = [n \in Nodes |-> IF n \in due
                                                       THEN ActivateRetry(@[n])
                                                       ELSE @[n]]]
    /\ timer' = FALSE
    /\ launching' = TRUE
    /\ UNCHANGED <<mem, main, pc, stop, owner, proc, handled, spent>>

\* Mutant: a timer that finds its owner disabled ends the task.
TimerStopsTask ==
    /\ LoopFree
    /\ LockFree
    /\ timer
    /\ ~owner
    /\ disk' = [disk EXCEPT !.status = "stopped"]
    /\ timer' = FALSE
    /\ UNCHANGED <<mem, main, pc, launching, stop, owner, proc, handled, spent>>

\* The timer wakes to find there is nothing for it to do.
TimerGivesUp ==
    /\ LoopFree
    /\ LockFree
    /\ timer
    /\ ~owner \/ Active # {} \/ disk.status # "retry_waiting"
    /\ timer' = FALSE
    /\ UNCHANGED <<taskVars, launching, stop, owner, proc, handled, spent>>

-----------------------------------------------------------------------------
(* The process *)

\* The owner extension leaves "running": it does not come back before a restart.
OwnerFails ==
    /\ LoopFree
    /\ owner
    /\ owner' = FALSE
    /\ UNCHANGED <<taskVars, launching, stop, timer, proc, handled, spent>>

\* What is left when the process is gone.
ProcessGone ==
    /\ mem' = [r \in RunIds |-> NewTask("pending")]
    /\ main' = [r \in RunIds |-> "none"]
    /\ pc' = [r \in RunIds |-> NoNodes]
    /\ launching' = FALSE
    /\ stop' = IF stop = "asked" THEN "cut" ELSE stop
    /\ timer' = FALSE
    /\ proc' = "down"

Crash ==
    /\ proc # "down"
    /\ Happens("crash")
    /\ ProcessGone
    /\ UNCHANGED <<disk, owner, handled>>

\* lifespan exit: shutdown_task_recovery stops the timers, runs go on.
ShutDown ==
    /\ LoopFree
    /\ Happens("close")
    /\ proc' = "closing"
    /\ timer' = FALSE
    /\ UNCHANGED <<taskVars, launching, stop, owner, handled>>

\* The event loop closes and cancels every task that is left; the coroutine of a
\* run handles this as any other cancellation.
LoopCloses ==
    /\ proc = "closing"
    /\ \A r \in RunIds : main[r] # "cancelled"
    /\ LET cancelled == {r \in RunIds : main[r] \in {"driving", "swallowed"}}
           parallel(r) == main[r] = "swallowed" \/ Branches(r) # {}
           status(r) == IF parallel(r) THEN SwallowedOutcome(r) ELSE "stopped"
       IN  \/ cancelled = {} /\ UNCHANGED disk
           \/ \E r \in cancelled : disk' = [mem[r] EXCEPT !.status = status(r)]
    /\ ProcessGone
    /\ UNCHANGED <<owner, handled, spent>>

\* Mutants: only the task status is asked for a promised launch; a task without a
\* failed or waiting node is given up.
RecoverByTaskStatus(t) ==
    LET nodes == [n \in Nodes |-> RecoverNode(n, t.nodes[n])]
        some(st) == \E n \in Nodes : nodes[n].status = st
        next == IF t.status = "resume_pending" THEN "resume_pending"
                ELSE IF some("retry_waiting") THEN "retry_waiting"
                ELSE IF some("failed") THEN "failed"
                ELSE "resume_pending"
    IN  [status |-> next, nodes |-> nodes]

RecoverToFailed(t) ==
    LET nodes == [n \in Nodes |-> RecoverNode(n, t.nodes[n])]
        resume == t.status = "resume_pending"
                  \/ \E n \in Nodes : LaunchPromised(nodes[n])
        next == IF resume THEN "resume_pending" ELSE "failed"
    IN  [status |-> next, nodes |-> nodes]

\* _recover_task, on the nodes as the interrupted process left them.
RecoverTask(t) ==
    LET nodes == [n \in Nodes |-> RecoverNode(n, t.nodes[n])]
        resume == t.status = "resume_pending"
                  \/ \E n \in Nodes : LaunchPromised(nodes[n])
        some(st) == \E n \in Nodes : nodes[n].status = st
        next == IF resume THEN "resume_pending"
                ELSE IF some("retry_waiting") THEN "retry_waiting"
                ELSE IF some("failed") THEN "failed"
                ELSE "resume_pending"
    IN  [status |-> next, nodes |-> nodes]

\* The process starts again; recover_workflow_tasks runs before it serves
\* requests and leaves the tasks of a disabled owner alone.
Restart ==
    /\ proc = "down"
    /\ proc' = "up"
    /\ owner' \in BOOLEAN
    /\ IF owner' /\ disk.status \in {"running", "retry_waiting", "resume_pending"}
       THEN /\ disk' = RecoverTask(disk)
            /\ launching' = (disk'.status = "resume_pending")
            /\ Schedule(disk')
       ELSE UNCHANGED <<disk, launching, timer>>
    /\ UNCHANGED <<mem, main, pc, stop, handled, spent>>

-----------------------------------------------------------------------------

EngineStep(r) ==
    \/ \E n \in Nodes : \/ StartNode(r, n)
                        \/ Checkpoint(r, n)
                        \/ AskApproval(r, n)
                        \/ NodeEnds(r, n)
                        \/ Returns(r, n)
    \/ Begin(r)
    \/ Finish(r)
    \/ CancelUnwinds(r)
    \/ SwallowFinish(r)
    \/ BranchEnds(r)

UserStep ==
    \/ \E r \in RunIds : RunTask(r) \/ StartPreRunning(r) \/ StopRunning(r)
    \/ StopIdle
    \/ \E n \in Nodes, e \in Attempts : RetryNode(n, e) \/ SkipNode(n, e)

ControlStep ==
    \/ Launch
    \/ StopReturns
    \/ \E due \in SUBSET Waiting(disk) : TimerActivates(due)
    \/ TimerGivesUp

FailureStep ==
    \/ \E r \in RunIds : BeginFails(r) \/ \E n \in Nodes : CheckpointFails(r, n)
    \/ OwnerFails
    \/ Crash
    \/ ShutDown
    \/ LoopCloses

Next ==
    \/ \E r \in RunIds : EngineStep(r)
    \/ UserStep
    \/ ControlStep
    \/ FailureStep
    \/ Restart

Spec == Init /\ [][Next]_vars

(* Scheduling. The event loop runs every ready callback, node executions end
   (WORKFLOW_NODE_TIMEOUT_SECONDS, script and approval timeouts), deadlines
   pass, and docker-compose.yml restarts the process. Users owe nothing, and
   failures need not happen. *)
Fairness ==
    /\ \A r \in RunIds : WF_vars(EngineStep(r))
    /\ WF_vars(ControlStep)
    /\ WF_vars(Restart)

FairSpec == Spec /\ Fairness

-----------------------------------------------------------------------------
(* Safety *)

\* What every node state the program writes or works on satisfies: a waiting retry
\* has its deadline, so _retry_waiting_states never loses it; the automatic budget
\* is not exceeded, whatever crashes, manual retries and replayed recoveries came
\* in between; and an attempt that is over is in attempt_history.
NodeOK(n, s) ==
    /\ s.status = "retry_waiting" <=> s.deadline
    /\ s.auto <= RetryBudget(n)
    /\ s.history \subseteq 1..s.attempt
    /\ s.status # "pending" => s.attempt > 0
    /\ s.status \notin {"running", "waiting_approval"} /\ s.attempt > 0
         => s.attempt \in s.history

\* Where a node's execution is and what its state says agree.
PositionOK(position, s) ==
    /\ position \in {"starting", "executing", "judging"} => s.status = "running"
    /\ position \in {"asking", "waiting"} => s.status = "waiting_approval"
    /\ position \in {"sending", "sent"}
         => s.attempt > 0 /\ s.status \in {"completed", "failed", "pending"}

\* Both of these hold in the task file and in the task object of every run.
NodesOK ==
    \A n \in Nodes : /\ NodeOK(n, disk.nodes[n])
                     /\ \A r \in RunIds : /\ NodeOK(n, mem[r].nodes[n])
                                          /\ PositionOK(pc[r][n], mem[r].nodes[n])

\* A task that waits for an automatic retry is never left without a timer while
\* its owner is enabled and nothing else is about to wake it.
NoLostWakeup ==
    (/\ proc = "up" /\ owner /\ ~launching /\ LockFree /\ Active = {}
     /\ disk.status = "retry_waiting")
    => timer

\* A failed task always has a node its user can retry or skip.
FailedIsControllable ==
    disk.status = "failed" => \E n \in Nodes : Controllable(disk.nodes[n])

\* Once stop_task has answered, nothing of the task is still executing.
StopIsEffective ==
    stop = "done" => \A r \in RunIds, n \in Nodes : ~Busy(r, n)

\* A task is stopped only because a user asked for it.
OnlyUserStops == disk.status = "stopped" => stop # "none"

\* The nodes that somebody may send back although they are done: a judge and the
\* node it judges, and the node an approver may return together with the approval.
Returnable ==
    {u \in Nodes : \/ \E n \in Judges : u \in {n} \cup Pred[n]
                   \/ u \notin Approval /\ \E n \in Approval : u \in Behind(n)}

\* A node that is completed or skipped in the file stays so, unless its work may be
\* returned: neither recovery nor a retry of another node runs it again.
DoneIsFinal ==
    [][\A n \in Nodes \ Returnable :
         Done(disk.nodes[n]) => disk'.nodes[n] = disk.nodes[n]]_vars

\* Two requests made on sight of the same attempt are never both accepted, nor
\* one made on sight of an attempt older than the last one handled.
HandledOnce ==
    [][\A n \in Nodes, e \in Attempts :
         RetryNode(n, e) \/ SkipNode(n, e) => e > handled[n]]_vars

\* A restart of an enabled owner never fails a task that waits for an approval:
\* the approval is issued again, whatever became of the parallel branches.
RestartKeepsApprovals ==
    [][proc = "down" /\ owner' /\ disk.status = "running"
       /\ (\E n \in Nodes : disk.nodes[n].status = "waiting_approval")
       => disk'.status \in {"running", "resume_pending"}]_vars

(* The lifecycle a user is promised *)

Phase == [pending |-> "ready", pre_running |-> "ready", running |-> "active",
          resume_pending |-> "active", retry_waiting |-> "waiting",
          completed |-> "completed", failed |-> "failed",
          stopped |-> "stopped", absent |-> "discarded"]

Lifecycle == INSTANCE TaskLifecycle WITH
    Nodes <- Nodes \ Returnable,
    phase <- Phase[disk.status],
    finished <- {n \in Nodes \ Returnable : Done(disk.nodes[n])}

\* The task file goes through the phases of TaskLifecycle: a completed or stopped
\* task is never touched again, a failed one leaves only through node control, and,
\* of the nodes whose work nobody may return, done ones stay done and all are done
\* in a completed task, whichever handler, run, timer or recovery wrote the file last.
ImplementsLifecycle == Lifecycle!Spec

(* Liveness *)

\* A launched task comes to an end, through any number of automatic retries and
\* restarts, unless its owner is disabled.
RunEnds ==
    disk.status \in {"running", "resume_pending", "retry_waiting"}
    ~> \/ disk.status \in {"completed", "failed", "stopped"}
       \/ ~owner

\* A retry that was promised in the file is run, even if the process dies between
\* the promise and the launch and although a parallel sibling has failed.
PromiseIsKept ==
    \A n \in Nodes :
        LaunchPromised(disk.nodes[n])
        ~> ~LaunchPromised(disk.nodes[n]) \/ ~owner \/ stop # "none"
=============================================================================
