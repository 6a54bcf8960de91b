# DeterminFlow in TLA+

DeterminFlow runs workflows of agent, script, approval and sub-workflow nodes as
durable tasks, around agent sessions people talk to in a browser, with scheduled
jobs, round-table meetings, and extensions and plugins that can be installed,
updated and switched off. This directory models that machinery in TLA+, checks it
with TLC on small instances and proves parts of it with TLAPS for all of them.
Paths below are relative to the repository's package (`workflow/...` is
`src/src/workflow/...` in the manifest); `web/src/...` is the front-end.

## 1. Inventory

The program is one Python process with one asyncio event loop. Threads only do
file writes, reloads and blocking tools. Everything durable is a JSON file that is
written to a temporary name and renamed.

| Part | State | Operations | Hard because | Correct if | Module |
|---|---|---|---|---|---|
| **Failure policy** `workflow/failure_policy.py` | one node's state: status, attempt and retry counters, trigger, deadline, history | begin and record an attempt, prepare and activate a retry, skip | replayed by recovery after any crash | budget kept, no attempt without a record, no waiting retry without a deadline | `NodeState` |
| **Task control** `workflow/manager.py`, `task_recovery.py` | task file, `_running_tasks`, `_retry_timers`, a control lock per task | run, stop, retry, skip, timer, recover, shut down | handlers, runs and the timer rewrite the file; the process may die between any two writes | promised retries run, stops are effective and final, stale requests are refused | `TaskControl`, `TaskLifecycle` |
| **Engine and loops** `workflow/engine.py`, `execution_flow.py`, `execution_loop.py` | a copy of the task per run, threads of branches, loop cursors, frozen choices | walk the plan, checkpoint, rework, roll back, iterate | recovery within an iteration; choices must outlast their variables; saves of all branches at once | a completed task did all that was drawn, once | `TaskFlow`, `TaskControl` |
| **Definitions** `workflow/definition.py` | the drawing | validate, pair gateways, plan | graph searches over drawings nobody foresaw | the plan has every node the drawing leads to | `WorkflowPlan` |
| **Subprocess node** `workflow/nodes/subprocess.py` | frozen child definition, choices, children's states | execute, resume, recover | no retries of its own; the child may be redrawn | one run of one definition | `ChildFlow` |
| **Agent node** `workflow/nodes/agent.py` | session, completion event, approval waiter, per attempt | report, ask, decide, repair, time out | four clocks and three parties at one waiter | what passes was approved | `AgentNode` |
| **Frozen identity** `workflow/runtime_guards.py`, `script_library.py`, `nodes/script.py`, `main_task_creation.py` | guards in the task, the library, script processes | freeze, refresh, verify, run | everything a task runs may be edited while it exists | what runs is what was frozen; scripts run alone | `TaskIdentity` |
| **Agent session** `agent/session.py`, `session_manager.py` | record, model's memory, lock, inbox, abort flag, dirty mark | message, edit, mail, compact, abort, kill, delete, flush, load | roll-backs and checkpoints around a shared lock; saves in threads | nobody loses another call's words, saves are current, everybody is served | `AgentSession` |
| **The model's window** `core/utils.py`, `compression/`, `core/graph_builder.py` | the list of messages | trim, compact, sanitise, roll back, restore | each cut may part a call from its result | every request is well-formed and has the question and the results | `ContextWindow` |
| **Event bus and browser** `web/event_bus.py`, `web/src/features/conversation` | queue and overflow per connection, revisions, drafts on both sides | subscribe, emit, drop, resynchronise, reconnect | slow readers, lost frames, joining in the middle | what is shown is real, gaps are noticed and mended | `Conversation`, `StreamDraft` |
| **Roundtable** `roundtable/` | seats, turn, transcript, interventions | start, pause, resume, stop, call on, add, remove | control between the awaits of the runner | a round hears everybody, nothing seen is lost | `Roundtable` |
| **Cron** `cron/`, `tools/cron_tools.py` | job file, tick loop | tick, run now, add, edit, pause | a tick holds a stale list for minutes | no job passed over without a reason | `Cron` |
| **Extension host** `extension_host/manager.py`, `plugin_system/processes.py` | states, processes, tools, order | register, start, fail, stop | a process exits while its dependents start | what runs depends on what runs; nothing of a failure is left | `Extensions` |
| **Plugin store** `plugin_system/store.py`, `extension_host/plugin_*.py` | lock file, enabled set, settings, pending actions | install, update, roll back, remove, cancel, apply at restart | two files, pending actions and their cancellation | what runs can be gone back to; "no restart needed" is true | `PluginStore` |
| **Layered resources** `extension_host/resources.py`, `skills/`, `rules/`, `prompts/`, `agent/config_manager.py` | user's file, extension's files, overrides, memory | add, change, delete, reload, sync, save | every save rewrites two files from memory | what a user decided stays decided | `Resources` |
| **Workflows of plugins** `extension_host/workflow_provisioning.py` | files, marker | start, edit, delete, create, change plugins | users edit what starts rewrite; a start is cut off before the marker | edits stay, the rest follows the plugin | `ShippedWorkflow` |
| **The rest** | configuration, model clients, MCP client, pricing, tools, routes | | stateless or I/O | | not modelled |

How they meet: HTTP and WebSocket handlers call the workflow manager, the session
manager, the roundtable and cron. The manager starts an engine run as a task; the
engine calls node plugins, which create agent sessions or wait for approvals that
the manager resolves. The extension host tells the manager whether the owner of a
workflow runs, gives the script library its plugin roots and the layered files
their layers. Everyone emits to the event bus. The server's lifespan recovers
tasks, loads sessions and starts extensions at the start, and stops them at the
end.

## 2. Plan

Done: `NodeState`, `TaskControl`, `TaskLifecycle`, then `Conversation`, `StreamDraft`,
`AgentSession`, `ContextWindow`, `Roundtable`, `Cron`, `Extensions`, `PluginStore`,
`WorkflowPlan` with `TaskFlow` and `ChildFlow`, `Resources`, `AgentNode`,
`ShippedWorkflow`, `TaskIdentity`. Proofs: everything `TaskControl` promises of safety
and its refinement of `TaskLifecycle`; the safety of `AgentSession` and
`Conversation`; the requests, results and memory of `ContextWindow`; the approvals of `AgentNode`; the
children of `ChildFlow`; the scripts and frozen identities of `TaskIdentity`; the order and the transcript of `Roundtable`; the drafts of
`StreamDraft`; the lateness of `Cron`; the safety of `PluginStore`, `ShippedWorkflow`
and `Resources`; the containment of failures in `Extensions`; the loops of `TaskFlow`, and
that it does nothing twice.

Left, in this order:

1. Proofs: that a completed task of `TaskFlow` has been everywhere (`NothingLeftOut`), which
   needs to be known of the drawings that are valid.
2. A second start of a roundtable and its reload after a crash; partial re-runs
   (`from_node_id`); files of definitions and schemes.

## 3. The models

### NodeState

The pure functions on one node's state, without variables. `Record` keeps the
attempt *numbers* of `attempt_history` as a set, because `record_attempt`
overwrites the record of the same attempt. A deadline is only set or not set.
`RecoverNode` is what `_recover_interrupted_nodes` and `_recover_waiting_approval_nodes`
do to one node together with the check for a missing deadline in `_recover_task`.
`TaskControl`, `TaskFlow` and `ChildFlow` all run on it.

### TaskControl and TaskLifecycle

One task. The variables and what they stand for:

| Variable | Code |
|---|---|
| `disk` | the task file: status and node states |
| `mem[r]` | the `WorkflowTask` object run `r` mutates |
| `main[r]`, `pc[r][n]` | where the coroutine of run `r`, and node `n` in it, is suspended |
| `launching` | a handler has saved `resume_pending` and goes on to `run_task`; a crash may come in between, nothing else |
| `stop` | the last stop request; `asked` while `stop_task` awaits the coroutine with the control lock held |
| `timer` | a live timer in `_retry_timers` |
| `owner`, `proc` | the owner extension runs; the process is up, in its lifespan exit, or gone |
| `handled`, `spent` | history: the attempt a user last retried or skipped per node; outside events so far |

An action is what the event loop does between two awaits, cut once more after
each write of the task file. The attempt begins and is saved *before* the plugin
runs, and its outcome is saved after the policy was applied. `Checkpoint` writes
the whole in-memory task, so it also publishes what sibling branches have done
since. `CheckpointFails` and `BeginFails` are the error paths.

Cancellation is modelled as asyncio does it: `StopRunning` cancels a coroutine.
If it awaits a node of its own, the exception unwinds to the handler that saves
`stopped` (`CancelUnwinds`). If it awaits the branches of a parallel block, the
block takes the exception for the end of one branch (`swallowed`), collects the
others, and the run ends while one branch goes on (`gone`): this is why there are
several run identifiers.

The plan is given by `Pred` (the nodes directly before a node) and `Par` (the
nodes inside branches). Work can be returned in two ways (`Returns`). A node in `Judges`
(`enable_reject_upstream`, off by default) rejects the node before it while it executes
(`Rejects`): once its own attempt is over and saved (`SendsBack`), its coroutine runs that
node again, and then the judge is pending (`ReworkEnds`) or passed over (`PassesOver`).
An approver's rejection behind a node of the same branch makes that node `running` and the
approval `pending`, and ends the branch as failed (`RollsBack`); steps outside
parallel blocks are sequences of one node, so there it fails the approval (`NodeEnds`).
Judges that name an earlier node than the one before them are in `TaskFlow` only
(`JudgesAssumption`). Abstractions: a write of the task file is one step (the
code serialises the writers by a lock per task and writes a snapshot, then
renames); the synchronous `_save_task` does not fail; timer generations are not
numbered, because every path that arms a timer cancels the previous one first; a
timer may find any non-empty set of due retries. Control flow is in `TaskFlow`.

`TaskLifecycle` is the task a user is promised: a phase and the set of finished
nodes. Each move says which phase may follow which and that no finished node is
taken back; `Complete` alone requires that every node has finished. It does not
mention runs, memory, crashes or the timer: whatever these do must look like one
of its moves or like nothing (`ImplementsLifecycle`). Its nodes are those whose work
nobody may return (not `Returnable`).

### WorkflowPlan, TaskFlow

`WorkflowPlan` has no state: validation, the pairing of gateways, the bodies of
loops, the meeting points of branches and the plan, as operators on a drawing (a
record of nodes, gateways and ordered edges), translated search for search because
their order decides: each is a loop, one turn of it an operator (`BreadthTurn`,
`FollowTurn`, `DepthTurn`, `WalkTurn`) and as many turns as there can be (`Iterate`).
`TaskFlow` carries such a plan out: `disk` is the task file,
`task` the run's copy, `run` where it is: a step of the plan and a thread per
branch. It has frozen choices, both kinds of loop (a count, and a condition that
leads back) with cursor, reset and snapshot, rework sent back by a validator,
approvals refused and rolled back, disabled nodes, retries, skips and a crash
between any two saves, with the recovery code on top of `NodeState`. Conditions
are left to chance at the moment they are evaluated. Stops, timers and failing
saves are in `TaskControl` only.

### ChildFlow

A workflow inside a node: `disk` and `task` are the parent's state with those of
its children and the snapshot (`snap`) it froze at the first attempt: the child's
definition as it was `drawn` then, and the choices made since. `kept` counts saved
completions of each child, `excuse` notes a failed save or a refusal, after which
a child may be left as it is. Children have no failure policy: only the parent's
retries, rework and loop iterations run them again.

### AgentNode

`att[k]` is what the closures of attempt `k` hold on to (session, event, state
object), which outlives the attempt; `exec` the `execute` the engine awaits;
`waiters` the runs of `_handle_approval`; `slot` the engine's registry entry for
the node, one for all of them. `Written` is why an old attempt can still touch the
file. `excuse` notes the ways in which the code lets a report pass that nobody
approved: no answer in time, too many refusals, a report while another one was
pending or after one was settled.

### TaskIdentity

Contents are version numbers. `live` is what there is now, `file` the task with
its guards, `run` the run with its copy and what its last verification saw,
`starting` the copy `pre_start_task` holds, `alive` the processes of scripts (the
script, a process that keeps its output open, one that does not). The task has
three nodes, one of each kind that has an identity. `made` remembers what the task
was created with or last re-frozen to.

### AgentSession, ContextWindow

`AgentSession`: calls (a message, the edit of one, a task's text, mail from
another agent, a compaction, a workflow's repair) queue at the lock, take a
checkpoint of `record` and `lc`, stream, and end, fail, are aborted or cancelled;
`flush` is the save the timer makes in a thread in four steps. `life` has the kill
that waits five seconds, the deletion and the shutdown. An entry is who wrote it
and in which call. Mail is handed out in any order: the heap compares priorities
only.

`ContextWindow`: the list a session remembers, the one the graph works on, and the
one that is sent, message for message with sizes in tokens: both sanitisers,
trimming, the micro and full strategies of compaction, the boundary message, the
roll-back of a failed turn and the restoration from the record.

### Conversation, StreamDraft

`Conversation`: the session's turns as far as they emit events, the bus with its
bounded queue and overflow, its revisions and its active stream, and the browser:
reducer, resync effect, reconnection, optimistic messages. A draft is the number of
events that built it. `StreamDraft` has what events do to a draft, by the bus (slot
by slot) and by the browser (by slot, by name, or by slots read off a snapshot).

### Roundtable, Cron, Extensions, PluginStore, Resources, ShippedWorkflow

`Roundtable`: the runner as it waits (for a model, a moderator, the end of a pause)
and everything people can ask for in between, in both orders of speaking. `Cron`:
relative time in minutes; a tick, a run by hand and edits, each with the list they
read. `Extensions`: registration, start, exit handlers and stop, each suspended where
the code awaits; before them the depth-first order, one call or return of `visit` at a
time (`Visit`, `VisitReturns`), with what a call has yet to ask as a set, since the
manifest may name dependencies in any order. A handler is at a place of that order, from
the last to the first, and passes over who needs nothing of its owner. `PluginStore`: the desired state against what
the running program applied, with an update suspended over its clone. `Resources`:
one entry's value for all a file says about it; layers, overrides, bundles and the
managers over them; reloads are split where a thread or an await splits them.
`ShippedWorkflow`: a start of the program file by file under the marker of one
workflow's directory; contents are told apart as hashes tell them apart.

### MC modules

`MCTaskControl`, `MCConversation`, `MCAgentSession` give constants their values.
`MCServices` holds one instance of each smaller component; `Init` picks the one a
behaviour is about, so that the state spaces add up and do not multiply, and the
modules share ten variables.

## 4. What is checked

| Run | Instance | Result |
|---|---|---|
| `task_fork` | `a` (one automatic retry) and `b` (an approval) in parallel; 2 crashes, 2 retry or skip requests; fair | 7 properties hold |
| `task_chain` | `a` then `b`, one retry each, `a` skips on failure, `b` an approval; 2 stops, 2 crashes, 1 request, 1 failed set-up | 3 properties hold |
| `task_any` | one branch of `a`, a judge `b` of it, and an approval `c` behind `b`; two runs; 2 returns, 1 stop, crash, clean shutdown and failed checkpoint | `TypeOK`, `NodesOK` hold |
| `task_stop` | the fork, one stop | `StopIsEffective` fails |
| `task_close` | the chain, one clean shutdown | `OnlyUserStops` fails |
| `task_setup` | the chain, one failed set-up | `FailedIsControllable` fails |
| `conversation` | a queue of two and an overflow of one; two turns or a turn and an outside event (9 pairs); fair | 4 properties hold |
| `session` | 11 scenarios of up to 3 calls and up to 3 kinds of fault; fair | 6 properties hold |
| `services` | twelve small components, see below | 18 properties hold |
| `flow_branch` | a condition with an edge straight to what follows | `NothingLeftOut` fails |
| `flow_rework` | a validator, its upstream node and a crash | `ReworkIsLookedAt` fails |
| `resources_off` | starts without the extension (disabled, not loading, blocked) | `SettingsSurvive` fails |

What the properties say of the code:

* `NoLostWakeup`: a task in `retry_waiting` whose owner runs has a timer, or some
  step that will arm one is under way.
* `FailedIsControllable`: a failed task has a node that can be retried or skipped;
  otherwise it is lost, since `run_task` refuses failed tasks. Holds across crashes
  at every write, does not hold when the set-up of a run fails.
* `DoneIsFinal`: no step runs a completed or skipped node again, in any order of
  sibling checkpoints, crashes and recoveries. Nodes whose work a judge or an approver
  may return are left out (`Returnable`; none in the fork and the chain): what may become
  of those is `CompletedIsNotRedone` of `TaskFlow`.
* `HandledOnce`: the comparison with `expected_attempt_count` refuses every second
  request made on sight of the same attempt.
* `RestartKeepsApprovals`: an approval that was waited for is issued again even if
  a parallel sibling has failed.
* `PromiseIsKept`: a pending node with a retry trigger in the file is launched, even
  if the process dies between the save and the launch. `RunEnds`: a launched task
  ends. Both are about graphs without judges: a crash in the middle of a rework leaves the
  judge and the node it judges failed, and a retry of the judge then waits behind that node.
* `StopIsEffective`, `OnlyUserStops`: after a stop is answered nothing executes, and
  only a user stops a task.
* `ImplementsLifecycle`: the task file refines `TaskLifecycle`, so ended tasks stay
  ended except by node control, a waiting task cannot fail without running again,
  and "completed" is never saved while a node is unfinished. Checked on the chain;
  in the fork a stop can break it, because of the left-over branch (disagreement 1).
* `NodesOK`: deadline, budget and history of every node state, in the file and in
  the runs, and agreement of a node's status with where its execution stands.
* `ShownDraftIsReal`, `NothingLostSilently`, `HistoryIsShown`, `CatchesUp`
  (`Conversation`): what the browser shows is what the server had at the revision it
  stands at; a browser that knows of no gap has none; between turns it shows the
  history; and in the end it is in step.
* `StreamingIsLive`, `OtherTurnsStay`, `CleanFileIsCurrent`, `FileCatchesUp`,
  `EveryCallIsServed`, `EndedStaysPut` (`AgentSession`): a session that says it
  streams has a call that does; nobody's roll-back takes another call's words; a
  clean dirty mark means the file is current; it becomes current; everybody in the
  queue or the inbox is served; and after a kill or in a deletion nothing is said.
* `DraftsAgree` (`StreamDraft`): bus, browser and a browser that joined in the middle
  have the same draft, in which every call has one segment.
* `RequestIsWhole`, `ResultsReachModel`, `RecordCoversMemory` (`ContextWindow`): the
  request is well-formed and has the question; it has the results the model waits
  for; and the record a restart restores from covers the memory.
* `NobodySkipped`, `SeenIsKept` (`Roundtable`); `LateForAReason` (`Cron`);
  `FailuresAreContained` (`Extensions`); `RevisionsAreKept` (`PluginStore`,
  `ShippedWorkflow`); `ChoicesSurvive` (`Resources`, `ShippedWorkflow`): as in the last
  column but one of the inventory. In `Resources`, of what an extension ships only what was decided
  since the program was last started without it (`was mine`, `was gone` are what was
  decided before: disagreement 6). Of `ShippedWorkflow` they also say that a refusal to
  start has one of the reasons the code names, or is due to a start or deletion cut off.
* `NothingLeftOut`, `IterationsAreCounted`, `CompletedIsNotRedone`,
  `ReworkIsLookedAt` (`TaskFlow`): a completed task has been to every node the
  drawing leads to with the choices made, and to no other, in a loop anew in each
  iteration; through every iteration once and in order; nothing done is done again but for a new iteration or rework;
  rework that passes has been looked at.
* `ResumesAsOneRun` (`ChildFlow`): a completed subprocess is one run of one
  definition; no child is done twice or undone on the way; and where the subprocess can be
  tried again, so can its children.
* `OnlyApprovedPasses` (`AgentNode`), `RunsAsFrozen`, `ScriptRunsAlone`
  (`TaskIdentity`): what a node passes on was approved; an attempt runs what was
  frozen and is refused only when something changed; no process of an earlier attempt
  works beside a script.

Type invariants: `TypeOK` (`task_any`), `TypesOK` for the components of `services`
(`StreamDraft` excepted, whose states are its two drafts), and as a conjunct of
`NothingLostSilently` and of `StreamingIsLive` in the other two.

**Bounds.** `TaskControl`: two nodes are the least that have siblings (fork) and an
order (chain). Two crashes let recovery itself be interrupted, two requests let one
meet the traces of another. Three nodes are the least for a judge with something before it
and an approval behind it (`task_any`). `RetryCount` is at most 1, so that a budget can be used
up; `RunIds` has two members where a left-over branch can meet a newer run.
`Conversation`: a queue of two and an overflow of one fill up within one turn; each
scenario pairs the outside events that touch the same state. `AgentSession`: three
calls are the least in which one holds the lock, one waits and one comes later.
`TaskFlow`: eight drawings with a choice, both loops, a block and their nestings (two
refused), two iterations, two faults, one automatic retry, one rejection; `ChildFlow`
two faults and two edits or retries; `AgentNode` two attempts, two reports, two faults, so that an old
attempt can meet a new one; `TaskIdentity` two edits, three attempts and one stop, restart or helper
process. `ContextWindow`: a window of seven tokens that five messages overflow.
`Roundtable`: three seats and a guest, two rounds, two requests. `Cron`: two jobs, runs of up to two
minutes. `Extensions`: five dependency graphs (a chain, a diamond's half, a cycle, a missing one, one
missing but enabled), two faults. `PluginStore`: two plugins with up to three revisions, four operations.
`Resources`: one user's bundle and a second one, one shipped, one bundled, four calls.
`ShippedWorkflow`: two plugins that claim one workflow, four operations, one fault.

`CHECK_DEADLOCK FALSE` everywhere: a task that has ended, a meeting that is over or
a component whose bounds are used up has no step, as intended.

**Fairness.** `task_fork`: weak fairness of the engine's steps, of the control steps
and of `Restart`: the event loop runs every ready callback; executions end because
scripts, agents and approvals have time-outs; deadlines pass; and
`docker-compose.yml` restarts the process (`restart: unless-stopped`). `conversation`: the
sender task of a connection drains its queue, the browser handles what arrives,
reconnects and sends what its effects ask for, the server reads frames, streams end. `session`: the
save timer runs while the process does, the consumer and the tasks at the lock go on,
a model's stream ends. Never for users, failures, shutdowns or kills. `FileCatchesUp` is
vacuous once the bound on saves is used up; the bound of two leaves room for a save that
fails and one that mends it.

### Disagreements found

Each is a run that TLC refutes:

1. **A stop does not stop a parallel block** (`task_stop`, `workflow/execution_flow.py:594`).
2. **A clean shutdown is saved as a user's stop** (`task_close`): the loop's teardown
   cancels the run, `_run_task_coroutine` saves `stopped`, and recovery skips stopped
   tasks; a crash, by contrast, is recovered from.
3. **A failed set-up makes the task uncontrollable** (`task_setup`): `create_llm`
   raises outside the `try` of `execute_task`.
4. **A condition without an else skips the rest of the workflow** (`flow_branch`,
   `workflow/definition.py:320`): a target of an edge is not taken for the meeting point, so what
   both ways lead to belongs to the way not chosen.
5. **Rework can pass unseen after a crash** (`flow_rework`, `execution_flow.py:445`).
6. **Settings of what an extension ships are lost when the program starts without it**
   (`resources_off`, against `docs/architecture.md:61`): disabled, not loading or registering,
   or blocked by a dependency (`extension_host/manager.py:252`, `:406`, `:449`, `:508`), it adds no layers, and the
   next save of a manager drops the overrides (`resources.py:190`); skills and rules are saved
   by the start itself.

Met while modelling and read in the code, without a run of their own. In the models
they appear as an action, an excuse or an exception, so that the properties say what
holds beside them:

* *Tasks.* A variable set while a task runs is overwritten by the run's next
  checkpoint, and one that names an agent makes attempts to come fail their guard
  (`TaskIdentity`). `pre_start_task` writes its copy over a setting or a start made
  while it awaited a session (`SettingLost`). A library script saved through the editor goes to the
  user's root whoever owns what was read: from then on every scan conflicts while the
  owner runs, and at the next start the owner is refused. A stop leaves a script's process running, and reading the output of
  a script over its time waits as long as something it started holds the pipe.
* *Flows.* An approval's rejection behind other nodes sends the upstream node to
  `running`, where the loop head answers with failure: nobody can retry it (`RollsBack` of
  `TaskControl`, the exception `Unrolled` of its theorems; `Refused` of `TaskFlow`). A loop driven
  by a condition runs its body once as plain steps and again as iteration 1. Conditions
  inside branches are not evaluated. Parallel gateways pair in file order.
* *Subprocesses.* Rework sent back to a subprocess runs none of its children again. A
  refusal is saved before the failure; a crash between leaves the child `rejected`. After a failed save the child may stay
  `running` in a failed parent until a restart (`excuse`).
* *Agent nodes.* A second report takes over the waiter of the first, whose hour passes
  as an approval; a decision may be popped by the wrong one. Node time (30 minutes) is
  shorter than approval time (an hour). A late report of an attempt that timed out
  writes its own run's task over the file.
* *Sessions.* After an unanswered question an edit may cut memory at another question
  than the record (`session.py:1087`). A cancelled repair leaves the session `streaming`
  (`RepairCancelled`).
* *Compression.* A compaction that summarises nothing still inserts its boundary, behind
  which earlier messages are cut.
* *Roundtable.* A paused meeting can be started a second time, and then two runners drive it;
  interventions accepted at the end are dropped; a removal decided on a stale count may leave one seat.
* *Cron.* What a tick passes over is moved on in memory only, so an overdue interval job that was
  paused is passed over for ever; a time without zone makes whole ticks fail; ticks and runs by hand write stale lists (`excuse`).
* *Extensions.* A start begun while an exit handler awaits a stop stays running on a degraded dependency (`late`).
  `tests/test_extension_host.py:261` expects a missing dependency to block what needs it; if
  the missing one is enabled as well, `_resolve_enabled` has given it an empty manifest
  (`manager.py:350`), `visit` does not take it for missing, and it is loaded and runs
  without any code, with all that needs it (`HasManifest`; the program does so when run).
* *Plugins.* Cancelling a removal clears a pending install or update behind it; an
  update of a plugin pending removal cancels the removal. A missing plugin that is enabled is loaded
  empty where another needs it (`LoadOrder`); when it is then disabled, nobody is told that
  a restart is needed, which would block the other one, because what is wanted has the same names
  (why `NoRestartNoChange` is about installed plugins).
* *Resources.* `rule_manage` creating a rule removes the settings of all others (why `ChoicesSurvive` leaves the
  entries of rules out); a setting accepted while a reload is between reading and
  storing is lost.
* *Workflows of plugins.* A first installation cut off after `definition.json` and before the
  marker makes every later start refuse the workflow as the user's
  (`workflow_provisioning.py:128`), and so does a deletion that fails after it has removed the marker;
  a plugin update after a start that was cut off leaves files counted as changed for
  ever (`cut`). A shipped script that was dropped, kept for a change, changed back and shipped
  again is never followed again. The marker of a plugin no longer loaded
  keeps blocking another plugin with the same workflow.

## 5. What is proved

For every value of the constants, with the assumptions named below. A module of
proofs extends the module it is about;
`ServicesProofs` and `PackageProofs` instantiate four and three components, `AgentNodeProofs` and
`AgentSessionProofs` a second one each, so that the names
of one do not meet those of another. What these components need of their constants is a
hypothesis of the theorem (`Numbered`, `ContentsApart`, `NamedApart`, `Described`, `Drawn`,
`BodiesApart`, `SizesAreNumbers`; also that `MaxIterations` and `MaxFaults` are numbers) and the first
conjunct of the component's `TypeOK`, so that `services` evaluates it on the instance in
`MCServices`, whose properties are the components' own under the name of the run.

**`TaskControlProofs`, types and nodes.** `TypeCorrect` (`Spec => []TypeOK`) and `NodesCorrect`
(`Spec => []NodesOK`), for any workflow graph and retry settings, with judges and approvals
that return work, any number of runs and any bounds on outside events. From `RetryCountAssumption`, `AutoSkipAssumption`,
`MaxAutoRetryAssumption` (`NodeState`), `PredAssumption`, `ParAssumption`,
`ApprovalAssumption`, `JudgesAssumption`, `RunIdsAssumption` and `LimitAssumption` (`TaskControl`).

* `TypeOK` is inductive as it stands. There is one lemma per group of actions
  (engine, user, control, failure, restart) over lemmas that type what each operator
  on node states returns.
* `NodesOK` is inductive relative to `TypeOK`, because it speaks of every run's memory
  and not only of the file: the file is written from memory (`Checkpoint`), and memory
  is read from the file (recovery, a launch, the timer), so neither half is inductive
  alone. It also ties a node's status to where its execution stands. Without this, an
  attempt could be recorded twice. `BeginAttemptOK`, `RecordOK`, `ApplyPolicyOK`,
  `ControlOK` and `RecoverNodeOK` say what each function of the failure policy needs
  and leaves; `SetNodeOK` lifts them to a node of a run, and `WholesaleOK` to a copy of
  a whole task.

**`TaskControlProofs`, safety.** From the same assumptions. A stop inside a parallel block
leaves a branch behind that saves its own copy of the task later (run `task_stop`),
so four of its first six theorems are about behaviours in which that does not happen:
`[][Undivided]_vars`, no stop request cancels a run while it awaits branches. That is
no restriction where there is no parallel block (`SequentialIsUndivided`) or nobody
stops the task (`UnstoppedIsUndivided`).

* `StopsAreEffective` (`StopIsEffective`), from the invariant `RunsOK`: one run is
  alive at a time; the file says `running` as long as it is; a launch that is pending
  finds no run; and a stop that was answered leaves nothing alive and a status
  nothing leaves by itself.
* `DoneNodesAreFinal` (`DoneIsFinal`), from `AheadOK` on top of it: what the file
  calls done, and nobody may return, the one run alive has in memory just so, so its
  checkpoints take nothing back.
* `AttemptsHandledOnce` (`HandledOnce`), from `HandledOK`, which follows the last
  attempt a user handled through the file and the memory of the runs.
* `NoWakeupIsLost` (`NoLostWakeup`), step by step relative to `RunsOK`.
* `ApprovalsSurviveRestarts` (`RestartKeepsApprovals`), of every behaviour: it is about
  one step, `Restart`, and follows from what `RecoverNode` does to a node that waits.
* `StopsAreAskedFor` (`OnlyUserStops`), from `StopsOK` and `[][ClosesIdle]_vars`: the
  event loop is not closed over a run. `task_close` refutes it without.

The refinement: `ImplementsTaskLifecycle` (`ImplementsLifecycle`): the file
goes through the phases of `TaskLifecycle`. A step changes the file only in one of the
ways that the lemma `FileSteps` lists (a run saves, ends or fails before its first node;
a handler, the timer, a shutdown or recovery writes), and each maps to a move of the abstract task or to
a stutter. `FailedTasksAreControllable` (`FailedIsControllable`): the ways in which a
file becomes `failed` leave a failed node in it. The second also rests on
`PlanAssumption` (an unfinished workflow has a node that can run). Both need `SettledOK`: the nodes of
a task that does not run are not under way, except where recovery will fail them, and a
`retry_waiting` task has a node that waits. They hold of `Orderly` behaviours: `Undivided`; no shutdown
cancels a run inside a block either; the checkpoints around an attempt are written
(`Written`; after one that fails, a file can be left with a node that is neither
running nor failed); and no approver's rejection takes back the node in front of it
(`Unrolled`: after one the task is failed with that node running, and nothing in it can be
retried. It excludes nothing where only approvals stand in front of an approval in its branch,
`UnbranchedIsUnrolled`). What a judge sends back is no exception: its rework and the end of it
are steps like the others, and `Lifecycle` only promises of the nodes nobody may return that
they stay done. `FailedTasksAreControllable` also needs `Begins`, without
which `task_setup` refutes it.

**`AgentSessionProofs`.** Of every behaviour, for any set of calls and any scenario, from
`Assumption`.
`Shape` types the state and ties the holder of the lock to the place of its call. On it
stand four invariants, each inductive with `Shape`: `LiveOK` for
`StreamingSessionsStream` (`StreamingIsLive`), `EndedOK` for `EndedSessionsStayPut`
(`EndedStaysPut`), `CleanOK` for `CleanFilesAreCurrent` (`CleanFileIsCurrent`) and
`WordsOK` for `OtherTurnsAreKept` (`OtherTurnsStay`). `CleanOK` carries the save
through its four steps: what the thread took with it is the record unless the mark has been
set again since. `WordsOK` says what a checkpoint holds: all that was said by calls that
are over, so that a roll-back to it takes only the words of its own turn. The order of the
waiting calls and what a restart rebuilds `AgentSession`'s `lc` from are `SelectSeq`s, of which the
library states no facts; these invariants say nothing of either.

**`AgentSessionProofs`, `ContextWindow`.** For any limits, thresholds and sizes that are numbers
(`SizesAreNumbers`), any number of messages, rounds and compactions: `RequestsAreWhole`
(`RequestIsWellFormed`, `QuestionReachesModel`), `RecordCovers` (`RecordCoversMemory`) and
`ResultsReach` (`ResultsReachModel`). `services` checks them of the instance in `MCServices`.
What a step makes of a list is said by the positions it takes (`Picked`): `PickedParts` says that
these elements are all there is, each once and in their order, by way of their ranks, and a sum over
a list is at least each of its sizes (`TotalIsSum`); both by least counterexamples. On these stands
`Keeps`: nothing is in the new list that was not in the old, and a number that was the
last message's or nobody's still is. Every step has its lemma (`PairsKeeps`, `MicroKeeps`, `FullKeeps`,
`CompressedKeeps`, `TrimKeeps`), with what it takes for a question at the end to be still there:
for compaction that it is within `KeepRecent`, for trimming that it fits beside the system messages,
counted in the trimmed list (`PairsFront`: the repair behind it does not touch these). `StrictIsWhole` is
the repair before a call: the blocks it leaves are complete because a result moves with its
assistant (`Rank` is monotone and nothing between them is kept that was not between them),
and what was in a complete block stays. `WindowInv` then needs three things that
no property says: where a question is in the history as its last message it is in memory
the last one too, or gone (`CoverOK`), else a failed turn would take another question from memory;
the question of the turn is the last in the record (`QuestionOK`); and the results of this
turn stand in blocks in the list already (`TurnOK`), because the calls of the last message are numbered
by it (`CallsOK`).

**`ConversationProofs`.** Of every behaviour, for queues of any size, turns of any length
and any number of outside events, from `SizesAssumption`: `ShownDraftsAreReal`
(`ShownDraftIsReal`), `NothingIsLostSilently` (`NothingLostSilently`) and
`TheHistoryIsShown` (`HistoryIsShown`). All three are about a browser that has read
everything; the invariant has to say what the messages still on their way will do to it.
It gives every pending message a *standing* before it and one after it (generation,
revision, draft, history): the chain starts where the browser stands and ends where the
server does (`AtEnd`). The browser is at the first link, or behind it by events it could not
read (`Behind`), or knows that it is not (`Knows`), or a snapshot comes first, which
needs no link (`Restarts`). Emitting adds a link at the end, reading removes the first,
and dropping an event for a full queue leaves a gap that a later message shows.

**`AgentNodeProofs`.** `ReportsAreApproved` (`OnlyApprovedPasses`), of every behaviour,
without assumptions on the constants; `services` checks the same property of the
instance in `MCServices`. When the node is completed it is too late to see whose
report was approved, so the invariant ties three things together while there is no excuse
(`Asking`): at most one waiter is alive and it is about the last report of its attempt; the
engine's entry is that waiter's, and a woken one has its own answer; what a finished attempt
passes on is approved. `ReissueOK` is why an approval that a restart issues again
meets no other: nothing of the node is alive then. `NotAsking` is the other half: without
a session to ask, no waiter exists and an attempt is done when its turn is over.

**`AgentNodeProofs`, `ChildFlow`.** `Resumable` (`ChildrenRunOnce` and
`ChildrenCanBeRetried`, two of the three parts of `ResumesAsOneRun`), of every behaviour and
without assumptions on the constants: any definitions, any edits of them, any retries,
crashes and failed saves. `ChildInv` says of every child what the place of the run
allows it to be. The run's copy is what the file holds; a child that executes is
running or waits for approval, and has not completed, so that its completion counts once; a child
the scheme leaves out never executes; and without an excuse every other child rests in a
state that `_execute_child_plan` passes over or begins. The step that needs the
last is `Crash`: of the children only the one at work may be in a state that recovery has
to free, and recovery frees exactly those two. `Chooses` leaves out pending children only,
`KidKeeps` is the common argument of the steps that write one child.

**`ServicesProofs`, `Roundtable`.** For any seats (a sequence: `SeatsAssumption`), guests and number of
rounds, requests and tokens: `RoundsHearEverybody` (`NobodySkipped`) and
`SeenSpeechesStay` (`SeenIsKept`). Both rest on one invariant, `TableInv`: whoever stands in
front of the next speaker, and was there when the round began, has spoken in this round
(`OrderOK`), the one who speaks is the one who is next, and nobody has a draft but while
speaking (`TurnPlaceOK`). The work is in `RemoveKeeps`: removing a seat moves the
others and the index, and puts it back on the last but one at the end of the list, which
must not pass anybody over. `services` checks both properties of the instance in
`MCServices`. The interventions are taken one after the other (`After`),
as many as there are. `LeastNumber` is the induction: of the numbers of interventions
after which the meeting would not be right there is no least one.

**`ServicesProofs`, `TaskIdentity`.** `RunsAlone` (`Spec => []ScriptRunsAlone`), without
assumptions on the constants; `services` checks the same property of the instance in
`MCServices`. `ScriptRunsAlone` alone is not inductive: it says
nothing while no script runs, so a process could be left behind before the next
script starts. `ScriptInv` strengthens it: at any time every process belongs to the attempt
at work, or to an attempt that was cut off, or has let go of its output. The step
that carries the weight is `OutputEnded`: `NodeEnds` and `Killed` wait for the end of the
script's output, as `communicate` does, and then nothing that holds the output is left.
`TasksRunAsFrozen` (`RunsAsFrozen`), also without assumptions: a run's guards and the
file's are what the task was made with, the agent's unless `pre_start_task` wrote its
copy over it (`FrozenInv`); the file of a run says `running`, unless it was written over
too; and what a run saw when it verified is what its guard says. So it never
works with a changed identity unnoticed, and a run that fails its verification does so
because the contents did change, or a setting was lost.

**`ServicesProofs`, `StreamDraft`.** `DraftsAlwaysAgree` (`DraftsAgree`, `CallsStayApart`), for
streams of any length. The server finds a call by its slot, the browser by its id, else by
the last id its index had, else by whatever is being built; the drafts are equal because
these searches end at the same segment, which needs to be said before it can be seen to go
on (`DraftInv`): slot and key of an index are of one segment, the last of that index; no call
has two segments; a call that waits to be run either still has its slot, or never had a
segment and meets none that is being built (`WaitingOK`). A browser that joins reads keys off
the snapshot; that these are the keys of those who followed is `SlotsOK`.

**`ServicesProofs`, `Cron`.** `JobsAreLateForAReason` (`LateForAReason`), for any jobs, period,
horizon and numbers of edits; from `Numbered`. Lateness is not inductive: `CronInv`
counts for how long a job without an excuse can have been due. While the loop sleeps
that is the minute of the sleep; while it runs what was due it is the minutes spent so far,
in the file and, an offset later, in the list that will replace the file. The grace is never
less than two minutes, so a job within these bounds is not passed over.

**`PackageProofs`, `PluginStore`.** `RunningRevisionsAreKept` (`NoRestartNoChange`,
`RunningRevisionIsKept`), for any packages, prefixes and operations, without assumptions.
`StoreInv` adds the types, and that what was applied has nothing pending
(`RunsWhatWasApplied`): then a lock equal to it is applied to itself. Every operation writes a record from
which what the old one could go back to can still be reached (`GoesBackTo`); that a history
of any length keeps its members but for the excluded one is `PrependRight`, by a
least-counterexample argument over the number of revisions.

**`PackageProofs`, `ShippedWorkflow`.** `ShippedWorkflowsAreKept` (`EditsAreKept`,
`FollowsPlugin`, `RefusedForAReason` and the type invariant), for any plugins, revisions and
operations; from `ContentsApart` (what users write and half a file have other hashes than
what plugins ship). An edit survives a start because a file that differs from the last marker is
left alone, so the invariant is about why a file may differ (`Explained`): it was never
there or is as recorded, a user has changed it, a cut-off start has touched it, or what was
installed is not known. In the middle of a start (`CopyOK`) the files already dealt with are as
shipped or left for such a reason, and the marker does not yet say so.

**`PackageProofs`, `Resources`.** `UsersChoicesSurvive` (`ChoicesSurvive` and the type
invariant), for any bundles, entries and calls; from `NamedApart`. Starts without the
extension, for whatever reason, are among the steps: what was decided before such a start of
something the extension ships is lost (`Missed`, run `resources_off`, disagreement 6), and what
the user's own entries are, and what is decided afterwards, is not. A choice is in up to four
places (`Kept`): the file or, for a shipped entry, the override (`DiskHolds`); the manager,
if the extension runs; and what a reload in a thread has read and will
store. Layers are conditional on what an extension declares, so `Told` says that nothing
certain was said of a shipped entry that is not declared.

**`ExtensionsProofs`.** `FailuresAreAlwaysContained` (`FailuresAreContained`), for any
extensions and dependencies, also in cycles, missing or enabled without being installed, any
order of enabling, and any number of failures and exits; from `Described` (dependencies and
what is enabled have names). The property is about settled states, so the invariant has to
say what start, stop and any number of handlers, all half-way, will have done by then:

* `Rooted`: what is loaded, starts or runs has what it needs in front of it in the order. That
  comes from registration (`RegisterKeeps`), not from the search: in a cycle the
  order puts somebody in front of what it needs, and registration blocks that one.
* `DependentsFollow`: the one pass of `block_runtime_dependents` through the order finds
  all that need the owner through others in front of them. `Affected` is a recursive
  function, so this is a least-counterexample argument over places.
* `Handled`: while a handler is at work, what needs its owner is not starting, and behind the
  place it is at does not run. So when it stops an extension, what needs that one has been
  stopped before (`EndedKeeps`); by `Rooted`, it has no place in front. `StoppedBehind` is the
  same for stop.
* `Kept`: what runs, is not being taken down (`Leaving`) and is not late depends on what
  runs. The checkpoint behind every step of a start keeps it (`StepDoneKeeps`).
* `Supported`, `TakenAway`: tools, processes and places among the started belong to
  what runs or to what start is at, and are gone before an extension is waited for.

Two handlers may be after the same extension, and start may fail in the middle of one; that is
why each of these is about all handlers at once. The whole invariant was checked with TLC
first, from every graph over three extensions.

**`TaskFlowProofs`.** For any drawings of finitely many places (`Drawn`), any nodes that judge,
are approved, retry or are skipped, and any bounds. `Shape` holds the types of the file, of
the run's copy and of its place in the plan together: a run works on what is in the file; a
loop is at work only where its step is in the plan; a thread that returns work belongs to a
node that judges; and every loop of the plan has a cursor of its own (`PlanOK`). The last is
about the walk that makes the plan (`PlanPlaced`): it passes a place once, and a step bears the
name of its place, for any number of turns, by a least-counterexample argument.

* `NotRedone` (`IsNotRedone`) follows from `Shape` alone, action by action; what the policy makes
  of a node's state is in lemmas of their own (`BeginAlike` to `RecoveredAlike`).
* `CountedAll` (`IterationsAreCounted`), also from `BodiesApart`: no two loops of the plan share a
  node, which validation does not ask for; a shared node would remember the passes of both.
  `CountInv` relates cursor, memory and place of each loop: the iteration at work is the next
  one (`CursorOK`), the nodes of the body remember those before it (`PassesOK`), a loop
  the run has left is finished, and one it is in has an iteration at work. A crash
  loses the place and keeps the rest, which is why the place is told from the file again.
* `TypesHold` (`TypeOK`), from `Shape`.

**Only model-checked.** Liveness (`RunEnds`, `PromiseIsKept`, `CatchesUp`,
`FileCatchesUp`, `EveryCallIsServed`), which is out of the prover's reach; `NothingLeftOut` of
`TaskFlow` and `IsOneRun` of `ChildFlow`, which need to be known of the searches over
drawings what they find. `TypeOK` is a theorem of `TaskControl`, `TaskFlow`, `ShippedWorkflow` and
`Resources`; of the others it is model-checked with its bounds, and what their proofs need of the types
is in the inductive invariants.

## 6. Not modelled

* **Workflow queries, pricing, tools**; **agent tools**; **core services**: read-only
  views, arithmetic, wrappers, and calls to the operating system or the network. They
  keep no state that other parts rely on. What fails in them enters the models as
  failures (`BeginFails` of `TaskControl`, `NoSession` of `AgentNode`).
* **Web server and routes**: glue. Requests are the user steps of the modules;
  the lifespan is `Restart`, `ShutDown` and `LoopCloses`.
* **Task control**: partial re-runs (`from_node_id`), which enter the plan in the
  middle; the deletion of tasks; the files of definitions and execution schemes (an
  editor with an old copy overwrites schemes; a workflow can be deleted under a running
  task).
* **Engine**: workspaces, run records, summaries; expressions and the text of
  placeholders, for which a choice is drawn.
* **Nodes**: token counts, prompts and outputs; subprocesses whose children are
  subprocesses.
* **Sessions**: the tree of sessions, token counts, the placeholders and tools a session is
  given, the diagnostic for refused content.
* **Event bus**: the global observers' channels, the revisions of roundtables,
  statistics.
* **Roundtable**: creation, deletion, a second start of a paused meeting, reloading
  after a crash.
* **Extension host, plugins**: entry points, manifests, several processes of one owner, the
  catalog of plugin sources, strict start-up.
* **Resources**: the text of skills and rules and their selection for a prompt, the
  history of the main prompt, the file watcher (nothing starts it).
* **Compression**: the reactive strategy (no code calls it), the saver of transcripts.
* **User interface** other than the conversation view: views over the same routes.
