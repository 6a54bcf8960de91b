----------------------------- MODULE TaskIdentity -----------------------------
(***************************************************************************)
(* What a task runs: the inline script with the files it declares, the     *)
(* script of the library and the agent's definition are identified when    *)
(* the task is created and looked at again before each attempt.  In        *)
(* between users save scripts, plugins start, stop and are updated, agents *)
(* are edited and the task's variables are set.                            *)
(*                                                                         *)
(* src/workflow/runtime_guards.py, script_library.py, nodes/script.py,     *)
(* runtime.py, the task operations of manager.py and                       *)
(* main_task_creation.py, and the script routes of web/workflow_routes.py. *)
(* A content is a version number, 0 where there is nothing.  The task has  *)
(* three nodes one after another: an inline script, a script of the        *)
(* library, and an agent whose type is a variable of the task.             *)
(***************************************************************************)
EXTENDS Integers, FiniteSets, Sequences

CONSTANTS
    Versions,     \* the contents a file or a definition may have
    AgentTypes,   \* the values of the variable
    Default,      \* the one a task is created with
    MaxEdits,     \* bound: changes made to what tasks run, and to the variable
    MaxAttempts,  \* bound: attempts of nodes
    MaxTrouble    \* bound: stops, restarts and helper processes

VARIABLES
    live,      \* what is on disk and in memory now
    file,      \* the task file
    starting,  \* the copy pre_start_task holds while it creates a session
    run,       \* the coroutine that runs the task, with its own copy
    alive,     \* the processes of script attempts: <<attempt, "script", "holds" or "apart">>
    cut,       \* history: attempts a stop or the end of the process cut off
    made,      \* history: what there was when the task was created and last refrozen
    spent
vars == <<live, file, starting, run, alive, cut, made, spent>>

Nodes == <<"inline", "library", "agent">>
NoGuard == [inline |-> <<0, 0>>, library |-> <<"none", 0>>, agent |-> <<"none", 0>>]
NoTask == [status |-> "none", value |-> "none", guard |-> NoGuard, next |-> 1]
NoRun == [at |-> "none", task |-> NoTask, saw |-> NoGuard, id |-> 0]

\* Bound: before there is a task, and when no attempt is left, nothing happens.
AttemptsLeft == file.status \notin {"none", "completed"} /\ (spent.attempts < MaxAttempts \/ run.at # "none")
Edit == AttemptsLeft /\ spent.edits < MaxEdits /\ spent' = [spent EXCEPT !.edits = @ + 1]
Trouble == AttemptsLeft /\ spent.trouble < MaxTrouble /\ spent' = [spent EXCEPT !.trouble = @ + 1]

------------------------------------------------------------------------------
(* Identities                                                              *)
\* The catalog: one script offered by two owners makes every scan fail.
Offers == {o \in {"user", "plugin"} : IF o = "user" THEN live.user # 0 ELSE live.running}
Attested ==
    CASE Offers = {"user"} -> <<"user", live.user>>
      [] Offers = {"plugin"} -> <<"plugin", live.plugin>>
      [] OTHER -> <<"none", 0>>

\* The script and the files it declares
InlineIdentity == <<live.inline, live.helper>>
\* build_effective_agent_definition: prompt, tools and model as one content
AgentIdentity(value) == <<value, live.agent[value]>>

\* The identities of all there is now, with the agent a value of the variable names.
Identity(value) == [inline |-> InlineIdentity, library |-> Attested, agent |-> AgentIdentity(value)]

\* freeze_workflow_runtime_guards refuses what is not there.
Freezable(value) ==
    /\ live.inline # 0 /\ live.helper # 0
    /\ Attested # <<"none", 0>>
    /\ live.agent[value] # 0

\* Mutant: the files a script declares are not part of its identity.
MatchesEntrypoint(guard, now) == now.inline[1] = guard.inline[1]
\* Each kind of node looks at its own guard.
InlineMatches(guard, now) == now.inline = guard.inline
LibraryMatches(guard, now) == now.library = guard.library
AgentMatches(guard, now) == now.agent = guard.agent
Matches(node, guard, now) ==
    \/ node = "inline" /\ InlineMatches(guard, now)
    \/ node = "library" /\ LibraryMatches(guard, now)
    \/ node = "agent" /\ AgentMatches(guard, now)

------------------------------------------------------------------------------
(* What users and plugins change meanwhile                                 *)
Changes == Edit /\ UNCHANGED <<file, starting, run, alive, cut, made>>

SavesScript ==
    /\ \/ \E v \in Versions \cup {0} : live' = [live EXCEPT !.inline = v]
       \/ \E v \in Versions : live' = [live EXCEPT !.helper = v]
    /\ live' # live
    /\ Changes

\* The editor of the library writes to the user's directory, whoever owns what it read.
SavesLibraryScript ==
    /\ \E v \in Versions \cup {0} : v # live.user /\ live' = [live EXCEPT !.user = v]
    /\ Changes

\* A plugin whose resources were accepted at startup starts or stops.
TogglesOwner ==
    /\ live.loaded
    /\ live' = [live EXCEPT !.running = ~@]
    /\ Changes

EditsAgent ==
    /\ \E a \in AgentTypes, v \in Versions \cup {0} :
           v # live.agent[a] /\ live' = [live EXCEPT !.agent[a] = v]
    /\ Changes

------------------------------------------------------------------------------
(* The task                                                                *)
Born == [was |-> Identity(Default), over |-> FALSE]

\* create_task leaves the task pending, create_and_attach_task_for_session pre_running.
Creates(status) ==
    /\ file.status = "none" /\ starting = NoTask
    /\ Freezable(Default)
    /\ file' = [NoTask EXCEPT !.status = status, !.value = Default, !.guard = Identity(Default)]
    /\ made' = Born
    /\ UNCHANGED <<live, starting, run, alive, cut, spent>>

\* pre_start_task: saved as pending, then a session is awaited.
PreStarts ==
    /\ file.status = "none" /\ starting = NoTask
    /\ Freezable(Default)
    /\ file' = [NoTask EXCEPT !.status = "pending", !.value = Default, !.guard = Identity(Default)]
    /\ made' = Born
    /\ starting' = file'
    /\ UNCHANGED <<live, run, alive, cut, spent>>

\* ... and the copy held meanwhile is written over what the file has become.
PreStarted ==
    /\ starting # NoTask
    /\ file' = [starting EXCEPT !.status = "pre_running"]
    /\ made' = [made EXCEPT !.over = file # starting]
    /\ starting' = NoTask
    /\ UNCHANGED <<live, run, alive, cut, spent>>

Accepting == file.status \in {"pending", "pre_running"}

\* Mutants: the scripts are frozen again as well; the agent is not.
RefreezesAll(value) ==
    /\ Freezable(value)
    /\ file' = [file EXCEPT !.value = value, !.guard = Identity(value)]
RefreezesNothing(value) == file' = [file EXCEPT !.value = value]
\* refresh_agent_runtime_guards
Refreezes(value) ==
    /\ live.agent[value] # 0
    /\ file' = [file EXCEPT !.value = value, !.guard.agent = Identity(value).agent]

\* update_task_variables, set_workflow_variable: once the task runs, the value
\* changes and the guard does not.
SetsVariable ==
    /\ file.status # "none"
    /\ \E value \in AgentTypes :
           \/ /\ Accepting
              /\ Refreezes(value)
              /\ made' = [made EXCEPT !.was.agent = Identity(value).agent]
           \/ /\ ~Accepting /\ value # file.value
              /\ file' = [file EXCEPT !.value = value]
              /\ UNCHANGED made
    /\ Edit
    /\ UNCHANGED <<live, starting, run, alive, cut>>

\* run_task, start_pre_running_task
Runs ==
    /\ Accepting /\ run.at = "none"
    /\ file' = [file EXCEPT !.status = "running"]
    /\ run' = [NoRun EXCEPT !.at = "idle", !.task = file']
    /\ UNCHANGED <<live, starting, alive, cut, made, spent>>

\* The node failed is tried again, or one the last process left is taken up.
RunsAgain ==
    /\ file.status \in {"failed", "running"} /\ run.at = "none"
    /\ file' = [file EXCEPT !.status = "running"]
    /\ run' = [NoRun EXCEPT !.at = "idle", !.task = file']
    /\ UNCHANGED <<live, starting, alive, cut, made, spent>>

------------------------------------------------------------------------------
(* An attempt of a node                                                    *)
Node == Nodes[run.task.next]
Working == UNCHANGED <<live, starting, cut, made>>

\* The run's own copy is what its checkpoints write.
Leaves(task) == file' = task /\ run' = [NoRun EXCEPT !.task = NoTask]
Fails == Leaves([run.task EXCEPT !.status = "failed"])
Advances ==
    LET task == [run.task EXCEPT !.next = @ + 1]
    IN IF task.next > Len(Nodes) THEN Leaves([task EXCEPT !.status = "completed"])
       ELSE file' = task /\ run' = [run EXCEPT !.at = "idle", !.task = task]

\* Verified: what the guard names is compared with what there is.
Verifies ==
    /\ run.at = "idle" /\ spent.attempts < MaxAttempts
    /\ spent' = [spent EXCEPT !.attempts = @ + 1]
    /\ LET now == Identity(run.task.value)
       IN IF Matches(Node, run.task.guard, now)
          THEN run' = [run EXCEPT !.at = "verified", !.saw = now, !.id = spent'.attempts] /\ UNCHANGED file
          ELSE Fails
    /\ Working /\ UNCHANGED alive

\* An interpreter reads the script, a session takes the agent's definition.
Starts ==
    /\ run.at = "verified"
    /\ run' = [run EXCEPT !.at = "running", !.saw = NoGuard]
    /\ alive' = IF Node = "agent" THEN alive ELSE alive \cup {<<run.id, "script">>}
    /\ Working /\ UNCHANGED <<file, spent>>

\* A script starts a process that keeps its output open, or one that does not.
Forks ==
    /\ run.at = "running" /\ <<run.id, "script">> \in alive
    /\ \E kind \in {"holds", "apart"} : alive' = alive \cup {<<run.id, kind>>}
    /\ alive' # alive
    /\ Trouble
    /\ Working /\ UNCHANGED <<file, run>>

Exits ==
    /\ \E p \in alive : alive' = alive \ {p}
    /\ Working /\ UNCHANGED <<file, run, spent>>

\* communicate() answers when nobody has the pipes open any more.
OutputEnds == {<<run.id, "script">>, <<run.id, "holds">>} \cap alive = {}
NodeEnds ==
    /\ run.at = "running" /\ OutputEnds
    /\ Advances \/ Fails
    /\ Working /\ UNCHANGED <<alive, spent>>

\* Mutant: the time limit leaves the process alone.
TimesOutOnly ==
    /\ run.at = "running" /\ Node # "agent"
    /\ Fails
    /\ Working /\ UNCHANGED <<alive, spent>>
\* The script is killed, and its output read to the end.
TimesOut ==
    /\ run.at = "running" /\ Node # "agent"
    /\ alive' = alive \ {<<run.id, "script">>}
    /\ run' = [run EXCEPT !.at = "killed"]
    /\ Working /\ UNCHANGED <<file, spent>>
Killed ==
    /\ run.at = "killed" /\ OutputEnds
    /\ Fails
    /\ Working /\ UNCHANGED <<alive, spent>>

\* A stop cancels the coroutine: no handler ends its process.
Stops ==
    /\ run.at # "none"
    /\ Fails
    /\ cut' = cut \cup {run.id}
    /\ Trouble
    /\ UNCHANGED <<live, starting, alive, made>>

\* Another process takes over.  A plugin may come up with its next revision, or
\* not at all when the user's directory has a script it offers.
Restarts ==
    /\ run' = NoRun /\ starting' = NoTask
    /\ cut' = cut \cup {run.id}
    /\ \E v \in Versions :
           live' = [live EXCEPT !.plugin = v, !.loaded = live.user = 0, !.running = live.user = 0]
    /\ Trouble
    /\ UNCHANGED <<file, alive, made>>

------------------------------------------------------------------------------
Init ==
    /\ \E user \in {0, 1} :
           live = [inline |-> 1, helper |-> 1, user |-> user, plugin |-> 1,
                   loaded |-> user = 0, running |-> user = 0,
                   agent |-> [a \in AgentTypes |-> 1]]
    /\ file = NoTask /\ starting = NoTask /\ run = NoRun
    /\ alive = {} /\ cut = {}
    /\ made = [was |-> NoGuard, over |-> FALSE]
    /\ spent = [edits |-> 0, attempts |-> 0, trouble |-> 0]

Next ==
    \/ SavesScript \/ SavesLibraryScript \/ TogglesOwner \/ EditsAgent
    \/ Creates("pending") \/ Creates("pre_running") \/ PreStarts \/ PreStarted
    \/ SetsVariable \/ Runs \/ RunsAgain
    \/ Verifies \/ Starts \/ Forks \/ Exits \/ NodeEnds \/ TimesOut \/ Killed
    \/ Stops \/ Restarts

Spec == Init /\ [][Next]_vars

------------------------------------------------------------------------------
Ids == 0..MaxAttempts
TypeOK ==
    /\ file.status \in {"none", "pending", "pre_running", "running", "failed", "completed"}
    /\ run.at \in {"none", "idle", "verified", "running", "killed"}
    /\ file.next \in 1..Len(Nodes) + 1
    /\ run.task.next \in 1..Len(Nodes)
    /\ alive \subseteq Ids \X {"script", "holds", "apart"}
    /\ cut \subseteq Ids

\* Whatever was saved, updated, started or set since, what an attempt runs is
\* what the task was created with (the agent: what its last setting of the
\* variable named), unless it changed between being verified and being used, or
\* a task being pre-started wrote over the setting; and an attempt is refused
\* only when something really changed.
AsMade == Identity(run.task.value)[Node] = made.was[Node]
SettingLost == Node = "agent" /\ made.over
RunsAsFrozen ==
    /\ run.at = "idle" /\ run'.at = "verified" => AsMade \/ SettingLost
    /\ run.at = "verified" /\ run'.at = "running" =>
           AsMade \/ SettingLost \/ Identity(run.task.value)[Node] # run.saw[Node]
    /\ Verifies /\ run'.at = "none" => ~AsMade \/ SettingLost

\* A script has its workspace to itself: no process of an attempt before is
\* still at work, except where a stop or the end of the program cut it off or
\* it let go of its output itself.
ScriptRunsAlone ==
    run.at = "running" /\ Node # "agent" =>
        \A p \in alive : p[1] = run.id \/ p[1] \in cut \/ p[2] = "apart"
==============================================================================
