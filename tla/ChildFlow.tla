------------------------------ MODULE ChildFlow ------------------------------
(***************************************************************************)
(* A node that runs another workflow inside its task: the definition it    *)
(* found at its first attempt is kept with the choices made in it, the     *)
(* children's states live in its own, and a retry goes on where the last   *)
(* attempt stopped.                                                        *)
(*                                                                         *)
(* src/workflow/nodes/subprocess.py, with the recovery of child states in  *)
(* task_recovery.py.  Children have no failure policy of their own: only   *)
(* the parent's retries run them again.  Parameters, outputs and sessions  *)
(* are left out, and so are children that are subprocesses themselves.     *)
(***************************************************************************)
EXTENDS WorkflowPlan

CONSTANTS
    Drafts,     \* the definitions somebody may save as the child workflow
    Unchosen,   \* the children its execution scheme leaves out
    Asking,     \* the children that are approval nodes
    Retries,    \* auto_retry_count of the parent
    MaxFaults,  \* bound: failures, refusals, failed saves and crashes
    MaxAgain    \* bound: edits of the child, retries, rework and loop iterations

VARIABLES
    drawn,    \* the child workflow as it is saved now
    disk,     \* the parent's state in the task file
    task,     \* the copy the run works on
    run,      \* where the run is: at, its plan, the step it is at
    kept,     \* history: how often a child's completion was saved, in this iteration
    excuse,   \* history: what may have left a child's state unusable
    faults, again
vars == <<drawn, disk, task, run, kept, excuse, faults, again>>

Everyone == UNION {d.nodes : d \in Drafts}
Policy == INSTANCE NodeState
    WITH Nodes <- {"parent"}, RetryCount <- [n \in {"parent"} |-> Retries],
         AutoSkip <- {}, MaxAutoRetry <- 20

\* snap is empty before input_snapshot has a checkpoint, then one record of
\* child_definition and condition_choices.
NewTask == [parent |-> Policy!Fresh, kids |-> [n \in Everyone |-> Policy!Fresh], snap |-> <<>>]
NoRun == [at |-> "none", plan |-> <<>>, i |-> 0]
Child == Head(task.snap).def
Chosen == Head(task.snap).chosen

Fault == faults < MaxFaults /\ faults' = faults + 1
Again == again < MaxAgain /\ again' = again + 1
\* The task file is written; what it now has completed for the first time counts.
Save ==
    /\ disk' = task'
    /\ kept' = [n \in Everyone |->
                   kept[n] + IF disk.kids[n].status # "completed" /\ task'.kids[n].status = "completed" THEN 1 ELSE 0]
GoesOn == UNCHANGED <<drawn, excuse, faults, again>>

------------------------------------------------------------------------------
(* An attempt of the parent                                                *)
Begins ==
    /\ run.at = "none" /\ disk.parent.status = "pending"
    /\ task' = [disk EXCEPT !.parent = Policy!BeginAttempt(@),
                            !.snap = IF disk.parent.attempt = 0 \/ disk.parent.trigger = "initial" THEN <<>> ELSE @]
    /\ Save
    /\ run' = [NoRun EXCEPT !.at = "load"]
    /\ GoesOn

\* What _execute_node and the failure policy make of the plugin's result
Closed(t, status) ==
    LET s == Policy!Record(t.parent, status)
    IN  [t EXCEPT !.parent = IF status = "failed" THEN Policy!ApplyPolicy("parent", s) ELSE s]
Ends(t, status) == task' = Closed(t, status) /\ Save /\ run' = NoRun

Freezes ==
    /\ run.at = "load"
    /\ IF task.snap = <<>>
       THEN /\ task' = [task EXCEPT !.snap = <<[def |-> drawn, chosen |-> [g \in OfType(drawn, "condition") |-> ""]]>>]
            /\ Save
       ELSE UNCHANGED <<disk, task, kept>>
    /\ run' = [run EXCEPT !.at = "plan"]
    /\ GoesOn

\* The child workflow may be gone, or not for this caller (_child_policy_error).
NotFound ==
    /\ run.at = "load" /\ task.snap = <<>> /\ Fault
    /\ Ends(task, "failed")
    /\ UNCHANGED <<drawn, excuse, again>>

\* Only sequences and conditions that do not lead back can be taken up again.
Plans ==
    /\ run.at = "plan"
    /\ IF DOMAIN Child.gate = OfType(Child, "condition") /\ \A i \in DOMAIN Plan(Child) : Plan(Child)[i].type # "while"
       THEN run' = [at |-> "step", plan |-> Plan(Child), i |-> 1] /\ UNCHANGED <<disk, task, kept>>
       ELSE Ends(task, "failed")
    /\ GoesOn

------------------------------------------------------------------------------
(* _execute_child_plan                                                     *)
Here == run.plan[run.i]
At(type) == run.at = "step" /\ run.i <= Len(run.plan) /\ Here.type = type
Kid == task.kids[Here.node]
SetKid(s) == [task EXCEPT !.kids[Here.node] = s]
Step(at) == run' = [run EXCEPT !.at = at]
NextStep == run' = [run EXCEPT !.at = "step", !.i = @ + 1]

LeavesOut ==
    /\ At("node") /\ Here.node \in Unchosen
    /\ task' = SetKid([Kid EXCEPT !.status = "skipped"]) /\ Save
    /\ NextStep
    /\ GoesOn

PassesDone ==
    /\ At("node") /\ Here.node \notin Unchosen
    /\ Kid.status \in {"completed", "skipped"}
    /\ NextStep
    /\ UNCHANGED <<disk, task, kept>>
    /\ GoesOn

\* subprocess_child_state_uncertain
Uncertain ==
    /\ At("node") /\ Here.node \notin Unchosen
    /\ Kid.status \notin {"completed", "skipped", "pending", "failed"}
    /\ Ends(task, "failed")
    /\ GoesOn

\* A failed child is prepared with the parent's trigger, if that is a retry.
Prepared(s) ==
    LET ready == [s EXCEPT !.status = "pending", !.deadline = FALSE]
    IN  CASE s.status # "failed" -> s
          [] s.status = "failed" /\ task.parent.trigger = "auto_retry" ->
                [ready EXCEPT !.auto = @ + 1, !.trigger = "auto_retry"]
          [] OTHER -> [ready EXCEPT !.auto = 0, !.trigger = "manual_retry"]
KidBegins ==
    /\ At("node") /\ Here.node \notin Unchosen /\ Kid.status \in {"pending", "failed"}
    /\ LET begun == SetKid(Policy!BeginAttempt(Prepared(Kid)))
       IN  \/ task' = begun /\ Save /\ Step("executing") /\ UNCHANGED <<excuse, faults>>
           \/ Fault /\ Ends(begun, "failed") /\ excuse' = TRUE
    /\ UNCHANGED <<drawn, again>>

KidAsks ==
    /\ run.at = "executing" /\ Here.node \in Asking /\ Kid.status = "running"
    /\ task' = SetKid([Kid EXCEPT !.status = "waiting_approval"]) /\ Save
    /\ UNCHANGED run
    /\ GoesOn

\* A refusal is a status of its own until execution has returned; only then is
\* it turned into a failure.
Outcomes == {"completed", "failed"} \cup IF Here.node \in Asking THEN {"rejected"} ELSE {}
KidEnds ==
    /\ run.at = "executing" /\ (Here.node \in Asking => Kid.status = "waiting_approval")
    /\ \E outcome \in Outcomes :
          LET ended == SetKid(Policy!Record(Kid, outcome))
          IN  \/ /\ task' = ended /\ Save
                 /\ IF outcome = "completed" THEN NextStep ELSE Step("kidfailed")
                 /\ IF outcome = "completed" THEN UNCHANGED faults ELSE Fault
                 /\ excuse' = (excuse \/ outcome = "rejected")
              \/ Fault /\ Ends(ended, "failed") /\ excuse' = (excuse \/ outcome = "rejected")
    /\ UNCHANGED <<drawn, again>>

KidFailed ==
    /\ run.at = "kidfailed"
    /\ Ends(SetKid([Kid EXCEPT !.status = "failed"]), "failed")
    /\ GoesOn

\* The path from a target to where all branches meet; a gateway on it is refused.
Path(t) == Follow(Child, t, {Here.stop, "end"})
Passable(t) == Reach(Child, t, {Here.stop, "end"}) \subseteq Child.nodes
\* Mutant: a retry decides anew.
AnyTarget == ToSet(Here.targets)
Candidates ==
    IF Chosen[Here.id] = "" THEN ToSet(Here.targets) ELSE {Chosen[Here.id]}

Spliced(t) ==
    LET rest == SubSeq(run.plan, run.i + 1, Len(run.plan))
        tail == SelectInSeq(rest, LAMBDA s : s.type = "node" /\ s.node = Here.stop)
    IN  SubSeq(run.plan, 1, run.i) \o [j \in DOMAIN Path(t) |-> NodeStep(Path(t)[j])]
            \o (IF tail = 0 THEN <<>> ELSE SubSeq(rest, tail, Len(rest)))

Chooses ==
    /\ At("condition")
    /\ \E t \in Candidates :
          LET others == UNION {Reach(Child, o, {Here.stop}) : o \in ToSet(Here.targets) \ {t}}
              taken == [task EXCEPT !.snap[1].chosen[Here.id] = t]
          IN  IF Passable(t)
              THEN /\ task' = [taken EXCEPT !.kids = [n \in Everyone |->
                                  IF n \in others /\ @[n].status = "pending" THEN [@[n] EXCEPT !.status = "skipped"] ELSE @[n]]]
                   /\ Save
                   /\ run' = [run EXCEPT !.plan = Spliced(t), !.i = @ + 1]
              ELSE Ends(taken, "failed")
    /\ GoesOn

PlanEnds ==
    /\ run.at = "step" /\ run.i > Len(run.plan)
    /\ Ends(task, "completed")
    /\ GoesOn

------------------------------------------------------------------------------
(* Afterwards                                                              *)
Idle == run.at = "none"

\* A child workflow may be edited at any time.
Edits(d) == Again /\ d # drawn /\ drawn' = d /\ UNCHANGED <<disk, task, run, kept, excuse, faults>>

Resumes(parent) ==
    /\ Idle /\ disk' = [disk EXCEPT !.parent = parent] /\ task' = disk'
    /\ UNCHANGED <<drawn, run, kept, excuse, faults>>
UserRetries ==
    Policy!Controllable(disk.parent) /\ Resumes(Policy!PrepareManualRetry(disk.parent)) /\ Again
RetryDue ==
    disk.parent.status = "retry_waiting" /\ Resumes(Policy!ActivateRetry(disk.parent)) /\ UNCHANGED again
\* A node further on sends the work back: prepare_node_retry keeps the children.
SentBack ==
    disk.parent.status = "completed" /\ Again
    /\ Resumes([disk.parent EXCEPT !.status = "pending", !.auto = 0, !.trigger = "validator_retry"])

\* The parent stands in a loop: _reset_node_for_loop_iteration
NextIteration ==
    /\ Idle /\ disk.parent.status = "completed" /\ Again
    /\ disk' = [NewTask EXCEPT !.parent = [disk.parent EXCEPT !.status = "pending", !.auto = 0, !.trigger = "initial"]]
    /\ task' = disk' /\ kept' = [n \in Everyone |-> 0] /\ excuse' = FALSE
    /\ UNCHANGED <<drawn, run, faults>>

\* Mutant: the children of an interrupted node stay as they are.
KidUntouched(s) == s
KidRecovered(s) ==
    CASE s.status = "waiting_approval" -> Policy!Reissue(Policy!Interrupted(s))
      [] s.status = "running" -> Policy!Interrupted(s)
      [] OTHER -> s
Recovered(t) ==
    LET kids == [n \in Everyone |-> KidRecovered(t.kids[n])]
        reissued == \E n \in Everyone : kids[n].status = "pending" /\ kids[n].trigger = "recovery_reissue"
    IN  [t EXCEPT !.kids = kids,
                  !.parent = IF @.status # "running" THEN @
                             ELSE IF reissued THEN Policy!Reissue(Policy!Interrupted(@))
                             ELSE Policy!ApplyPolicy("parent", Policy!Interrupted(@))]
\* recover_workflow_tasks looks at tasks that were running or waited for a retry.
Crash ==
    /\ Fault /\ disk.parent.status \in {"running", "retry_waiting"}
    /\ disk' = Recovered(disk) /\ task' = disk'
    /\ run' = NoRun
    /\ UNCHANGED <<drawn, kept, excuse, again>>

------------------------------------------------------------------------------
Init ==
    /\ drawn \in Drafts
    /\ disk = NewTask /\ task = NewTask /\ run = NoRun
    /\ kept = [n \in Everyone |-> 0] /\ excuse = FALSE
    /\ faults = 0 /\ again = 0

Next ==
    \/ Begins \/ Freezes \/ NotFound \/ Plans
    \/ LeavesOut \/ PassesDone \/ Uncertain \/ KidBegins \/ KidAsks \/ KidEnds \/ KidFailed
    \/ Chooses \/ PlanEnds
    \/ \E d \in Drafts : Edits(d)
    \/ UserRetries \/ RetryDue \/ SentBack \/ NextIteration \/ Crash

Spec == Init /\ [][Next]_vars

TypeOK ==
    /\ drawn \in Drafts
    /\ \A t \in {disk, task} :
          /\ t.parent.status \in Policy!NodeStatus
          /\ t.parent.trigger \in Policy!Triggers
          /\ \A n \in Everyone :
                /\ t.kids[n].status \in Policy!NodeStatus \cup {"rejected"}
                /\ [t.kids[n] EXCEPT !.status = "pending"] \in Policy!NodeState
          /\ Len(t.snap) <= 1 /\ (t.snap # <<>> => Head(t.snap).def \in Drafts)
    /\ run.at \in {"none", "load", "plan", "step", "executing", "kidfailed"} /\ run.i \in 0 .. Len(run.plan) + 1
    /\ kept \in [Everyone -> Nat] /\ excuse \in BOOLEAN /\ faults \in 0 .. MaxFaults /\ again \in 0 .. MaxAgain

------------------------------------------------------------------------------
\* The children a run of definition d with these choices has to complete
OnPath(d, chosen) ==
    LET hidden(g) == UNION {Reach(d, t, {Convergence(d, g)}) : t \in ToSet(d.adj[g]) \ {chosen[g]}}
    IN  (d.nodes \ UNION {hidden(g) : g \in OfType(d, "condition")}) \ Unchosen

\* A subprocess that is reported completed is one run of one definition, however
\* many attempts, crashes and edits it took: every child on the chosen path has
\* completed once, and no other child has.
IsOneRun ==
    disk.parent.status = "completed" =>
        \A n \in Everyone :
            kept[n] = IF n \in OnPath(Head(disk.snap).def, Head(disk.snap).chosen) THEN 1 ELSE 0

\* When the parent can be tried again, so can every child: none is left in a
\* state that fails each later attempt, but for a save that failed or a refusal.
ChildrenCanBeRetried ==
    (Idle /\ disk.parent.status # "running" /\ ~excuse) =>
        \A n \in Everyone : disk.kids[n].status \in {"pending", "failed", "completed", "skipped"}

\* Nothing a child has done is done again or taken back, in a subprocess that is
\* not completed either.
ChildrenRunOnce ==
    \A n \in Everyone : kept[n] = IF disk.kids[n].status = "completed" THEN 1 ELSE 0

\* All of it: however often it is interrupted, a subprocess can go on, does nothing
\* twice and ends as one run of what it began with.
ResumesAsOneRun == IsOneRun /\ ChildrenRunOnce /\ ChildrenCanBeRetried
==============================================================================
