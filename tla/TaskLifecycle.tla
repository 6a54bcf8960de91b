---------------------------- MODULE TaskLifecycle ----------------------------
(* What a user is promised of a task, whatever crashes, retries and checkpoints
   lie between two looks at it: which phase may follow which, and that a node
   that has finished stays finished. Failed is left only by node control,
   waiting by a retry, and completed means that every node has finished. *)

CONSTANT Nodes  \* the executable nodes of the workflow

VARIABLES
    phase,    \* where the task is
    finished  \* the nodes that are completed or skipped

vars == <<phase, finished>>

Phases == {"ready", "active", "waiting", "failed", "completed", "stopped",
           "discarded"}

Init == phase = "ready" /\ finished = {}

Move(from, to) ==
    /\ phase \in from
    /\ phase' = to

\* More nodes may have finished, none has been taken back.
Grow ==
    /\ finished \subseteq finished'
    /\ finished' \subseteq Nodes

Start == Move({"ready"}, "active") /\ UNCHANGED finished
Progress == phase = "active" /\ UNCHANGED phase /\ Grow
Wait == Move({"active"}, "waiting") /\ Grow
Resume == Move({"waiting", "failed"}, "active") /\ Grow
Fail == Move({"active"}, "failed") /\ Grow
Complete == Move({"active"}, "completed") /\ finished' = Nodes
Stop == Move({"ready", "active", "waiting"}, "stopped") /\ Grow
Discard == Move({"ready"}, "discarded") /\ UNCHANGED finished

Next ==
    \/ Start
    \/ Progress
    \/ Wait
    \/ Resume
    \/ Fail
    \/ Complete
    \/ Stop
    \/ Discard

Spec == Init /\ [][Next]_vars
=============================================================================
