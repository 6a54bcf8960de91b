------------------------------ MODULE AgentNode ------------------------------
(***************************************************************************)
(* A node an agent carries out in a session of its own: it reports, the    *)
(* session of the workflow is asked to approve the report, and a refusal   *)
(* goes back to the agent.                                                 *)
(*                                                                         *)
(* src/workflow/nodes/agent.py, with create_sub_session, the tool          *)
(* complete_node_task and the engine's registry of pending approvals.      *)
(* Each attempt has a session, a completion event and a state object of    *)
(* its own, and the functions that answer an approval keep those of the    *)
(* attempt they belong to, however long they live.  A report is a number;  *)
(* 0 is what an agent that ends without one has said last.                 *)
(***************************************************************************)
EXTENDS Naturals, Sequences, FiniteSets

CONSTANTS
    MaxRejectionCount,  \* MAX_REJECTION_COUNT, 3 in the code
    MaxRepairs,         \* json_retry_count
    MaxReports,         \* bound: calls of complete_node_task
    MaxAttempts,        \* bound: attempts of the node
    MaxFaults           \* bound: timeouts, failures, crashes

VARIABLES
    asks,      \* needs_approval: the task has a main session
    file,      \* the node in the task file
    att,       \* per attempt, what its closures keep
    exec,      \* the execute() the engine waits for
    waiters,   \* the runs of _handle_approval
    slot,      \* _pending_approvals and _approval_results under the node's key
    approved,  \* history: the reports somebody approved
    excuse,    \* history: why a report may pass that nobody approved
    reports, faults
vars == <<asks, file, att, exec, waiters, slot, approved, excuse, reports, faults>>

Fresh == [status |-> "pending", attempt |-> 0, refused |-> 0, kept |-> FALSE, reissue |-> FALSE,
          result |-> 0, live |-> FALSE]
NoExec == [at |-> "none", k |-> 0, repairs |-> 0]
NoSlot == [waiter |-> 0, answer |-> "none"]

Fault == faults < MaxFaults /\ faults' = faults + 1
\* The engine's checkpoint of an attempt puts that attempt's object in the file,
\* whichever attempt the file is about by then; with it goes what that run
\* knows of its task, which is live while the run lasts.
Written(k, live) ==
    file' = [status |-> att'[k].status, attempt |-> k, refused |-> att'[k].refused,
             kept |-> att'[k].kept, reissue |-> FALSE, result |-> att'[k].result, live |-> live]
Ends(k, status) ==
    /\ att' = [att EXCEPT ![k].status = status]
    /\ Written(k, FALSE)
    /\ exec' = NoExec

------------------------------------------------------------------------------
(* execute                                                                 *)
Attempt(agent) ==
    [agent |-> agent, status |-> "running", refused |-> file.refused, kept |-> FALSE,
     result |-> 0, ok |-> TRUE, called |-> FALSE, done |-> FALSE]
\* The smallest number no waiter has
Number == CHOOSE n \in 1 .. Cardinality(waiters) + 1 : n \notin {w.n : w \in waiters}
Opens(k, report) ==
    waiters' = waiters \cup {[n |-> Number, k |-> k, report |-> report, at |-> "new", woken |-> FALSE]}

Begin ==
    /\ exec.at = "none" /\ file.status = "pending" /\ ~file.reissue
    /\ att' = Append(att, Attempt("working"))
    /\ file' = [file EXCEPT !.status = "running", !.attempt = Len(att) + 1, !.kept = FALSE, !.live = TRUE]
    /\ exec' = [NoExec EXCEPT !.at = "waiting", !.k = Len(att) + 1]
    /\ UNCHANGED <<asks, waiters, slot, approved, excuse, reports, faults>>

\* create_sub_session refuses, or there is no such agent, or no model for it.
NoSession ==
    /\ exec.at = "none" /\ file.status = "pending" /\ ~file.reissue /\ Fault
    /\ file' = [file EXCEPT !.status = "failed", !.attempt = Len(att) + 1, !.live = FALSE]
    /\ att' = Append(att, [Attempt("over") EXCEPT !.status = "failed"])
    /\ UNCHANGED <<asks, exec, waiters, slot, approved, excuse, reports>>

\* A restart interrupted the approval: the report is asked about once more, and
\* nobody listens to the session any longer.
Reissue ==
    /\ exec.at = "none" /\ file.status = "pending" /\ file.reissue
    /\ LET k == Len(att) + 1
       IN  /\ att' = Append(att, [Attempt("deaf") EXCEPT !.kept = TRUE, !.result = file.result])
           /\ file' = [file EXCEPT !.status = "running", !.attempt = k, !.reissue = FALSE, !.live = TRUE]
           /\ Opens(k, file.result)
           /\ exec' = [NoExec EXCEPT !.at = "asking", !.k = k]
    /\ UNCHANGED <<asks, slot, approved, excuse, reports, faults>>

\* handle_approval is awaited before the node's own time starts to run.
Asked ==
    /\ exec.at = "asking" /\ \A w \in waiters : w.k # exec.k
    /\ exec' = [exec EXCEPT !.at = "waiting"]
    /\ UNCHANGED <<asks, file, att, waiters, slot, approved, excuse, reports, faults>>

\* complete_node_task, once or more in a turn: on_node_complete
Report(k, ok) ==
    /\ att[k].agent = "working" /\ reports < MaxReports
    /\ reports' = reports + 1
    /\ att' = [att EXCEPT ![k].result = reports + 1, ![k].ok = ok, ![k].called = TRUE]
    /\ IF asks
       THEN /\ Opens(k, reports + 1)
            /\ excuse' = (excuse \/ waiters # {} \/ att[k].done)
       ELSE UNCHANGED <<waiters, excuse>>
    /\ UNCHANGED <<asks, file, exec, slot, approved, faults>>

\* The turn is over: on_auto_complete, which an approval ignores.
\* Mutant: it completes the node then too.
TurnEndsNode(k, ok) ==
    [att EXCEPT ![k].agent = "over", ![k].done = TRUE, ![k].called = TRUE,
                ![k].ok = IF att[k].called THEN @ ELSE ok]
TurnEnds(k, ok) ==
    IF asks THEN [att EXCEPT ![k].agent = "over"]
    ELSE [att EXCEPT ![k].agent = "over", ![k].done = TRUE, ![k].called = TRUE,
                     ![k].ok = IF att[k].called THEN @ ELSE ok]
AgentEnds(k, ok) ==
    /\ att[k].agent = "working"
    /\ att' = TurnEnds(k, ok)
    /\ UNCHANGED <<asks, file, exec, waiters, slot, approved, excuse, reports, faults>>

Awakes ==
    /\ exec.at = "waiting" /\ att[exec.k].done
    /\ IF att[exec.k].ok
       THEN exec' = [exec EXCEPT !.at = "output"] /\ UNCHANGED <<file, att>>
       ELSE Ends(exec.k, "failed")
    /\ UNCHANGED <<asks, waiters, slot, approved, excuse, reports, faults>>

\* The answer is saved to a file; JSON that cannot be read is sent back to the
\* same session a few times.
Saves ==
    /\ exec.at = "output"
    /\ Ends(exec.k, IF att[exec.k].ok THEN "completed" ELSE "failed")
    /\ UNCHANGED <<asks, waiters, slot, approved, excuse, reports, faults>>
Repairs ==
    /\ exec.at = "output" /\ exec.repairs < MaxRepairs
    /\ exec' = [exec EXCEPT !.repairs = @ + 1]
    /\ UNCHANGED <<asks, file, att, waiters, slot, approved, excuse, reports, faults>>
CannotSave ==
    /\ exec.at = "output" /\ Fault
    /\ Ends(exec.k, "failed")
    /\ UNCHANGED <<asks, waiters, slot, approved, excuse, reports>>

\* WORKFLOW_NODE_TIMEOUT_SECONDS; session and approval live on.
NodeTimeout ==
    /\ exec.at = "waiting" /\ ~att[exec.k].done /\ Fault
    /\ Ends(exec.k, "failed")
    /\ UNCHANGED <<asks, waiters, slot, approved, excuse, reports>>

------------------------------------------------------------------------------
(* _handle_approval                                                        *)
Becomes(w, v) == waiters' = (waiters \ {w}) \cup {v}
Leaves(w) == waiters' = waiters \ {w} /\ slot' = NoSlot

Registers(w) ==
    /\ w.at = "new"
    /\ slot' = [waiter |-> w.n, answer |-> "none"]
    /\ att' = [att EXCEPT ![w.k].status = "waiting_approval", ![w.k].kept = TRUE]
    /\ Written(w.k, exec.k = w.k)
    /\ Becomes(w, [w EXCEPT !.at = "sending"])
    /\ UNCHANGED <<asks, exec, approved, excuse, reports, faults>>

Sends(w) ==
    /\ w.at = "sending"
    /\ Becomes(w, [w EXCEPT !.at = "waiting"])
    /\ UNCHANGED <<asks, file, att, exec, slot, approved, excuse, reports, faults>>

\* _fail_approval_delivery: the main session is gone or does not take messages.
NotSent(w) ==
    /\ w.at = "sending" /\ Fault
    /\ att' = [att EXCEPT ![w.k].status = "failed", ![w.k].ok = FALSE, ![w.k].done = TRUE]
    /\ Written(w.k, exec.k = w.k)
    /\ Leaves(w)
    /\ UNCHANGED <<asks, exec, approved, excuse, reports>>

\* The checkpoint fails: a task nobody awaits ends, or the node if it was.
NotSaved(w) ==
    /\ w.at = "new" /\ Fault
    /\ Leaves(w)
    /\ IF exec.at = "asking" /\ exec.k = w.k
       THEN Ends(exec.k, "failed")
       ELSE att' = [att EXCEPT ![w.k].status = "waiting_approval", ![w.k].kept = TRUE] /\ UNCHANGED <<file, exec>>
    /\ UNCHANGED <<asks, approved, excuse, reports>>

\* approve_node, resolve_approval: whoever registered last is found, and an
\* answer can be given twice.  (A caller may name the attempt it means, which
\* only refuses more.)
Decide(answer) ==
    /\ slot.waiter # 0
    /\ slot' = [slot EXCEPT !.answer = answer]
    /\ waiters' = {[w EXCEPT !.woken = @ \/ w.n = slot.waiter] : w \in waiters}
    /\ approved' = approved \cup (IF answer = "no" THEN {} ELSE {w.report : w \in {v \in waiters : v.n = slot.waiter}})
    /\ UNCHANGED <<asks, file, att, exec, excuse, reports, faults>>

\* No answer counts as an approval.
Passes(w) ==
    /\ w.at = "waiting" /\ w.woken /\ slot.answer # "no"
    /\ Leaves(w)
    /\ att' = [att EXCEPT ![w.k].done = TRUE]
    /\ UNCHANGED <<asks, file, exec, approved, excuse, reports, faults>>

\* Refusals are counted over all attempts; the last one lets the report pass.
Refused(w) ==
    /\ w.at = "waiting" /\ w.woken /\ slot.answer = "no"
    /\ Leaves(w)
    /\ LET count == att[w.k].refused + 1
           forced == count >= MaxRejectionCount
           agent == att[w.k].agent
       IN  /\ att' = [att EXCEPT ![w.k].refused = count, ![w.k].done = @ \/ forced,
                        ![w.k].status = IF forced THEN @ ELSE "running",
                        ![w.k].agent = IF forced \/ agent = "deaf" THEN @ ELSE "working"]
           /\ excuse' = (excuse \/ forced)
           /\ IF forced THEN UNCHANGED file ELSE Written(w.k, exec.k = w.k)
    /\ UNCHANGED <<asks, exec, approved, reports, faults>>

\* An hour is longer than a node may take, unless the node's time has not begun
\* or is over.
ApprovalTimeout(w) ==
    /\ w.at = "waiting" /\ ~w.woken /\ ~(exec.at = "waiting" /\ exec.k = w.k) /\ Fault
    /\ Leaves(w)
    /\ att' = [att EXCEPT ![w.k].done = TRUE]
    /\ excuse' = TRUE
    /\ UNCHANGED <<asks, file, exec, approved, reports>>

------------------------------------------------------------------------------
(* Afterwards                                                              *)
UserRetries ==
    /\ exec.at = "none" /\ file.status = "failed" /\ Len(att) < MaxAttempts
    /\ file' = [file EXCEPT !.status = "pending", !.kept = FALSE, !.live = TRUE]
    /\ UNCHANGED <<asks, att, exec, waiters, slot, approved, excuse, reports, faults>>

\* Sessions are loaded again, without callbacks and without a turn to finish;
\* only tasks that were running are recovered.
Crash ==
    /\ exec.at # "none" \/ waiters # {} \/ file.live
    /\ Fault
    /\ file' = CASE file.live /\ file.status = "running" -> [file EXCEPT !.status = "failed", !.live = FALSE]
                 [] file.live /\ file.status = "waiting_approval" -> [file EXCEPT !.status = "pending", !.reissue = file.kept]
                 [] OTHER -> file
    /\ att' = [k \in DOMAIN att |-> [att[k] EXCEPT !.agent = "over"]]
    /\ exec' = NoExec /\ waiters' = {} /\ slot' = NoSlot
    /\ UNCHANGED <<asks, approved, excuse, reports>>

------------------------------------------------------------------------------
Init ==
    /\ asks \in BOOLEAN
    /\ file = Fresh /\ att = <<>> /\ exec = NoExec /\ waiters = {} /\ slot = NoSlot
    /\ approved = {} /\ excuse = FALSE /\ reports = 0 /\ faults = 0

Next ==
    \/ Begin \/ NoSession \/ Reissue \/ Asked \/ Awakes \/ Saves \/ Repairs \/ CannotSave \/ NodeTimeout
    \/ \E k \in DOMAIN att, ok \in BOOLEAN : Report(k, ok) \/ AgentEnds(k, ok)
    \/ \E w \in waiters :
          Registers(w) \/ Sends(w) \/ NotSent(w) \/ NotSaved(w) \/ Passes(w) \/ Refused(w) \/ ApprovalTimeout(w)
    \/ \E answer \in {"yes", "no"} : Decide(answer)
    \/ UserRetries \/ Crash

Spec == Init /\ [][Next]_vars

TypeOK ==
    /\ asks \in BOOLEAN
    /\ file.status \in {"pending", "running", "waiting_approval", "completed", "failed"}
    /\ file.live \in BOOLEAN /\ file.attempt \in 0 .. Len(att) /\ file.result \in 0 .. MaxReports
    /\ \A k \in DOMAIN att : att[k].agent \in {"working", "over", "deaf"} /\ att[k].refused \in 0 .. MaxReports * MaxFaults
    /\ exec.at \in {"none", "asking", "waiting", "output"} /\ exec.k \in 0 .. Len(att)
    /\ \A w \in waiters : w.k \in DOMAIN att /\ w.at \in {"new", "sending", "waiting"}
    /\ slot.waiter = 0 \/ slot.answer \in {"none", "yes", "no"}
    /\ approved \subseteq 0 .. MaxReports /\ excuse \in BOOLEAN

------------------------------------------------------------------------------
\* What a node passes on has been approved: by somebody who was asked about that
\* very report, unless the approval was left to run out, the agent was refused
\* too often, or it reported again before the first report was settled.  Without approvals it is passed on
\* when the agent's turn is over and not before.
OnlyApprovedPasses ==
    file.status = "completed" =>
        IF asks THEN file.result \in approved \/ excuse
        ELSE att[file.attempt].agent = "over"
==============================================================================
