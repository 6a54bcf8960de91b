------------------------------ MODULE NodeState ------------------------------
(* The execution state of one workflow node and the pure functions that
   rewrite it: src/workflow/failure_policy.py and the per-node part of
   src/workflow/task_recovery.py.

   A state keeps the fields the recovery logic branches on. Payload (outputs,
   summary, error text, sessions, token ledgers) is left out, a deadline is
   reduced to "set" or "not set", and attempt_history to the set of the attempt
   numbers it has a record for (a record with the same number is overwritten).
   A node the task has no state for yet equals a fresh "pending" one: the engine
   treats both the same way. *)
EXTENDS Naturals

CONSTANTS
    Nodes,        \* the executable nodes of the workflow
    RetryCount,   \* auto_retry_count of each node
    AutoSkip,     \* the nodes with fail_auto_skip set
    MaxAutoRetry  \* MAX_AUTO_RETRY_COUNT, 20 in the code

ASSUME RetryCountAssumption == RetryCount \in [Nodes -> Nat]
ASSUME AutoSkipAssumption == AutoSkip \subseteq Nodes
ASSUME MaxAutoRetryAssumption == MaxAutoRetry \in Nat

NodeStatus == {"pending", "running", "waiting_approval", "retry_waiting",
               "completed", "failed", "skipped"}

Triggers == {"initial", "auto_retry", "manual_retry", "validator_retry",
             "recovery_reissue"}

\* status, attempt_count, automatic_retry_count, next_attempt_trigger,
\* next_retry_at (is it set?), attempt_history
NodeState == [status: NodeStatus, attempt: Nat, auto: Nat, trigger: Triggers,
              deadline: BOOLEAN, history: SUBSET Nat]

Fresh == [status |-> "pending", attempt |-> 0, auto |-> 0,
          trigger |-> "initial", deadline |-> FALSE, history |-> {}]

\* Nodes the engine steps over, and nodes a user may retry or skip.
Done(s) == s.status \in {"completed", "skipped"}
Controllable(s) == s.status \in {"failed", "retry_waiting"}

-----------------------------------------------------------------------------
(* Failure policy *)

\* The automatic retries a node may ever have in one failure chain.
RetryBudget(n) ==
    IF RetryCount[n] < MaxAutoRetry THEN RetryCount[n] ELSE MaxAutoRetry

CanAutoRetry(n, s) == s.status = "failed" /\ s.auto < RetryBudget(n)

ShouldAutoSkip(n, s) ==
    s.status = "failed" /\ n \in AutoSkip /\ ~CanAutoRetry(n, s)

BeginAttempt(s) ==
    [s EXCEPT !.status = "running", !.attempt = @ + 1, !.deadline = FALSE]

\* record_attempt: the outcome of the current attempt enters the history.
Record(s, outcome) ==
    [s EXCEPT !.status = outcome, !.history = @ \cup {s.attempt}]

\* prepare_node_retry with the auto_retry trigger and a deadline ...
PrepareAutoRetry(s) ==
    [s EXCEPT !.status = "retry_waiting", !.auto = @ + 1,
              !.trigger = "auto_retry", !.deadline = TRUE]

\* ... and with the manual_retry trigger, which opens a new failure chain.
PrepareManualRetry(s) ==
    [s EXCEPT !.status = "pending", !.auto = 0,
              !.trigger = "manual_retry", !.deadline = FALSE]

ActivateRetry(s) == [s EXCEPT !.status = "pending", !.deadline = FALSE]

FailureSkip(s) == [s EXCEPT !.status = "skipped", !.deadline = FALSE]

\* A done node whose output a later node has rejected: "waiting_retry" in memory
\* and "pending" once prepare_node_retry has run, which the engine and recovery
\* treat the same way; validator_retry is no promise of a launch.
SentBack(s) ==
    [s EXCEPT !.status = "pending", !.trigger = "validator_retry",
              !.deadline = FALSE]

\* What becomes of a node whose attempt has failed: a scheduled retry while the
\* budget lasts, then a skip if the node asks for it, else a plain failure.
ApplyPolicy(n, s) ==
    IF CanAutoRetry(n, s) THEN PrepareAutoRetry(s)
    ELSE IF ShouldAutoSkip(n, s) THEN FailureSkip(s)
    ELSE s

-----------------------------------------------------------------------------
(* Recovery after a restart *)

\* Mutant: the interrupted attempt leaves no record.
InterruptedUnrecorded(s) ==
    [s EXCEPT !.status = "failed", !.attempt = IF @ < 1 THEN 1 ELSE @]

\* _interrupted_state: the attempt the crash cut off is closed as failed.
Interrupted(s) ==
    LET counted == [s EXCEPT !.attempt = IF @ < 1 THEN 1 ELSE @]
    IN  Record(counted, "failed")

\* _prepare_recovery_reissue: run it again without touching the retry budget.
Reissue(s) ==
    [s EXCEPT !.status = "pending", !.deadline = FALSE,
              !.trigger = "recovery_reissue"]

\* Mutant: a lost approval waiter counts as a failed attempt.
RecoverFailingApprovals(n, s) ==
    IF s.status \in {"running", "waiting_approval"}
    THEN ApplyPolicy(n, Interrupted(s)) ELSE s

RecoverNode(n, s) ==
    CASE s.status = "running" -> ApplyPolicy(n, Interrupted(s))
      [] s.status = "waiting_approval" -> Reissue(Interrupted(s))
      [] s.status = "retry_waiting" /\ ~s.deadline -> [s EXCEPT !.status = "failed"]
      [] OTHER -> s

\* A pending node some recovery step has already promised to run.
LaunchPromised(s) ==
    s.status = "pending"
    /\ s.trigger \in {"auto_retry", "manual_retry", "recovery_reissue"}
=============================================================================
