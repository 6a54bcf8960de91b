-------------------------- MODULE TaskControlProofs --------------------------
(* Proofs about TaskControl for every workflow graph, every retry setting, any
   number of runs and any number of outside events: its types, and what the runs
   of a task, its file and its users can rely on, with its refinement of
   TaskLifecycle.

   Stopping a task inside a parallel block may leave a branch behind that saves
   its own copy of the task later (run task_stop); most of what follows about
   safety is about behaviours in which that does not happen. *)
EXTENDS TaskControl, TLAPS

-----------------------------------------------------------------------------
(* The operators on node states *)

\* The retry budget is a number, so automatic_retry_count can be compared with it.
LEMMA BudgetType == \A n \in Nodes : RetryBudget(n) \in Nat
  BY RetryCountAssumption, MaxAutoRetryAssumption DEF RetryBudget

\* A node the task has no state for is a node state.
LEMMA FreshType == Fresh \in NodeState
  BY DEF Fresh, NodeState, NodeStatus, Triggers

\* Every function of failure_policy and task_recovery maps a node state to one.
LEMMA NodeOperatorTypes ==
    ASSUME NEW n \in Nodes, NEW s \in NodeState
    PROVE  /\ BeginAttempt(s) \in NodeState
           /\ \A st \in NodeStatus : Record(s, st) \in NodeState
           /\ \A st \in NodeStatus : [s EXCEPT !.status = st] \in NodeState
           /\ ApplyPolicy(n, s) \in NodeState
           /\ PrepareManualRetry(s) \in NodeState
           /\ ActivateRetry(s) \in NodeState
           /\ FailureSkip(s) \in NodeState
           /\ SentBack(s) \in NodeState
           /\ [s EXCEPT !.auto = 0] \in NodeState
           /\ Interrupted(s) \in NodeState
           /\ Reissue(s) \in NodeState
  <1>0. s.attempt + 1 \in Nat /\ s.auto + 1 \in Nat
    BY DEF NodeState
  <1>1. BeginAttempt(s) \in NodeState
    BY <1>0, Zenon DEF NodeState, NodeStatus, BeginAttempt
  <1>2. \A t \in NodeState, st \in NodeStatus : Record(t, st) \in NodeState
    BY DEF NodeState, Record
  <1>3. \A st \in NodeStatus : [s EXCEPT !.status = st] \in NodeState
    BY DEF NodeState
  <1>4. PrepareManualRetry(s) \in NodeState
    BY DEF NodeState, NodeStatus, Triggers, PrepareManualRetry
  <1>5. ActivateRetry(s) \in NodeState
    BY DEF NodeState, NodeStatus, ActivateRetry
  <1>6. FailureSkip(s) \in NodeState
    BY DEF NodeState, NodeStatus, FailureSkip
  <1>7. Reissue(s) \in NodeState
    BY DEF NodeState, NodeStatus, Triggers, Reissue
  <1>8. PrepareAutoRetry(s) \in NodeState
    BY <1>0 DEF NodeState, NodeStatus, Triggers, PrepareAutoRetry
  <1>9. ApplyPolicy(n, s) \in NodeState
    BY <1>6, <1>8 DEF ApplyPolicy
  <1>11. SentBack(s) \in NodeState
    BY DEF NodeState, NodeStatus, Triggers, SentBack
  <1>12. [s EXCEPT !.auto = 0] \in NodeState
    BY DEF NodeState
  <1>10. Interrupted(s) \in NodeState
    <2>1. [s EXCEPT !.attempt = IF @ < 1 THEN 1 ELSE @] \in NodeState
      BY DEF NodeState
    <2>2. "failed" \in NodeStatus
      BY DEF NodeStatus
    <2> QED
      BY <2>1, <2>2, <1>2 DEF Interrupted
  <1> QED
    BY <1>1, <1>2, <1>3, <1>4, <1>5, <1>6, <1>7, <1>9, <1>10, <1>11, <1>12

\* Recovery maps a node state to a node state ...
LEMMA RecoverNodeType ==
    ASSUME NEW n \in Nodes, NEW s \in NodeState
    PROVE  RecoverNode(n, s) \in NodeState
  <1>1. Interrupted(s) \in NodeState
    BY NodeOperatorTypes
  <1>2. /\ ApplyPolicy(n, Interrupted(s)) \in NodeState
        /\ Reissue(Interrupted(s)) \in NodeState
    BY <1>1, NodeOperatorTypes
  <1>3. [s EXCEPT !.status = "failed"] \in NodeState
    BY NodeOperatorTypes DEF NodeStatus
  <1> QED
    BY <1>2, <1>3 DEF RecoverNode

\* ... and a task to a task.
LEMMA RecoverTaskType ==
    ASSUME NEW t \in Task
    PROVE  RecoverTask(t) \in Task
  <1>1. \A n \in Nodes : RecoverNode(n, t.nodes[n]) \in NodeState
    BY RecoverNodeType DEF Task
  <1>2. [n \in Nodes |-> RecoverNode(n, t.nodes[n])] \in [Nodes -> NodeState]
    BY <1>1
  <1> QED
    BY <1>2 DEF RecoverTask, Task, TaskStatus

\* The tasks a launch and the end of a process start from.
LEMMA NewTaskType == \A st \in TaskStatus : NewTask(st) \in Task
  BY FreshType DEF NewTask, Task

\* The statuses a run may end with are statuses of a task.
LEMMA OutcomeTypes ==
    ASSUME NEW r \in RunIds
    PROVE  Outcome(r) \in TaskStatus /\ SwallowedOutcome(r) \in TaskStatus
  BY DEF Outcome, SwallowedOutcome, TaskStatus

-----------------------------------------------------------------------------
(* What the shared parts of the actions do to the variables *)

\* Counting an outside event keeps the counters numbers.
LEMMA HappensType ==
    ASSUME TypeOK, NEW e \in Events, Happens(e)
    PROVE  spent' \in [Events -> Nat]
  BY DEF TypeOK, Happens

\* SetNode rewrites one node of one run and nothing else.
LEMMA SetNodeEffect ==
    ASSUME TypeOK, NEW r \in RunIds, NEW n \in Nodes, NEW s \in NodeState,
           NEW next \in NodePC, SetNode(r, n, s, next)
    PROVE  /\ mem' \in [RunIds -> Task]
           /\ pc' \in [RunIds -> [Nodes -> NodePC]]
           /\ \A q \in RunIds, m \in Nodes :
                 /\ mem'[q].nodes[m] = IF q = r /\ m = n THEN s
                                       ELSE mem[q].nodes[m]
                 /\ pc'[q][m] = IF q = r /\ m = n THEN next ELSE pc[q][m]
  <1>1. /\ mem' = [mem EXCEPT ![r].nodes[n] = s]
        /\ pc' = [pc EXCEPT ![r][n] = next]
        /\ mem \in [RunIds -> Task]
        /\ pc \in [RunIds -> [Nodes -> NodePC]]
    BY DEF SetNode, TypeOK
  <1>2. mem[r] \in Task /\ mem[r].nodes \in [Nodes -> NodeState]
    BY <1>1 DEF Task
  <1>3. [mem[r] EXCEPT !.nodes[n] = s] \in Task
    BY <1>2 DEF Task
  <1>4. mem' \in [RunIds -> Task]
    BY <1>1, <1>3
  <1>5. pc' \in [RunIds -> [Nodes -> NodePC]]
    BY <1>1
  <1>6. ASSUME NEW q \in RunIds, NEW m \in Nodes
        PROVE  /\ mem'[q].nodes[m] = IF q = r /\ m = n THEN s
                                     ELSE mem[q].nodes[m]
               /\ pc'[q][m] = IF q = r /\ m = n THEN next ELSE pc[q][m]
    BY <1>1, <1>2 DEF Task
  <1> QED
    BY <1>4, <1>5, <1>6

\* SetNodes rewrites the nodes of one run and nothing else.
LEMMA SetNodesEffect ==
    ASSUME TypeOK, NEW r \in RunIds, NEW nodes \in [Nodes -> NodeState],
           NEW positions \in [Nodes -> NodePC], SetNodes(r, nodes, positions)
    PROVE  /\ mem' \in [RunIds -> Task]
           /\ pc' \in [RunIds -> [Nodes -> NodePC]]
           /\ \A q \in RunIds :
                 /\ mem'[q].nodes = IF q = r THEN nodes ELSE mem[q].nodes
                 /\ mem'[q].status = mem[q].status
                 /\ pc'[q] = IF q = r THEN positions ELSE pc[q]
  <1>1. /\ mem' = [mem EXCEPT ![r].nodes = nodes]
        /\ pc' = [pc EXCEPT ![r] = positions]
        /\ mem \in [RunIds -> Task]
        /\ pc \in [RunIds -> [Nodes -> NodePC]]
    BY DEF SetNodes, TypeOK
  <1>2. [mem[r] EXCEPT !.nodes = nodes] \in Task
    BY <1>1 DEF Task
  <1>3. mem' \in [RunIds -> Task] /\ pc' \in [RunIds -> [Nodes -> NodePC]]
    BY <1>1, <1>2
  <1>4. ASSUME NEW q \in RunIds
        PROVE  /\ mem'[q].nodes = IF q = r THEN nodes ELSE mem[q].nodes
               /\ mem'[q].status = mem[q].status
               /\ pc'[q] = IF q = r THEN positions ELSE pc[q]
    BY <1>1 DEF Task
  <1> QED
    BY <1>3, <1>4

\* Returning work rewrites nodes of one run by node states, and no more of it.
LEMMA ReturnsTypes ==
    ASSUME TypeOK, NEW r \in RunIds, NEW n \in Nodes, Returns(r, n)
    PROVE  /\ \E nodes \in [Nodes -> NodeState], positions \in [Nodes -> NodePC] :
                 SetNodes(r, nodes, positions)
           /\ MayStep(r, n)
           /\ spent' \in [Events -> Nat]
           /\ UNCHANGED <<disk, main, ctlVars, handled>>
  <1> DEFINE nodes == mem[r].nodes
             positions == pc[r]
  <1>1. nodes \in [Nodes -> NodeState] /\ positions \in [Nodes -> NodePC]
    BY DEF TypeOK, Task
  <1>2. Pred[n] \subseteq Nodes
    BY PredAssumption
  <1>3. \A m \in Nodes : /\ SentBack(nodes[m]) \in NodeState
                         /\ [nodes[m] EXCEPT !.auto = 0] \in NodeState
                         /\ \A st \in NodeStatus : [nodes[m] EXCEPT !.status = st] \in NodeState
                         /\ \A st \in NodeStatus : Record(nodes[m], st) \in NodeState
    BY <1>1, NodeOperatorTypes
  <1>4. \A st \in {"pending", "running", "completed", "failed", "skipped"} : st \in NodeStatus
    BY DEF NodeStatus
  <1>5. \A at \in {"judging", "sending", "sent", "ending", "idle"} : at \in NodePC
    BY DEF NodePC
  <1>6. CASE RollsBack(r, n)
    <2>1. PICK u \in Behind(n) : SetNodes(r,
             [nodes EXCEPT ![u].status = "running",
                           ![n] = [Record(@, "failed") EXCEPT !.status = "pending"]],
             [positions EXCEPT ![n] = "ending"])
      BY <1>6, Zenon DEF RollsBack
    <2>2. u \in Nodes
      BY <1>2 DEF Behind
    <2>3. [nodes EXCEPT ![u].status = "running"] \in [Nodes -> NodeState]
      BY <1>1, <1>3, <1>4, <2>2
    <2> DEFINE back == [nodes EXCEPT ![u].status = "running"]
    <2>4. [Record(back[n], "failed") EXCEPT !.status = "pending"] \in NodeState
      BY <1>4, <2>3, NodeOperatorTypes
    <2>5. [back EXCEPT ![n] = [Record(@, "failed") EXCEPT !.status = "pending"]]
          \in [Nodes -> NodeState]
      BY <2>3, <2>4
    <2>6. [positions EXCEPT ![n] = "ending"] \in [Nodes -> NodePC]
      BY <1>1, <1>5
    <2> DEFINE x == [nodes EXCEPT
                        ![u].status = "running",
                        ![n] = [Record(@, "failed") EXCEPT !.status = "pending"]]
               y == [positions EXCEPT ![n] = "ending"]
    <2>10. x = [back EXCEPT ![n] = [Record(@, "failed") EXCEPT !.status = "pending"]]
      OBVIOUS
    <2>11. x \in [Nodes -> NodeState] /\ y \in [Nodes -> NodePC] /\ SetNodes(r, x, y)
      BY <2>1, <2>5, <2>6, <2>10
    <2> HIDE DEF x, y
    <2>7. \E some \in [Nodes -> NodeState], places \in [Nodes -> NodePC] :
             SetNodes(r, some, places)
      BY <2>11
    <2>8. MayStep(r, n) /\ Happens("return") /\ UNCHANGED <<disk, main, ctlVars, handled>>
      BY <1>6 DEF RollsBack
    <2>9. spent' \in [Events -> Nat]
      BY <2>8, HappensType DEF Events
    <2> QED
      BY <2>7, <2>8, <2>9
  <1>7. CASE Rejects(r, n)
    <2>1. PICK u \in Pred[n] : SetNodes(r, [nodes EXCEPT ![u] = SentBack(@)],
                                           [positions EXCEPT ![n] = "judging"])
      BY <1>7 DEF Rejects
    <2>2. [nodes EXCEPT ![u] = SentBack(@)] \in [Nodes -> NodeState]
      BY <1>1, <1>2, <1>3
    <2>3. [positions EXCEPT ![n] = "judging"] \in [Nodes -> NodePC]
      BY <1>1, <1>5
    <2> QED
      BY <1>7, <2>1, <2>2, <2>3, HappensType DEF Rejects, Events
  <1>8. CASE SendsBack(r, n)
    <2>1. PICK u \in Pred[n], outcome \in {"completed", "failed"} :
             SetNodes(r, [nodes EXCEPT ![n] = Record(@, outcome), ![u].auto = 0],
                         [positions EXCEPT ![n] = "sending"])
      BY <1>8 DEF SendsBack
    <2>2. [nodes EXCEPT ![n] = Record(@, outcome)] \in [Nodes -> NodeState]
      BY <1>1, <1>3, <1>4
    <2> DEFINE over == [nodes EXCEPT ![n] = Record(@, outcome)]
    <2>3. [over[u] EXCEPT !.auto = 0] \in NodeState
      BY <1>2, <2>2, NodeOperatorTypes
    <2>4. [over EXCEPT ![u].auto = 0] \in [Nodes -> NodeState]
      BY <2>2, <2>3
    <2>5. [positions EXCEPT ![n] = "sending"] \in [Nodes -> NodePC]
      BY <1>1, <1>5
    <2> QED
      BY <1>8, <2>1, <2>4, <2>5 DEF SendsBack, TypeOK
  <1>9. CASE ReworkEnds(r, n)
    <2>0. PICK u \in Pred[n] :
             \E s \in {Record(nodes[u], "completed"),
                       ApplyPolicy(u, Record(nodes[u], "failed"))} :
                SetNodes(r, [nodes EXCEPT ![u] = s, ![n].status = "pending"],
                            [positions EXCEPT ![u] = "ending",
                                              ![n] = IF s.status = "skipped"
                                                     THEN "sent" ELSE "idle"])
      BY <1>9 DEF ReworkEnds
    <2>1. PICK s \in {Record(nodes[u], "completed"),
                      ApplyPolicy(u, Record(nodes[u], "failed"))} :
             SetNodes(r, [nodes EXCEPT ![u] = s, ![n].status = "pending"],
                         [positions EXCEPT ![u] = "ending",
                                           ![n] = IF s.status = "skipped"
                                                  THEN "sent" ELSE "idle"])
      BY <2>0
    <2>2. s \in NodeState /\ u \in Nodes
      <3>1. /\ u \in Nodes
            /\ Record(nodes[u], "completed") \in NodeState
            /\ Record(nodes[u], "failed") \in NodeState
        BY <1>2, <1>3, <1>4
      <3>2. ApplyPolicy(u, Record(nodes[u], "failed")) \in NodeState
        BY <3>1, NodeOperatorTypes
      <3> QED
        BY <3>1, <3>2
    <2>3. [nodes EXCEPT ![u] = s] \in [Nodes -> NodeState]
      BY <1>1, <2>2
    <2> DEFINE over == [nodes EXCEPT ![u] = s]
    <2>4. [over[n] EXCEPT !.status = "pending"] \in NodeState
      BY <1>4, <2>3, NodeOperatorTypes
    <2>5. [over EXCEPT ![n].status = "pending"] \in [Nodes -> NodeState]
      BY <2>3, <2>4
    <2>6. [positions EXCEPT ![u] = "ending",
                            ![n] = IF s.status = "skipped" THEN "sent" ELSE "idle"]
          \in [Nodes -> NodePC]
      BY <1>1, <1>5
    <2> QED
      BY <1>9, <2>1, <2>5, <2>6 DEF ReworkEnds, TypeOK
  <1>10. CASE PassesOver(r, n)
    <2>1. SetNodes(r, [nodes EXCEPT ![n].status = "skipped"],
                      [positions EXCEPT ![n] = "ending"])
      BY <1>10 DEF PassesOver
    <2>2. [nodes EXCEPT ![n].status = "skipped"] \in [Nodes -> NodeState]
      BY <1>1, <1>3, <1>4
    <2>3. [positions EXCEPT ![n] = "ending"] \in [Nodes -> NodePC]
      BY <1>1, <1>5
    <2> QED
      BY <1>10, <2>1, <2>2, <2>3 DEF PassesOver, TypeOK
  <1> QED
    BY <1>6, <1>7, <1>8, <1>9, <1>10 DEF Returns

\* A run that is over leaves an empty slot.
LEMMA ClearRunEffect ==
    ASSUME TypeOK, NEW r \in RunIds, ClearRun(r)
    PROVE  /\ mem' \in [RunIds -> Task]
           /\ main' \in [RunIds -> MainPC]
           /\ pc' \in [RunIds -> [Nodes -> NodePC]]
           /\ \A q \in RunIds, m \in Nodes :
                 /\ mem'[q].nodes[m] = IF q = r THEN Fresh ELSE mem[q].nodes[m]
                 /\ pc'[q][m] = IF q = r THEN "idle" ELSE pc[q][m]
  <1>1. NewTask("pending") \in Task
    BY NewTaskType DEF TaskStatus
  <1>2. NoNodes \in [Nodes -> NodePC]
    BY DEF NoNodes, NodePC
  <1> QED
    BY <1>1, <1>2 DEF TypeOK, ClearRun, MainPC, NewTask, NoNodes

\* A launch copies the task file into the run's memory.
LEMMA StartRunEffect ==
    ASSUME TypeOK, NEW r \in RunIds, StartRun(r)
    PROVE  /\ disk' \in Task
           /\ disk'.nodes = disk.nodes
           /\ mem' \in [RunIds -> Task]
           /\ main' \in [RunIds -> MainPC]
           /\ pc' \in [RunIds -> [Nodes -> NodePC]]
           /\ \A q \in RunIds, m \in Nodes :
                 /\ mem'[q].nodes[m] = IF q = r THEN disk.nodes[m]
                                       ELSE mem[q].nodes[m]
                 /\ pc'[q][m] = IF q = r THEN "idle" ELSE pc[q][m]
  <1>1. /\ [disk EXCEPT !.status = "running"] \in Task
        /\ [disk EXCEPT !.status = "running"].nodes = disk.nodes
    BY DEF TypeOK, Task, TaskStatus
  <1>2. NoNodes \in [Nodes -> NodePC]
    BY DEF NoNodes, NodePC
  <1> QED
    BY <1>1, <1>2 DEF TypeOK, StartRun, MainPC, NoNodes

\* The end of the process empties every slot.
LEMMA ProcessGoneEffect ==
    ASSUME TypeOK, ProcessGone
    PROVE  /\ mem' \in [RunIds -> Task]
           /\ main' \in [RunIds -> MainPC]
           /\ pc' \in [RunIds -> [Nodes -> NodePC]]
           /\ launching' \in BOOLEAN
           /\ stop' \in StopState
           /\ timer' \in BOOLEAN
           /\ proc' \in {"up", "closing", "down"}
           /\ \A q \in RunIds, m \in Nodes :
                 mem'[q].nodes[m] = Fresh /\ pc'[q][m] = "idle"
  <1>1. NewTask("pending") \in Task
    BY NewTaskType DEF TaskStatus
  <1>2. NoNodes \in [Nodes -> NodePC]
    BY DEF NoNodes, NodePC
  <1> QED
    BY <1>1, <1>2 DEF TypeOK, ProcessGone, MainPC, StopState, NewTask, NoNodes

\* A task whose status alone changes is a task with the same nodes.
LEMMA StatusChange ==
    ASSUME NEW t \in Task, NEW st \in TaskStatus
    PROVE  /\ [t EXCEPT !.status = st] \in Task
           /\ [t EXCEPT !.status = st].nodes = t.nodes
  BY DEF Task

-----------------------------------------------------------------------------
(* Type correctness *)

\* The initial task file is a task without history.
LEMMA InitTypeOK == Init => TypeOK
  <1> SUFFICES ASSUME Init PROVE TypeOK
    OBVIOUS
  <1>1. disk \in Task
    BY NewTaskType DEF Init, TaskStatus
  <1>2. mem \in [RunIds -> Task]
    BY NewTaskType DEF Init, TaskStatus
  <1>3. pc \in [RunIds -> [Nodes -> NodePC]]
    BY DEF Init, NoNodes, NodePC
  <1>4. /\ main \in [RunIds -> MainPC]
        /\ stop \in StopState
    BY DEF Init, MainPC, StopState
  <1> QED
    BY <1>1, <1>2, <1>3, <1>4 DEF Init, TypeOK

\* Every step of the engine keeps the types.
LEMMA EngineTypeOK ==
    ASSUME TypeOK, NEW r \in RunIds, EngineStep(r)
    PROVE  TypeOK'
  <1>1. ASSUME NEW n \in Nodes, StartNode(r, n) PROVE TypeOK'
    <2>0. mem[r].nodes[n] \in NodeState
      BY DEF TypeOK, Task
    <2>1. BeginAttempt(mem[r].nodes[n]) \in NodeState
      BY <2>0, NodeOperatorTypes
    <2>2. SetNode(r, n, BeginAttempt(mem[r].nodes[n]), "starting")
      BY <1>1 DEF StartNode
    <2>3. mem' \in [RunIds -> Task] /\ pc' \in [RunIds -> [Nodes -> NodePC]]
      BY <2>1, <2>2, SetNodeEffect DEF NodePC
    <2> QED
      BY <1>1, <2>3 DEF TypeOK, StartNode, ctlVars
  <1>2. ASSUME NEW n \in Nodes, Checkpoint(r, n) PROVE TypeOK'
    <2>1. AfterSave[pc[r][n]] \in NodePC
      BY <1>2 DEF Checkpoint, AfterSave, NodePC
    <2>2. pc' \in [RunIds -> [Nodes -> NodePC]]
      BY <1>2, <2>1 DEF TypeOK, Checkpoint
    <2> QED
      BY <1>2, <2>2 DEF TypeOK, Checkpoint, ctlVars
  <1>3. ASSUME NEW n \in Nodes, AskApproval(r, n) PROVE TypeOK'
    <2> DEFINE s == mem[r].nodes[n]
    <2>0. s \in NodeState /\ "waiting_approval" \in NodeStatus
      BY DEF TypeOK, Task, NodeStatus
    <2>1. [s EXCEPT !.status = "waiting_approval"] \in NodeState
      BY <2>0, NodeOperatorTypes
    <2>2. SetNode(r, n, [s EXCEPT !.status = "waiting_approval"], "asking")
      BY <1>3 DEF AskApproval
    <2>3. mem' \in [RunIds -> Task] /\ pc' \in [RunIds -> [Nodes -> NodePC]]
      BY <2>1, <2>2, SetNodeEffect DEF NodePC
    <2> QED
      BY <1>3, <2>3 DEF TypeOK, AskApproval, ctlVars
  <1>4. ASSUME NEW n \in Nodes, NodeEnds(r, n) PROVE TypeOK'
    <2> DEFINE s == mem[r].nodes[n]
    <2>1. s \in NodeState
      BY DEF TypeOK, Task
    <2>2. /\ Record(s, "completed") \in NodeState
          /\ Record(s, "failed") \in NodeState
      BY <2>1, NodeOperatorTypes DEF NodeStatus
    <2>3. ApplyPolicy(n, Record(s, "failed")) \in NodeState
      BY <2>2, NodeOperatorTypes
    <2>4. \E t \in NodeState : SetNode(r, n, t, "ending")
      BY <1>4, <2>2, <2>3 DEF NodeEnds
    <2>5. mem' \in [RunIds -> Task] /\ pc' \in [RunIds -> [Nodes -> NodePC]]
      BY <2>4, SetNodeEffect DEF NodePC
    <2> QED
      BY <1>4, <2>5 DEF TypeOK, NodeEnds, ctlVars
  <1>10. ASSUME NEW n \in Nodes, Returns(r, n) PROVE TypeOK'
    <2>1. mem' \in [RunIds -> Task] /\ pc' \in [RunIds -> [Nodes -> NodePC]]
      BY <1>10, ReturnsTypes, SetNodesEffect
    <2> QED
      BY <1>10, <2>1, ReturnsTypes DEF TypeOK, ctlVars
  <1>5. CASE Begin(r)
    BY <1>5 DEF TypeOK, Begin, MainPC, ctlVars
  <1>6. CASE Finish(r)
    <2>1. disk' \in Task
      BY <1>6, OutcomeTypes, StatusChange DEF TypeOK, Finish
    <2>2. timer' \in BOOLEAN
      BY <1>6 DEF TypeOK, Finish, Schedule
    <2>3. /\ mem' \in [RunIds -> Task]
          /\ main' \in [RunIds -> MainPC]
          /\ pc' \in [RunIds -> [Nodes -> NodePC]]
      BY <1>6, ClearRunEffect DEF Finish
    <2> QED
      BY <1>6, <2>1, <2>2, <2>3 DEF TypeOK, Finish
  <1>7. CASE CancelUnwinds(r)
    <2>1. disk' \in Task
      BY <1>7, StatusChange DEF TypeOK, CancelUnwinds, TaskStatus
    <2>2. /\ mem' \in [RunIds -> Task]
          /\ main' \in [RunIds -> MainPC]
          /\ pc' \in [RunIds -> [Nodes -> NodePC]]
      BY <1>7, ClearRunEffect DEF CancelUnwinds
    <2> QED
      BY <1>7, <2>1, <2>2 DEF TypeOK, CancelUnwinds, ctlVars
  <1>8. CASE SwallowFinish(r)
    <2>1. [mem[r] EXCEPT !.status = SwallowedOutcome(r)] \in Task
      BY OutcomeTypes, StatusChange DEF TypeOK
    <2>2. disk' \in Task
      BY <1>8, <2>1 DEF SwallowFinish
    <2>3. timer' \in BOOLEAN
      BY <1>8 DEF TypeOK, SwallowFinish, Schedule
    <2>4. /\ mem' \in [RunIds -> Task]
          /\ main' \in [RunIds -> MainPC]
          /\ pc' \in [RunIds -> [Nodes -> NodePC]]
      <3>1. CASE Branches(r) = {}
        BY <1>8, <3>1, ClearRunEffect DEF SwallowFinish
      <3>2. CASE Branches(r) # {}
        BY <1>8, <3>2, <2>1 DEF SwallowFinish, TypeOK, MainPC
      <3> QED
        BY <3>1, <3>2
    <2> QED
      BY <1>8, <2>2, <2>3, <2>4 DEF TypeOK, SwallowFinish
  <1>9. CASE BranchEnds(r)
    <2>1. /\ mem' \in [RunIds -> Task]
          /\ main' \in [RunIds -> MainPC]
          /\ pc' \in [RunIds -> [Nodes -> NodePC]]
      BY <1>9, ClearRunEffect DEF BranchEnds
    <2> QED
      BY <1>9, <2>1 DEF TypeOK, BranchEnds, ctlVars
  <1> QED
    BY <1>1, <1>2, <1>3, <1>4, <1>5, <1>6, <1>7, <1>8, <1>9, <1>10 DEF EngineStep

\* Every request of a user keeps the types.
LEMMA UserTypeOK ==
    ASSUME TypeOK, UserStep
    PROVE  TypeOK'
  <1>1. ASSUME NEW r \in RunIds, RunTask(r) PROVE TypeOK'
    <2>1. StartRun(r)
      BY <1>1 DEF RunTask
    <2>2. stop' \in StopState
      BY <1>1 DEF RunTask, TypeOK, StopState
    <2> QED
      BY <1>1, <2>1, <2>2, StartRunEffect DEF TypeOK, RunTask
  <1>2. ASSUME NEW r \in RunIds, StartPreRunning(r) PROVE TypeOK'
    <2>1. StartRun(r)
      BY <1>2 DEF StartPreRunning
    <2> QED
      BY <1>2, <2>1, StartRunEffect DEF TypeOK, StartPreRunning, ctlVars
  <1>3. ASSUME NEW r \in RunIds, StopRunning(r) PROVE TypeOK'
    <2>1. spent' \in [Events -> Nat]
      BY <1>3, HappensType DEF StopRunning, Events
    <2>2. /\ mem' \in [RunIds -> Task]
          /\ main' \in [RunIds -> MainPC]
          /\ pc' \in [RunIds -> [Nodes -> NodePC]]
      <3>1. CASE ClearRun(r)
        BY <3>1, ClearRunEffect
      <3>2. CASE ~ClearRun(r)
        BY <1>3, <3>2 DEF StopRunning, TypeOK, MainPC
      <3> QED
        BY <3>1, <3>2
    <2> QED
      BY <1>3, <2>1, <2>2 DEF TypeOK, StopRunning, StopState
  <1>4. CASE StopIdle
    <2>1. disk' \in Task
      BY <1>4, StatusChange DEF TypeOK, StopIdle, TaskStatus
    <2>2. spent' \in [Events -> Nat]
      BY <1>4, HappensType DEF StopIdle, Events
    <2> QED
      BY <1>4, <2>1, <2>2 DEF TypeOK, StopIdle, StopState
  <1>5. ASSUME NEW n \in Nodes, NEW e \in Attempts, NEW t \in NodeState,
               ResumeWith(n, t), Happens("control"),
               handled' = [handled EXCEPT ![n] = e],
               UNCHANGED <<mem, main, pc, owner, proc>>
        PROVE  TypeOK'
    <2>1. disk' \in Task
      BY <1>5 DEF TypeOK, ResumeWith, Task, TaskStatus
    <2>2. e \in Nat
      BY DEF Attempts, TypeOK, Task, NodeState
    <2>3. spent' \in [Events -> Nat]
      BY <1>5, HappensType DEF Events
    <2> QED
      BY <1>5, <2>1, <2>2, <2>3 DEF TypeOK, ResumeWith, StopState
  <1>6. ASSUME NEW n \in Nodes
        PROVE  LET failed == [disk.nodes[n] EXCEPT !.status = "failed"]
               IN  /\ PrepareManualRetry(failed) \in NodeState
                   /\ FailureSkip(failed) \in NodeState
    <2>1. disk.nodes[n] \in NodeState /\ "failed" \in NodeStatus
      BY DEF TypeOK, Task, NodeStatus
    <2>2. [disk.nodes[n] EXCEPT !.status = "failed"] \in NodeState
      BY <2>1, NodeOperatorTypes
    <2> QED
      BY <2>2, NodeOperatorTypes
  <1>7. ASSUME NEW n \in Nodes, NEW e \in Attempts, RetryNode(n, e) PROVE TypeOK'
    BY <1>5, <1>6, <1>7 DEF RetryNode
  <1>8. ASSUME NEW n \in Nodes, NEW e \in Attempts, SkipNode(n, e) PROVE TypeOK'
    BY <1>5, <1>6, <1>8 DEF SkipNode
  <1> QED
    BY <1>1, <1>2, <1>3, <1>4, <1>7, <1>8 DEF UserStep

\* Every step of the control handlers and of the retry timer keeps the types.
LEMMA ControlTypeOK ==
    ASSUME TypeOK, ControlStep
    PROVE  TypeOK'
  <1>1. CASE Launch
    <2>1. CASE UNCHANGED taskVars
      BY <1>1, <2>1 DEF TypeOK, Launch, taskVars
    <2>2. ASSUME NEW r \in RunIds, StartRun(r) PROVE TypeOK'
      BY <1>1, <2>2, StartRunEffect DEF TypeOK, Launch
    <2> QED
      BY <1>1, <2>1, <2>2 DEF Launch
  <1>2. CASE StopReturns
    <2>1. disk' \in Task
      BY <1>2, StatusChange DEF TypeOK, StopReturns, TaskStatus
    <2> QED
      BY <1>2, <2>1 DEF TypeOK, StopReturns, StopState
  <1>3. ASSUME NEW due \in SUBSET Waiting(disk), TimerActivates(due) PROVE TypeOK'
    <2>1. \A n \in Nodes : ActivateRetry(disk.nodes[n]) \in NodeState
      BY NodeOperatorTypes DEF TypeOK, Task
    <2>2. disk' \in Task
      BY <1>3, <2>1 DEF TypeOK, TimerActivates, Task, TaskStatus
    <2> QED
      BY <1>3, <2>2 DEF TypeOK, TimerActivates
  <1>4. CASE TimerGivesUp
    BY <1>4 DEF TypeOK, TimerGivesUp, taskVars
  <1> QED
    BY <1>1, <1>2, <1>3, <1>4 DEF ControlStep

\* Every failure keeps the types.
LEMMA FailureTypeOK ==
    ASSUME TypeOK, FailureStep
    PROVE  TypeOK'
  <1>1. ASSUME NEW r \in RunIds, NEW n \in Nodes, CheckpointFails(r, n)
        PROVE  TypeOK'
    <2> DEFINE s == ApplyPolicy(n, Record(mem[r].nodes[n], "failed"))
    <2>1. spent' \in [Events -> Nat]
      BY <1>1, HappensType DEF CheckpointFails, Events
    <2>2. s \in NodeState
      <3>1. mem[r].nodes[n] \in NodeState /\ "failed" \in NodeStatus
        BY DEF TypeOK, Task, NodeStatus
      <3>2. Record(mem[r].nodes[n], "failed") \in NodeState
        BY <3>1, NodeOperatorTypes
      <3> QED
        BY <3>2, NodeOperatorTypes
    <2>3. /\ mem' \in [RunIds -> Task]
          /\ pc' \in [RunIds -> [Nodes -> NodePC]]
      <3>1. CASE SetNode(r, n, s, "ending")
        BY <3>1, <2>2, SetNodeEffect DEF NodePC
      <3>2. CASE UNCHANGED mem /\ pc' = [pc EXCEPT ![r][n] = "dead"]
        BY <3>2 DEF TypeOK, NodePC
      <3> QED
        BY <1>1, <3>1, <3>2 DEF CheckpointFails
    <2> QED
      BY <1>1, <2>1, <2>3 DEF TypeOK, CheckpointFails, ctlVars
  <1>2. CASE OwnerFails
    BY <1>2 DEF TypeOK, OwnerFails, taskVars
  <1>3. CASE Crash
    <2>1. spent' \in [Events -> Nat]
      BY <1>3, HappensType DEF Crash, Events
    <2> QED
      BY <1>3, <2>1, ProcessGoneEffect DEF TypeOK, Crash
  <1>4. CASE ShutDown
    <2>1. spent' \in [Events -> Nat]
      BY <1>4, HappensType DEF ShutDown, Events
    <2> QED
      BY <1>4, <2>1 DEF TypeOK, ShutDown, taskVars
  <1>5. CASE LoopCloses
    <2>1. \A r \in RunIds : /\ [mem[r] EXCEPT !.status = "stopped"] \in Task
                            /\ [mem[r] EXCEPT !.status = SwallowedOutcome(r)] \in Task
      BY OutcomeTypes, StatusChange DEF TypeOK, TaskStatus
    <2>2. disk' \in Task
      BY <1>5, <2>1 DEF TypeOK, LoopCloses
    <2>3. ProcessGone
      BY <1>5 DEF LoopCloses
    <2> QED
      BY <1>5, <2>2, <2>3, ProcessGoneEffect DEF TypeOK, LoopCloses
  <1>6. ASSUME NEW r \in RunIds, BeginFails(r) PROVE TypeOK'
    <2>1. disk' \in Task
      BY <1>6, StatusChange DEF TypeOK, BeginFails, TaskStatus
    <2>2. spent' \in [Events -> Nat]
      BY <1>6, HappensType DEF BeginFails, Events
    <2> QED
      BY <1>6, <2>1, <2>2, ClearRunEffect DEF TypeOK, BeginFails, ctlVars
  <1> QED
    BY <1>1, <1>2, <1>3, <1>4, <1>5, <1>6 DEF FailureStep

\* A restart keeps the types.
LEMMA RestartTypeOK ==
    ASSUME TypeOK, Restart
    PROVE  TypeOK'
  <1>1. disk' \in Task
    BY RecoverTaskType DEF TypeOK, Restart
  <1>2. launching' \in BOOLEAN /\ timer' \in BOOLEAN /\ owner' \in BOOLEAN
    BY DEF TypeOK, Restart, Schedule
  <1> QED
    BY <1>1, <1>2 DEF TypeOK, Restart

\* Every variable keeps its type: in particular the task file only ever holds a
\* status that the handlers of the manager and the recovery know.
THEOREM TypeCorrect == Spec => []TypeOK
  <1>1. Init => TypeOK
    BY InitTypeOK
  <1>2. TypeOK /\ [Next]_vars => TypeOK'
    <2> SUFFICES ASSUME TypeOK, [Next]_vars PROVE TypeOK'
      OBVIOUS
    <2>1. CASE UNCHANGED vars
      BY <2>1 DEF TypeOK, vars
    <2>2. CASE Next
      BY <2>2, EngineTypeOK, UserTypeOK, ControlTypeOK, FailureTypeOK,
         RestartTypeOK DEF Next
    <2> QED
      BY <2>1, <2>2
  <1> QED
    BY <1>1, <1>2, PTL DEF Spec

-----------------------------------------------------------------------------
(* The node states: deadline, retry budget and attempt history *)

\* A node without a state satisfies it.
LEMMA FreshOK == \A n \in Nodes : NodeOK(n, Fresh)
  <1>1. /\ Fresh.status = "pending" /\ Fresh.attempt = 0 /\ Fresh.auto = 0
        /\ Fresh.deadline = FALSE /\ Fresh.history = {}
    BY DEF Fresh
  <1>2. ASSUME NEW n \in Nodes PROVE 0 <= RetryBudget(n)
    <2>1. RetryBudget(n) \in Nat
      BY BudgetType
    <2> QED
      BY <2>1
  <1>3. Fresh.history \subseteq 1..Fresh.attempt
    BY <1>1
  <1>4. ~(Fresh.attempt > 0)
    BY <1>1
  <1> QED
    BY <1>1, <1>2, <1>3, <1>4, Zenon DEF NodeOK

\* begin_node_attempt opens the next attempt, which has no record yet.
LEMMA BeginAttemptOK ==
    ASSUME NEW n \in Nodes, NEW s \in NodeState, NodeOK(n, s),
           s.status \in {"pending", "waiting_approval"}
    PROVE  NodeOK(n, BeginAttempt(s)) /\ BeginAttempt(s).status = "running"
  <1> DEFINE t == BeginAttempt(s)
  <1>1. /\ t.status = "running" /\ t.attempt = s.attempt + 1 /\ ~t.deadline
        /\ t.auto = s.auto /\ t.history = s.history
    BY DEF NodeState, BeginAttempt
  <1>2. s.attempt \in Nat /\ s.history \in SUBSET Nat
    BY DEF NodeState
  <1>3. s.history \subseteq 1..(s.attempt + 1)
    BY <1>2 DEF NodeOK
  <1>4. s.auto <= RetryBudget(n)
    BY DEF NodeOK
  <1> HIDE DEF t
  <1>5. NodeOK(n, t)
    BY <1>1, <1>2, <1>3, <1>4 DEF NodeOK
  <1> QED
    BY <1>1, <1>5 DEF t

\* record_attempt closes an attempt that has begun, whatever its outcome.
LEMMA RecordOK ==
    ASSUME NEW n \in Nodes, NEW s \in NodeState, NodeOK(n, s),
           s.status \in {"running", "waiting_approval"},
           NEW outcome \in {"completed", "failed"}
    PROVE  /\ NodeOK(n, Record(s, outcome))
           /\ Record(s, outcome).status = outcome
           /\ Record(s, outcome).attempt = s.attempt
           /\ Record(s, outcome).deadline = FALSE
  <1> DEFINE t == Record(s, outcome)
  <1>1. /\ t.status = outcome /\ t.attempt = s.attempt /\ t.deadline = s.deadline
        /\ t.auto = s.auto /\ t.history = s.history \cup {s.attempt}
    BY DEF NodeState, Record
  <1>2. s.attempt \in Nat /\ s.attempt > 0 /\ s.deadline = FALSE
    BY DEF NodeState, NodeOK
  <1>3. t.history \subseteq 1..t.attempt
    BY <1>1, <1>2 DEF NodeOK
  <1>4. t.attempt \in t.history /\ t.auto <= RetryBudget(n)
    BY <1>1 DEF NodeOK
  <1> HIDE DEF t
  <1>5. NodeOK(n, t)
    BY <1>1, <1>2, <1>3, <1>4 DEF NodeOK
  <1> QED
    BY <1>1, <1>2, <1>5 DEF t

\* The failure policy stays within the budget and sets a deadline with a retry.
LEMMA ApplyPolicyOK ==
    ASSUME NEW n \in Nodes, NEW s \in NodeState, NodeOK(n, s)
    PROVE  /\ NodeOK(n, ApplyPolicy(n, s))
           /\ ApplyPolicy(n, s).status \in {s.status, "retry_waiting", "skipped"}
  <1>1. CASE CanAutoRetry(n, s)
    <2> DEFINE t == PrepareAutoRetry(s)
    <2>1. /\ t.status = "retry_waiting" /\ t.attempt = s.attempt
          /\ t.deadline = TRUE /\ t.auto = s.auto + 1 /\ t.history = s.history
      BY DEF NodeState, PrepareAutoRetry
    <2>2. s.auto \in Nat /\ RetryBudget(n) \in Nat /\ s.auto < RetryBudget(n)
      BY <1>1, BudgetType DEF NodeState, CanAutoRetry
    <2>3. s.status = "failed"
      BY <1>1 DEF CanAutoRetry
    <2> HIDE DEF t
    <2>4. NodeOK(n, t)
      BY <2>1, <2>2, <2>3 DEF NodeOK
    <2> QED
      BY <1>1, <2>1, <2>4 DEF t, ApplyPolicy
  <1>2. CASE ~CanAutoRetry(n, s) /\ ShouldAutoSkip(n, s)
    <2> DEFINE t == FailureSkip(s)
    <2>1. /\ t.status = "skipped" /\ t.attempt = s.attempt /\ t.deadline = FALSE
          /\ t.auto = s.auto /\ t.history = s.history
      BY DEF NodeState, FailureSkip
    <2>2. s.status = "failed"
      BY <1>2 DEF ShouldAutoSkip
    <2> HIDE DEF t
    <2>3. NodeOK(n, t)
      BY <2>1, <2>2 DEF NodeOK
    <2> QED
      BY <1>2, <2>1, <2>3 DEF t, ApplyPolicy
  <1>3. CASE ~CanAutoRetry(n, s) /\ ~ShouldAutoSkip(n, s)
    BY <1>3 DEF ApplyPolicy
  <1> QED
    BY <1>1, <1>2, <1>3

\* A user's retry or skip of a controllable node, and an automatic retry whose
\* time has come, drop the deadline with the waiting.
LEMMA ControlOK ==
    ASSUME NEW n \in Nodes, NEW s \in NodeState, NodeOK(n, s), Controllable(s)
    PROVE  LET failed == [s EXCEPT !.status = "failed"]
           IN  /\ NodeOK(n, PrepareManualRetry(failed))
               /\ NodeOK(n, FailureSkip(failed))
               /\ NodeOK(n, ActivateRetry(s))
  <1>1. /\ s.attempt \in Nat /\ s.attempt > 0 /\ s.attempt \in s.history
        /\ RetryBudget(n) \in Nat
    BY BudgetType DEF NodeState, NodeOK, Controllable
  <1> DEFINE failed == [s EXCEPT !.status = "failed"]
  <1>2. ASSUME NEW t \in {PrepareManualRetry(failed), FailureSkip(failed),
                          ActivateRetry(s)}
        PROVE  NodeOK(n, t)
    <2>1. /\ t.status \in {"pending", "skipped"} /\ t.attempt = s.attempt
          /\ t.deadline = FALSE /\ t.auto \in {0, s.auto}
          /\ t.history = s.history
      BY DEF NodeState, PrepareManualRetry, FailureSkip, ActivateRetry
    <2> QED
      BY <1>1, <2>1 DEF NodeOK
  <1> QED
    BY <1>2

\* Recovery closes what the crash cut off and keeps the rest.
LEMMA RecoverNodeOK ==
    ASSUME NEW n \in Nodes, NEW s \in NodeState, NodeOK(n, s)
    PROVE  NodeOK(n, RecoverNode(n, s))
  <1>1. CASE s.status \in {"running", "waiting_approval"}
    <2> DEFINE t == Interrupted(s)
    <2>1. s.attempt > 0 /\ s.attempt \in Nat
      BY <1>1 DEF NodeOK, NodeState
    <2>2. [s EXCEPT !.attempt = IF @ < 1 THEN 1 ELSE @] = s
      BY <2>1 DEF NodeState
    <2>3. t = Record(s, "failed")
      BY <2>2 DEF Interrupted
    <2>4. /\ NodeOK(n, t) /\ t.status = "failed" /\ t.attempt = s.attempt
          /\ t \in NodeState
      BY <1>1, <2>3, RecordOK, NodeOperatorTypes
    <2> HIDE DEF t
    <2>5. NodeOK(n, ApplyPolicy(n, t))
      BY <2>4, ApplyPolicyOK
    <2>6. NodeOK(n, Reissue(t))
      <3>1. /\ Reissue(t).status = "pending" /\ Reissue(t).attempt = t.attempt
            /\ Reissue(t).deadline = FALSE /\ Reissue(t).auto = t.auto
            /\ Reissue(t).history = t.history
        BY <2>4 DEF NodeState, Reissue
      <3> QED
        BY <2>1, <2>4, <3>1 DEF NodeOK
    <2> QED
      BY <1>1, <2>5, <2>6 DEF RecoverNode, t
  <1>2. CASE s.status \notin {"running", "waiting_approval"}
    <2>1. RecoverNode(n, s) = s
      BY <1>2 DEF RecoverNode, NodeOK
    <2> QED
      BY <2>1
  <1> QED
    BY <1>1, <1>2

-----------------------------------------------------------------------------
(* NodesOK is inductive, given the types *)

\* What NodesOK says of one node, in the file and in a run.
LEMMA NodesOKParts ==
    ASSUME NodesOK, NEW n \in Nodes
    PROVE  /\ NodeOK(n, disk.nodes[n])
           /\ \A r \in RunIds : /\ NodeOK(n, mem[r].nodes[n])
                                /\ PositionOK(pc[r][n], mem[r].nodes[n])
  BY DEF NodesOK

\* SetNode keeps NodesOK if the new state and position are in order.
LEMMA SetNodeOK ==
    ASSUME TypeOK, NodesOK, NEW r \in RunIds, NEW n \in Nodes,
           NEW s \in NodeState, NEW next \in NodePC, SetNode(r, n, s, next),
           NodeOK(n, s), PositionOK(next, s), disk' = disk
    PROVE  NodesOK'
  <1> SUFFICES ASSUME NEW m \in Nodes
               PROVE  /\ NodeOK(m, disk'.nodes[m])
                      /\ \A q \in RunIds : /\ NodeOK(m, mem'[q].nodes[m])
                                           /\ PositionOK(pc'[q][m], mem'[q].nodes[m])
    BY DEF NodesOK
  <1>1. NodeOK(m, disk'.nodes[m])
    BY NodesOKParts
  <1>2. ASSUME NEW q \in RunIds
        PROVE  NodeOK(m, mem'[q].nodes[m]) /\ PositionOK(pc'[q][m], mem'[q].nodes[m])
    <2>1. /\ mem'[q].nodes[m] = IF q = r /\ m = n THEN s ELSE mem[q].nodes[m]
          /\ pc'[q][m] = IF q = r /\ m = n THEN next ELSE pc[q][m]
      BY SetNodeEffect
    <2>2. CASE q = r /\ m = n
      BY <2>1, <2>2
    <2>3. CASE ~(q = r /\ m = n)
      BY <2>1, <2>3, NodesOKParts
    <2> QED
      BY <2>2, <2>3
  <1> QED
    BY <1>1, <1>2

\* A step that saves the nodes of some run or leaves the file alone, and leaves
\* each run alone or replaces it by an idle copy of fresh or saved nodes.
LEMMA WholesaleOK ==
    ASSUME NodesOK,
           \/ disk'.nodes = disk.nodes
           \/ \E r \in RunIds : disk'.nodes = mem[r].nodes,
           \A q \in RunIds, m \in Nodes :
              \/ mem'[q].nodes[m] = mem[q].nodes[m] /\ pc'[q][m] = pc[q][m]
              \/ mem'[q].nodes[m] = Fresh /\ pc'[q][m] = "idle"
              \/ mem'[q].nodes[m] = disk.nodes[m] /\ pc'[q][m] = "idle"
    PROVE  NodesOK'
  <1> SUFFICES ASSUME NEW m \in Nodes
               PROVE  /\ NodeOK(m, disk'.nodes[m])
                      /\ \A q \in RunIds : /\ NodeOK(m, mem'[q].nodes[m])
                                           /\ PositionOK(pc'[q][m], mem'[q].nodes[m])
    BY DEF NodesOK
  <1>1. NodeOK(m, disk'.nodes[m])
    BY NodesOKParts
  <1>2. ASSUME NEW q \in RunIds
        PROVE  NodeOK(m, mem'[q].nodes[m]) /\ PositionOK(pc'[q][m], mem'[q].nodes[m])
    <2>1. \A t : PositionOK("idle", t)
      BY DEF PositionOK
    <2> QED
      BY <2>1, NodesOKParts, FreshOK
  <1> QED
    BY <1>1, <1>2

\* No node follows itself.
LEMMA NotItsOwnPred == \A n \in Nodes : \A p \in Pred[n] : p # n
  <1>1. ASSUME NEW n \in Nodes PROVE Pred[n] \cap {n} = {}
    <2>1. {n} \in SUBSET Nodes /\ {n} # {}
      OBVIOUS
    <2>2. \E m \in {n} : Pred[m] \cap {n} = {}
      BY <2>1, PlanAssumption
    <2> QED
      BY <2>2
  <1> QED
    BY <1>1

\* What returned work leaves of a node: its state is in order, an attempt is neither
\* begun nor taken back, and a node that nobody may send back is not done before.
Takes(n, position, s, t) ==
    /\ t \in NodeState
    /\ NodeOK(n, t)
    /\ PositionOK(position, t)
    /\ t.attempt = s.attempt
    /\ t.status \in {"pending", "skipped"} \/ s.status \notin {"pending", "skipped"}
    /\ t = s \/ n \in Returnable \/ ~Done(s)

\* A node that is left alone is in order.
LEMMA KeepsTakes ==
    ASSUME TypeOK, NodesOK, NEW r \in RunIds, NEW m \in Nodes
    PROVE  LET s == mem[r].nodes[m] IN Takes(m, pc[r][m], s, s) /\ Takes(m, "idle", s, s)
  <1>1. mem[r].nodes[m] \in NodeState
    BY DEF TypeOK, Task
  <1> QED
    BY <1>1, NodesOKParts DEF Takes, PositionOK

\* The states of a node that has an attempt, is not executing and does not wait.
LEMMA MovedOK ==
    ASSUME NEW n \in Nodes, NEW s \in NodeState, NodeOK(n, s), s.attempt > 0,
           s.status \notin {"running", "waiting_approval", "retry_waiting"},
           NEW st \in {"pending", "running", "skipped"}
    PROVE  /\ [s EXCEPT !.status = st] \in NodeState
           /\ NodeOK(n, [s EXCEPT !.status = st])
           /\ [s EXCEPT !.status = st].status = st
           /\ [s EXCEPT !.status = st].attempt = s.attempt
  <1> DEFINE t == [s EXCEPT !.status = st]
  <1>1. /\ t.status = st /\ t.attempt = s.attempt /\ t.deadline = s.deadline
        /\ t.auto = s.auto /\ t.history = s.history
    BY DEF NodeState
  <1>2. t \in NodeState
    BY NodeOperatorTypes DEF NodeStatus
  <1>3. s.deadline = FALSE /\ s.attempt \in s.history
    BY DEF NodeOK, NodeState
  <1> HIDE DEF t
  <1>4. NodeOK(n, t)
    BY <1>1, <1>3 DEF NodeOK
  <1> QED
    BY <1>1, <1>2, <1>4 DEF t

\* The states of a node that is sent back, and of one whose retries start anew.
LEMMA SentBackOK ==
    ASSUME NEW n \in Nodes, NEW s \in NodeState, NodeOK(n, s)
    PROVE  /\ [s EXCEPT !.auto = 0] \in NodeState
           /\ NodeOK(n, [s EXCEPT !.auto = 0])
           /\ [s EXCEPT !.auto = 0].status = s.status
           /\ [s EXCEPT !.auto = 0].attempt = s.attempt
           /\ Done(s) => /\ SentBack(s) \in NodeState
                         /\ NodeOK(n, SentBack(s))
                         /\ SentBack(s).status = "pending"
                         /\ SentBack(s).attempt = s.attempt
  <1>0. RetryBudget(n) \in Nat
    BY BudgetType
  <1> DEFINE t == [s EXCEPT !.auto = 0]
             u == SentBack(s)
  <1>1. /\ t.status = s.status /\ t.attempt = s.attempt /\ t.deadline = s.deadline
        /\ t.auto = 0 /\ t.history = s.history
    BY DEF NodeState
  <1>2. /\ u.status = "pending" /\ u.attempt = s.attempt /\ u.deadline = FALSE
        /\ u.auto = s.auto /\ u.history = s.history
    BY DEF NodeState, SentBack
  <1>3. t \in NodeState /\ u \in NodeState
    BY NodeOperatorTypes
  <1> HIDE DEF t, u
  <1>4. NodeOK(n, t)
    BY <1>0, <1>1 DEF NodeOK
  <1>5. Done(s) => NodeOK(n, u)
    BY <1>2 DEF NodeOK, Done
  <1> QED
    BY <1>1, <1>2, <1>3, <1>4, <1>5 DEF t, u

\* The states a node that is executing or waiting may end in.
LEMMA EndsOK ==
    ASSUME NEW n \in Nodes, NEW s \in NodeState, NodeOK(n, s),
           s.status \in {"running", "waiting_approval"},
           NEW t \in {Record(s, "completed"), Record(s, "failed"),
                      ApplyPolicy(n, Record(s, "failed"))}
    PROVE  /\ t \in NodeState
           /\ NodeOK(n, t)
           /\ t.status \in {"completed", "failed", "retry_waiting", "skipped"}
           /\ t.attempt = s.attempt
  <1>1. ASSUME NEW st \in {"completed", "failed"}
        PROVE  /\ Record(s, st) \in NodeState /\ NodeOK(n, Record(s, st))
               /\ Record(s, st).status = st /\ Record(s, st).attempt = s.attempt
    <2>1. Record(s, st) \in NodeState
      BY NodeOperatorTypes DEF NodeStatus
    <2> QED
      BY <2>1, RecordOK
  <1> DEFINE f == Record(s, "failed")
  <1>2. f \in NodeState /\ NodeOK(n, f) /\ f.status = "failed" /\ f.attempt = s.attempt
    BY <1>1
  <1> HIDE DEF f
  <1>3. /\ ApplyPolicy(n, f) \in NodeState /\ NodeOK(n, ApplyPolicy(n, f))
        /\ ApplyPolicy(n, f).status \in {"failed", "retry_waiting", "skipped"}
    BY <1>2, ApplyPolicyOK, NodeOperatorTypes
  <1>4. ApplyPolicy(n, f).attempt = f.attempt
    BY <1>2 DEF ApplyPolicy, PrepareAutoRetry, FailureSkip, NodeState
  <1> QED
    BY <1>1, <1>2, <1>3, <1>4 DEF f

\* Returned work rewrites the nodes of one run so that each of them is in order.
LEMMA ReturnsEffect ==
    ASSUME TypeOK, NodesOK, NEW r \in RunIds, NEW n \in Nodes, Returns(r, n)
    PROVE  \E nodes \in [Nodes -> NodeState], positions \in [Nodes -> NodePC] :
              /\ SetNodes(r, nodes, positions)
              /\ \A m \in Nodes : Takes(m, positions[m], mem[r].nodes[m], nodes[m])
  <1> DEFINE old == mem[r].nodes
             at == pc[r]
             Right(nodes, positions) ==
                /\ nodes \in [Nodes -> NodeState] /\ positions \in [Nodes -> NodePC]
                /\ SetNodes(r, nodes, positions)
                /\ \A m \in Nodes : Takes(m, positions[m], old[m], nodes[m])
  <1> SUFFICES \E nodes, positions : Right(nodes, positions)
    OBVIOUS
  <1>1. /\ old \in [Nodes -> NodeState] /\ at \in [Nodes -> NodePC]
        /\ \A p \in Pred[n] : p \in Nodes /\ p # n
    BY PredAssumption, NotItsOwnPred DEF TypeOK, Task
  <1>2. \A m \in Nodes : NodeOK(m, old[m]) /\ PositionOK(at[m], old[m])
    BY NodesOKParts
  <1>3. \A m \in Nodes : Takes(m, at[m], old[m], old[m])
    BY KeepsTakes
  <1>4. {"judging", "sending", "sent", "ending", "idle"} \subseteq NodePC
    BY DEF NodePC
  <1>5. \A m \in Nodes : at[m] = "idle" => \A t : PositionOK(at[m], t)
    BY DEF PositionOK
  <1>6. n \in Judges => n \in Returnable /\ \A p \in Pred[n] : p \in Returnable
    BY <1>1 DEF Returnable
  <1> HIDE DEF old, at
  <1>7. CASE RollsBack(r, n)
    <2>1. PICK u \in Behind(n) \ Approval :
             /\ Passed(r, u) /\ old[u].status = "completed"
             /\ SetNodes(r, [old EXCEPT
                                ![u].status = "running",
                                ![n] = [Record(@, "failed") EXCEPT !.status = "pending"]],
                            [at EXCEPT ![n] = "ending"])
      BY <1>7 DEF RollsBack, old, at
    <2>2. u \in Nodes /\ u # n /\ n \in Approval /\ at[n] = "waiting" /\ at[u] = "idle"
      BY <1>1, <1>7, <2>1 DEF Behind, RollsBack, Passed, at
    <2>3. u \in Returnable
      BY <2>1, <2>2 DEF Returnable
    <2> DEFINE x == [old[u] EXCEPT !.status = "running"]
               f == Record(old[n], "failed")
               y == [f EXCEPT !.status = "pending"]
               nodes == [m \in Nodes |-> IF m = u THEN x ELSE IF m = n THEN y ELSE old[m]]
               positions == [m \in Nodes |-> IF m = n THEN "ending" ELSE at[m]]
    <2>4. Takes(u, at[u], old[u], x)
      <3>1. old[u] \in NodeState /\ NodeOK(u, old[u]) /\ old[u].attempt > 0
        BY <1>1, <1>2, <2>1, <2>2 DEF NodeOK
      <3>2. /\ x \in NodeState /\ NodeOK(u, x) /\ x.attempt = old[u].attempt
        BY <2>1, <2>2, <3>1, MovedOK
      <3> QED
        BY <1>5, <2>1, <2>2, <2>3, <3>2 DEF Takes
    <2>5. Takes(n, "ending", old[n], y)
      <3>1. old[n] \in NodeState /\ NodeOK(n, old[n]) /\ old[n].status = "waiting_approval"
        BY <1>1, <1>2, <2>2 DEF PositionOK
      <3>2. /\ f \in NodeState /\ NodeOK(n, f) /\ f.status = "failed"
            /\ f.attempt = old[n].attempt
        <4>1. f \in NodeState
          BY <3>1, NodeOperatorTypes DEF NodeStatus
        <4> QED
          BY <3>1, <4>1, RecordOK
      <3> HIDE DEF f
      <3>3. f.attempt > 0
        BY <3>2 DEF NodeOK
      <3>5. f.status \notin {"running", "waiting_approval", "retry_waiting"}
        BY <3>2
      <3>4. /\ y \in NodeState /\ NodeOK(n, y) /\ y.status = "pending"
            /\ y.attempt = f.attempt
        BY <3>2, <3>3, <3>5, MovedOK
      <3> QED
        BY <3>1, <3>2, <3>4 DEF Takes, Done, PositionOK
    <2>6. /\ nodes = [old EXCEPT
                        ![u].status = "running",
                        ![n] = [Record(@, "failed") EXCEPT !.status = "pending"]]
          /\ positions = [at EXCEPT ![n] = "ending"]
      BY <1>1, <2>2
    <2> HIDE DEF x, y
    <2>20. /\ \A m \in Nodes : /\ nodes[m] = IF m = u THEN x ELSE IF m = n THEN y ELSE old[m]
                               /\ positions[m] = IF m = n THEN "ending" ELSE at[m]
           /\ nodes \in [Nodes -> NodeState] /\ positions \in [Nodes -> NodePC]
      BY <1>1, <1>4, <2>4, <2>5 DEF Takes
    <2> HIDE DEF nodes, positions
    <2>21. ASSUME NEW m \in Nodes PROVE Takes(m, positions[m], old[m], nodes[m])
      BY <1>3, <2>2, <2>4, <2>5, <2>20
    <2> QED
      BY <2>1, <2>6, <2>20, <2>21
  <1>8. CASE Rejects(r, n)
    <2>1. PICK u \in Pred[n] :
             /\ Passed(r, u)
             /\ SetNodes(r, [old EXCEPT ![u] = SentBack(@)], [at EXCEPT ![n] = "judging"])
      BY <1>8 DEF Rejects, old, at
    <2>2. /\ u \in Nodes /\ u # n /\ n \in Judges /\ at[n] = "executing"
          /\ at[u] = "idle" /\ Done(old[u]) /\ u \in Returnable
      BY <1>1, <1>6, <1>8, <2>1 DEF Rejects, Passed, old, at
    <2> DEFINE x == SentBack(old[u])
               nodes == [m \in Nodes |-> IF m = u THEN x ELSE old[m]]
               positions == [m \in Nodes |-> IF m = n THEN "judging" ELSE at[m]]
    <2>3. Takes(u, at[u], old[u], x)
      BY <1>1, <1>2, <1>5, <2>2, SentBackOK DEF Takes
    <2>4. Takes(n, "judging", old[n], old[n])
      BY <1>2, <1>3, <2>2 DEF Takes, PositionOK
    <2>5. /\ nodes = [old EXCEPT ![u] = SentBack(@)]
          /\ positions = [at EXCEPT ![n] = "judging"]
      BY <1>1, <2>2
    <2> HIDE DEF x
    <2>20. /\ \A m \in Nodes : /\ nodes[m] = IF m = u THEN x ELSE old[m]
                               /\ positions[m] = IF m = n THEN "judging" ELSE at[m]
           /\ nodes \in [Nodes -> NodeState] /\ positions \in [Nodes -> NodePC]
      BY <1>1, <1>4, <2>3 DEF Takes
    <2> HIDE DEF nodes, positions
    <2>21. ASSUME NEW m \in Nodes PROVE Takes(m, positions[m], old[m], nodes[m])
      BY <1>3, <2>2, <2>3, <2>4, <2>20
    <2> QED
      BY <2>1, <2>5, <2>20, <2>21
  <1>9. CASE SendsBack(r, n)
    <2>1. PICK u \in Pred[n] : \E outcome \in {"completed", "failed"} :
             SetNodes(r, [old EXCEPT ![n] = Record(@, outcome), ![u].auto = 0],
                         [at EXCEPT ![n] = "sending"])
      BY <1>9 DEF SendsBack, old, at
    <2>2. PICK outcome \in {"completed", "failed"} :
             SetNodes(r, [old EXCEPT ![n] = Record(@, outcome), ![u].auto = 0],
                         [at EXCEPT ![n] = "sending"])
      BY <2>1
    <2>3. u \in Nodes /\ u # n /\ n \in Judges /\ at[n] = "judging" /\ u \in Returnable
      BY <1>1, <1>6, <1>9, <2>1 DEF SendsBack, at
    <2> DEFINE x == [old[u] EXCEPT !.auto = 0]
               y == Record(old[n], outcome)
               nodes == [m \in Nodes |-> IF m = u THEN x ELSE IF m = n THEN y ELSE old[m]]
               positions == [m \in Nodes |-> IF m = n THEN "sending" ELSE at[m]]
    <2>4. Takes(u, at[u], old[u], x)
      <3>1. /\ x \in NodeState /\ NodeOK(u, x) /\ x.attempt = old[u].attempt
            /\ x.status = old[u].status /\ PositionOK(at[u], old[u])
        BY <1>1, <1>2, <2>3, SentBackOK
      <3> QED
        BY <2>3, <3>1 DEF Takes, PositionOK
    <2>5. Takes(n, "sending", old[n], y)
      <3>1. old[n] \in NodeState /\ NodeOK(n, old[n]) /\ old[n].status = "running"
        BY <1>1, <1>2, <2>3 DEF PositionOK
      <3>2. /\ y \in NodeState /\ NodeOK(n, y) /\ y.status = outcome
            /\ y.attempt = old[n].attempt
        <4>1. y \in NodeState
          BY <3>1, NodeOperatorTypes DEF NodeStatus
        <4> QED
          BY <3>1, <4>1, RecordOK
      <3> HIDE DEF y
      <3>3. y.attempt > 0
        BY <3>2 DEF NodeOK
      <3> QED
        BY <3>1, <3>2, <3>3 DEF Takes, Done, PositionOK
    <2>6. /\ nodes = [old EXCEPT ![n] = Record(@, outcome), ![u].auto = 0]
          /\ positions = [at EXCEPT ![n] = "sending"]
      BY <1>1, <2>3
    <2> HIDE DEF x, y
    <2>20. /\ \A m \in Nodes : /\ nodes[m] = IF m = u THEN x ELSE IF m = n THEN y ELSE old[m]
                               /\ positions[m] = IF m = n THEN "sending" ELSE at[m]
           /\ nodes \in [Nodes -> NodeState] /\ positions \in [Nodes -> NodePC]
      BY <1>1, <1>4, <2>4, <2>5 DEF Takes
    <2> HIDE DEF nodes, positions
    <2>21. ASSUME NEW m \in Nodes PROVE Takes(m, positions[m], old[m], nodes[m])
      BY <1>3, <2>3, <2>4, <2>5, <2>20
    <2> QED
      BY <2>2, <2>6, <2>20, <2>21
  <1>10. CASE ReworkEnds(r, n)
    <2>1. PICK u \in Pred[n] :
             /\ at[u] = "executing"
             /\ \E s \in {Record(old[u], "completed"),
                          ApplyPolicy(u, Record(old[u], "failed"))} :
                   SetNodes(r, [old EXCEPT ![u] = s, ![n].status = "pending"],
                               [at EXCEPT ![u] = "ending",
                                          ![n] = IF s.status = "skipped"
                                                 THEN "sent" ELSE "idle"])
      BY <1>10 DEF ReworkEnds, old, at
    <2>2. PICK s \in {Record(old[u], "completed"),
                      ApplyPolicy(u, Record(old[u], "failed"))} :
             SetNodes(r, [old EXCEPT ![u] = s, ![n].status = "pending"],
                         [at EXCEPT ![u] = "ending",
                                    ![n] = IF s.status = "skipped" THEN "sent" ELSE "idle"])
      BY <2>1
    <2>3. u \in Nodes /\ u # n /\ n \in Judges /\ at[n] = "sent" /\ u \in Returnable
      BY <1>1, <1>6, <1>10, <2>1 DEF ReworkEnds, at
    <2> DEFINE next == IF s.status = "skipped" THEN "sent" ELSE "idle"
               y == [old[n] EXCEPT !.status = "pending"]
               nodes == [m \in Nodes |-> IF m = u THEN s ELSE IF m = n THEN y ELSE old[m]]
               positions == [m \in Nodes |-> IF m = u THEN "ending"
                                             ELSE IF m = n THEN next ELSE at[m]]
    <2>4. Takes(u, "ending", old[u], s)
      <3>1. old[u] \in NodeState /\ NodeOK(u, old[u]) /\ old[u].status = "running"
        BY <1>1, <1>2, <2>1, <2>3 DEF PositionOK
      <3>2. s \in NodeState /\ NodeOK(u, s) /\ s.attempt = old[u].attempt
        BY <2>3, <3>1, EndsOK
      <3> QED
        BY <2>3, <3>1, <3>2 DEF Takes, PositionOK
    <2>5. Takes(n, next, old[n], y)
      <3>1. /\ old[n] \in NodeState /\ NodeOK(n, old[n]) /\ old[n].attempt > 0
            /\ old[n].status \in {"completed", "failed", "pending"}
            /\ old[n].status \notin {"running", "waiting_approval", "retry_waiting"}
        BY <1>1, <1>2, <2>3 DEF PositionOK
      <3>2. /\ y \in NodeState /\ NodeOK(n, y) /\ y.status = "pending"
            /\ y.attempt = old[n].attempt
        BY <3>1, MovedOK
      <3> QED
        BY <1>6, <2>3, <3>1, <3>2 DEF Takes, PositionOK
    <2>6. nodes = [old EXCEPT ![u] = s, ![n].status = "pending"]
      BY <1>1, <2>3
    <2>9. positions = [at EXCEPT ![u] = "ending", ![n] = next]
      <3> HIDE DEF next
      <3> QED
        BY <1>1, <2>3
    <2> HIDE DEF y
    <2>20. /\ \A m \in Nodes : /\ nodes[m] = IF m = u THEN s ELSE IF m = n THEN y ELSE old[m]
                               /\ positions[m] = IF m = u THEN "ending"
                                              ELSE IF m = n THEN next ELSE at[m]
           /\ nodes \in [Nodes -> NodeState] /\ positions \in [Nodes -> NodePC]
      BY <1>1, <1>4, <2>4, <2>5 DEF Takes
    <2> HIDE DEF nodes, positions
    <2>21. ASSUME NEW m \in Nodes PROVE Takes(m, positions[m], old[m], nodes[m])
      BY <1>3, <2>3, <2>4, <2>5, <2>20
    <2> QED
      BY <2>2, <2>6, <2>9, <2>20, <2>21
  <1>11. CASE PassesOver(r, n)
    <2>1. /\ at[n] = "sent" /\ n \in Judges
          /\ SetNodes(r, [old EXCEPT ![n].status = "skipped"], [at EXCEPT ![n] = "ending"])
      BY <1>11 DEF PassesOver, old, at
    <2> DEFINE y == [old[n] EXCEPT !.status = "skipped"]
               nodes == [m \in Nodes |-> IF m = n THEN y ELSE old[m]]
               positions == [m \in Nodes |-> IF m = n THEN "ending" ELSE at[m]]
    <2>2. Takes(n, "ending", old[n], y)
      <3>1. /\ old[n] \in NodeState /\ NodeOK(n, old[n]) /\ old[n].attempt > 0
            /\ old[n].status \in {"completed", "failed", "pending"}
            /\ old[n].status \notin {"running", "waiting_approval", "retry_waiting"}
        BY <1>1, <1>2, <2>1 DEF PositionOK
      <3>2. /\ y \in NodeState /\ NodeOK(n, y) /\ y.status = "skipped"
            /\ y.attempt = old[n].attempt
        BY <3>1, MovedOK
      <3> QED
        BY <1>6, <2>1, <3>1, <3>2 DEF Takes, PositionOK
    <2>3. /\ nodes = [old EXCEPT ![n].status = "skipped"]
          /\ positions = [at EXCEPT ![n] = "ending"]
      BY <1>1
    <2> HIDE DEF y
    <2>20. /\ \A m \in Nodes : /\ nodes[m] = IF m = n THEN y ELSE old[m]
                               /\ positions[m] = IF m = n THEN "ending" ELSE at[m]
           /\ nodes \in [Nodes -> NodeState] /\ positions \in [Nodes -> NodePC]
      BY <1>1, <1>4, <2>2 DEF Takes
    <2> HIDE DEF nodes, positions
    <2>21. ASSUME NEW m \in Nodes PROVE Takes(m, positions[m], old[m], nodes[m])
      BY <1>3, <2>2, <2>20
    <2> QED
      BY <2>1, <2>3, <2>20, <2>21
  <1> QED
    BY <1>7, <1>8, <1>9, <1>10, <1>11 DEF Returns

\* Every step of the engine keeps NodesOK.
LEMMA EngineNodesOK ==
    ASSUME TypeOK, NodesOK, NEW r \in RunIds, EngineStep(r)
    PROVE  NodesOK'
  <1>0. \A n \in Nodes : mem[r].nodes[n] \in NodeState
    BY DEF TypeOK, Task
  <1>1. ASSUME NEW n \in Nodes, StartNode(r, n) PROVE NodesOK'
    <2> DEFINE s == mem[r].nodes[n]
    <2>1. s.status \in {"pending", "waiting_approval"} /\ NodeOK(n, s)
      BY <1>1, NodesOKParts DEF StartNode, Startable
    <2>2. /\ BeginAttempt(s) \in NodeState
          /\ NodeOK(n, BeginAttempt(s))
          /\ PositionOK("starting", BeginAttempt(s))
      BY <1>0, <2>1, BeginAttemptOK, NodeOperatorTypes DEF PositionOK
    <2>3. SetNode(r, n, BeginAttempt(s), "starting") /\ disk' = disk
      BY <1>1 DEF StartNode
    <2>4. "starting" \in NodePC
      BY DEF NodePC
    <2> QED
      BY <2>2, <2>3, <2>4, SetNodeOK
  <1>2. ASSUME NEW n \in Nodes, Checkpoint(r, n) PROVE NodesOK'
    <2>1. /\ disk' = mem[r] /\ mem' = mem
          /\ pc' = [pc EXCEPT ![r][n] = AfterSave[@]]
          /\ pc[r][n] \in {"starting", "asking", "sending", "ending"}
      BY <1>2 DEF Checkpoint, AfterSave
    <2>2. PositionOK(AfterSave[pc[r][n]], mem[r].nodes[n])
      BY <2>1, NodesOKParts DEF PositionOK, AfterSave
    <2>3. \A q \in RunIds, m \in Nodes : PositionOK(pc'[q][m], mem[q].nodes[m])
      BY <2>1, <2>2, NodesOKParts DEF TypeOK
    <2> QED
      BY <2>1, <2>3 DEF NodesOK
  <1>3. ASSUME NEW n \in Nodes, AskApproval(r, n) PROVE NodesOK'
    <2> DEFINE s == mem[r].nodes[n]
               t == [s EXCEPT !.status = "waiting_approval"]
    <2>1. s.status = "running" /\ NodeOK(n, s)
      BY <1>3, NodesOKParts DEF AskApproval, PositionOK
    <2>2. /\ t.status = "waiting_approval" /\ t.attempt = s.attempt
          /\ t.deadline = s.deadline /\ t.auto = s.auto /\ t.history = s.history
      BY <1>0 DEF NodeState
    <2>3. t \in NodeState
      BY <1>0, NodeOperatorTypes DEF NodeStatus
    <2>4. SetNode(r, n, t, "asking") /\ disk' = disk /\ "asking" \in NodePC
      BY <1>3 DEF AskApproval, NodePC
    <2> HIDE DEF t
    <2>5. NodeOK(n, t) /\ PositionOK("asking", t)
      BY <2>1, <2>2 DEF NodeOK, PositionOK
    <2> QED
      BY <2>3, <2>4, <2>5, SetNodeOK
  <1>4. ASSUME NEW n \in Nodes, NodeEnds(r, n) PROVE NodesOK'
    <2> DEFINE s == mem[r].nodes[n]
    <2>1. s.status \in {"running", "waiting_approval"} /\ NodeOK(n, s)
      BY <1>4, NodesOKParts DEF NodeEnds, PositionOK
    <2>2. ASSUME NEW st \in {"completed", "failed"}
          PROVE  NodeOK(n, Record(s, st)) /\ Record(s, st) \in NodeState
      BY <1>0, <2>1, RecordOK, NodeOperatorTypes DEF NodeStatus
    <2>3. LET t == ApplyPolicy(n, Record(s, "failed"))
          IN  NodeOK(n, t) /\ t \in NodeState
      BY <2>2, ApplyPolicyOK, NodeOperatorTypes
    <2>4. \A t : PositionOK("ending", t)
      BY DEF PositionOK
    <2>5. /\ \E t \in NodeState : NodeOK(n, t) /\ SetNode(r, n, t, "ending")
          /\ disk' = disk /\ "ending" \in NodePC
      BY <1>4, <2>2, <2>3 DEF NodeEnds, NodePC
    <2> QED
      BY <2>4, <2>5, SetNodeOK
  <1>10. ASSUME NEW n \in Nodes, Returns(r, n) PROVE NodesOK'
    <2>1. PICK nodes \in [Nodes -> NodeState], positions \in [Nodes -> NodePC] :
             /\ SetNodes(r, nodes, positions)
             /\ \A m \in Nodes : Takes(m, positions[m], mem[r].nodes[m], nodes[m])
      BY <1>10, ReturnsEffect
    <2>2. /\ \A q \in RunIds : /\ mem'[q].nodes = IF q = r THEN nodes ELSE mem[q].nodes
                               /\ pc'[q] = IF q = r THEN positions ELSE pc[q]
          /\ disk' = disk
      BY <1>10, <2>1, SetNodesEffect, ReturnsTypes
    <2> QED
      BY <2>1, <2>2 DEF Takes, NodesOK
  <1>5. CASE Begin(r)
    BY <1>5 DEF Begin, NodesOK
  <1>6. CASE Finish(r)
    <2>1. disk'.nodes = mem[r].nodes
      BY <1>6, OutcomeTypes, StatusChange DEF Finish, TypeOK
    <2> QED
      BY <1>6, <2>1, ClearRunEffect, WholesaleOK DEF Finish
  <1>7. CASE CancelUnwinds(r)
    <2>1. disk'.nodes = mem[r].nodes
      BY <1>7, StatusChange DEF CancelUnwinds, TypeOK, TaskStatus
    <2> QED
      BY <1>7, <2>1, ClearRunEffect, WholesaleOK DEF CancelUnwinds
  <1>8. CASE SwallowFinish(r)
    <2>1. disk'.nodes = mem[r].nodes
      BY <1>8, OutcomeTypes, StatusChange DEF SwallowFinish, TypeOK
    <2>2. CASE Branches(r) = {}
      BY <1>8, <2>1, <2>2, ClearRunEffect, WholesaleOK DEF SwallowFinish
    <2>3. CASE Branches(r) # {}
      <3>1. /\ mem' = [mem EXCEPT ![r].status = SwallowedOutcome(r)]
            /\ pc' = pc
        BY <1>8, <2>3 DEF SwallowFinish
      <3>2. \A q \in RunIds : mem'[q].nodes = mem[q].nodes
        BY <3>1 DEF TypeOK, Task
      <3> QED
        BY <2>1, <3>1, <3>2, WholesaleOK
    <2> QED
      BY <2>2, <2>3
  <1>9. CASE BranchEnds(r)
    BY <1>9, ClearRunEffect, WholesaleOK DEF BranchEnds
  <1> QED
    BY <1>1, <1>2, <1>3, <1>4, <1>5, <1>6, <1>7, <1>8, <1>9, <1>10 DEF EngineStep

\* Every request of a user keeps NodesOK.
LEMMA UserNodesOK ==
    ASSUME TypeOK, NodesOK, UserStep
    PROVE  NodesOK'
  <1>1. ASSUME NEW r \in RunIds, StartRun(r) PROVE NodesOK'
    BY <1>1, StartRunEffect, WholesaleOK
  <1>2. ASSUME NEW r \in RunIds, RunTask(r) \/ StartPreRunning(r) PROVE NodesOK'
    BY <1>1, <1>2 DEF RunTask, StartPreRunning
  <1>3. ASSUME NEW r \in RunIds, StopRunning(r) PROVE NodesOK'
    <2>1. CASE ClearRun(r)
      BY <1>3, <2>1, ClearRunEffect, WholesaleOK DEF StopRunning
    <2>2. CASE UNCHANGED <<mem, pc>>
      BY <1>3, <2>2 DEF StopRunning, NodesOK
    <2> QED
      BY <1>3, <2>1, <2>2 DEF StopRunning
  <1>4. CASE StopIdle
    <2>1. disk'.nodes = disk.nodes
      BY <1>4, StatusChange DEF StopIdle, TypeOK, TaskStatus
    <2> QED
      BY <1>4, <2>1 DEF StopIdle, NodesOK
  <1>5. ASSUME NEW n \in Nodes, NEW s \in NodeState, NodeOK(n, s),
               ResumeWith(n, s), UNCHANGED <<mem, pc>>
        PROVE  NodesOK'
    <2>1. disk' = [disk EXCEPT !.status = "resume_pending", !.nodes[n] = s]
      BY <1>5 DEF ResumeWith
    <2>2. \A m \in Nodes : disk'.nodes[m] = IF m = n THEN s ELSE disk.nodes[m]
      BY <2>1 DEF TypeOK, Task
    <2>3. \A m \in Nodes : NodeOK(m, disk'.nodes[m])
      BY <1>5, <2>2, NodesOKParts
    <2> QED
      BY <1>5, <2>3 DEF NodesOK
  <1>6. ASSUME NEW n \in Nodes, Controllable(disk.nodes[n])
        PROVE  LET failed == [disk.nodes[n] EXCEPT !.status = "failed"]
               IN  /\ NodeOK(n, PrepareManualRetry(failed))
                   /\ NodeOK(n, FailureSkip(failed))
                   /\ PrepareManualRetry(failed) \in NodeState
                   /\ FailureSkip(failed) \in NodeState
    <2>1. /\ disk.nodes[n] \in NodeState /\ "failed" \in NodeStatus
          /\ NodeOK(n, disk.nodes[n])
      BY NodesOKParts DEF TypeOK, Task, NodeStatus
    <2>2. [disk.nodes[n] EXCEPT !.status = "failed"] \in NodeState
      BY <2>1, NodeOperatorTypes
    <2> QED
      BY <1>6, <2>1, <2>2, NodeOperatorTypes, ControlOK
  <1>7. ASSUME NEW n \in Nodes, NEW e \in Attempts, RetryNode(n, e) \/ SkipNode(n, e)
        PROVE  NodesOK'
    <2>1. Controllable(disk.nodes[n]) /\ UNCHANGED <<mem, pc>>
      BY <1>7 DEF RetryNode, SkipNode, Validated
    <2> QED
      BY <1>5, <1>6, <1>7, <2>1 DEF RetryNode, SkipNode
  <1> QED
    BY <1>2, <1>3, <1>4, <1>7 DEF UserStep

\* Every step of the control handlers and of the retry timer keeps NodesOK.
LEMMA ControlNodesOK ==
    ASSUME TypeOK, NodesOK, ControlStep
    PROVE  NodesOK'
  <1>1. CASE Launch
    <2>1. CASE UNCHANGED taskVars
      BY <2>1 DEF taskVars, NodesOK
    <2>2. ASSUME NEW r \in RunIds, StartRun(r) PROVE NodesOK'
      BY <2>2, StartRunEffect, WholesaleOK
    <2> QED
      BY <1>1, <2>1, <2>2 DEF Launch
  <1>2. CASE StopReturns
    <2>1. disk'.nodes = disk.nodes
      BY <1>2, StatusChange DEF StopReturns, TypeOK, TaskStatus
    <2> QED
      BY <1>2, <2>1 DEF StopReturns, NodesOK
  <1>3. ASSUME NEW due \in SUBSET Waiting(disk), TimerActivates(due) PROVE NodesOK'
    <2>1. /\ \A m \in Nodes : disk'.nodes[m] = IF m \in due
                                               THEN ActivateRetry(disk.nodes[m])
                                               ELSE disk.nodes[m]
          /\ UNCHANGED <<mem, pc>>
      BY <1>3 DEF TimerActivates, TypeOK, Task
    <2>2. ASSUME NEW m \in due
          PROVE  NodeOK(m, ActivateRetry(disk.nodes[m]))
      <3>1. m \in Nodes /\ Controllable(disk.nodes[m])
        BY DEF Waiting, Controllable
      <3>2. disk.nodes[m] \in NodeState
        BY <3>1 DEF TypeOK, Task
      <3> QED
        BY <3>1, <3>2, NodesOKParts, ControlOK
    <2>3. \A m \in Nodes : NodeOK(m, disk'.nodes[m])
      BY <2>1, <2>2, NodesOKParts
    <2> QED
      BY <2>1, <2>3 DEF NodesOK
  <1>4. CASE TimerGivesUp
    BY <1>4 DEF TimerGivesUp, taskVars, NodesOK
  <1> QED
    BY <1>1, <1>2, <1>3, <1>4 DEF ControlStep

\* Every failure keeps NodesOK.
LEMMA FailureNodesOK ==
    ASSUME TypeOK, NodesOK, FailureStep
    PROVE  NodesOK'
  <1>1. ASSUME NEW r \in RunIds, NEW n \in Nodes, CheckpointFails(r, n)
        PROVE  NodesOK'
    <2> DEFINE s == mem[r].nodes[n]
               t == ApplyPolicy(n, Record(s, "failed"))
    <2>0. disk' = disk /\ s \in NodeState
      BY <1>1 DEF CheckpointFails, TypeOK, Task
    <2>1. CASE pc[r][n] = "asking" /\ SetNode(r, n, t, "ending")
      <3>1. s.status = "waiting_approval" /\ NodeOK(n, s)
        BY <2>1, NodesOKParts DEF PositionOK
      <3>2. NodeOK(n, Record(s, "failed")) /\ Record(s, "failed") \in NodeState
        BY <2>0, <3>1, RecordOK, NodeOperatorTypes DEF NodeStatus
      <3>3. NodeOK(n, t) /\ t \in NodeState
        BY <3>2, ApplyPolicyOK, NodeOperatorTypes
      <3>4. PositionOK("ending", t) /\ "ending" \in NodePC
        BY DEF PositionOK, NodePC
      <3> HIDE DEF t
      <3> QED
        BY <2>0, <2>1, <3>3, <3>4, SetNodeOK
    <2>2. CASE UNCHANGED mem /\ pc' = [pc EXCEPT ![r][n] = "dead"]
      <3>1. \A u : PositionOK("dead", u)
        BY DEF PositionOK
      <3>2. \A q \in RunIds, m \in Nodes : PositionOK(pc'[q][m], mem[q].nodes[m])
        BY <2>2, <3>1, NodesOKParts DEF TypeOK
      <3> QED
        BY <2>0, <2>2, <3>2 DEF NodesOK
    <2> QED
      BY <1>1, <2>1, <2>2 DEF CheckpointFails
  <1>2. CASE OwnerFails \/ ShutDown
    BY <1>2 DEF OwnerFails, ShutDown, taskVars, NodesOK
  <1>3. CASE Crash
    BY <1>3, ProcessGoneEffect, WholesaleOK DEF Crash
  <1>4. CASE LoopCloses
    <2>1. \A r \in RunIds :
             /\ [mem[r] EXCEPT !.status = "stopped"].nodes = mem[r].nodes
             /\ [mem[r] EXCEPT !.status = SwallowedOutcome(r)].nodes = mem[r].nodes
      BY OutcomeTypes, StatusChange DEF TypeOK, TaskStatus
    <2>2. \/ disk'.nodes = disk.nodes
          \/ \E r \in RunIds : disk'.nodes = mem[r].nodes
      BY <1>4, <2>1 DEF LoopCloses
    <2>3. ProcessGone
      BY <1>4 DEF LoopCloses
    <2> QED
      BY <2>2, <2>3, ProcessGoneEffect, WholesaleOK
  <1>5. ASSUME NEW r \in RunIds, BeginFails(r) PROVE NodesOK'
    <2>1. disk'.nodes = mem[r].nodes
      BY <1>5, StatusChange DEF BeginFails, TypeOK, TaskStatus
    <2> QED
      BY <1>5, <2>1, ClearRunEffect, WholesaleOK DEF BeginFails
  <1> QED
    BY <1>1, <1>2, <1>3, <1>4, <1>5 DEF FailureStep

\* Recovery keeps NodesOK.
LEMMA RestartNodesOK ==
    ASSUME TypeOK, NodesOK, Restart
    PROVE  NodesOK'
  <1>1. CASE disk' = RecoverTask(disk)
    <2>1. \A m \in Nodes : disk'.nodes[m] = RecoverNode(m, disk.nodes[m])
      BY <1>1 DEF RecoverTask
    <2>2. \A m \in Nodes : disk.nodes[m] \in NodeState
      BY DEF TypeOK, Task
    <2>3. \A m \in Nodes : NodeOK(m, disk'.nodes[m])
      BY <2>1, <2>2, NodesOKParts, RecoverNodeOK
    <2> QED
      BY <2>3 DEF Restart, NodesOK
  <1>2. CASE disk' = disk
    BY <1>2 DEF Restart, NodesOK
  <1> QED
    BY <1>1, <1>2 DEF Restart

\* In the task file and in every run, whatever is retried, skipped, stopped,
\* interrupted or recovered: a waiting retry has its deadline, the automatic
\* retries stay within the budget, and an attempt that is over has its record.
THEOREM NodesCorrect == Spec => []NodesOK
  <1>1. Init => NodesOK
    <2> SUFFICES ASSUME Init PROVE NodesOK
      OBVIOUS
    <2>1. \A m \in Nodes : /\ disk.nodes[m] = Fresh
                           /\ \A r \in RunIds : /\ mem[r].nodes[m] = Fresh
                                                /\ pc[r][m] = "idle"
      BY DEF Init, NewTask, NoNodes
    <2> QED
      BY <2>1, FreshOK DEF NodesOK, PositionOK
  <1>2. TypeOK /\ NodesOK /\ [Next]_vars => NodesOK'
    <2> SUFFICES ASSUME TypeOK, NodesOK, [Next]_vars PROVE NodesOK'
      OBVIOUS
    <2>1. CASE UNCHANGED vars
      BY <2>1 DEF NodesOK, vars
    <2>2. CASE Next
      BY <2>2, EngineNodesOK, UserNodesOK, ControlNodesOK, FailureNodesOK,
         RestartNodesOK DEF Next
    <2> QED
      BY <2>1, <2>2
  <1> QED
    BY <1>1, <1>2, TypeCorrect, PTL DEF Spec

-----------------------------------------------------------------------------
(* Stops inside parallel blocks *)

\* No stop request cancels a run inside a parallel block.
Undivided == \A r \in RunIds : StopRunning(r) => Branches(r) = {}

\* That is no restriction where there is no parallel block ...
LEMMA SequentialIsUndivided == Par = {} => (Spec => [][Undivided]_vars)
  <1> SUFFICES ASSUME Par = {} PROVE Spec => [][Undivided]_vars
    OBVIOUS
  <1>1. Undivided
    BY DEF Undivided, Branches
  <1> QED
    BY <1>1, PTL

\* ... nor where nobody stops the task.
LEMMA UnstoppedIsUndivided == Limit["stop"] = 0 => (Spec => [][Undivided]_vars)
  <1> SUFFICES ASSUME Limit["stop"] = 0 PROVE Spec => [][Undivided]_vars
    OBVIOUS
  <1>1. TypeOK => Undivided
    <2> SUFFICES ASSUME TypeOK, NEW r \in RunIds, StopRunning(r) PROVE FALSE
      BY DEF Undivided
    <2>1. spent["stop"] \in Nat
      BY DEF TypeOK, Events
    <2> QED
      BY <2>1 DEF StopRunning, Happens
  <1> QED
    BY <1>1, TypeCorrect, PTL

-----------------------------------------------------------------------------
(* The invariant about runs and stop requests *)

Alive == {r \in RunIds : main[r] # "none"}

\* No run, and nothing left of one.
Empty == \A r \in RunIds : main[r] = "none" /\ \A n \in Nodes : pc[r][n] = "idle"

\* There is one run at a time, the file is "running" as long as it lives, and no
\* launch is pending beside it.
AloneOK ==
    /\ \A q, r \in Alive : q = r
    /\ \A r \in RunIds : main[r] \in {"none", "created", "driving", "cancelled"}
    /\ \A r \in RunIds, n \in Nodes : main[r] \in {"none", "created"} => pc[r][n] = "idle"
    /\ \A r \in Alive : disk.status = "running" /\ mem[r].status = "running"
    /\ launching => Alive = {} /\ disk.status = "resume_pending" /\ proc = "up"
    /\ proc = "down" => Alive = {}

\* A stop request that is being served has cancelled the run; one that has been
\* answered leaves the task in a status it keeps until somebody resumes it.
StopOK ==
    /\ stop = "asked" => /\ disk.status \in {"running", "stopped"} /\ proc # "down"
                         /\ \A r \in RunIds : main[r] \in {"none", "cancelled"}
    /\ stop = "done" => /\ disk.status \in {"completed", "failed", "stopped", "absent"}
                        /\ Alive = {}

RunsOK == AloneOK /\ StopOK

\* In these circumstances a run is active as long as it lives.
LEMMA AliveIsActive ==
    ASSUME AloneOK
    PROVE  Active = Alive
  BY DEF AloneOK, Active, Alive

\* Without runs only a pending launch has to be in order.
LEMMA EmptyAlone ==
    ASSUME Empty', launching' => disk'.status = "resume_pending" /\ proc' = "up"
    PROVE  AloneOK' /\ Alive' = {}
  BY DEF AloneOK, Empty, Alive

\* Conversely, nothing is left of runs that are over.
LEMMA AloneEmpty ==
    ASSUME AloneOK, Alive = {}
    PROVE  Empty
  BY DEF AloneOK, Alive, Empty

\* With the only run the last trace of runs goes.
LEMMA LastRunGoes ==
    ASSUME TypeOK, AloneOK, NEW r \in Alive, ClearRun(r)
    PROVE  Empty'
  <1>1. \A q \in RunIds : q # r => main[q] = "none" /\ \A n \in Nodes : pc[q][n] = "idle"
    BY DEF AloneOK, Alive
  <1>2. r \in RunIds
    BY DEF Alive
  <1>3. \A q \in RunIds, n \in Nodes : pc'[q][n] = IF q = r THEN "idle" ELSE pc[q][n]
    BY <1>2, ClearRunEffect
  <1>4. \A q \in RunIds : main'[q] = IF q = r THEN "none" ELSE main[q]
    BY <1>2 DEF ClearRun, TypeOK
  <1> QED
    BY <1>1, <1>3, <1>4 DEF Empty

\* A launch makes one run of none.
LEMMA FirstRunStarts ==
    ASSUME TypeOK, AloneOK, Alive = {}, NEW r \in RunIds, StartRun(r),
           ~launching', proc' # "down"
    PROVE  AloneOK' /\ disk'.status = "running" /\ Alive' = {r}
  <1>1. \A q \in RunIds : main'[q] = IF q = r THEN "created" ELSE "none"
    BY DEF StartRun, TypeOK, Alive
  <1>2. \A q \in RunIds, n \in Nodes : pc'[q][n] = "idle"
    BY StartRunEffect, AloneEmpty DEF Empty
  <1>3. mem'[r].status = "running" /\ disk'.status = "running"
    BY DEF StartRun, TypeOK, Task
  <1>4. Alive' = {r}
    BY <1>1 DEF Alive
  <1> QED
    BY <1>1, <1>2, <1>3, <1>4 DEF AloneOK

\* The steps of a node move neither the run nor a status.
LEMMA NodeMoves ==
    ASSUME TypeOK, AloneOK, NEW r \in RunIds, main[r] = "driving",
           \A q \in RunIds : mem'[q].status = mem[q].status,
           \A q \in RunIds \ {r}, n \in Nodes : pc'[q][n] = pc[q][n],
           disk'.status \in {disk.status, mem[r].status},
           UNCHANGED <<main, launching, stop, proc>>
    PROVE  AloneOK' /\ (StopOK => StopOK')
  <1>1. Alive' = Alive /\ r \in Alive
    BY DEF Alive
  <1>2. disk.status = "running" /\ disk'.status = "running"
    BY <1>1 DEF AloneOK
  <1>3. AloneOK'
    BY <1>1, <1>2 DEF AloneOK
  <1>4. StopOK => StopOK'
    BY <1>1, <1>2 DEF StopOK
  <1> QED
    BY <1>3, <1>4

\* SetNode leaves the status of every task alone.
LEMMA SetNodeStatus ==
    ASSUME TypeOK, NEW r \in RunIds, NEW n \in Nodes, NEW s, NEW next,
           SetNode(r, n, s, next)
    PROVE  /\ \A q \in RunIds : mem'[q].status = mem[q].status
           /\ \A q \in RunIds \ {r}, m \in Nodes : pc'[q][m] = pc[q][m]
  BY DEF SetNode, TypeOK, Task

\* Every step of the engine keeps the invariant.
LEMMA EngineRunsOK ==
    ASSUME TypeOK, RunsOK, NEW r \in RunIds, EngineStep(r)
    PROVE  RunsOK'
  <1> USE DEF RunsOK
  <1>0. main[r] \notin {"swallowed", "gone"}
    BY DEF AloneOK
  <1>1. ASSUME NEW n \in Nodes, NEW s, NEW next, SetNode(r, n, s, next),
               main[r] = "driving", UNCHANGED <<disk, main, ctlVars>>
        PROVE  RunsOK'
    BY <1>1, SetNodeStatus, NodeMoves DEF ctlVars
  <1>2. ASSUME NEW n \in Nodes, StartNode(r, n) \/ AskApproval(r, n) \/ NodeEnds(r, n)
        PROVE  RunsOK'
    BY <1>0, <1>1, <1>2 DEF StartNode, AskApproval, NodeEnds, MayStep
  <1>7. ASSUME NEW n \in Nodes, Returns(r, n) PROVE RunsOK'
    <2>1. /\ \A q \in RunIds : mem'[q].status = mem[q].status
          /\ \A q \in RunIds \ {r}, m \in Nodes : pc'[q][m] = pc[q][m]
          /\ main[r] = "driving" /\ UNCHANGED <<disk, main, launching, stop, proc>>
      BY <1>0, <1>7, ReturnsTypes, SetNodesEffect DEF MayStep, ctlVars
    <2> QED
      BY <2>1, NodeMoves
  <1>3. ASSUME NEW n \in Nodes, Checkpoint(r, n) PROVE RunsOK'
    <2>1. \A q \in RunIds \ {r}, m \in Nodes : pc'[q][m] = pc[q][m]
      BY <1>3 DEF Checkpoint, TypeOK
    <2> QED
      BY <1>0, <1>3, <2>1, NodeMoves DEF Checkpoint, MayStep, ctlVars
  <1>4. CASE Begin(r)
    <2>1. \A q \in RunIds : main'[q] = IF q = r THEN "driving" ELSE main[q]
      BY <1>4 DEF Begin, TypeOK
    <2>2. Alive' = Alive /\ stop # "asked"
      BY <1>4, <2>1 DEF Begin, Alive, StopOK
    <2> QED
      BY <1>4, <2>1, <2>2 DEF Begin, AloneOK, StopOK, ctlVars
  <1>5. ASSUME Finish(r) \/ CancelUnwinds(r) PROVE RunsOK'
    <2>1. r \in Alive /\ ClearRun(r) /\ ~launching' /\ stop' = stop /\ proc' # "down"
      BY <1>5 DEF Finish, CancelUnwinds, Alive, ctlVars
    <2>2. Empty'
      BY <2>1, LastRunGoes
    <2>3. stop = "asked" => disk'.status = "stopped"
      BY <1>5 DEF Finish, CancelUnwinds, StopOK, TypeOK, Task
    <2>4. stop # "done"
      BY <2>1 DEF StopOK
    <2> QED
      BY <2>1, <2>2, <2>3, <2>4, EmptyAlone DEF Empty, StopOK
  <1>6. ~SwallowFinish(r) /\ ~BranchEnds(r)
    BY <1>0 DEF SwallowFinish, BranchEnds
  <1> QED
    BY <1>2, <1>3, <1>4, <1>5, <1>6, <1>7 DEF EngineStep

\* Every request of a user keeps the invariant.
LEMMA UserRunsOK ==
    ASSUME Undivided, TypeOK, RunsOK, UserStep
    PROVE  RunsOK'
  <1> USE DEF RunsOK
  <1>1. ASSUME NEW r \in RunIds, RunTask(r) \/ StartPreRunning(r) PROVE RunsOK'
    <2>1. /\ StartRun(r) /\ ~launching' /\ proc' = "up" /\ Alive = {}
          /\ disk.status \in {"pending", "resume_pending", "pre_running"}
      BY <1>1, AliveIsActive DEF RunTask, StartPreRunning, LoopFree, ctlVars
    <2>2. stop' \notin {"asked", "done"}
      BY <1>1, <2>1 DEF RunTask, StartPreRunning, ctlVars, StopOK
    <2> QED
      BY <2>1, <2>2, FirstRunStarts DEF StopOK
  <1>2. ASSUME NEW r \in RunIds, StopRunning(r) PROVE RunsOK'
    <2>1. r \in Alive /\ stop' = "asked" /\ ~launching' /\ proc' # "down"
      BY <1>2 DEF StopRunning, Alive, LoopFree
    <2>2. disk'.status = "running"
      BY <1>2, <2>1 DEF StopRunning, AloneOK
    <2>3. CASE ClearRun(r)
      <3>1. Empty'
        BY <2>1, <2>3, LastRunGoes
      <3> QED
        BY <2>1, <2>2, <3>1, EmptyAlone DEF Empty, StopOK
    <2>4. CASE ~ClearRun(r)
      <3>1. /\ \A q \in RunIds : main'[q] = IF q = r THEN "cancelled" ELSE main[q]
            /\ UNCHANGED <<mem, pc, disk, launching, proc>>
        BY <1>2, <2>4 DEF StopRunning, TypeOK, Undivided
      <3>2. Alive' = Alive
        BY <2>1, <3>1 DEF Alive
      <3>3. \A q \in RunIds : main'[q] \in {"none", "cancelled"}
        BY <2>1, <3>1 DEF AloneOK, Alive
      <3> QED
        BY <2>1, <2>2, <3>1, <3>2, <3>3 DEF AloneOK, StopOK
    <2> QED
      BY <2>3, <2>4
  <1>3. CASE StopIdle
    <2>1. /\ Alive = {} /\ ~launching' /\ stop' = "done" /\ UNCHANGED <<main, pc>>
          /\ disk'.status \in {"stopped", "absent"}
      BY <1>3, AliveIsActive DEF StopIdle, LoopFree, TypeOK, Task
    <2>2. Empty'
      BY <2>1, AloneEmpty DEF Empty
    <2> QED
      BY <2>1, <2>2, EmptyAlone DEF StopOK
  <1>4. ASSUME NEW n \in Nodes, NEW e \in Attempts, RetryNode(n, e) \/ SkipNode(n, e)
        PROVE  RunsOK'
    <2>1. /\ Alive = {} /\ UNCHANGED <<main, pc>> /\ proc' = "up"
          /\ disk'.status = "resume_pending" /\ stop' \notin {"asked", "done"}
      BY <1>4, AliveIsActive
         DEF RetryNode, SkipNode, Validated, LoopFree, LockFree, ResumeWith, TypeOK, Task
    <2>2. Empty'
      BY <2>1, AloneEmpty DEF Empty
    <2> QED
      BY <2>1, <2>2, EmptyAlone DEF StopOK
  <1> QED
    BY <1>1, <1>2, <1>3, <1>4 DEF UserStep

\* Every step of the control handlers and of the retry timer keeps the invariant.
LEMMA ControlRunsOK ==
    ASSUME TypeOK, RunsOK, ControlStep
    PROVE  RunsOK'
  <1> USE DEF RunsOK
  <1>1. CASE Launch
    <2>1. /\ Alive = {} /\ ~launching' /\ proc' = "up" /\ stop' = stop
          /\ disk.status = "resume_pending"
      BY <1>1 DEF Launch, AloneOK
    <2>2. PICK r \in RunIds : StartRun(r)
      BY <1>1, <2>1 DEF Launch
    <2> QED
      BY <2>1, <2>2, FirstRunStarts DEF StopOK
  <1>2. CASE StopReturns
    <2>1. /\ Alive = {} /\ UNCHANGED <<main, pc>> /\ ~launching' /\ stop' = "done"
          /\ disk'.status \in {"completed", "failed", "stopped", "absent"}
      BY <1>2, AliveIsActive DEF StopReturns, TypeOK, Task
    <2>2. Empty'
      BY <2>1, AloneEmpty DEF Empty
    <2> QED
      BY <2>1, <2>2, EmptyAlone DEF StopOK
  <1>3. ASSUME NEW due \in SUBSET Waiting(disk), TimerActivates(due) PROVE RunsOK'
    <2>1. /\ Alive = {} /\ UNCHANGED <<main, pc>> /\ proc' = "up"
          /\ disk'.status = "resume_pending" /\ stop' \notin {"asked", "done"}
      BY <1>3, AliveIsActive DEF TimerActivates, LoopFree, LockFree, TypeOK, Task, StopOK
    <2>2. Empty'
      BY <2>1, AloneEmpty DEF Empty
    <2> QED
      BY <2>1, <2>2, EmptyAlone DEF StopOK
  <1>4. CASE TimerGivesUp
    BY <1>4 DEF TimerGivesUp, taskVars, AloneOK, StopOK, Alive
  <1> QED
    BY <1>1, <1>2, <1>3, <1>4 DEF ControlStep

\* Every failure and every restart keeps the invariant.
LEMMA FailureRunsOK ==
    ASSUME TypeOK, RunsOK, FailureStep \/ Restart
    PROVE  RunsOK'
  <1> USE DEF RunsOK
  <1>1. ASSUME NEW r \in RunIds, NEW n \in Nodes, CheckpointFails(r, n)
        PROVE  RunsOK'
    <2>1. main[r] = "driving"
      BY <1>1 DEF CheckpointFails, MayStep, AloneOK
    <2>2. /\ \A q \in RunIds : mem'[q].status = mem[q].status
          /\ \A q \in RunIds \ {r}, m \in Nodes : pc'[q][m] = pc[q][m]
      BY <1>1, SetNodeStatus DEF CheckpointFails, TypeOK
    <2> QED
      BY <1>1, <2>1, <2>2, NodeMoves DEF CheckpointFails, ctlVars
  <1>2. ASSUME OwnerFails \/ ShutDown PROVE RunsOK'
    BY <1>2 DEF OwnerFails, ShutDown, LoopFree, taskVars, AloneOK, StopOK, Alive
  <1>3. ASSUME Crash \/ LoopCloses PROVE RunsOK'
    <2>1. ProcessGone
      BY <1>3 DEF Crash, LoopCloses
    <2>2. Empty' /\ ~launching' /\ stop' # "asked" /\ (stop' = "done" => stop = "done")
      BY <2>1 DEF ProcessGone, Empty, NoNodes
    <2>3. stop = "done" => disk' = disk
      <3>1. stop = "done" => \A r \in RunIds : main[r] = "none"
        BY DEF StopOK, Alive
      <3> QED
        BY <1>3, <3>1 DEF Crash, LoopCloses
    <2> QED
      BY <2>2, <2>3, EmptyAlone DEF StopOK
  <1>4. ASSUME NEW r \in RunIds, BeginFails(r) PROVE RunsOK'
    <2>1. r \in Alive /\ ClearRun(r) /\ ~launching' /\ stop' = stop
      BY <1>4 DEF BeginFails, Alive, ctlVars
    <2>2. Empty'
      BY <2>1, LastRunGoes
    <2>3. stop \notin {"asked", "done"}
      BY <1>4, <2>1 DEF BeginFails, StopOK
    <2> QED
      BY <2>1, <2>2, <2>3, EmptyAlone DEF StopOK
  <1>5. CASE Restart
    <2>1. Alive = {} /\ UNCHANGED <<main, pc, stop>> /\ proc' = "up" /\ proc = "down"
      BY <1>5 DEF Restart, AloneOK
    <2>2. Empty'
      BY <2>1, AloneEmpty DEF Empty
    <2>3. launching' => disk'.status = "resume_pending"
      BY <1>5 DEF Restart, AloneOK
    <2>4. stop = "done" => disk' = disk
      BY <1>5 DEF Restart, StopOK
    <2>5. stop # "asked"
      BY <2>1 DEF StopOK
    <2> QED
      BY <2>1, <2>2, <2>3, <2>4, <2>5, EmptyAlone DEF StopOK
  <1> QED
    BY <1>1, <1>2, <1>3, <1>4, <1>5 DEF FailureStep

\* As long as no stop request divides a run, there is one run at a time.
LEMMA RunsCorrect == Spec /\ [][Undivided]_vars => []RunsOK
  <1>1. Init => RunsOK
    BY DEF Init, RunsOK, AloneOK, StopOK, Alive, NoNodes
  <1>2. TypeOK /\ RunsOK /\ [Next]_vars /\ [Undivided]_vars => RunsOK'
    <2> SUFFICES ASSUME TypeOK, RunsOK, [Next]_vars, [Undivided]_vars PROVE RunsOK'
      OBVIOUS
    <2>1. CASE UNCHANGED vars
      BY <2>1 DEF RunsOK, AloneOK, StopOK, Alive, vars
    <2>2. CASE Next /\ Undivided
      BY <2>2, EngineRunsOK, UserRunsOK, ControlRunsOK, FailureRunsOK DEF Next
    <2> QED
      BY <2>1, <2>2
  <1> QED
    BY <1>1, <1>2, TypeCorrect, PTL DEF Spec

\* stop_task answers when nothing of the task executes any longer, and nothing
\* executes until somebody resumes the task: every run is awaited, and neither a
\* timer, a pending launch nor a restart brings one back.
THEOREM StopsAreEffective == Spec /\ [][Undivided]_vars => []StopIsEffective
  <1>1. RunsOK => StopIsEffective
    <2> SUFFICES ASSUME RunsOK, stop = "done" PROVE \A r \in RunIds, n \in Nodes : ~Busy(r, n)
      BY DEF StopIsEffective
    <2> QED
      BY AloneEmpty DEF RunsOK, StopOK, Empty, Busy
  <1> QED
    BY <1>1, RunsCorrect, PTL

-----------------------------------------------------------------------------
(* What a step does to the node states, in the file and in the run's memory *)

\* A step of the engine takes one node of a run on.
Advances(n, s, t) ==
    \/ s.status \in {"pending", "waiting_approval"} /\ t = BeginAttempt(s)
    \/ s.status = "running" /\ t = [s EXCEPT !.status = "waiting_approval"]
    \/ /\ s.status \in {"running", "waiting_approval"}
       /\ t \in {Record(s, "completed"), Record(s, "failed"),
                 ApplyPolicy(n, Record(s, "failed"))}

Works ==
    /\ disk' = disk /\ main' = main /\ handled' = handled
    /\ \E r \in Alive, n \in Nodes, t \in NodeState :
          /\ Advances(n, mem[r].nodes[n], t)
          /\ \A m \in Nodes : mem'[r].nodes[m] = IF m = n THEN t ELSE mem[r].nodes[m]

\* Work is returned to a node of a run.
TakesBack ==
    /\ disk' = disk /\ main' = main /\ handled' = handled
    /\ \E r \in Alive : \A m \in Nodes : \E position \in NodePC :
          Takes(m, position, mem[r].nodes[m], mem'[r].nodes[m])

\* The file becomes what the run has in memory.
Saves ==
    /\ handled' = handled
    /\ \E r \in Alive : /\ disk'.nodes = mem[r].nodes
                        /\ Alive' \subseteq {r}
                        /\ mem'[r].nodes = mem[r].nodes \/ Alive' = {}

\* A launch copies the file.
Launches ==
    /\ disk'.nodes = disk.nodes /\ handled' = handled
    /\ \E r \in RunIds : Alive' = {r} /\ mem'[r].nodes = disk.nodes

\* A user retries or skips a node, or the timer activates retries.
Controls ==
    /\ Alive' = {}
    /\ \E n \in Nodes, t \in NodeState :
          /\ Controllable(disk.nodes[n])
          /\ handled' = [handled EXCEPT ![n] = disk.nodes[n].attempt]
          /\ t.status \in {"pending", "skipped"} /\ t.attempt = disk.nodes[n].attempt
          /\ \A m \in Nodes : disk'.nodes[m] = IF m = n THEN t ELSE disk.nodes[m]
Activates ==
    /\ Alive' = {} /\ handled' = handled
    /\ \E due \in SUBSET Waiting(disk) :
          \A m \in Nodes : disk'.nodes[m] = IF m \in due THEN ActivateRetry(disk.nodes[m])
                                            ELSE disk.nodes[m]

\* A restart recovers every node.
Recovers ==
    /\ Alive' = {} /\ handled' = handled
    /\ \A m \in Nodes : disk'.nodes[m] = RecoverNode(m, disk.nodes[m])

\* Nothing happens to node states, though a run may end.
Rests ==
    /\ disk'.nodes = disk.nodes /\ handled' = handled
    /\ Alive' \subseteq Alive
    /\ \A r \in Alive' : mem'[r].nodes = mem[r].nodes

\* The engine works, returns work or saves, or rests.
LEMMA EngineKinds ==
    ASSUME TypeOK, NodesOK, RunsOK, NEW r \in RunIds, EngineStep(r)
    PROVE  Works \/ TakesBack \/ Saves \/ Rests
  <1>0. main[r] \notin {"swallowed", "gone"} /\ (main[r] # "none" => r \in Alive)
    BY DEF RunsOK, AloneOK, Alive
  <1>1. ASSUME NEW n \in Nodes, NEW t \in NodeState, NEW next \in NodePC,
               SetNode(r, n, t, next), main[r] = "driving",
               Advances(n, mem[r].nodes[n], t), UNCHANGED <<disk, main, handled>>
        PROVE  Works
    BY <1>0, <1>1, SetNodeEffect DEF Works
  <1>2. ASSUME NEW n \in Nodes PROVE /\ mem[r].nodes[n] \in NodeState
                                     /\ PositionOK(pc[r][n], mem[r].nodes[n])
    BY DEF TypeOK, Task, NodesOK
  <1>3. ASSUME NEW n \in Nodes, StartNode(r, n) PROVE Works
    <2>1. BeginAttempt(mem[r].nodes[n]) \in NodeState
      BY <1>2, NodeOperatorTypes
    <2> QED
      BY <1>0, <1>1, <1>3, <2>1 DEF StartNode, MayStep, Startable, Advances, NodePC
  <1>4. ASSUME NEW n \in Nodes, AskApproval(r, n) PROVE Works
    <2>1. [mem[r].nodes[n] EXCEPT !.status = "waiting_approval"] \in NodeState
      BY <1>2, NodeOperatorTypes DEF NodeStatus
    <2>2. mem[r].nodes[n].status = "running"
      BY <1>2, <1>4 DEF AskApproval, PositionOK
    <2> QED
      BY <1>0, <1>1, <1>4, <2>1, <2>2 DEF AskApproval, MayStep, Advances, NodePC
  <1>5. ASSUME NEW n \in Nodes, NodeEnds(r, n) PROVE Works
    <2> DEFINE s == mem[r].nodes[n]
               ends == {Record(s, "completed"), Record(s, "failed"),
                        ApplyPolicy(n, Record(s, "failed"))}
    <2>1. \A t \in ends : t \in NodeState
      BY <1>2, NodeOperatorTypes DEF NodeStatus
    <2>2. s.status \in {"running", "waiting_approval"}
      BY <1>2, <1>5 DEF NodeEnds, PositionOK
    <2>3. /\ \E t \in ends : SetNode(r, n, t, "ending")
          /\ main[r] = "driving" /\ UNCHANGED <<disk, main, handled>>
      BY <1>0, <1>5 DEF NodeEnds, MayStep
    <2>4. \A t \in ends : Advances(n, s, t)
      BY <2>2 DEF Advances
    <2> HIDE DEF ends, s
    <2> QED
      BY <1>1, <2>1, <2>3, <2>4 DEF NodePC, s
  <1>10. ASSUME NEW n \in Nodes, Returns(r, n) PROVE TakesBack
    <2>1. PICK nodes \in [Nodes -> NodeState], positions \in [Nodes -> NodePC] :
             /\ SetNodes(r, nodes, positions)
             /\ \A m \in Nodes : Takes(m, positions[m], mem[r].nodes[m], nodes[m])
      BY <1>10, ReturnsEffect
    <2>2. mem'[r].nodes = nodes
      BY <2>1, SetNodesEffect
    <2>3. r \in Alive /\ UNCHANGED <<disk, main, handled>>
      BY <1>0, <1>10, ReturnsTypes DEF MayStep
    <2>4. ASSUME NEW m \in Nodes
          PROVE  \E position \in NodePC : Takes(m, position, mem[r].nodes[m], mem'[r].nodes[m])
      BY <2>1, <2>2
    <2> QED
      BY <2>3, <2>4 DEF TakesBack
  <1>6. ASSUME NEW n \in Nodes, Checkpoint(r, n) PROVE Saves
    <2>1. r \in Alive /\ Alive' = Alive /\ disk' = mem[r] /\ UNCHANGED <<mem, handled>>
      BY <1>0, <1>6 DEF Checkpoint, MayStep, Alive
    <2> QED
      BY <2>1 DEF Saves, RunsOK, AloneOK
  <1>7. CASE Begin(r)
    BY <1>7 DEF Begin, Rests, Alive, TypeOK
  <1>8. ASSUME Finish(r) \/ CancelUnwinds(r) PROVE Saves
    <2>1. r \in Alive /\ ClearRun(r) /\ handled' = handled
      BY <1>0, <1>8 DEF Finish, CancelUnwinds
    <2>2. disk'.nodes = mem[r].nodes
      <3>1. mem[r] \in Task /\ "stopped" \in TaskStatus /\ Outcome(r) \in TaskStatus
        BY OutcomeTypes DEF TypeOK, TaskStatus
      <3>2. disk' = [mem[r] EXCEPT !.status = Outcome(r)]
            \/ disk' = [mem[r] EXCEPT !.status = "stopped"]
        BY <1>8 DEF Finish, CancelUnwinds
      <3> QED
        BY <3>1, <3>2, StatusChange
    <2>3. Alive' = {}
      BY <2>1, LastRunGoes DEF RunsOK, Empty, Alive
    <2> QED
      BY <2>1, <2>2, <2>3 DEF Saves
  <1>9. ~SwallowFinish(r) /\ ~BranchEnds(r)
    BY <1>0 DEF SwallowFinish, BranchEnds
  <1> QED
    BY <1>3, <1>4, <1>5, <1>6, <1>7, <1>8, <1>9, <1>10 DEF EngineStep

\* A user's request launches, controls a node or leaves the nodes alone.
LEMMA UserKinds ==
    ASSUME TypeOK, RunsOK, UserStep
    PROVE  Launches \/ Controls \/ Rests
  <1> USE DEF RunsOK
  <1>1. ASSUME NEW r \in RunIds, RunTask(r) \/ StartPreRunning(r) PROVE Launches
    <2>1. /\ StartRun(r) /\ ~launching' /\ proc' = "up" /\ Alive = {} /\ handled' = handled
      BY <1>1, AliveIsActive DEF RunTask, StartPreRunning, LoopFree, ctlVars
    <2>2. disk'.nodes = disk.nodes /\ mem'[r].nodes = disk.nodes
      BY <2>1 DEF StartRun, TypeOK, Task
    <2> QED
      BY <2>1, <2>2, FirstRunStarts DEF Launches
  <1>2. ASSUME NEW r \in RunIds, StopRunning(r) PROVE Rests
    <2>1. r \in Alive /\ UNCHANGED <<disk, handled>>
      BY <1>2 DEF StopRunning, Alive
    <2>2. CASE ClearRun(r)
      <3>1. Alive' = {}
        BY <2>1, <2>2, LastRunGoes DEF Empty, Alive
      <3> QED
        BY <2>1, <3>1 DEF Rests
    <2>3. CASE ~ClearRun(r)
      BY <1>2, <2>1, <2>3 DEF StopRunning, Rests, Alive, TypeOK
    <2> QED
      BY <2>2, <2>3
  <1>3. CASE StopIdle
    <2>1. Alive' = Alive /\ Alive = {} /\ handled' = handled
      BY <1>3, AliveIsActive DEF StopIdle, Alive
    <2>2. disk'.nodes = disk.nodes
      BY <1>3, StatusChange DEF StopIdle, TypeOK, TaskStatus
    <2> QED
      BY <2>1, <2>2 DEF Rests
  <1>4. ASSUME NEW n \in Nodes, NEW e \in Attempts, RetryNode(n, e) \/ SkipNode(n, e)
        PROVE  Controls
    <2> DEFINE failed == [disk.nodes[n] EXCEPT !.status = "failed"]
    <2>1. /\ Alive' = {} /\ Controllable(disk.nodes[n]) /\ e = disk.nodes[n].attempt
          /\ handled' = [handled EXCEPT ![n] = e]
      BY <1>4, AliveIsActive DEF RetryNode, SkipNode, Validated, Alive
    <2>2. disk.nodes[n] \in NodeState /\ failed \in NodeState
      BY NodeOperatorTypes DEF TypeOK, Task, NodeStatus
    <2>3. \A t \in {PrepareManualRetry(failed), FailureSkip(failed)} :
             /\ t \in NodeState /\ t.status \in {"pending", "skipped"}
             /\ t.attempt = disk.nodes[n].attempt
      <3>1. failed.attempt = disk.nodes[n].attempt
        BY <2>2 DEF NodeState
      <3> HIDE DEF failed
      <3>2. PrepareManualRetry(failed) \in NodeState /\ FailureSkip(failed) \in NodeState
        BY <2>2, NodeOperatorTypes
      <3> QED
        BY <2>2, <3>1, <3>2 DEF PrepareManualRetry, FailureSkip, NodeState
    <2>4. PICK t \in {PrepareManualRetry(failed), FailureSkip(failed)} : ResumeWith(n, t)
      BY <1>4 DEF RetryNode, SkipNode
    <2>5. \A m \in Nodes : disk'.nodes[m] = IF m = n THEN t ELSE disk.nodes[m]
      BY <2>4 DEF ResumeWith, TypeOK, Task
    <2> QED
      BY <2>1, <2>3, <2>4, <2>5 DEF Controls
  <1> QED
    BY <1>1, <1>2, <1>3, <1>4 DEF UserStep

\* A control handler launches or leaves the nodes alone; the timer activates retries.
LEMMA ControlKinds ==
    ASSUME TypeOK, RunsOK, ControlStep
    PROVE  Launches \/ Activates \/ Rests
  <1> USE DEF RunsOK
  <1>1. ASSUME Launch PROVE Launches
    <2>1. /\ Alive = {} /\ ~launching' /\ proc' = "up" /\ handled' = handled
          /\ disk.status = "resume_pending"
      BY <1>1 DEF Launch, AloneOK
    <2>2. PICK r \in RunIds : StartRun(r)
      BY <1>1, <2>1 DEF Launch
    <2>3. disk'.nodes = disk.nodes /\ mem'[r].nodes = disk.nodes
      BY <2>2 DEF StartRun, TypeOK, Task
    <2> QED
      BY <2>1, <2>2, <2>3, FirstRunStarts DEF Launches
  <1>2. ASSUME StopReturns PROVE Rests
    <2>1. disk'.nodes = disk.nodes
      BY <1>2, StatusChange DEF StopReturns, TypeOK, TaskStatus
    <2> QED
      BY <1>2, <2>1 DEF StopReturns, Rests, Alive
  <1>3. ASSUME NEW due \in SUBSET Waiting(disk), TimerActivates(due) PROVE Activates
    <2>1. Alive' = {} /\ handled' = handled
      BY <1>3, AliveIsActive DEF TimerActivates, Alive
    <2>2. \A m \in Nodes : disk'.nodes[m] = IF m \in due THEN ActivateRetry(disk.nodes[m])
                                            ELSE disk.nodes[m]
      BY <1>3 DEF TimerActivates, TypeOK, Task
    <2> QED
      BY <2>1, <2>2 DEF Activates
  <1>4. ASSUME TimerGivesUp PROVE Rests
    BY <1>4 DEF TimerGivesUp, taskVars, Rests, Alive
  <1> QED
    BY <1>1, <1>2, <1>3, <1>4 DEF ControlStep

\* A failure fails a node, saves what the run had, or leaves the nodes alone.
LEMMA FailureKinds ==
    ASSUME TypeOK, NodesOK, RunsOK, FailureStep
    PROVE  Works \/ Saves \/ Rests
  <1> USE DEF RunsOK
  <1>1. ASSUME NEW r \in RunIds, NEW n \in Nodes, CheckpointFails(r, n)
        PROVE  Works \/ Rests
    <2> DEFINE s == mem[r].nodes[n]
               t == ApplyPolicy(n, Record(s, "failed"))
    <2>1. r \in Alive /\ UNCHANGED <<disk, main, handled>> /\ Alive' = Alive
      BY <1>1 DEF CheckpointFails, MayStep, Alive, AloneOK
    <2>2. CASE UNCHANGED mem
      BY <2>1, <2>2 DEF Rests
    <2>3. CASE pc[r][n] = "asking" /\ SetNode(r, n, t, "ending")
      <3>1. s \in NodeState /\ s.status = "waiting_approval"
        BY <2>3 DEF TypeOK, Task, NodesOK, PositionOK
      <3>2. t \in NodeState
        BY <3>1, NodeOperatorTypes DEF NodeStatus
      <3>3. Advances(n, s, t)
        BY <3>1 DEF Advances
      <3> HIDE DEF t
      <3>4. \A m \in Nodes : mem'[r].nodes[m] = IF m = n THEN t ELSE mem[r].nodes[m]
        BY <2>1, <2>3, <3>2, SetNodeEffect DEF NodePC
      <3> QED
        BY <2>1, <3>2, <3>3, <3>4 DEF Works
    <2> QED
      BY <1>1, <2>2, <2>3 DEF CheckpointFails
  <1>2. ASSUME OwnerFails \/ ShutDown PROVE Rests
    BY <1>2 DEF OwnerFails, ShutDown, taskVars, Rests, Alive
  <1>3. ASSUME Crash PROVE Rests
    BY <1>3 DEF Crash, ProcessGone, Rests, Alive
  <1>4. ASSUME LoopCloses PROVE Saves \/ Rests
    <2>1. Alive' = {} /\ handled' = handled
      BY <1>4 DEF LoopCloses, ProcessGone, Alive
    <2>2. CASE disk' = disk
      BY <2>1, <2>2 DEF Rests
    <2>3. CASE \E r \in Alive : disk'.nodes = mem[r].nodes
      BY <2>1, <2>3 DEF Saves
    <2>4. \A r \in RunIds, st \in TaskStatus : [mem[r] EXCEPT !.status = st].nodes = mem[r].nodes
      BY StatusChange DEF TypeOK
    <2>5. disk' = disk \/ \E r \in Alive, st \in TaskStatus : disk' = [mem[r] EXCEPT !.status = st]
      BY <1>4, OutcomeTypes DEF LoopCloses, Alive, TaskStatus
    <2> QED
      BY <2>2, <2>3, <2>4, <2>5 DEF Alive
  <1>5. ASSUME NEW r \in RunIds, BeginFails(r) PROVE Saves
    <2>1. r \in Alive /\ ClearRun(r) /\ handled' = handled
      BY <1>5 DEF BeginFails, Alive, ctlVars
    <2>2. disk'.nodes = mem[r].nodes
      BY <1>5, StatusChange DEF BeginFails, TypeOK, TaskStatus
    <2>3. Alive' = {}
      BY <2>1, LastRunGoes DEF Empty, Alive
    <2> QED
      BY <2>1, <2>2, <2>3 DEF Saves
  <1> QED
    BY <1>1, <1>2, <1>3, <1>4, <1>5 DEF FailureStep

\* A restart recovers every node or leaves them alone.
LEMMA RestartKinds ==
    ASSUME TypeOK, RunsOK, Restart
    PROVE  Recovers \/ Rests
  <1>1. Alive' = {} /\ handled' = handled
    BY DEF Restart, RunsOK, AloneOK, Alive
  <1> QED
    BY <1>1 DEF Restart, Recovers, Rests, RecoverTask

\* All steps are of these kinds.
LEMMA StepKinds ==
    ASSUME TypeOK, NodesOK, RunsOK, [Next]_vars
    PROVE  \/ Works \/ TakesBack \/ Saves \/ Launches \/ Controls \/ Activates
           \/ Recovers \/ Rests
  <1>1. CASE UNCHANGED vars
    BY <1>1 DEF Rests, vars, Alive
  <1>2. CASE Next
    BY <1>2, EngineKinds, UserKinds, ControlKinds, FailureKinds, RestartKinds DEF Next
  <1> QED
    BY <1>1, <1>2

-----------------------------------------------------------------------------
(* Done nodes stay done *)

\* What the file calls done, the run that works for it has not touched, unless its
\* work may be returned.
AheadOK ==
    \A r \in Alive, n \in Nodes \ Returnable :
        Done(disk.nodes[n]) => mem[r].nodes[n] = disk.nodes[n]

\* A step of the engine is never made on a node that is done.
LEMMA AdvancesNotDone == \A n, s, t : Advances(n, s, t) => ~Done(s)
  BY DEF Advances, Done

\* Neither is control, an activated retry or a recovery.
LEMMA FileKeepsDone ==
    ASSUME TypeOK, Controls \/ Activates \/ Recovers, NEW n \in Nodes, Done(disk.nodes[n])
    PROVE  disk'.nodes[n] = disk.nodes[n]
  <1>1. CASE Controls
    BY <1>1 DEF Controls, Controllable, Done
  <1>2. CASE Activates
    BY <1>2 DEF Activates, Waiting, Done
  <1>3. CASE Recovers
    BY <1>3 DEF Recovers, RecoverNode, Done
  <1> QED
    BY <1>1, <1>2, <1>3

\* The run keeps the done nodes of the file, whatever either of them does.
LEMMA AheadStep ==
    ASSUME TypeOK, NodesOK, RunsOK, AheadOK, [Next]_vars
    PROVE  AheadOK'
  <1>1. CASE Works
    <2>1. PICK r \in Alive, n \in Nodes, t \in NodeState :
             /\ Advances(n, mem[r].nodes[n], t)
             /\ \A m \in Nodes : mem'[r].nodes[m] = IF m = n THEN t ELSE mem[r].nodes[m]
      BY <1>1 DEF Works
    <2>2. Alive' = {r} /\ disk' = disk
      BY <1>1 DEF Works, Alive, RunsOK, AloneOK
    <2> QED
      BY <2>1, <2>2, AdvancesNotDone DEF AheadOK
  <1>6. CASE TakesBack
    <2>1. PICK r \in Alive : \A m \in Nodes : \E position \in NodePC :
             Takes(m, position, mem[r].nodes[m], mem'[r].nodes[m])
      BY <1>6 DEF TakesBack
    <2>2. Alive' = {r} /\ disk' = disk
      BY <1>6 DEF TakesBack, Alive, RunsOK, AloneOK
    <2>3. ASSUME NEW m \in Nodes \ Returnable, Done(disk.nodes[m])
          PROVE  mem'[r].nodes[m] = disk.nodes[m]
      BY <2>1, <2>3 DEF AheadOK, Takes
    <2> QED
      BY <2>2, <2>3 DEF AheadOK
  <1>2. CASE Saves
    BY <1>2 DEF Saves, AheadOK
  <1>3. CASE Launches
    BY <1>3 DEF Launches, AheadOK
  <1>4. CASE Controls \/ Activates \/ Recovers
    BY <1>4 DEF Controls, Activates, Recovers, AheadOK
  <1>5. CASE Rests
    BY <1>5 DEF Rests, AheadOK
  <1> QED
    BY <1>1, <1>2, <1>3, <1>4, <1>5, <1>6, StepKinds

\* No step takes back what the file calls done.
LEMMA DoneStep ==
    ASSUME TypeOK, NodesOK, RunsOK, AheadOK, [Next]_vars,
           NEW n \in Nodes \ Returnable, Done(disk.nodes[n])
    PROVE  disk'.nodes[n] = disk.nodes[n]
  <1>1. CASE Saves
    BY <1>1 DEF Saves, AheadOK
  <1>2. CASE Works \/ TakesBack \/ Launches \/ Rests
    BY <1>2 DEF Works, TakesBack, Launches, Rests
  <1> QED
    BY <1>1, <1>2, FileKeepsDone, StepKinds

\* The file's done nodes are those of the run in every reachable state.
LEMMA AheadCorrect == Spec /\ [][Undivided]_vars => []AheadOK
  <1>1. Init => AheadOK
    BY DEF Init, AheadOK, Alive
  <1>2. TypeOK /\ NodesOK /\ RunsOK /\ AheadOK /\ [Next]_vars => AheadOK'
    BY AheadStep
  <1> QED
    BY <1>1, <1>2, TypeCorrect, NodesCorrect, RunsCorrect, PTL DEF Spec

\* A node that is completed or skipped in the file is never run again nor changed:
\* not by a run that started from an older file, not by a retry of another node,
\* not by the recovery after a crash. Nothing is said of the nodes whose work a judge
\* or an approver may return, which is all that a rejection can take back.
THEOREM DoneNodesAreFinal == Spec /\ [][Undivided]_vars => DoneIsFinal
  <1>1. TypeOK /\ NodesOK /\ RunsOK /\ AheadOK /\ [Next]_vars
        => [\A n \in Nodes \ Returnable :
               Done(disk.nodes[n]) => disk'.nodes[n] = disk.nodes[n]]_vars
    BY DoneStep
  <1> QED
    BY <1>1, TypeCorrect, NodesCorrect, RunsCorrect, AheadCorrect, PTL
       DEF Spec, DoneIsFinal

-----------------------------------------------------------------------------
(* Each attempt is handled once *)

\* h is the attempt a user last handled: a node shows that attempt again only
\* while it waits to be run once more, or once it is skipped.
Unhandled(h, s) ==
    /\ h <= s.attempt
    /\ s.status \notin {"pending", "skipped"} => h < s.attempt

HandledOK ==
    \A n \in Nodes : /\ Unhandled(handled[n], disk.nodes[n])
                     /\ \A r \in Alive : Unhandled(handled[n], mem[r].nodes[n])

\* Running an attempt, closing it and the failure policy keep it unhandled.
LEMMA AdvancesUnhandled ==
    ASSUME NEW n \in Nodes, NEW s \in NodeState, NEW t \in NodeState,
           Advances(n, s, t), NEW h \in Nat, Unhandled(h, s)
    PROVE  Unhandled(h, t)
  <1>1. CASE t = BeginAttempt(s)
    <2>1. t.attempt = s.attempt + 1 /\ s.attempt \in Nat
      BY <1>1 DEF BeginAttempt, NodeState
    <2> QED
      BY <2>1 DEF Unhandled
  <1>2. CASE s.status \in {"running", "waiting_approval"} /\ t.attempt = s.attempt
    BY <1>2 DEF Unhandled
  <1>3. t.attempt = s.attempt \/ t = BeginAttempt(s)
    BY DEF Advances, ApplyPolicy, PrepareAutoRetry, FailureSkip, Record, NodeState
  <1> QED
    BY <1>1, <1>2, <1>3 DEF Advances

\* So do the activation of a retry and the recovery.
LEMMA FileUnhandled ==
    ASSUME NEW n \in Nodes, NEW s \in NodeState, NodeOK(n, s), NEW h \in Nat,
           Unhandled(h, s)
    PROVE  /\ s.status = "retry_waiting" => Unhandled(h, ActivateRetry(s))
           /\ Unhandled(h, RecoverNode(n, s))
  <1>1. Unhandled(h, ActivateRetry(s))
    BY DEF Unhandled, ActivateRetry, NodeState
  <1>2. CASE s.status \in {"running", "waiting_approval"}
    <2>1. s.attempt \in Nat /\ s.attempt > 0 /\ h < s.attempt
      BY <1>2 DEF NodeOK, NodeState, Unhandled
    <2>2. Interrupted(s).attempt = s.attempt
      BY <2>1 DEF Interrupted, Record, NodeState
    <2>3. Interrupted(s) \in NodeState
      BY NodeOperatorTypes
    <2>4. RecoverNode(n, s).attempt = s.attempt
      BY <1>2, <2>2, <2>3
         DEF RecoverNode, ApplyPolicy, PrepareAutoRetry, FailureSkip, Reissue, NodeState
    <2> QED
      BY <1>1, <2>1, <2>4 DEF Unhandled
  <1>3. CASE s.status \notin {"running", "waiting_approval"}
    BY <1>1, <1>3 DEF RecoverNode, NodeOK
  <1> QED
    BY <1>1, <1>2, <1>3

\* Every step keeps the attempts unhandled.
LEMMA HandledStep ==
    ASSUME TypeOK, NodesOK, RunsOK, HandledOK, [Next]_vars
    PROVE  HandledOK'
  <1>0. /\ \A n \in Nodes : handled[n] \in Nat /\ disk.nodes[n] \in NodeState
        /\ \A r \in RunIds, n \in Nodes : mem[r].nodes[n] \in NodeState
    BY DEF TypeOK, Task
  <1>1. CASE Works
    <2>1. PICK r \in Alive, n \in Nodes, t \in NodeState :
             /\ Advances(n, mem[r].nodes[n], t)
             /\ \A m \in Nodes : mem'[r].nodes[m] = IF m = n THEN t ELSE mem[r].nodes[m]
      BY <1>1 DEF Works
    <2>2. Alive' = {r} /\ disk' = disk /\ handled' = handled
      BY <1>1 DEF Works, Alive, RunsOK, AloneOK
    <2>3. Unhandled(handled[n], t)
      BY <1>0, <2>1, AdvancesUnhandled DEF HandledOK, Alive
    <2> QED
      BY <2>1, <2>2, <2>3 DEF HandledOK
  <1>8. CASE TakesBack
    <2>1. PICK r \in Alive : \A m \in Nodes : \E position \in NodePC :
             Takes(m, position, mem[r].nodes[m], mem'[r].nodes[m])
      BY <1>8 DEF TakesBack
    <2>2. Alive' = {r} /\ disk' = disk /\ handled' = handled
      BY <1>8 DEF TakesBack, Alive, RunsOK, AloneOK
    <2>3. ASSUME NEW m \in Nodes PROVE Unhandled(handled[m], mem'[r].nodes[m])
      BY <2>1 DEF HandledOK, Unhandled, Takes
    <2> QED
      BY <2>2, <2>3 DEF HandledOK
  <1>2. CASE Saves
    BY <1>2 DEF Saves, HandledOK
  <1>3. CASE Launches
    BY <1>3 DEF Launches, HandledOK
  <1>4. CASE Controls
    <2>1. PICK n \in Nodes, t \in NodeState :
             /\ handled' = [handled EXCEPT ![n] = disk.nodes[n].attempt]
             /\ t.status \in {"pending", "skipped"} /\ t.attempt = disk.nodes[n].attempt
             /\ \A m \in Nodes : disk'.nodes[m] = IF m = n THEN t ELSE disk.nodes[m]
      BY <1>4 DEF Controls
    <2>2. \A m \in Nodes : handled'[m] = IF m = n THEN t.attempt ELSE handled[m]
      BY <2>1 DEF TypeOK
    <2>3. Unhandled(t.attempt, t)
      BY <1>0, <2>1 DEF Unhandled, NodeState
    <2> QED
      BY <1>4, <2>1, <2>2, <2>3 DEF Controls, HandledOK
  <1>5. CASE Activates
    <2>1. PICK due \in SUBSET Waiting(disk) :
             \A m \in Nodes : disk'.nodes[m] = IF m \in due THEN ActivateRetry(disk.nodes[m])
                                               ELSE disk.nodes[m]
      BY <1>5 DEF Activates
    <2>2. \A m \in Nodes : Unhandled(handled[m], disk'.nodes[m])
      BY <1>0, <2>1, FileUnhandled, NodesOKParts DEF HandledOK, Waiting
    <2> QED
      BY <1>5, <2>2 DEF Activates, HandledOK
  <1>6. CASE Recovers
    BY <1>0, <1>6, FileUnhandled, NodesOKParts DEF Recovers, HandledOK
  <1>7. CASE Rests
    BY <1>7 DEF Rests, HandledOK
  <1> QED
    BY <1>1, <1>2, <1>3, <1>4, <1>5, <1>6, <1>7, <1>8, StepKinds

\* An attempt a user can act on has not been acted on, in every reachable state.
LEMMA HandledCorrect == Spec /\ [][Undivided]_vars => []HandledOK
  <1>1. Init => HandledOK
    <2> SUFFICES ASSUME Init PROVE HandledOK
      OBVIOUS
    <2>1. Alive = {} /\ \A n \in Nodes : handled[n] = 0 /\ disk.nodes[n] = Fresh
      BY DEF Init, Alive, NewTask
    <2>2. Unhandled(0, Fresh)
      BY DEF Unhandled, Fresh
    <2> QED
      BY <2>1, <2>2 DEF HandledOK
  <1>2. TypeOK /\ NodesOK /\ RunsOK /\ HandledOK /\ [Next]_vars => HandledOK'
    BY HandledStep
  <1> QED
    BY <1>1, <1>2, TypeCorrect, NodesCorrect, RunsCorrect, PTL DEF Spec

\* Of all the requests to retry or skip a node that were made on sight of the same
\* attempt, at most one is accepted, and none of an attempt older than that.
THEOREM AttemptsHandledOnce == Spec /\ [][Undivided]_vars => HandledOnce
  <1>1. TypeOK /\ HandledOK
        => [\A n \in Nodes, e \in Attempts :
               RetryNode(n, e) \/ SkipNode(n, e) => e > handled[n]]_vars
    <2> SUFFICES ASSUME TypeOK, HandledOK, NEW n \in Nodes, NEW e \in Attempts,
                        RetryNode(n, e) \/ SkipNode(n, e)
                 PROVE  e > handled[n]
      OBVIOUS
    <2>1. e = disk.nodes[n].attempt /\ Controllable(disk.nodes[n])
      BY DEF RetryNode, SkipNode, Validated
    <2>2. handled[n] < disk.nodes[n].attempt
      BY <2>1 DEF HandledOK, Unhandled, Controllable
    <2>3. handled[n] \in Nat /\ disk.nodes[n].attempt \in Nat
      BY DEF TypeOK, Task, NodeState
    <2> QED
      BY <2>1, <2>2, <2>3
  <1> QED
    BY <1>1, TypeCorrect, HandledCorrect, PTL DEF Spec, HandledOnce

-----------------------------------------------------------------------------
(* No lost wakeup *)

\* A timer is armed for every task that is saved with a retry pending, unless the
\* process is about to end.
LEMMA ScheduleArms ==
    ASSUME NodesOK', Schedule(disk'), proc # "closing", disk'.status = "retry_waiting",
           \E n \in Nodes : disk'.nodes[n].status = "retry_waiting"
    PROVE  timer'
  BY DEF Schedule, NodesOK, NodeOK

\* A step after which the task does not wait, or somebody is there to wake it.
LEMMA SomebodyWakes ==
    ASSUME \/ disk'.status # "retry_waiting" \/ proc' # "up" \/ ~owner' \/ launching'
           \/ ~LockFree' \/ Active' # {}
    PROVE  NoLostWakeup'
  BY DEF NoLostWakeup

\* A run that stays alive after a step is there to wake its task.
LEMMA LiveRunWakes ==
    ASSUME NEW r \in RunIds, main'[r] \in {"created", "driving", "cancelled"}
    PROVE  NoLostWakeup'
  BY SomebodyWakes DEF Active

\* A launch leaves a live run behind.
LEMMA StartedRunWakes ==
    ASSUME TypeOK, NEW r \in RunIds, StartRun(r)
    PROVE  NoLostWakeup'
  BY LiveRunWakes DEF StartRun, TypeOK

\* Nothing the engine does loses the wakeup: the run that ends with a retry pending
\* arms the timer.
LEMMA EngineWakes ==
    ASSUME TypeOK, NodesOK', RunsOK, NEW r \in RunIds, EngineStep(r)
    PROVE  NoLostWakeup'
  <1>0. main[r] \in {"none", "created", "driving", "cancelled"}
    BY DEF RunsOK, AloneOK
  <1>1. ASSUME NEW n \in Nodes,
               StartNode(r, n) \/ Checkpoint(r, n) \/ AskApproval(r, n) \/ NodeEnds(r, n)
        PROVE  NoLostWakeup'
    BY <1>0, <1>1, LiveRunWakes DEF StartNode, Checkpoint, AskApproval, NodeEnds, MayStep
  <1>6. ASSUME NEW n \in Nodes, Returns(r, n) PROVE NoLostWakeup'
    <2>1. main'[r] = "driving"
      BY <1>0, <1>6, ReturnsTypes DEF MayStep
    <2> QED
      BY <2>1, LiveRunWakes
  <1>2. CASE Begin(r)
    BY <1>2, LiveRunWakes DEF Begin, TypeOK
  <1>3. CASE Finish(r)
    <2>1. /\ disk'.status = Outcome(r) /\ disk'.nodes = mem[r].nodes
          /\ proc' = proc
      <3>1. mem[r] \in Task /\ Outcome(r) \in TaskStatus
        BY OutcomeTypes DEF TypeOK
      <3> QED
        BY <1>3, <3>1, StatusChange DEF Finish, Task
    <2>2. CASE Outcome(r) = "retry_waiting" /\ proc = "up"
      <3>1. \E n \in Nodes : disk'.nodes[n].status = "retry_waiting"
        BY <2>1, <2>2 DEF Outcome, Frontier
      <3>2. timer'
        BY <1>3, <2>1, <2>2, <3>1, ScheduleArms DEF Finish
      <3> QED
        BY <3>2 DEF NoLostWakeup
    <2>3. CASE Outcome(r) # "retry_waiting" \/ proc # "up"
      BY <2>1, <2>3, SomebodyWakes
    <2> QED
      BY <2>2, <2>3
  <1>4. CASE CancelUnwinds(r)
    <2>1. disk'.status = "stopped"
      BY <1>4 DEF CancelUnwinds, TypeOK, Task
    <2> QED
      BY <2>1, SomebodyWakes
  <1>5. ~SwallowFinish(r) /\ ~BranchEnds(r)
    BY <1>0 DEF SwallowFinish, BranchEnds
  <1> QED
    BY <1>1, <1>2, <1>3, <1>4, <1>5, <1>6 DEF EngineStep

\* No request of a user loses it.
LEMMA UserWakes ==
    ASSUME TypeOK, RunsOK, UserStep
    PROVE  NoLostWakeup'
  <1>1. ASSUME NEW r \in RunIds, RunTask(r) \/ StartPreRunning(r) PROVE NoLostWakeup'
    BY <1>1, StartedRunWakes DEF RunTask, StartPreRunning
  <1>2. ASSUME NEW r \in RunIds, StopRunning(r) PROVE NoLostWakeup'
    BY <1>2, SomebodyWakes DEF StopRunning, LockFree
  <1>3. CASE StopIdle
    <2>1. disk'.status \in {"stopped", "absent"}
      BY <1>3 DEF StopIdle, TypeOK, Task
    <2> QED
      BY <2>1, SomebodyWakes
  <1>4. ASSUME NEW n \in Nodes, NEW e \in Attempts, RetryNode(n, e) \/ SkipNode(n, e)
        PROVE  NoLostWakeup'
    BY <1>4, SomebodyWakes DEF RetryNode, SkipNode, ResumeWith
  <1> QED
    BY <1>1, <1>2, <1>3, <1>4 DEF UserStep

\* No handler loses it: a timer gives up only when the task is somebody else's.
LEMMA ControlWakes ==
    ASSUME TypeOK, RunsOK, ControlStep
    PROVE  NoLostWakeup'
  <1>1. CASE Launch
    <2>1. disk.status = "resume_pending"
      BY <1>1 DEF Launch, RunsOK, AloneOK
    <2> QED
      BY <1>1, <2>1, StartedRunWakes DEF Launch
  <1>2. CASE StopReturns
    <2>1. disk'.status # "retry_waiting"
      BY <1>2 DEF StopReturns, TypeOK, Task
    <2> QED
      BY <2>1, SomebodyWakes
  <1>3. ASSUME NEW due \in SUBSET Waiting(disk), TimerActivates(due) PROVE NoLostWakeup'
    BY <1>3, SomebodyWakes DEF TimerActivates
  <1>4. CASE TimerGivesUp
    <2>1. Active' = Active /\ disk' = disk /\ owner' = owner
      BY <1>4 DEF TimerGivesUp, taskVars, Active
    <2> QED
      BY <1>4, <2>1, SomebodyWakes DEF TimerGivesUp
  <1> QED
    BY <1>1, <1>2, <1>3, <1>4 DEF ControlStep

\* No failure and no restart loses it: recovery arms the timer again.
LEMMA FailureWakes ==
    ASSUME TypeOK, NodesOK', RunsOK, NoLostWakeup, FailureStep \/ Restart
    PROVE  NoLostWakeup'
  <1>1. ASSUME NEW r \in RunIds, NEW n \in Nodes, CheckpointFails(r, n)
        PROVE  NoLostWakeup'
    BY <1>1, LiveRunWakes DEF CheckpointFails, MayStep, RunsOK, AloneOK
  <1>2. ASSUME NEW r \in RunIds, BeginFails(r) PROVE NoLostWakeup'
    <2>1. disk'.status = "failed"
      BY <1>2 DEF BeginFails, TypeOK, Task
    <2> QED
      BY <2>1, SomebodyWakes
  <1>3. CASE OwnerFails \/ ShutDown \/ Crash \/ LoopCloses
    BY <1>3, SomebodyWakes DEF OwnerFails, ShutDown, Crash, LoopCloses, ProcessGone
  <1>4. CASE Restart
    <2>1. CASE owner' /\ disk.status \in {"running", "retry_waiting", "resume_pending"}
      <3>1. disk' = RecoverTask(disk) /\ Schedule(disk') /\ proc # "closing"
        BY <1>4, <2>1 DEF Restart
      <3>2. disk'.status = "retry_waiting"
            => \E n \in Nodes : disk'.nodes[n].status = "retry_waiting"
        BY <3>1 DEF RecoverTask
      <3> QED
        BY <3>1, <3>2, ScheduleArms DEF NoLostWakeup
    <2>2. CASE ~owner' \/ disk.status \notin {"running", "retry_waiting", "resume_pending"}
      BY <1>4, <2>2, SomebodyWakes DEF Restart
    <2> QED
      BY <2>1, <2>2
  <1> QED
    BY <1>1, <1>2, <1>3, <1>4 DEF FailureStep

\* A task whose file promises an automatic retry has a timer, a run, a launch, a
\* stop request or a control handler that will look at it, as long as the process
\* and the task's owner are up: neither the end of a run, a timer that wakes too
\* early, a failed write nor a crash leaves it asleep for ever.
THEOREM NoWakeupIsLost == Spec /\ [][Undivided]_vars => []NoLostWakeup
  <1>1. Init => NoLostWakeup
    BY DEF Init, NoLostWakeup, NewTask
  <1>2. TypeOK /\ NodesOK' /\ RunsOK /\ NoLostWakeup /\ [Next]_vars => NoLostWakeup'
    <2> SUFFICES ASSUME TypeOK, NodesOK', RunsOK, NoLostWakeup, [Next]_vars
                 PROVE  NoLostWakeup'
      OBVIOUS
    <2>1. CASE UNCHANGED vars
      BY <2>1 DEF vars, NoLostWakeup, LockFree, Active
    <2>2. CASE Next
      BY <2>2, EngineWakes, UserWakes, ControlWakes, FailureWakes DEF Next
    <2> QED
      BY <2>1, <2>2
  <1> QED
    BY <1>1, <1>2, TypeCorrect, NodesCorrect, RunsCorrect, PTL DEF Spec

-----------------------------------------------------------------------------
(* What holds however a task is stopped *)

\* A restart never fails a task that waits for an approval: the approval is a
\* promise to run the node again, whatever became of its siblings. Nothing is
\* assumed about parallel blocks.
THEOREM ApprovalsSurviveRestarts == Spec => RestartKeepsApprovals
  <1> DEFINE Asks == \E n \in Nodes : disk.nodes[n].status = "waiting_approval"
             Kept == proc = "down" /\ owner' /\ disk.status = "running" /\ Asks
                     => disk'.status \in {"running", "resume_pending"}
  <1>1. TypeOK /\ [Next]_vars => [Kept]_vars
    <2> SUFFICES ASSUME TypeOK, Next, proc = "down", owner', disk.status = "running",
                        NEW n \in Nodes, disk.nodes[n].status = "waiting_approval"
                 PROVE  disk'.status \in {"running", "resume_pending"}
      OBVIOUS
    <2>1. CASE Restart
      <3>1. RecoverNode(n, disk.nodes[n]) = Reissue(Interrupted(disk.nodes[n]))
        BY DEF RecoverNode
      <3>2. Interrupted(disk.nodes[n]) \in NodeState
        BY NodeOperatorTypes DEF TypeOK, Task
      <3>3. LaunchPromised(RecoverNode(n, disk.nodes[n]))
        BY <3>1, <3>2 DEF LaunchPromised, Reissue, NodeState
      <3>4. disk' = RecoverTask(disk)
        BY <2>1 DEF Restart
      <3> QED
        BY <3>3, <3>4 DEF RecoverTask
    <2>2. CASE ~Restart
      <3>1. disk' = disk
        BY <2>2 DEF Next, EngineStep, UserStep, ControlStep, FailureStep, MayStep,
           LoopFree, StartNode, Checkpoint, AskApproval, NodeEnds, Returns, RollsBack,
           Rejects, SendsBack, ReworkEnds, PassesOver, Begin, Finish,
           CancelUnwinds, SwallowFinish, BranchEnds, RunTask, StartPreRunning,
           StopRunning, StopIdle, RetryNode, SkipNode, Launch, StopReturns,
           TimerActivates, TimerGivesUp, BeginFails, CheckpointFails, OwnerFails,
           Crash, ShutDown, LoopCloses
      <3> QED
        BY <3>1
    <2> QED
      BY <2>1, <2>2
  <1> QED
    BY <1>1, TypeCorrect, PTL DEF Spec, RestartKeepsApprovals

\* A shutdown finds no run to cancel.
ClosesIdle == LoopCloses => \A r \in RunIds : main[r] \notin {"driving", "swallowed"}

\* Where the status "stopped" comes from as long as that is so: no run has it in
\* memory, and a cancelled run has a request to show for it.
StopsOK ==
    /\ \A r \in RunIds : /\ main[r] = "cancelled" => stop # "none"
                         /\ mem[r].status # "stopped"
    /\ OnlyUserStops

\* Runs that are over, and those that have just begun, are no evidence of a stop.
LEMMA CleanRuns ==
    ASSUME TypeOK, StopsOK, NEW r \in RunIds, ClearRun(r) \/ StartRun(r),
           NEW q \in RunIds
    PROVE  /\ mem'[q].status # "stopped"
           /\ main'[q] = "cancelled" => main[q] = "cancelled"
  BY DEF TypeOK, StopsOK, ClearRun, StartRun, NewTask, Task

\* An outcome of the engine is never "stopped".
LEMMA OutcomesAreNoStops ==
    ASSUME NEW r \in RunIds
    PROVE  Outcome(r) # "stopped" /\ SwallowedOutcome(r) # "stopped"
  BY DEF Outcome, SwallowedOutcome

\* The engine writes "stopped" only for a cancelled run.
LEMMA EngineStopsOK ==
    ASSUME TypeOK, StopsOK, NEW r \in RunIds, EngineStep(r)
    PROVE  StopsOK'
  <1>1. ASSUME NEW n \in Nodes, StartNode(r, n) \/ AskApproval(r, n) \/ NodeEnds(r, n)
        PROVE  StopsOK'
    <2>1. \A q \in RunIds : mem'[q].status = mem[q].status
      BY <1>1, SetNodeStatus DEF StartNode, AskApproval, NodeEnds
    <2> QED
      BY <1>1, <2>1 DEF StartNode, AskApproval, NodeEnds, ctlVars, StopsOK, OnlyUserStops
  <1>8. ASSUME NEW n \in Nodes, Returns(r, n) PROVE StopsOK'
    <2>1. /\ \A q \in RunIds : mem'[q].status = mem[q].status
          /\ UNCHANGED <<disk, main, stop>>
      BY <1>8, ReturnsTypes, SetNodesEffect DEF ctlVars
    <2> QED
      BY <2>1 DEF StopsOK, OnlyUserStops
  <1>2. ASSUME NEW n \in Nodes, Checkpoint(r, n) PROVE StopsOK'
    BY <1>2 DEF Checkpoint, ctlVars, StopsOK, OnlyUserStops
  <1>3. CASE Begin(r)
    BY <1>3 DEF Begin, ctlVars, TypeOK, StopsOK, OnlyUserStops
  <1>4. CASE Finish(r)
    <2>1. disk'.status # "stopped"
      BY <1>4, OutcomesAreNoStops DEF Finish, TypeOK, Task
    <2> QED
      BY <1>4, <2>1, CleanRuns DEF Finish, StopsOK, OnlyUserStops
  <1>5. CASE CancelUnwinds(r)
    <2>1. stop # "none"
      BY <1>5 DEF CancelUnwinds, StopsOK
    <2> QED
      BY <1>5, <2>1, CleanRuns DEF CancelUnwinds, ctlVars, StopsOK, OnlyUserStops
  <1>6. CASE SwallowFinish(r)
    <2>1. disk'.status # "stopped"
      BY <1>6, OutcomesAreNoStops DEF SwallowFinish, TypeOK, Task
    <2>2. CASE ClearRun(r)
      BY <1>6, <2>1, <2>2, CleanRuns DEF SwallowFinish, StopsOK, OnlyUserStops
    <2>3. CASE ~ClearRun(r)
      BY <1>6, <2>1, <2>3, OutcomesAreNoStops
         DEF SwallowFinish, TypeOK, Task, StopsOK, OnlyUserStops
    <2> QED
      BY <2>2, <2>3
  <1>7. CASE BranchEnds(r)
    BY <1>7, CleanRuns DEF BranchEnds, ctlVars, StopsOK, OnlyUserStops
  <1> QED
    BY <1>1, <1>2, <1>3, <1>4, <1>5, <1>6, <1>7, <1>8 DEF EngineStep

\* A user's request that stops leaves its trace, one that resumes finds no run.
LEMMA UserStopsOK ==
    ASSUME TypeOK, StopsOK, UserStep
    PROVE  StopsOK'
  <1>1. ASSUME NEW r \in RunIds, RunTask(r) \/ StartPreRunning(r) PROVE StopsOK'
    <2>1. StartRun(r) /\ Active = {} /\ proc' = proc
      BY <1>1 DEF RunTask, StartPreRunning, ctlVars
    <2>2. disk'.status = "running"
      BY <2>1 DEF StartRun, TypeOK, Task
    <2> QED
      BY <2>1, <2>2, CleanRuns DEF Active, StopsOK, OnlyUserStops
  <1>2. ASSUME NEW r \in RunIds, StopRunning(r) PROVE StopsOK'
    <2>1. stop' = "asked" /\ UNCHANGED <<disk, proc>>
      BY <1>2 DEF StopRunning
    <2>2. \A q \in RunIds : mem'[q].status # "stopped"
      BY <1>2, CleanRuns DEF StopRunning, StopsOK
    <2> QED
      BY <2>1, <2>2 DEF StopsOK, OnlyUserStops
  <1>3. CASE StopIdle
    BY <1>3 DEF StopIdle, StopsOK, OnlyUserStops
  <1>4. ASSUME NEW n \in Nodes, NEW e \in Attempts, RetryNode(n, e) \/ SkipNode(n, e)
        PROVE  StopsOK'
    <2>1. /\ Active = {} /\ UNCHANGED <<mem, main, proc>>
          /\ disk'.status = "resume_pending"
      BY <1>4 DEF RetryNode, SkipNode, Validated, ResumeWith, TypeOK, Task
    <2> QED
      BY <2>1 DEF Active, StopsOK, OnlyUserStops
  <1> QED
    BY <1>1, <1>2, <1>3, <1>4 DEF UserStep

\* Neither the handlers, nor a failure, nor a restart invents a stop.
LEMMA OtherStopsOK ==
    ASSUME ClosesIdle, TypeOK, StopsOK, ControlStep \/ FailureStep \/ Restart
    PROVE  StopsOK'
  <1>1. CASE Launch
    <2>1. CASE UNCHANGED taskVars
      BY <1>1, <2>1 DEF Launch, taskVars, StopsOK, OnlyUserStops
    <2>2. ASSUME NEW r \in RunIds, StartRun(r) PROVE StopsOK'
      <3>1. disk'.status = "running"
        BY <2>2 DEF StartRun, TypeOK, Task
      <3> QED
        BY <1>1, <2>2, <3>1, CleanRuns DEF Launch, StopsOK, OnlyUserStops
    <2> QED
      BY <1>1, <2>1, <2>2 DEF Launch
  <1>2. CASE StopReturns
    BY <1>2 DEF StopReturns, StopsOK, OnlyUserStops
  <1>3. ASSUME NEW due \in SUBSET Waiting(disk), TimerActivates(due) PROVE StopsOK'
    <2>1. disk'.status = "resume_pending"
      BY <1>3 DEF TimerActivates, TypeOK, Task
    <2> QED
      BY <1>3, <2>1 DEF TimerActivates, StopsOK, OnlyUserStops
  <1>4. CASE TimerGivesUp \/ OwnerFails \/ ShutDown
    BY <1>4 DEF TimerGivesUp, OwnerFails, ShutDown, taskVars, StopsOK, OnlyUserStops
  <1>5. ASSUME NEW r \in RunIds, NEW n \in Nodes, CheckpointFails(r, n) PROVE StopsOK'
    <2>1. \A q \in RunIds : mem'[q].status = mem[q].status
      BY <1>5, SetNodeStatus DEF CheckpointFails
    <2> QED
      BY <1>5, <2>1 DEF CheckpointFails, ctlVars, StopsOK, OnlyUserStops
  <1>6. ASSUME NEW r \in RunIds, BeginFails(r) PROVE StopsOK'
    <2>1. disk'.status = "failed"
      BY <1>6 DEF BeginFails, TypeOK, Task
    <2> QED
      BY <1>6, <2>1, CleanRuns DEF BeginFails, ctlVars, StopsOK, OnlyUserStops
  <1>7. CASE Crash \/ LoopCloses
    <2>1. disk' = disk /\ (stop' = "none" => stop = "none")
      BY <1>7 DEF Crash, LoopCloses, ClosesIdle, ProcessGone
    <2>2. \A r \in RunIds : mem'[r].status = "pending" /\ main'[r] = "none"
      BY <1>7 DEF Crash, LoopCloses, ProcessGone, NewTask
    <2> QED
      BY <2>1, <2>2 DEF StopsOK, OnlyUserStops
  <1>8. CASE Restart
    <2>1. disk'.status = "stopped" => disk' = disk
      BY <1>8 DEF Restart, RecoverTask
    <2> QED
      BY <1>8, <2>1 DEF Restart, StopsOK, OnlyUserStops
  <1> QED
    BY <1>1, <1>2, <1>3, <1>4, <1>5, <1>6, <1>7, <1>8 DEF ControlStep, FailureStep

\* Unless the server is shut down while the task runs, a task is stopped only because
\* a user asked for it, whatever parallel branches the stop left behind; a shutdown
\* cancels runs the same way and stops tasks nobody asked to stop (run task_close).
THEOREM StopsAreAskedFor == Spec /\ [][ClosesIdle]_vars => []OnlyUserStops
  <1>1. Init => StopsOK
    BY DEF Init, StopsOK, OnlyUserStops, NewTask
  <1>2. TypeOK /\ StopsOK /\ [Next]_vars /\ [ClosesIdle]_vars => StopsOK'
    <2> SUFFICES ASSUME TypeOK, StopsOK, [Next]_vars, [ClosesIdle]_vars PROVE StopsOK'
      OBVIOUS
    <2>1. CASE UNCHANGED vars
      BY <2>1 DEF vars, StopsOK, OnlyUserStops
    <2>2. CASE Next /\ ClosesIdle
      BY <2>2, EngineStopsOK, UserStopsOK, OtherStopsOK DEF Next
    <2> QED
      BY <2>1, <2>2
  <1>3. StopsOK => OnlyUserStops
    BY DEF StopsOK
  <1> QED
    BY <1>1, <1>2, <1>3, TypeCorrect, PTL DEF Spec

-----------------------------------------------------------------------------
(* What a user sees of a task when its file can be written: a failed task can be
   resumed, and the file goes through the phases of TaskLifecycle, for every
   workflow graph, every retry setting and any number of outside events.

   Each hypothesis leaves out what breaks these properties: branches that outlive
   their run, a shutdown in the middle of a parallel block, node states that cannot
   be written, and an approver's rejection behind another node of its branch, which
   leaves that node "running" with nobody to run it. *)

\* A shutdown cancels no run inside a parallel block.
ClosesUndivided ==
    LoopCloses => \A r \in RunIds : main[r] = "driving" => Branches(r) = {}

\* The checkpoints around an attempt are written; the one an approval node makes may
\* fail, which fails the node.
Written == \A r \in RunIds, n \in Nodes : CheckpointFails(r, n) => pc[r][n] = "asking"

\* No approver rejects behind a completed node of its own branch.
Unrolled == \A r \in RunIds, n \in Nodes : ~RollsBack(r, n)

Orderly == Undivided /\ ClosesUndivided /\ Written /\ Unrolled

\* The last of these is no restriction where no approval follows a node of its branch.
LEMMA UnbranchedIsUnrolled ==
    (\A n \in Approval : Behind(n) \subseteq Approval) => (Spec => [][Unrolled]_vars)
  <1> SUFFICES ASSUME \A n \in Approval : Behind(n) \subseteq Approval
               PROVE  Spec => [][Unrolled]_vars
    OBVIOUS
  <1>1. Unrolled
    BY DEF Unrolled, RollsBack
  <1> QED
    BY <1>1, PTL

\* What is said of runs and of the file in behaviours without divided runs holds here.
LEMMA OrderlyIsUndivided == [][Orderly]_vars => [][Undivided]_vars
  <1>1. [Orderly]_vars => [Undivided]_vars
    BY DEF Orderly
  <1> QED
    BY <1>1, PTL

-----------------------------------------------------------------------------
(* What a step does to the task file *)

\* A run saves its progress ...
Saving == \E r \in Alive : disk' = mem[r]

\* ... ends, or fails before its first node.
Ending == \E r \in Alive : Finish(r)
FailingToBegin == \E r \in Alive : BeginFails(r)

Starting ==
    /\ disk.status \in {"pending", "pre_running", "resume_pending"}
    /\ disk' = [disk EXCEPT !.status = "running"]

Stopping ==
    /\ disk.status \in {"pre_running", "running", "retry_waiting", "resume_pending"}
    /\ disk'.status = "stopped"

Discarding ==
    /\ disk.status = "pending"
    /\ disk' = [disk EXCEPT !.status = "absent"]

\* By a user or by the timer: nodes may be reset or skipped.
Resuming ==
    /\ disk.status \in {"failed", "retry_waiting"}
    /\ disk'.status = "resume_pending"
    /\ \A n \in Nodes : disk'.nodes[n] = disk.nodes[n]
                        \/ disk'.nodes[n].status \in {"pending", "skipped"}

Recovering ==
    /\ disk.status \in {"running", "retry_waiting", "resume_pending"}
    /\ disk' = RecoverTask(disk)

\* The engine keeps the file, saves to it, or ends the run.
LEMMA EngineFile ==
    ASSUME TypeOK, RunsOK, NEW r \in RunIds, EngineStep(r)
    PROVE  disk' = disk \/ Saving \/ Ending \/ Stopping
  <1>0. main[r] \in {"none", "created", "driving", "cancelled"}
        /\ (main[r] # "none" => r \in Alive /\ disk.status = "running")
    BY DEF RunsOK, AloneOK, Alive
  <1>1. ASSUME NEW n \in Nodes, Checkpoint(r, n) PROVE Saving
    BY <1>0, <1>1 DEF Checkpoint, MayStep, Saving
  <1>2. ASSUME Finish(r) PROVE Ending
    BY <1>0, <1>2 DEF Finish, Ending
  <1>3. ASSUME CancelUnwinds(r) PROVE Stopping
    BY <1>0, <1>3 DEF CancelUnwinds, Stopping, TypeOK, Task
  <1>4. ~SwallowFinish(r)
    BY <1>0 DEF SwallowFinish
  <1> QED
    BY <1>1, <1>2, <1>3, <1>4, ReturnsTypes
       DEF EngineStep, StartNode, AskApproval, NodeEnds, Begin, BranchEnds

\* A user's request starts, stops, discards or resumes the task.
LEMMA UserFile ==
    ASSUME TypeOK, RunsOK, UserStep
    PROVE  disk' = disk \/ Starting \/ Stopping \/ Discarding \/ Resuming
  <1>1. ASSUME NEW r \in RunIds, RunTask(r) \/ StartPreRunning(r) PROVE Starting
    BY <1>1 DEF RunTask, StartPreRunning, StartRun, Starting
  <1>2. ASSUME StopIdle PROVE Stopping \/ Discarding
    BY <1>2 DEF StopIdle, Stopping, Discarding, TypeOK, Task
  <1>3. ASSUME NEW n \in Nodes, NEW e \in Attempts, RetryNode(n, e) \/ SkipNode(n, e)
        PROVE  Resuming
    <2> DEFINE failed == [disk.nodes[n] EXCEPT !.status = "failed"]
    <2>1. disk.status \in {"failed", "retry_waiting"} /\ disk.nodes[n] \in NodeState
      BY <1>3 DEF RetryNode, SkipNode, Validated, TypeOK, Task
    <2>2. failed \in NodeState
      BY <2>1, NodeOperatorTypes DEF NodeStatus
    <2> HIDE DEF failed
    <2>3. \A t \in {PrepareManualRetry(failed), FailureSkip(failed)} :
             t \in NodeState /\ t.status \in {"pending", "skipped"}
      <3>1. PrepareManualRetry(failed) \in NodeState /\ FailureSkip(failed) \in NodeState
        BY <2>2, NodeOperatorTypes
      <3> QED
        BY <2>2, <3>1 DEF PrepareManualRetry, FailureSkip, NodeState
    <2>4. PICK t \in {PrepareManualRetry(failed), FailureSkip(failed)} : ResumeWith(n, t)
      BY <1>3 DEF RetryNode, SkipNode, failed
    <2>5. /\ disk'.status = "resume_pending"
          /\ \A m \in Nodes : disk'.nodes[m] = IF m = n THEN t ELSE disk.nodes[m]
      BY <2>4 DEF ResumeWith, TypeOK, Task
    <2> QED
      BY <2>1, <2>3, <2>4, <2>5 DEF Resuming
  <1> QED
    BY <1>1, <1>2, <1>3 DEF UserStep, StopRunning

\* The handlers start, stop or resume it.
LEMMA ControlFile ==
    ASSUME TypeOK, RunsOK, ControlStep
    PROVE  disk' = disk \/ Starting \/ Stopping \/ Resuming
  <1>1. ASSUME Launch PROVE Starting
    BY <1>1 DEF Launch, StartRun, Starting, RunsOK, AloneOK
  <1>2. ASSUME StopReturns PROVE disk' = disk \/ Stopping
    BY <1>2 DEF StopReturns, Stopping, RunsOK, StopOK, TypeOK, Task
  <1>3. ASSUME NEW due \in SUBSET Waiting(disk), TimerActivates(due) PROVE Resuming
    <2>1. /\ disk.status = "retry_waiting" /\ disk'.status = "resume_pending"
          /\ \A m \in Nodes : disk'.nodes[m] = IF m \in due THEN ActivateRetry(disk.nodes[m])
                                               ELSE disk.nodes[m]
      BY <1>3 DEF TimerActivates, TypeOK, Task
    <2>2. \A m \in Nodes : ActivateRetry(disk.nodes[m]).status = "pending"
      BY DEF ActivateRetry, TypeOK, Task, NodeState
    <2> QED
      BY <2>1, <2>2 DEF Resuming
  <1> QED
    BY <1>1, <1>2, <1>3 DEF ControlStep, TimerGivesUp, taskVars

\* A failure ends a run that has not begun, or stops the run a shutdown cancels.
LEMMA FailureFile ==
    ASSUME ClosesUndivided, TypeOK, RunsOK, FailureStep
    PROVE  disk' = disk \/ FailingToBegin \/ Stopping
  <1>1. ASSUME NEW r \in RunIds, BeginFails(r) PROVE FailingToBegin
    BY <1>1 DEF BeginFails, FailingToBegin, Alive
  <1>2. ASSUME LoopCloses PROVE disk' = disk \/ Stopping
    <2>1. \A r \in RunIds : main[r] # "swallowed" /\ (main[r] = "driving" => Branches(r) = {})
      BY <1>2 DEF LoopCloses, ClosesUndivided, RunsOK, AloneOK
    <2>2. disk' = disk \/ \E r \in RunIds : /\ main[r] = "driving"
                                            /\ disk' = [mem[r] EXCEPT !.status = "stopped"]
      BY <1>2, <2>1 DEF LoopCloses
    <2>3. \A r \in RunIds : [mem[r] EXCEPT !.status = "stopped"].status = "stopped"
      BY DEF TypeOK, Task
    <2>4. \A r \in RunIds : main[r] = "driving" => disk.status = "running"
      BY DEF RunsOK, AloneOK, Alive
    <2> QED
      BY <2>2, <2>3, <2>4 DEF Stopping
  <1> QED
    BY <1>1, <1>2
       DEF FailureStep, CheckpointFails, OwnerFails, ShutDown, Crash, taskVars

\* Every step does one of these things to the file.
LEMMA FileSteps ==
    ASSUME TypeOK, RunsOK, [Next]_vars, [Orderly]_vars
    PROVE  \/ disk' = disk \/ Saving \/ Ending \/ FailingToBegin \/ Starting
           \/ Stopping \/ Discarding \/ Resuming \/ Recovering
  <1>1. CASE UNCHANGED vars
    BY <1>1 DEF vars
  <1>2. CASE Restart
    BY <1>2 DEF Restart, Recovering
  <1>3. CASE Next /\ Orderly /\ ~Restart
    BY <1>3, EngineFile, UserFile, ControlFile, FailureFile DEF Next, Orderly
  <1> QED
    BY <1>1, <1>2, <1>3

-----------------------------------------------------------------------------
(* A file that is not "running" has no running node *)

\* Only a run that is stopped, or cut off, leaves a node "running" in the file.
FileSettled ==
    disk.status \notin {"running", "stopped"}
    => \A n \in Nodes : disk.nodes[n].status # "running"

\* No sequence has died on a failed write, and a node that is running in memory is
\* being executed.
RunSettled ==
    \A r \in RunIds, n \in Nodes :
        /\ pc[r][n] # "dead"
        /\ mem[r].nodes[n].status = "running"
           => pc[r][n] \in {"starting", "executing", "judging"}

\* A file that waits for automatic retries has a node that waits for one.
WaitingOK ==
    disk.status = "retry_waiting" => \E n \in Nodes : disk.nodes[n].status = "retry_waiting"

SettledOK == FileSettled /\ RunSettled /\ WaitingOK

\* What the run ends with when it ends.
LEMMA FinishFile ==
    ASSUME TypeOK, NEW r \in RunIds, Finish(r)
    PROVE  disk'.status = Outcome(r) /\ disk'.nodes = mem[r].nodes
  <1>1. mem[r] \in Task /\ Outcome(r) \in TaskStatus
    BY OutcomeTypes DEF TypeOK
  <1> QED
    BY <1>1, StatusChange DEF Finish, Task

\* Recovery leaves no node running.
LEMMA RecoveredSettled ==
    ASSUME NEW n \in Nodes, NEW s \in NodeState
    PROVE  RecoverNode(n, s).status # "running"
  <1>1. Interrupted(s) \in NodeState /\ Interrupted(s).status = "failed"
    BY NodeOperatorTypes DEF Interrupted, Record, NodeState
  <1>2. ApplyPolicy(n, Interrupted(s)).status # "running"
    BY <1>1 DEF ApplyPolicy, PrepareAutoRetry, FailureSkip, NodeState
  <1>3. Reissue(Interrupted(s)).status = "pending"
    BY <1>1 DEF Reissue, NodeState
  <1>4. [s EXCEPT !.status = "failed"].status = "failed"
    BY DEF NodeState
  <1> QED
    BY <1>2, <1>3, <1>4 DEF RecoverNode

\* The file stays settled.
LEMMA FileSettledStep ==
    ASSUME TypeOK, RunsOK, SettledOK, [Next]_vars, [Orderly]_vars
    PROVE  FileSettled' /\ WaitingOK'
  <1> USE DEF SettledOK
  <1>0. \A r \in Alive : disk.status = "running" /\ mem[r].status = "running" /\ r \in RunIds
    BY DEF RunsOK, AloneOK, Alive
  <1>1. CASE disk' = disk
    BY <1>1 DEF FileSettled, WaitingOK
  <1>2. CASE Saving \/ Stopping
    BY <1>0, <1>2 DEF Saving, Stopping, FileSettled, WaitingOK
  <1>3. CASE Ending
    <2>1. PICK r \in Alive : Finish(r)
      BY <1>3 DEF Ending
    <2>2. r \in RunIds /\ disk'.status = Outcome(r) /\ disk'.nodes = mem[r].nodes
      BY <1>0, <2>1, FinishFile
    <2>3. \A n \in Nodes : disk'.nodes[n].status # "running"
      BY <2>1, <2>2 DEF Finish, Busy, RunSettled
    <2>4. Outcome(r) = "retry_waiting" => \E n \in Nodes : mem[r].nodes[n].status = "retry_waiting"
      BY DEF Outcome, Frontier
    <2> QED
      BY <2>2, <2>3, <2>4 DEF FileSettled, WaitingOK
  <1>4. CASE FailingToBegin
    <2>1. PICK r \in Alive : main[r] = "created" /\ disk' = [mem[r] EXCEPT !.status = "failed"]
      BY <1>4 DEF FailingToBegin, BeginFails
    <2>2. disk'.status = "failed" /\ disk'.nodes = mem[r].nodes
      BY <1>0, <2>1 DEF TypeOK, Task
    <2>3. \A n \in Nodes : pc[r][n] = "idle"
      BY <1>0, <2>1 DEF RunsOK, AloneOK
    <2> QED
      BY <1>0, <2>2, <2>3 DEF RunSettled, FileSettled, WaitingOK
  <1>5. CASE Starting \/ Discarding
    BY <1>5 DEF Starting, Discarding, TypeOK, Task, FileSettled, WaitingOK
  <1>6. CASE Resuming
    BY <1>6 DEF Resuming, FileSettled, WaitingOK
  <1>7. CASE Recovering
    <2>1. \A n \in Nodes : disk'.nodes[n] = RecoverNode(n, disk.nodes[n])
      BY <1>7 DEF Recovering, RecoverTask
    <2>2. \A n \in Nodes : disk'.nodes[n].status # "running"
      BY <2>1, RecoveredSettled DEF TypeOK, Task
    <2>3. WaitingOK'
      BY <1>7 DEF Recovering, RecoverTask, WaitingOK
    <2> QED
      BY <2>2, <2>3 DEF FileSettled
  <1> QED
    BY <1>1, <1>2, <1>3, <1>4, <1>5, <1>6, <1>7, FileSteps

\* SetNode keeps RunSettled if the new state and position are settled.
LEMMA SetNodeSettled ==
    ASSUME TypeOK, RunSettled, NEW r \in RunIds, NEW n \in Nodes,
           NEW s \in NodeState, NEW next \in NodePC, SetNode(r, n, s, next),
           next # "dead",
           s.status = "running" => next \in {"starting", "executing", "judging"}
    PROVE  RunSettled'
  BY SetNodeEffect DEF RunSettled

\* So do an empty slot, a launch from a settled file and the end of the process.
LEMMA SlotsSettled ==
    ASSUME TypeOK, FileSettled, RunSettled,
           \/ \E r \in RunIds : ClearRun(r)
           \/ \E r \in RunIds : StartRun(r) /\ disk.status \notin {"running", "stopped"}
           \/ ProcessGone
           \/ UNCHANGED <<mem, pc>>
    PROVE  RunSettled'
  <1>1. Fresh.status # "running"
    BY DEF Fresh
  <1>2. ASSUME NEW r \in RunIds, ClearRun(r) PROVE RunSettled'
    BY <1>1, <1>2, ClearRunEffect DEF RunSettled
  <1>3. ASSUME NEW r \in RunIds, StartRun(r), disk.status \notin {"running", "stopped"}
        PROVE  RunSettled'
    BY <1>3, StartRunEffect DEF RunSettled, FileSettled
  <1>4. CASE ProcessGone
    BY <1>1, <1>4, ProcessGoneEffect DEF RunSettled
  <1>5. CASE UNCHANGED <<mem, pc>>
    BY <1>5 DEF RunSettled
  <1> QED
    BY <1>2, <1>3, <1>4, <1>5

\* A node that has ended is not running any more.
LEMMA EndedSettled ==
    ASSUME NEW n \in Nodes, NEW s \in NodeState,
           NEW t \in {Record(s, "completed"), Record(s, "failed"),
                      ApplyPolicy(n, Record(s, "failed"))}
    PROVE  t \in NodeState /\ t.status # "running"
  <1>1. /\ Record(s, "completed") \in NodeState /\ Record(s, "failed") \in NodeState
        /\ ApplyPolicy(n, Record(s, "failed")) \in NodeState
    BY NodeOperatorTypes DEF NodeStatus
  <1>2. Record(s, "completed").status = "completed" /\ Record(s, "failed").status = "failed"
    BY DEF Record, NodeState
  <1>3. ApplyPolicy(n, Record(s, "failed")).status # "running"
    BY <1>1, <1>2 DEF ApplyPolicy, PrepareAutoRetry, FailureSkip, NodeState
  <1> QED
    BY <1>1, <1>2, <1>3

\* So does work that a judge returns: the judge is executing as long as it is
\* "running", and the node it sends back is not running when it is sent.
LEMMA ReturnsSettled ==
    ASSUME TypeOK, NodesOK, RunSettled, NEW r \in RunIds, NEW n \in Nodes,
           Returns(r, n), ~RollsBack(r, n)
    PROVE  RunSettled'
  <1> DEFINE old == mem[r].nodes
             at == pc[r]
             Settled(s, position) ==
                /\ position # "dead"
                /\ s.status = "running" => position \in {"starting", "executing", "judging"}
             Right(nodes, positions) ==
                /\ SetNodes(r, nodes, positions)
                /\ \A m \in Nodes : Settled(nodes[m], positions[m])
  <1>1. /\ old \in [Nodes -> NodeState] /\ at \in [Nodes -> NodePC]
        /\ \A p \in Pred[n] : p \in Nodes /\ p # n
    BY PredAssumption, NotItsOwnPred DEF TypeOK, Task
  <1>2. \A m \in Nodes : Settled(old[m], at[m])
    BY DEF RunSettled
  <1>3. \A m \in Nodes : PositionOK(at[m], old[m])
    BY NodesOKParts
  <1>4. ASSUME NEW nodes, NEW positions, Right(nodes, positions)
        PROVE  RunSettled'
    <2>1. PICK x \in [Nodes -> NodeState], y \in [Nodes -> NodePC] : SetNodes(r, x, y)
      BY ReturnsTypes
    <2>2. /\ \A q \in RunIds : /\ mem'[q].nodes = IF q = r THEN x ELSE mem[q].nodes
                               /\ pc'[q] = IF q = r THEN y ELSE pc[q]
      BY <2>1, SetNodesEffect
    <2>3. x = nodes /\ y = positions
      BY <1>4, <2>1 DEF SetNodes, TypeOK, Task
    <2> QED
      BY <1>2, <1>4, <2>2, <2>3 DEF RunSettled
  <1> SUFFICES \E nodes, positions : Right(nodes, positions)
    BY <1>4
  <1> HIDE DEF old, at
  <1>5. CASE Rejects(r, n)
    <2>1. PICK u \in Pred[n] :
             SetNodes(r, [old EXCEPT ![u] = SentBack(@)], [at EXCEPT ![n] = "judging"])
      BY <1>5 DEF Rejects, old, at
    <2>2. SentBack(old[u]).status = "pending"
      BY <1>1 DEF SentBack, NodeState
    <2> DEFINE nodes == [old EXCEPT ![u] = SentBack(@)]
               positions == [at EXCEPT ![n] = "judging"]
    <2>3. ASSUME NEW m \in Nodes PROVE Settled(nodes[m], positions[m])
      BY <1>1, <1>2, <2>2
    <2> QED
      BY <2>1, <2>3
  <1>6. CASE SendsBack(r, n)
    <2>1. PICK u \in Pred[n] : \E outcome \in {"completed", "failed"} :
             SetNodes(r, [old EXCEPT ![n] = Record(@, outcome), ![u].auto = 0],
                         [at EXCEPT ![n] = "sending"])
      BY <1>6 DEF SendsBack, old, at
    <2>2. PICK outcome \in {"completed", "failed"} :
             SetNodes(r, [old EXCEPT ![n] = Record(@, outcome), ![u].auto = 0],
                         [at EXCEPT ![n] = "sending"])
      BY <2>1
    <2> DEFINE nodes == [old EXCEPT ![n] = Record(@, outcome), ![u].auto = 0]
               positions == [at EXCEPT ![n] = "sending"]
    <2>3. Record(old[n], outcome).status = outcome
      BY <1>1 DEF Record, NodeState
    <2>4. [old[u] EXCEPT !.auto = 0].status = old[u].status
      BY <1>1 DEF NodeState
    <2>5. ASSUME NEW m \in Nodes
          PROVE  /\ nodes[m] = IF m = u THEN [old[u] EXCEPT !.auto = 0]
                               ELSE IF m = n THEN Record(old[n], outcome) ELSE old[m]
                 /\ positions[m] = IF m = n THEN "sending" ELSE at[m]
      BY <1>1
    <2> HIDE DEF nodes, positions
    <2>6. ASSUME NEW m \in Nodes PROVE Settled(nodes[m], positions[m])
      BY <1>1, <1>2, <2>3, <2>4, <2>5
    <2> QED
      BY <2>2, <2>6 DEF nodes, positions
  <1>7. CASE ReworkEnds(r, n)
    <2>1. PICK u \in Pred[n] :
             /\ at[u] = "executing"
             /\ \E s \in {Record(old[u], "completed"),
                          ApplyPolicy(u, Record(old[u], "failed"))} :
                   SetNodes(r, [old EXCEPT ![u] = s, ![n].status = "pending"],
                               [at EXCEPT ![u] = "ending",
                                          ![n] = IF s.status = "skipped"
                                                 THEN "sent" ELSE "idle"])
      BY <1>7 DEF ReworkEnds, old, at
    <2>2. PICK s \in {Record(old[u], "completed"),
                      ApplyPolicy(u, Record(old[u], "failed"))} :
             SetNodes(r, [old EXCEPT ![u] = s, ![n].status = "pending"],
                         [at EXCEPT ![u] = "ending",
                                    ![n] = IF s.status = "skipped" THEN "sent" ELSE "idle"])
      BY <2>1
    <2>3. s.status # "running"
      BY <1>1, EndedSettled
    <2>4. [old[n] EXCEPT !.status = "pending"].status = "pending"
      BY <1>1 DEF NodeState
    <2> DEFINE next == IF s.status = "skipped" THEN "sent" ELSE "idle"
               nodes == [old EXCEPT ![u] = s, ![n].status = "pending"]
               positions == [at EXCEPT ![u] = "ending", ![n] = next]
    <2>5. next # "dead"
      OBVIOUS
    <2> HIDE DEF next
    <2>6. ASSUME NEW m \in Nodes
          PROVE  /\ nodes[m] = IF m = u THEN s
                               ELSE IF m = n THEN [old[n] EXCEPT !.status = "pending"]
                               ELSE old[m]
                 /\ positions[m] = IF m = n THEN next
                                   ELSE IF m = u THEN "ending" ELSE at[m]
      BY <1>1
    <2> HIDE DEF nodes, positions
    <2>7. ASSUME NEW m \in Nodes PROVE Settled(nodes[m], positions[m])
      BY <1>1, <1>2, <2>3, <2>4, <2>5, <2>6
    <2> QED
      BY <2>2, <2>7 DEF nodes, positions, next
  <1>8. CASE PassesOver(r, n)
    <2>1. SetNodes(r, [old EXCEPT ![n].status = "skipped"], [at EXCEPT ![n] = "ending"])
      BY <1>8 DEF PassesOver, old, at
    <2>2. [old[n] EXCEPT !.status = "skipped"].status = "skipped"
      BY <1>1 DEF NodeState
    <2> DEFINE nodes == [old EXCEPT ![n].status = "skipped"]
               positions == [at EXCEPT ![n] = "ending"]
    <2>3. ASSUME NEW m \in Nodes PROVE Settled(nodes[m], positions[m])
      BY <1>1, <1>2, <2>2
    <2> QED
      BY <2>1, <2>3
  <1> QED
    BY <1>5, <1>6, <1>7, <1>8 DEF Returns

\* The engine's steps keep the runs settled.
LEMMA EngineSettled ==
    ASSUME TypeOK, NodesOK, RunsOK, FileSettled, RunSettled, Unrolled,
           NEW r \in RunIds, EngineStep(r)
    PROVE  RunSettled'
  <1>0. \A n \in Nodes : mem[r].nodes[n] \in NodeState
    BY DEF TypeOK, Task
  <1>1. ASSUME NEW n \in Nodes, StartNode(r, n) PROVE RunSettled'
    BY <1>0, <1>1, NodeOperatorTypes, SetNodeSettled DEF StartNode, NodePC
  <1>2. ASSUME NEW n \in Nodes, AskApproval(r, n) PROVE RunSettled'
    <2>1. LET s == [mem[r].nodes[n] EXCEPT !.status = "waiting_approval"]
          IN  s \in NodeState /\ s.status = "waiting_approval"
      BY <1>0 DEF NodeStatus, NodeState
    <2> QED
      BY <1>2, <2>1, SetNodeSettled DEF AskApproval, NodePC
  <1>3. ASSUME NEW n \in Nodes, NodeEnds(r, n) PROVE RunSettled'
    <2>1. \E t \in {Record(mem[r].nodes[n], "completed"), Record(mem[r].nodes[n], "failed"),
                    ApplyPolicy(n, Record(mem[r].nodes[n], "failed"))} :
             SetNode(r, n, t, "ending")
      BY <1>3 DEF NodeEnds
    <2> QED
      BY <1>0, <2>1, EndedSettled, SetNodeSettled DEF NodePC
  <1>4. ASSUME NEW n \in Nodes, Checkpoint(r, n) PROVE RunSettled'
    <2>1. /\ mem' = mem /\ pc[r][n] \in {"starting", "asking", "sending", "ending"}
          /\ pc' = [pc EXCEPT ![r][n] = AfterSave[pc[r][n]]]
      BY <1>4 DEF Checkpoint, AfterSave
    <2>2. \A q \in RunIds, m \in Nodes :
             pc'[q][m] = IF q = r /\ m = n THEN AfterSave[pc[r][n]] ELSE pc[q][m]
      BY <2>1 DEF TypeOK
    <2> QED
      BY <2>1, <2>2 DEF AfterSave, RunSettled
  <1>5. ASSUME Begin(r) PROVE RunSettled'
    BY <1>5, SlotsSettled DEF Begin
  <1>6. ASSUME Finish(r) \/ CancelUnwinds(r) \/ BranchEnds(r) PROVE RunSettled'
    BY <1>6, SlotsSettled DEF Finish, CancelUnwinds, BranchEnds
  <1>7. ~SwallowFinish(r)
    BY DEF SwallowFinish, RunsOK, AloneOK
  <1>8. ASSUME NEW n \in Nodes, Returns(r, n) PROVE RunSettled'
    BY <1>8, ReturnsSettled DEF Unrolled
  <1> QED
    BY <1>1, <1>2, <1>3, <1>4, <1>5, <1>6, <1>7, <1>8 DEF EngineStep

\* All other steps do, as long as checkpoints are written.
LEMMA RunSettledStep ==
    ASSUME TypeOK, NodesOK, RunsOK, FileSettled, RunSettled, [Next]_vars, [Orderly]_vars
    PROVE  RunSettled'
  <1>1. CASE UNCHANGED vars
    BY <1>1, SlotsSettled DEF vars
  <1>2. CASE UserStep
    <2>1. ASSUME NEW r \in RunIds, RunTask(r) \/ StartPreRunning(r) PROVE RunSettled'
      BY <2>1, SlotsSettled DEF RunTask, StartPreRunning
    <2>2. ASSUME NEW r \in RunIds, StopRunning(r) PROVE RunSettled'
      BY <2>2, SlotsSettled DEF StopRunning
    <2>3. ASSUME StopIdle \/ \E n \in Nodes, e \in Attempts : RetryNode(n, e) \/ SkipNode(n, e)
          PROVE  RunSettled'
      BY <2>3, SlotsSettled DEF StopIdle, RetryNode, SkipNode
    <2> QED
      BY <1>2, <2>1, <2>2, <2>3 DEF UserStep
  <1>3. CASE ControlStep
    <2>1. ASSUME Launch PROVE RunSettled'
      BY <2>1, SlotsSettled DEF Launch, taskVars
    <2> QED
      BY <1>3, <2>1, SlotsSettled
         DEF ControlStep, StopReturns, TimerActivates, TimerGivesUp, taskVars
  <1>4. CASE FailureStep /\ Written
    <2>1. ASSUME NEW r \in RunIds, NEW n \in Nodes, CheckpointFails(r, n) PROVE RunSettled'
      <3>1. SetNode(r, n, ApplyPolicy(n, Record(mem[r].nodes[n], "failed")), "ending")
        BY <1>4, <2>1 DEF CheckpointFails, Written
      <3>2. mem[r].nodes[n] \in NodeState
        BY DEF TypeOK, Task
      <3> QED
        BY <3>1, <3>2, EndedSettled, SetNodeSettled DEF NodePC
    <2>2. ASSUME NEW r \in RunIds, BeginFails(r) PROVE RunSettled'
      BY <2>2, SlotsSettled DEF BeginFails
    <2> QED
      BY <1>4, <2>1, <2>2, SlotsSettled
         DEF FailureStep, OwnerFails, Crash, ShutDown, LoopCloses, taskVars
  <1>5. CASE Restart
    BY <1>5, SlotsSettled DEF Restart
  <1> QED
    BY <1>1, <1>2, <1>3, <1>4, <1>5, EngineSettled DEF Next, Orderly

\* Files and runs are settled in every reachable state.
LEMMA SettledCorrect == Spec /\ [][Orderly]_vars => []SettledOK
  <1>1. Init => SettledOK
    BY DEF Init, NewTask, Fresh, NoNodes, SettledOK, FileSettled, RunSettled, WaitingOK
  <1>2. TypeOK /\ NodesOK /\ RunsOK /\ SettledOK /\ [Next]_vars /\ [Orderly]_vars
        => SettledOK'
    BY FileSettledStep, RunSettledStep DEF SettledOK
  <1> QED
    BY <1>1, <1>2, TypeCorrect, NodesCorrect, RunsCorrect, OrderlyIsUndivided, PTL DEF Spec

-----------------------------------------------------------------------------
(* Failed tasks can be resumed *)

\* A run that ends before every node has passed leaves a sequence that stands at a
\* node: the plan orders the nodes that have not passed.
LEMMA FrontierNotEmpty ==
    ASSUME NEW r \in RunIds, \E n \in Nodes : ~Passed(r, n)
    PROVE  Frontier(r) # {}
  <1> DEFINE left == {n \in Nodes : ~Passed(r, n)}
  <1>1. left \in SUBSET Nodes /\ left # {}
    OBVIOUS
  <1>2. PICK n \in left : Pred[n] \cap left = {}
    BY <1>1, PlanAssumption
  <1>3. Pred[n] \subseteq Nodes
    BY PredAssumption
  <1>4. \A p \in Pred[n] : Passed(r, p)
    BY <1>2, <1>3
  <1> QED
    BY <1>2, <1>4 DEF Frontier

\* The node a failed run stands at is one a user can retry or skip.
LEMMA FailureIsControllable ==
    ASSUME TypeOK, RunSettled, NEW r \in RunIds, Finish(r), Outcome(r) = "failed"
    PROVE  \E n \in Nodes : Controllable(mem[r].nodes[n])
  <1>1. \E n \in Nodes : ~Passed(r, n)
    BY DEF Outcome
  <1>2. PICK n \in Frontier(r) : TRUE
    BY <1>1, FrontierNotEmpty
  <1>3. n \in Nodes /\ ~Passed(r, n) /\ ~Busy(r, n) /\ ~Startable(r, n)
    BY <1>2 DEF Frontier, Finish
  <1>4. pc[r][n] = "idle"
    BY <1>2, <1>3 DEF Busy, Frontier, RunSettled, TypeOK, NodePC
  <1>7. ~Held(r, n)
    <2>1. \A m \in Nodes : ~Busy(r, m) /\ pc[r][m] # "dead"
      BY DEF Finish, RunSettled
    <2>2. Judges \subseteq Nodes
      BY JudgesAssumption
    <2> QED
      BY <2>1, <2>2 DEF Held, Busy
  <1>5. mem[r].nodes[n].status \notin {"completed", "skipped", "pending",
                                      "waiting_approval", "running"}
    BY <1>2, <1>3, <1>4, <1>7 DEF Passed, Done, Startable, RunSettled
  <1>6. mem[r].nodes[n].status \in NodeStatus
    BY <1>3 DEF TypeOK, Task, NodeState
  <1> QED
    BY <1>3, <1>5, <1>6 DEF Controllable, NodeStatus

\* No run fails before its first node.
Begins == \A r \in RunIds : ~BeginFails(r)

\* A task never ends up failed with nothing its user could retry or skip: what ends
\* a run as failed, or fails a task in recovery, is a failed node, and neither a
\* judge's rejection nor a crash in the middle of the rework changes that. Left out
\* are a run that fails before its first node (run task_setup) and an approver's
\* rejection that takes a completed node back with it, after which no node is failed.
THEOREM FailedTasksAreControllable ==
    Spec /\ [][Orderly /\ Begins]_vars => []FailedIsControllable
  <1>1. Init => FailedIsControllable
    BY DEF Init, NewTask, FailedIsControllable
  <1>2. TypeOK /\ RunsOK /\ SettledOK /\ FailedIsControllable /\ [Next]_vars
        /\ [Orderly /\ Begins]_vars => FailedIsControllable'
    <2> SUFFICES ASSUME TypeOK, RunsOK, SettledOK, FailedIsControllable, [Next]_vars,
                        [Orderly /\ Begins]_vars, disk'.status = "failed"
                 PROVE  \E n \in Nodes : Controllable(disk'.nodes[n])
      BY DEF FailedIsControllable
    <2>1. CASE disk' = disk
      BY <2>1 DEF FailedIsControllable
    <2>2. CASE Ending
      <3>1. PICK r \in RunIds : Finish(r)
        BY <2>2 DEF Ending, Alive
      <3>2. Outcome(r) = "failed" /\ disk'.nodes = mem[r].nodes
        BY <3>1, FinishFile
      <3> QED
        BY <3>1, <3>2, FailureIsControllable DEF SettledOK
    <2>3. CASE Recovering
      BY <2>3 DEF Recovering, RecoverTask, Controllable
    <2>4. ~Saving
      BY DEF Saving, RunsOK, AloneOK
    <2>5. ~Starting /\ ~Stopping /\ ~Discarding /\ ~Resuming
      BY DEF Starting, Stopping, Discarding, Resuming, TypeOK, Task
    <2>6. CASE FailingToBegin
      <3>1. UNCHANGED vars
        BY <2>6 DEF FailingToBegin, Begins, Alive
      <3> QED
        BY <2>1, <3>1 DEF vars
    <2> QED
      BY <2>1, <2>2, <2>3, <2>4, <2>5, <2>6, FileSteps
  <1>3. [Orderly /\ Begins]_vars => [Orderly]_vars
    OBVIOUS
  <1> QED
    BY <1>1, <1>2, <1>3, TypeCorrect, RunsCorrect, SettledCorrect, OrderlyIsUndivided, PTL
       DEF Spec

-----------------------------------------------------------------------------
(* The file goes through the phases of TaskLifecycle *)

Finished == {n \in Nodes \ Returnable : Done(disk.nodes[n])}

\* A step that keeps the phase and the finished nodes.
Stutters == Phase[disk'.status] = Phase[disk.status] /\ Finished' = Finished

\* What is finished grows.
LEMMA FinishedGrows ==
    ASSUME TypeOK, NodesOK, RunsOK, AheadOK, [Next]_vars
    PROVE  Finished \subseteq Finished' /\ Finished' \subseteq Nodes \ Returnable
  BY DoneStep DEF Finished, Done

\* The nodes alone decide what is finished.
LEMMA FinishedOf ==
    ASSUME disk'.nodes = disk.nodes
    PROVE  Finished' = Finished
  BY DEF Finished

\* A completed run has passed every node.
LEMMA CompletedIsFinished ==
    ASSUME TypeOK, NEW r \in RunIds, Finish(r), Outcome(r) = "completed"
    PROVE  Finished' = Nodes \ Returnable
  BY FinishFile DEF Outcome, Passed, Finished

\* A waiting task that waits on after a restart is as it was: its nodes are neither
\* running nor without a deadline.
LEMMA WaitingRecovery ==
    ASSUME TypeOK, NodesOK, SettledOK, Recovering, disk.status = "retry_waiting"
    PROVE  /\ disk'.status \in {"retry_waiting", "resume_pending"}
           /\ Finished' = Finished
  <1>1. \A n \in Nodes : disk'.nodes[n] = RecoverNode(n, disk.nodes[n])
    BY DEF Recovering, RecoverTask
  <1>2. PICK n \in Nodes : disk.nodes[n].status = "retry_waiting"
    BY DEF SettledOK, WaitingOK
  <1>3. disk.nodes[n].deadline /\ RecoverNode(n, disk.nodes[n]) = disk.nodes[n]
    BY <1>2, NodesOKParts DEF NodeOK, RecoverNode
  <1>4. disk'.status \in {"retry_waiting", "resume_pending"}
    BY <1>1, <1>2, <1>3 DEF Recovering, RecoverTask
  <1>5. ASSUME NEW m \in Nodes PROVE Done(disk'.nodes[m]) <=> Done(disk.nodes[m])
    <2>1. disk.nodes[m].status # "running"
      BY DEF SettledOK, FileSettled
    <2>2. CASE disk.nodes[m].status = "waiting_approval"
      <3>1. Interrupted(disk.nodes[m]) \in NodeState
        BY NodeOperatorTypes DEF TypeOK, Task
      <3>2. Reissue(Interrupted(disk.nodes[m])).status = "pending"
        BY <3>1 DEF Reissue, NodeState
      <3> QED
        BY <1>1, <2>2, <3>2 DEF RecoverNode, Done
    <2>3. CASE disk.nodes[m].status # "waiting_approval"
      BY <1>1, <2>1, <2>3, NodesOKParts DEF RecoverNode, NodeOK
    <2> QED
      BY <2>2, <2>3
  <1> QED
    BY <1>4, <1>5 DEF Finished

\* Every step of the task is one of the lifecycle, or changes nothing of it.
LEMMA LifecycleStep ==
    ASSUME TypeOK, NodesOK, RunsOK, AheadOK, SettledOK, [Next]_vars, [Orderly]_vars
    PROVE  Lifecycle!Next \/ Stutters
  <1> USE DEF Phase
  <1>0. Finished \subseteq Finished' /\ Finished' \subseteq Nodes \ Returnable
    BY FinishedGrows
  <1>00. \A r \in Alive : r \in RunIds /\ disk.status = "running" /\ mem[r].status = "running"
    BY DEF RunsOK, AloneOK, Alive
  <1>1. CASE disk' = disk
    BY <1>1, FinishedOf DEF Stutters
  <1>2. CASE Saving
    <2>1. disk.status = "running" /\ disk'.status = "running"
      BY <1>00, <1>2 DEF Saving
    <2>2. Lifecycle!Progress
      BY <1>0, <2>1 DEF Lifecycle!Progress, Lifecycle!Grow, Finished
    <2> QED
      BY <2>2 DEF Lifecycle!Next
  <1>3. CASE Ending
    <2>1. PICK r \in Alive : Finish(r)
      BY <1>3 DEF Ending
    <2>2. disk.status = "running" /\ disk'.status = Outcome(r)
      BY <1>00, <2>1, FinishFile
    <2>3. CASE Outcome(r) = "completed"
      <3>1. Finished' = Nodes \ Returnable
        BY <1>00, <2>1, <2>3, CompletedIsFinished
      <3>2. Lifecycle!Complete
        BY <2>2, <2>3, <3>1 DEF Lifecycle!Complete, Lifecycle!Move, Finished
      <3> QED
        BY <3>2 DEF Lifecycle!Next
    <2>4. CASE Outcome(r) = "retry_waiting"
      <3>1. Lifecycle!Wait
        BY <1>0, <2>2, <2>4 DEF Lifecycle!Wait, Lifecycle!Move, Lifecycle!Grow, Finished
      <3> QED
        BY <3>1 DEF Lifecycle!Next
    <2>5. CASE Outcome(r) = "failed"
      <3>1. Lifecycle!Fail
        BY <1>0, <2>2, <2>5 DEF Lifecycle!Fail, Lifecycle!Move, Lifecycle!Grow, Finished
      <3> QED
        BY <3>1 DEF Lifecycle!Next
    <2> QED
      BY <2>3, <2>4, <2>5 DEF Outcome
  <1>4. CASE FailingToBegin
    <2>1. disk.status = "running" /\ disk'.status = "failed"
      BY <1>00, <1>4 DEF FailingToBegin, BeginFails, TypeOK, Task
    <2>2. Lifecycle!Fail
      BY <1>0, <2>1 DEF Lifecycle!Fail, Lifecycle!Move, Lifecycle!Grow, Finished
    <2> QED
      BY <2>2 DEF Lifecycle!Next
  <1>5. CASE Starting
    <2>1. disk'.status = "running" /\ disk'.nodes = disk.nodes
      BY <1>5 DEF Starting, TypeOK, Task
    <2>2. Finished' = Finished
      BY <2>1, FinishedOf
    <2>3. CASE disk.status = "resume_pending"
      BY <2>1, <2>2, <2>3 DEF Stutters
    <2>4. CASE disk.status # "resume_pending"
      <3>1. Lifecycle!Start
        BY <1>5, <2>1, <2>2, <2>4 DEF Starting, Lifecycle!Start, Lifecycle!Move, Finished
      <3> QED
        BY <3>1 DEF Lifecycle!Next
    <2> QED
      BY <2>3, <2>4
  <1>6. CASE Stopping
    <2>1. Lifecycle!Stop
      BY <1>0, <1>6 DEF Stopping, Lifecycle!Stop, Lifecycle!Move, Lifecycle!Grow, Finished
    <2> QED
      BY <2>1 DEF Lifecycle!Next
  <1>7. CASE Discarding
    <2>1. disk.status = "pending" /\ disk'.status = "absent" /\ Finished' = Finished
      BY <1>7, FinishedOf DEF Discarding, TypeOK, Task
    <2>2. Lifecycle!Discard
      BY <2>1 DEF Lifecycle!Discard, Lifecycle!Move, Finished
    <2> QED
      BY <2>2 DEF Lifecycle!Next
  <1>8. CASE Resuming
    <2>1. Lifecycle!Resume
      BY <1>0, <1>8 DEF Resuming, Lifecycle!Resume, Lifecycle!Move, Lifecycle!Grow, Finished
    <2> QED
      BY <2>1 DEF Lifecycle!Next
  <1>9. CASE Recovering
    <2>1. disk'.status \in {"resume_pending", "retry_waiting", "failed"}
          /\ (disk.status = "resume_pending" => disk'.status = "resume_pending")
          /\ disk.status \in {"running", "retry_waiting", "resume_pending"}
      BY <1>9 DEF Recovering, RecoverTask
    <2>2. CASE disk.status = "retry_waiting"
      <3>1. disk'.status \in {"retry_waiting", "resume_pending"} /\ Finished' = Finished
        BY <1>9, <2>2, WaitingRecovery
      <3>2. disk'.status = "resume_pending" => Lifecycle!Resume
        BY <1>0, <2>2 DEF Lifecycle!Resume, Lifecycle!Move, Lifecycle!Grow, Finished
      <3> QED
        BY <2>2, <3>1, <3>2 DEF Stutters, Lifecycle!Next
    <2>3. CASE disk.status # "retry_waiting" /\ disk'.status = "resume_pending"
      <3>1. Lifecycle!Progress
        BY <1>0, <2>1, <2>3 DEF Lifecycle!Progress, Lifecycle!Grow, Finished
      <3> QED
        BY <3>1 DEF Lifecycle!Next
    <2>4. CASE disk.status = "running" /\ disk'.status = "retry_waiting"
      <3>1. Lifecycle!Wait
        BY <1>0, <2>4 DEF Lifecycle!Wait, Lifecycle!Move, Lifecycle!Grow, Finished
      <3> QED
        BY <3>1 DEF Lifecycle!Next
    <2>5. CASE disk.status = "running" /\ disk'.status = "failed"
      <3>1. Lifecycle!Fail
        BY <1>0, <2>5 DEF Lifecycle!Fail, Lifecycle!Move, Lifecycle!Grow, Finished
      <3> QED
        BY <3>1 DEF Lifecycle!Next
    <2> QED
      BY <2>1, <2>2, <2>3, <2>4, <2>5
  <1> QED
    BY <1>1, <1>2, <1>3, <1>4, <1>5, <1>6, <1>7, <1>8, <1>9, FileSteps

\* The task file implements the lifecycle a user is promised: whichever handler,
\* run, timer or recovery wrote it last, a completed, stopped or discarded task is
\* never touched again, a failed one leaves only through node control, a waiting one
\* only through its retries, a user or a stop, completed means that every node is
\* done, and done nodes stay done unless a judge or an approver may return their work.
THEOREM ImplementsTaskLifecycle == Spec /\ [][Orderly]_vars => ImplementsLifecycle
  <1>1. Init => Lifecycle!Init
    BY DEF Init, NewTask, Fresh, Done, Phase, Lifecycle!Init
  <1>2. TypeOK /\ NodesOK /\ RunsOK /\ AheadOK /\ SettledOK /\ [Next]_vars
        /\ [Orderly]_vars => [Lifecycle!Next]_(Lifecycle!vars)
    BY LifecycleStep DEF Stutters, Finished, Lifecycle!vars
  <1> QED
    BY <1>1, <1>2, TypeCorrect, NodesCorrect, RunsCorrect, AheadCorrect,
       SettledCorrect, OrderlyIsUndivided, PTL DEF Spec, ImplementsLifecycle, Lifecycle!Spec
==============================================================================
