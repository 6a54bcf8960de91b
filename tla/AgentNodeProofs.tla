-------------------------- MODULE AgentNodeProofs --------------------------
(***************************************************************************)
(* What an agent's node passes on has been approved: a proof of            *)
(* AgentNode!OnlyApprovedPasses, for any number of attempts, reports,      *)
(* refusals, repairs and faults, without assumptions on the constants.     *)
(*                                                                         *)
(* The property speaks of the moment at which the node is completed, but   *)
(* what decides about it happened before: who was asked about which report, *)
(* and whose answer the waiter took.  Beside each other stand the closures *)
(* of the attempts (att), the runs of _handle_approval (waiters) and the   *)
(* engine's entry for the node (slot); Asking says how the three fit as    *)
(* long as there is no excuse, and NotAsking what a node without approvals *)
(* never does.                                                             *)
(*                                                                         *)
(* Then ChildFlow, the node that runs a workflow: ChildrenRunOnce and      *)
(* ChildrenCanBeRetried, by ChildInv, from the same kind of argument: what *)
(* each write of the task file does to each child's state.                 *)
(***************************************************************************)
EXTENDS AgentNode, SequenceTheorems, TLAPS

CONSTANTS Drafts, Unchosen, Approvers, Retries, MaxAgain
VARIABLES drawn, disk, task, run, kept, lost, trouble, again
Sub == INSTANCE ChildFlow WITH Asking <- Approvers, excuse <- lost, faults <- trouble

Statuses == {"pending", "running", "waiting_approval", "completed", "failed"}
Attempts ==
    [agent : {"working", "over", "deaf"}, status : Statuses, refused : Nat, kept : BOOLEAN,
     result : Nat, ok : BOOLEAN, called : BOOLEAN, done : BOOLEAN]
Files ==
    [status : Statuses, attempt : Nat, refused : Nat, kept : BOOLEAN, reissue : BOOLEAN,
     result : Nat, live : BOOLEAN]
\* A waiter is as the code makes it, whatever number it got.
IsWaiter(w) ==
    w \in [n : {w.n}, k : Nat, report : Nat, at : {"new", "sending", "waiting"}, woken : BOOLEAN]

Shape ==
    /\ asks \in BOOLEAN /\ excuse \in BOOLEAN
    /\ file \in Files
    /\ att \in Seq(Attempts)
    /\ exec \in [at : {"none", "asking", "waiting", "output"}, k : Nat, repairs : Nat]
    /\ exec.at # "none" => exec.k \in DOMAIN att
    /\ \A w \in waiters : IsWaiter(w) /\ w.k \in DOMAIN att
    /\ slot \in [waiter : {slot.waiter}, answer : {"none", "yes", "no"}]
    /\ reports \in Nat

\* An approval is issued again when nothing else of the node is alive.
ReissueOK ==
    file.reissue =>
        /\ file.status = "pending" /\ exec.at = "none" /\ waiters = {}
        /\ \A k \in DOMAIN att : att[k].agent # "working"

\* The engine writes the output of an attempt that is done.
OutputOK == exec.at = "output" => att[exec.k].done

\* At most one approval is under way, and it is about what its attempt
\* reported last.  The entry under the node's key is that approval's, an
\* approval that was woken has been answered, and what was answered with yes
\* is approved; so is what a finished attempt passes on.
Asking ==
    /\ \A v, w \in waiters : v = w
    /\ \A w \in waiters : w.report = att[w.k].result
    /\ slot.waiter # 0 => \E w \in waiters : w.n = slot.waiter /\ w.at # "new"
    /\ \A w \in waiters : w.woken =>
          /\ slot.waiter = w.n /\ w.at # "new" /\ slot.answer # "none"
          /\ slot.answer = "yes" => w.report \in approved
    /\ \A k \in DOMAIN att : att[k].done /\ att[k].ok => att[k].result \in approved
AskingOK == asks /\ ~excuse => Asking

\* Nobody waits for an approval, and an attempt is done when its turn is over.
NotAsking ==
    /\ waiters = {} /\ file.status # "waiting_approval" /\ ~file.reissue
    /\ \A k \in DOMAIN att : att[k].done => att[k].agent = "over"
    /\ file.status = "completed" => file.attempt \in DOMAIN att
NotAskingOK == ~asks => NotAsking

IInv == Shape /\ ReissueOK /\ OutputOK /\ AskingOK /\ NotAskingOK /\ OnlyApprovedPasses

-----------------------------------------------------------------------------
(* Types                                                                   *)

\* One attempt replaced, with what of it is replaced by something of its type.
LEMMA ReplacedAttempt ==
    ASSUME NEW s \in Seq(Attempts), NEW k \in DOMAIN s, NEW a \in Attempts
    PROVE  /\ [s EXCEPT ![k] = a] \in Seq(Attempts)
           /\ DOMAIN [s EXCEPT ![k] = a] = DOMAIN s
           /\ [s EXCEPT ![k] = a][k] = a
           /\ \A j \in DOMAIN s : j # k => [s EXCEPT ![k] = a][j] = s[j]
BY ExceptSeq, LenProperties

\* One attempt more.
LEMMA AddedAttempt ==
    ASSUME NEW s \in Seq(Attempts), NEW a \in Attempts
    PROVE  /\ Append(s, a) \in Seq(Attempts)
           /\ Len(s) + 1 \in Nat
           /\ DOMAIN Append(s, a) = DOMAIN s \cup {Len(s) + 1}
           /\ Len(s) + 1 \notin DOMAIN s
           /\ Append(s, a)[Len(s) + 1] = a
           /\ \A j \in DOMAIN s : Append(s, a)[j] = s[j]
<1>1. Len(s) \in Nat /\ DOMAIN s = 1 .. Len(s)
  BY LenProperties
<1>2. /\ Append(s, a) \in Seq(Attempts)
      /\ Len(Append(s, a)) = Len(s) + 1
      /\ \A j \in 1 .. Len(s) : Append(s, a)[j] = s[j]
      /\ Append(s, a)[Len(s) + 1] = a
  BY AppendProperties
<1>3. DOMAIN Append(s, a) = 1 .. Len(s) + 1
  BY <1>1, <1>2, LenProperties
<1> QED
  BY <1>1, <1>2, <1>3


\* What a step leaves of the attempts when it touches attempt k only.
Touches(k, a) ==
    /\ a \in Attempts
    /\ att' \in Seq(Attempts)
    /\ DOMAIN att' = DOMAIN att
    /\ att'[k] = a
    /\ \A j \in DOMAIN att : j # k => att'[j] = att[j]

\* A step that replaces an attempt by one of the same kind touches it only.
LEMMA Touched ==
    ASSUME Shape, NEW k \in DOMAIN att, NEW a \in Attempts, att' = [att EXCEPT ![k] = a]
    PROVE  Touches(k, a)
BY ReplacedAttempt DEF Shape, Touches


-----------------------------------------------------------------------------
(* The runs of _handle_approval                                            *)

\* An approval is registered and saved before it is sent.
LEMMA RegistersKeeps ==
    ASSUME IInv, NEW w \in waiters, Registers(w)
    PROVE  IInv'
<1> DEFINE a == [att[w.k] EXCEPT !.status = "waiting_approval", !.kept = TRUE]
           v == [w EXCEPT !.at = "sending"]
<1>1. IsWaiter(w) /\ w.k \in DOMAIN att /\ att[w.k] \in Attempts
  BY ElementOfSeq, LenProperties DEF IInv, Shape
<1>2. /\ a \in Attempts
      /\ a.agent = att[w.k].agent /\ a.status = "waiting_approval" /\ a.result = att[w.k].result
      /\ (a.ok <=> att[w.k].ok) /\ (a.done <=> att[w.k].done)
  BY <1>1 DEF Attempts, Statuses
<1>3. att' = [att EXCEPT ![w.k] = a]
  BY <1>1 DEF Registers
<1>4. /\ IsWaiter(v) /\ v.n = w.n /\ v.k = w.k /\ v.report = w.report /\ v.at = "sending"
      /\ (v.woken <=> w.woken)
  BY <1>1 DEF IsWaiter
<1>5. waiters' = (waiters \ {w}) \cup {v} /\ w.at = "new"
  BY DEF Registers, Becomes
<1> HIDE DEF a, v
<1>6. Touches(w.k, a)
  BY <1>1, <1>2, <1>3, Touched DEF IInv
<1>7. file' \in Files /\ file'.status = "waiting_approval" /\ ~file'.reissue
  BY <1>1, <1>2, <1>6 DEF Registers, Written, Touches, Files, Attempts, Statuses, IsWaiter
<1>8. slot' = [waiter |-> w.n, answer |-> "none"]
  BY DEF Registers
<1>Shape. Shape'
  BY <1>4, <1>5, <1>6, <1>7 DEF IInv, Shape, Registers, Touches
<1>R. ReissueOK'
  BY <1>7 DEF ReissueOK
<1>O. OutputOK'
  BY DEF IInv, Shape, OutputOK, Registers
<1>A. AskingOK'
  BY <1>1, <1>4, <1>5 DEF IInv, AskingOK, Asking, Registers
<1>N. NotAskingOK'
  BY DEF IInv, NotAskingOK, NotAsking, Registers
<1>P. OnlyApprovedPasses'
  BY <1>7 DEF OnlyApprovedPasses
<1> QED
  BY <1>Shape, <1>R, <1>O, <1>A, <1>N, <1>P DEF IInv

\* The request for an approval is sent.
LEMMA SendsKeeps ==
    ASSUME IInv, NEW w \in waiters, Sends(w)
    PROVE  IInv'
<1> DEFINE v == [w EXCEPT !.at = "waiting"]
<1>1. IsWaiter(w) /\ w.k \in DOMAIN att /\ att[w.k] \in Attempts
  BY ElementOfSeq, LenProperties DEF IInv, Shape
<1>2. /\ IsWaiter(v) /\ v.n = w.n /\ v.k = w.k /\ v.report = w.report /\ v.at = "waiting"
      /\ (v.woken <=> w.woken)
  BY <1>1 DEF IsWaiter
<1>3. waiters' = (waiters \ {w}) \cup {v} /\ w.at = "sending"
  BY DEF Sends, Becomes
<1> HIDE DEF v
<1>Shape. Shape'
  BY <1>2, <1>3 DEF IInv, Shape, Sends
<1>R. ReissueOK'
  BY DEF IInv, ReissueOK, Sends
<1>O. OutputOK'
  BY DEF IInv, OutputOK, Sends
<1>A. AskingOK'
  BY <1>2, <1>3 DEF IInv, AskingOK, Asking, Sends
<1>N. NotAskingOK'
  BY DEF IInv, NotAskingOK, NotAsking, Sends
<1>P. OnlyApprovedPasses'
  BY DEF IInv, OnlyApprovedPasses, Sends
<1> QED
  BY <1>Shape, <1>R, <1>O, <1>A, <1>N, <1>P DEF IInv

\* The request cannot be sent, and the attempt fails.
LEMMA NotSentKeeps ==
    ASSUME IInv, NEW w \in waiters, NotSent(w)
    PROVE  IInv'
<1> DEFINE a == [att[w.k] EXCEPT !.status = "failed", !.ok = FALSE, !.done = TRUE]
<1>1. IsWaiter(w) /\ w.k \in DOMAIN att /\ att[w.k] \in Attempts
  BY ElementOfSeq, LenProperties DEF IInv, Shape
<1>2. /\ a \in Attempts
      /\ a.agent = att[w.k].agent /\ a.status = "failed" /\ a.result = att[w.k].result
      /\ ~a.ok /\ a.done
  BY <1>1 DEF Attempts, Statuses
<1>3. att' = [att EXCEPT ![w.k] = a]
  BY <1>1 DEF NotSent
<1> HIDE DEF a
<1>4. Touches(w.k, a)
  BY <1>1, <1>2, <1>3, Touched DEF IInv
<1>5. file' \in Files /\ file'.status = "failed" /\ ~file'.reissue
  BY <1>1, <1>2, <1>4 DEF NotSent, Written, Touches, Files, Attempts, Statuses, IsWaiter
<1>6. waiters' = waiters \ {w} /\ slot' = NoSlot
  BY DEF NotSent, Leaves
<1>Shape. Shape'
  BY <1>4, <1>5, <1>6 DEF IInv, Shape, NotSent, Touches, NoSlot
<1>R. ReissueOK'
  BY <1>5 DEF ReissueOK
<1>O. OutputOK'
  BY DEF IInv, Shape, OutputOK, NotSent
<1>A. AskingOK'
  BY <1>6 DEF IInv, AskingOK, Asking, NotSent, NoSlot
<1>N. NotAskingOK'
  BY DEF IInv, NotAskingOK, NotAsking, NotSent
<1>P. OnlyApprovedPasses'
  BY <1>5 DEF OnlyApprovedPasses
<1> QED
  BY <1>Shape, <1>R, <1>O, <1>A, <1>N, <1>P DEF IInv

\* An answer, or none where one was expected, passes the report.
LEMMA PassesKeeps ==
    ASSUME IInv, NEW w \in waiters, Passes(w)
    PROVE  IInv'
<1> DEFINE a == [att[w.k] EXCEPT !.done = TRUE]
<1>1. IsWaiter(w) /\ w.k \in DOMAIN att /\ att[w.k] \in Attempts
  BY ElementOfSeq, LenProperties DEF IInv, Shape
<1>2. /\ a \in Attempts
      /\ a.agent = att[w.k].agent /\ a.status = att[w.k].status /\ a.result = att[w.k].result
      /\ (a.ok <=> att[w.k].ok) /\ a.done
  BY <1>1 DEF Attempts, Statuses
<1>3. att' = [att EXCEPT ![w.k] = a]
  BY <1>1 DEF Passes
<1> HIDE DEF a
<1>4. Touches(w.k, a)
  BY <1>1, <1>2, <1>3, Touched DEF IInv
<1>5. waiters' = waiters \ {w} /\ slot' = NoSlot
  BY DEF Passes, Leaves
<1>Shape. Shape'
  BY <1>4, <1>5 DEF IInv, Shape, Passes, Touches, NoSlot
<1>R. ReissueOK'
  BY DEF IInv, ReissueOK, Passes
<1>O. OutputOK'
  BY DEF IInv, OutputOK, Passes
<1>A. AskingOK'
  BY <1>5 DEF IInv, Shape, AskingOK, Asking, Passes, NoSlot
<1>N. NotAskingOK'
  BY DEF IInv, NotAskingOK, NotAsking, Passes
<1>P. OnlyApprovedPasses'
  BY DEF IInv, OnlyApprovedPasses, Passes
<1> QED
  BY <1>Shape, <1>R, <1>O, <1>A, <1>N, <1>P DEF IInv

\* Nobody answers in time, which excuses the report.
LEMMA ApprovalTimeoutKeeps ==
    ASSUME IInv, NEW w \in waiters, ApprovalTimeout(w)
    PROVE  IInv'
<1> DEFINE a == [att[w.k] EXCEPT !.done = TRUE]
<1>1. IsWaiter(w) /\ w.k \in DOMAIN att /\ att[w.k] \in Attempts
  BY ElementOfSeq, LenProperties DEF IInv, Shape
<1>2. /\ a \in Attempts
      /\ a.agent = att[w.k].agent /\ a.status = att[w.k].status /\ a.result = att[w.k].result
      /\ (a.ok <=> att[w.k].ok) /\ a.done
  BY <1>1 DEF Attempts, Statuses
<1>3. att' = [att EXCEPT ![w.k] = a]
  BY <1>1 DEF ApprovalTimeout
<1> HIDE DEF a
<1>4. Touches(w.k, a)
  BY <1>1, <1>2, <1>3, Touched DEF IInv
<1>5. waiters' = waiters \ {w} /\ slot' = NoSlot
  BY DEF ApprovalTimeout, Leaves
<1>Shape. Shape'
  BY <1>4, <1>5 DEF IInv, Shape, ApprovalTimeout, Touches, NoSlot
<1>R. ReissueOK'
  BY DEF IInv, ReissueOK, ApprovalTimeout
<1>O. OutputOK'
  BY DEF IInv, OutputOK, ApprovalTimeout
<1>A. AskingOK'
  BY DEF AskingOK, ApprovalTimeout
<1>N. NotAskingOK'
  BY DEF IInv, NotAskingOK, NotAsking, ApprovalTimeout
<1>P. OnlyApprovedPasses'
  BY DEF IInv, OnlyApprovedPasses, ApprovalTimeout
<1> QED
  BY <1>Shape, <1>R, <1>O, <1>A, <1>N, <1>P DEF IInv

\* An attempt ends with a status and is put in the file with it; nothing runs.
LEMMA Ended ==
    ASSUME Shape, NEW k \in DOMAIN att, NEW status \in Statuses, Ends(k, status)
    PROVE  \E a \in Attempts :
              /\ Touches(k, a)
              /\ a.agent = att[k].agent /\ a.result = att[k].result
              /\ (a.ok <=> att[k].ok) /\ (a.done <=> att[k].done)
              /\ file' \in Files
              /\ file'.status = status /\ file'.attempt = k /\ file'.result = att[k].result
              /\ ~file'.reissue
              /\ exec' = NoExec
<1> DEFINE a == [att[k] EXCEPT !.status = status]
<1>1. att[k] \in Attempts /\ k \in Nat
  BY ElementOfSeq, LenProperties DEF Shape
<1>2. /\ a \in Attempts
      /\ a.agent = att[k].agent /\ a.status = status /\ a.result = att[k].result
      /\ (a.ok <=> att[k].ok) /\ (a.done <=> att[k].done)
  BY <1>1 DEF Attempts
<1>3. att' = [att EXCEPT ![k] = a]
  BY <1>1 DEF Ends
<1> HIDE DEF a
<1>4. Touches(k, a)
  BY <1>1, <1>2, <1>3, Touched
<1>5. /\ file' \in Files
      /\ file'.status = status /\ file'.attempt = k /\ file'.result = att[k].result
      /\ ~file'.reissue
  BY <1>1, <1>2, <1>4 DEF Ends, Written, Touches, Files, Attempts
<1> QED
  BY <1>2, <1>4, <1>5 DEF Ends

\* The approval cannot be saved: its waiter ends, or the node if it awaited it.
LEMMA NotSavedKeeps ==
    ASSUME IInv, NEW w \in waiters, NotSaved(w)
    PROVE  IInv'
<1>1. IsWaiter(w) /\ w.k \in DOMAIN att /\ att[w.k] \in Attempts
  BY ElementOfSeq, LenProperties DEF IInv, Shape
<1>2. /\ waiters' = waiters \ {w} /\ slot' = NoSlot
      /\ UNCHANGED <<asks, approved, excuse, reports>>
  BY DEF NotSaved, Leaves
<1>3. \E a \in Attempts :
         /\ Touches(w.k, a)
         /\ a.agent = att[w.k].agent /\ a.result = att[w.k].result
         /\ (a.ok <=> att[w.k].ok) /\ (a.done <=> att[w.k].done)
         /\ file' \in Files
         /\ \/ file'.status = "failed" /\ ~file'.reissue /\ exec' = NoExec
            \/ UNCHANGED <<file, exec>>
  <2>1. CASE exec.at = "asking" /\ exec.k = w.k
    <3>1. Ends(w.k, "failed")
      BY <2>1 DEF NotSaved
    <3> QED
      BY <1>1, <3>1, Ended DEF IInv, Statuses
  <2>2. CASE ~(exec.at = "asking" /\ exec.k = w.k)
    <3> DEFINE a == [att[w.k] EXCEPT !.status = "waiting_approval", !.kept = TRUE]
    <3>1. /\ a \in Attempts
          /\ a.agent = att[w.k].agent /\ a.result = att[w.k].result
          /\ (a.ok <=> att[w.k].ok) /\ (a.done <=> att[w.k].done)
      BY <1>1 DEF Attempts, Statuses
    <3>2. att' = [att EXCEPT ![w.k] = a] /\ UNCHANGED <<file, exec>>
      BY <1>1, <2>2 DEF NotSaved
    <3> HIDE DEF a
    <3>3. Touches(w.k, a)
      BY <1>1, <3>1, <3>2, Touched DEF IInv
    <3> QED
      BY <3>1, <3>2, <3>3 DEF IInv, Shape
  <2> QED
    BY <2>1, <2>2
<1>Shape. Shape'
  BY <1>2, <1>3 DEF IInv, Shape, Touches, NoSlot, NoExec
<1>R. ReissueOK'
  BY <1>3 DEF IInv, ReissueOK
<1>O. OutputOK'
  BY <1>3 DEF IInv, Shape, OutputOK, Touches, NoExec
<1>A. AskingOK'
  BY <1>2, <1>3 DEF IInv, ReissueOK, AskingOK, Asking, NotAskingOK, NotSaved, Touches, NoSlot
<1>N. NotAskingOK'
  BY <1>2 DEF IInv, NotAskingOK, NotAsking
<1>P. OnlyApprovedPasses'
  BY <1>2, <1>3 DEF IInv, NotAskingOK, NotAsking, OnlyApprovedPasses
<1> QED
  BY <1>Shape, <1>R, <1>O, <1>A, <1>N, <1>P DEF IInv

\* A refusal sends the agent back to work, unless there were too many.
LEMMA RefusedKeeps ==
    ASSUME IInv, NEW w \in waiters, Refused(w)
    PROVE  IInv'
<1>1. IsWaiter(w) /\ w.k \in DOMAIN att /\ att[w.k] \in Attempts
  BY ElementOfSeq, LenProperties DEF IInv, Shape
<1>2. /\ waiters' = waiters \ {w} /\ slot' = NoSlot
      /\ UNCHANGED <<asks, exec, approved, reports>>
      /\ w.at = "waiting"
  BY DEF Refused, Leaves
<1>3. PICK a \in Attempts :
         /\ Touches(w.k, a)
         /\ a.result = att[w.k].result
         /\ (a.ok <=> att[w.k].ok) /\ (att[w.k].done => a.done)
         /\ \/ excuse' = TRUE /\ UNCHANGED file
            \/ /\ excuse' = excuse
               /\ (a.done <=> att[w.k].done)
               /\ file' \in Files /\ file'.status = "running" /\ ~file'.reissue
  <2>1. att[w.k].refused + 1 \in Nat
    BY <1>1 DEF Attempts
  <2>2. PICK count \in Nat : count = att[w.k].refused + 1
    BY <2>1
  <2>3. PICK forced \in BOOLEAN : forced <=> count >= MaxRejectionCount
    BY Zenon
  <2>4. att[w.k].agent \in {"working", "over", "deaf"} /\ att[w.k].status \in Statuses
    BY <1>1 DEF Attempts
  <2>5. /\ att' = [att EXCEPT ![w.k].refused = count, ![w.k].done = @ \/ forced,
                     ![w.k].status = IF forced THEN @ ELSE "running",
                     ![w.k].agent = IF forced \/ att[w.k].agent = "deaf" THEN @ ELSE "working"]
        /\ excuse' = (excuse \/ forced)
        /\ IF forced THEN UNCHANGED file ELSE Written(w.k, exec.k = w.k)
    BY <2>2, <2>3, Zenon DEF Refused
  <2>6. excuse \in BOOLEAN
    BY DEF IInv, Shape
  <2>7. CASE forced
    <3> DEFINE a == [att[w.k] EXCEPT !.refused = count, !.done = TRUE]
    <3>1. /\ a \in Attempts /\ a.result = att[w.k].result
          /\ (a.ok <=> att[w.k].ok) /\ a.done
      BY <1>1 DEF Attempts, Statuses
    <3>2. att' = [att EXCEPT ![w.k] = a] /\ excuse' = TRUE /\ UNCHANGED file
      BY <1>1, <2>5, <2>6, <2>7 DEF Attempts
    <3> HIDE DEF a
    <3>3. Touches(w.k, a)
      BY <1>1, <3>1, <3>2, Touched DEF IInv
    <3> QED
      BY <3>1, <3>2, <3>3
  <2>8. CASE ~forced
    <3>1. PICK agent \in {"working", "over", "deaf"} :
             agent = IF att[w.k].agent = "deaf" THEN att[w.k].agent ELSE "working"
      BY <2>4
    <3> DEFINE a == [att[w.k] EXCEPT !.refused = count, !.done = @ \/ forced,
                        !.status = "running", !.agent = agent]
    <3>2. /\ a \in Attempts /\ a.result = att[w.k].result /\ a.status = "running"
          /\ (a.ok <=> att[w.k].ok) /\ (a.done <=> att[w.k].done)
      BY <1>1, <2>8 DEF Attempts, Statuses
    <3>3. att' = [att EXCEPT ![w.k] = a] /\ excuse' = excuse
      BY <1>1, <2>5, <2>6, <2>8, <3>1 DEF Attempts
    <3> HIDE DEF a
    <3>4. Touches(w.k, a)
      BY <1>1, <3>2, <3>3, Touched DEF IInv
    <3>5. Written(w.k, exec.k = w.k)
      BY <2>5, <2>8
    <3>6. file' \in Files /\ file'.status = "running" /\ ~file'.reissue
      BY <1>1, <3>2, <3>4, <3>5 DEF Written, Touches, Files, Attempts, Statuses, IsWaiter
    <3> QED
      BY <3>2, <3>3, <3>4, <3>6
  <2> QED
    BY <2>7, <2>8
<1>Shape. Shape'
  BY <1>2, <1>3 DEF IInv, Shape, Touches, NoSlot
<1>R. ReissueOK'
  BY <1>3 DEF IInv, ReissueOK
<1>O. OutputOK'
  BY <1>2, <1>3 DEF IInv, Shape, OutputOK, Touches
<1>A. AskingOK'
  <2>1. CASE excuse' = TRUE
    BY <2>1 DEF AskingOK
  <2>2. CASE excuse' = excuse /\ (a.done <=> att[w.k].done)
    <3> SUFFICES ASSUME asks, ~excuse
                 PROVE  Asking'
      BY <1>2, <2>2 DEF AskingOK
    <3>1. Asking /\ waiters' = {}
      BY <1>2 DEF IInv, AskingOK, Asking
    <3>2. \A k \in DOMAIN att' : att'[k].done /\ att'[k].ok => att'[k].result \in approved
      BY <1>1, <1>3, <2>2, <3>1 DEF Touches, Asking
    <3> QED
      BY <1>2, <3>1, <3>2 DEF Asking, NoSlot
  <2> QED
    BY <1>3, <2>1, <2>2
<1>N. NotAskingOK'
  BY <1>2 DEF IInv, NotAskingOK, NotAsking
<1>P. OnlyApprovedPasses'
  BY <1>2, <1>3 DEF IInv, NotAskingOK, NotAsking, OnlyApprovedPasses
<1> QED
  BY <1>Shape, <1>R, <1>O, <1>A, <1>N, <1>P DEF IInv

\* Somebody answers: whoever registered last is woken.
LEMMA DecideKeeps ==
    ASSUME IInv, NEW answer \in {"yes", "no"}, Decide(answer)
    PROVE  IInv'
<1> DEFINE Woken(w) == [w EXCEPT !.woken = @ \/ w.n = slot.waiter]
<1>1. /\ slot' = [slot EXCEPT !.answer = answer]
      /\ slot.waiter # 0
      /\ UNCHANGED <<asks, file, att, exec, excuse, reports>>
      /\ waiters' = {Woken(w) : w \in waiters}
      /\ approved' = approved \cup (IF answer = "no" THEN {}
                                   ELSE {w.report : w \in {v \in waiters : v.n = slot.waiter}})
  BY DEF Decide
<1>2. /\ slot' \in [waiter : {slot'.waiter}, answer : {"none", "yes", "no"}]
      /\ slot'.waiter = slot.waiter /\ slot'.answer = answer
  BY <1>1 DEF IInv, Shape
<1>3. \A w \in waiters :
         LET v == Woken(w)
         IN  /\ IsWaiter(v) /\ v.n = w.n /\ v.k = w.k /\ v.report = w.report /\ v.at = w.at
             /\ v.woken <=> w.woken \/ w.n = slot.waiter
  BY DEF IInv, Shape, IsWaiter
<1> HIDE DEF Woken
<1>4. \A v \in waiters' : \E w \in waiters :
         /\ v = Woken(w)
         /\ IsWaiter(v) /\ v.n = w.n /\ v.k = w.k /\ v.report = w.report /\ v.at = w.at
         /\ v.woken <=> w.woken \/ w.n = slot.waiter
  BY <1>1, <1>3
<1>5. approved \subseteq approved'
  BY <1>1
<1>6. answer = "yes" => \A w \in waiters : w.n = slot.waiter => w.report \in approved'
  BY <1>1
<1>7. waiters = {} => waiters' = {}
  BY <1>1
<1>Shape. Shape'
  BY <1>1, <1>4 DEF IInv, Shape
<1>R. ReissueOK'
  BY <1>1 DEF IInv, ReissueOK
<1>O. OutputOK'
  BY <1>1 DEF IInv, OutputOK
<1>A. AskingOK'
  <2> SUFFICES ASSUME asks, ~excuse
               PROVE  Asking'
    BY <1>1 DEF AskingOK
  <2>1. Asking
    BY DEF IInv, AskingOK
  <2>2. \A v, w \in waiters' : v = w
    BY <1>4, <2>1 DEF Asking
  <2>3. \A w \in waiters' : w.report = att'[w.k].result
    BY <1>1, <1>4, <2>1 DEF Asking
  <2>4. PICK w \in waiters : w.n = slot.waiter /\ w.at # "new"
    BY <1>1, <2>1 DEF Asking
  <2>5. /\ Woken(w) \in waiters' /\ Woken(w).n = slot'.waiter /\ Woken(w).at # "new"
        /\ Woken(w).report = w.report
    BY <1>1, <1>2, <1>3, <2>4
  <2>6. \A v \in waiters' : v = Woken(w)
    BY <2>2, <2>5
  <2>7. \A v \in waiters' : v.woken =>
           /\ slot'.waiter = v.n /\ v.at # "new" /\ slot'.answer # "none"
           /\ slot'.answer = "yes" => v.report \in approved'
    BY <1>2, <1>6, <2>4, <2>5, <2>6
  <2>8. \A k \in DOMAIN att' : att'[k].done /\ att'[k].ok => att'[k].result \in approved'
    BY <1>1, <1>5, <2>1 DEF Asking
  <2> QED
    BY <2>2, <2>3, <2>5, <2>7, <2>8 DEF Asking
<1>N. NotAskingOK'
  BY <1>1 DEF IInv, NotAskingOK, NotAsking
<1>P. OnlyApprovedPasses'
  BY <1>1 DEF IInv, OnlyApprovedPasses
<1> QED
  BY <1>Shape, <1>R, <1>O, <1>A, <1>N, <1>P DEF IInv

-----------------------------------------------------------------------------
(* execute                                                                 *)

\* A new attempt with what it starts from.
LEMMA NewAttempt ==
    ASSUME Shape, NEW agent \in {"working", "over", "deaf"}
    PROVE  /\ Attempt(agent) \in Attempts
           /\ Attempt(agent).agent = agent /\ ~Attempt(agent).done /\ Attempt(agent).result = 0
           /\ Len(att) + 1 \in Nat
BY LenProperties DEF Shape, Attempt, Attempts, Statuses, Files

\* What a step leaves of the attempts when it adds one.
Adds(a) ==
    /\ a \in Attempts
    /\ att' \in Seq(Attempts)
    /\ Len(att) + 1 \in Nat
    /\ DOMAIN att' = DOMAIN att \cup {Len(att) + 1}
    /\ Len(att) + 1 \notin DOMAIN att
    /\ att'[Len(att) + 1] = a
    /\ \A j \in DOMAIN att : att'[j] = att[j]

\* A step that appends an attempt adds one and leaves the others.
LEMMA Added ==
    ASSUME Shape, NEW a \in Attempts, att' = Append(att, a)
    PROVE  Adds(a)
BY AddedAttempt DEF Shape, Adds

\* Where an attempt keeps what it passes on, the approvals do not notice.
LEMMA AskingKept ==
    ASSUME AskingOK, \A w \in waiters : w.k \in DOMAIN att,
           UNCHANGED <<asks, waiters, slot, approved, excuse>>,
           NEW k \in DOMAIN att, NEW a, Touches(k, a),
           a.result = att[k].result, a.ok <=> att[k].ok, a.done <=> att[k].done
    PROVE  AskingOK'
<1> SUFFICES ASSUME Asking
             PROVE  Asking'
  BY DEF AskingOK
<1>1. \A w \in waiters' : w.report = att'[w.k].result
  BY DEF Asking, Touches
<1>2. \A j \in DOMAIN att' : att'[j].done /\ att'[j].ok => att'[j].result \in approved'
  BY DEF Asking, Touches
<1> QED
  BY <1>1, <1>2 DEF Asking

\* An attempt begins.
LEMMA BeginKeeps ==
    ASSUME IInv, Begin
    PROVE  IInv'
<1>1. PICK a \in Attempts : Adds(a) /\ ~a.done /\ a.agent = "working"
  BY NewAttempt, Added DEF IInv, Begin
<1>2. PICK n \in Nat : n = Len(att) + 1
  BY <1>1 DEF Adds
<1>3. /\ file' \in Files /\ file'.status = "running"
      /\ (file'.reissue <=> file.reissue)
  <2>1. file' = [file EXCEPT !.status = "running", !.attempt = n, !.kept = FALSE, !.live = TRUE]
    BY <1>2 DEF Begin
  <2>2. file \in Files
    BY DEF IInv, Shape
  <2> QED
    BY <2>1, <2>2 DEF Files, Statuses
<1>4. /\ exec' \in [at : {"none", "asking", "waiting", "output"}, k : Nat, repairs : Nat]
      /\ exec'.at = "waiting" /\ exec'.k = n
  BY <1>2 DEF Begin, NoExec
<1>Shape. Shape'
  BY <1>1, <1>3, <1>4 DEF IInv, Shape, Begin, Adds
<1>R. ReissueOK'
  BY DEF ReissueOK, Begin
<1>O. OutputOK'
  BY <1>4 DEF OutputOK
<1>A. AskingOK'
  BY <1>1 DEF IInv, Shape, AskingOK, Asking, Begin, Adds
<1>N. NotAskingOK'
  BY <1>1 DEF IInv, NotAskingOK, NotAsking, Begin, Adds
<1>P. OnlyApprovedPasses'
  BY <1>3 DEF OnlyApprovedPasses
<1> QED
  BY <1>Shape, <1>R, <1>O, <1>A, <1>N, <1>P DEF IInv

\* An attempt fails before it has a session.
LEMMA NoSessionKeeps ==
    ASSUME IInv, NoSession
    PROVE  IInv'
<1>1. PICK a \in Attempts : Adds(a) /\ ~a.done /\ a.agent = "over"
  <2> DEFINE a == [Attempt("over") EXCEPT !.status = "failed"]
  <2>1. a \in Attempts /\ ~a.done /\ a.agent = "over"
    BY NewAttempt DEF IInv, Attempts, Statuses
  <2>2. att' = Append(att, a)
    BY DEF NoSession
  <2> HIDE DEF a
  <2> QED
    BY <2>1, <2>2, Added DEF IInv
<1>2. PICK n \in Nat : n = Len(att) + 1
  BY <1>1 DEF Adds
<1>3. /\ file' \in Files /\ file'.status = "failed"
      /\ (file'.reissue <=> file.reissue)
  <2>1. file' = [file EXCEPT !.status = "failed", !.attempt = n, !.live = FALSE]
    BY <1>2 DEF NoSession
  <2>2. file \in Files
    BY DEF IInv, Shape
  <2> QED
    BY <2>1, <2>2 DEF Files, Statuses
<1>4. exec.at = "none" /\ ~file.reissue /\ UNCHANGED <<asks, exec, waiters, slot, approved, excuse, reports>>
  BY DEF NoSession
<1>Shape. Shape'
  BY <1>1, <1>3, <1>4 DEF IInv, Shape, Adds
<1>R. ReissueOK'
  BY <1>3, <1>4 DEF ReissueOK
<1>O. OutputOK'
  BY <1>4 DEF OutputOK
<1>A. AskingOK'
  BY <1>1, <1>4 DEF IInv, Shape, AskingOK, Asking, Adds
<1>N. NotAskingOK'
  BY <1>1, <1>3, <1>4 DEF IInv, NotAskingOK, NotAsking, Adds
<1>P. OnlyApprovedPasses'
  BY <1>3 DEF OnlyApprovedPasses
<1> QED
  BY <1>Shape, <1>R, <1>O, <1>A, <1>N, <1>P DEF IInv

\* The approval that was issued again is settled.
LEMMA AskedKeeps ==
    ASSUME IInv, Asked
    PROVE  IInv'
<1>1. /\ exec' \in [at : {"none", "asking", "waiting", "output"}, k : Nat, repairs : Nat]
      /\ exec'.at = "waiting" /\ exec'.k = exec.k
  BY DEF IInv, Shape, Asked
<1>Shape. Shape'
  BY DEF IInv, Shape, Asked
<1>R. ReissueOK'
  BY DEF IInv, ReissueOK, Asked
<1>O. OutputOK'
  BY <1>1 DEF OutputOK
<1>A. AskingOK'
  BY DEF IInv, AskingOK, Asking, Asked
<1>N. NotAskingOK'
  BY DEF IInv, NotAskingOK, NotAsking, Asked
<1>P. OnlyApprovedPasses'
  BY DEF IInv, OnlyApprovedPasses, Asked
<1> QED
  BY <1>Shape, <1>R, <1>O, <1>A, <1>N, <1>P DEF IInv

\* An output that cannot be read is sent back.
LEMMA RepairsKeeps ==
    ASSUME IInv, Repairs
    PROVE  IInv'
<1>1. /\ exec' \in [at : {"none", "asking", "waiting", "output"}, k : Nat, repairs : Nat]
      /\ exec'.at = exec.at /\ exec'.k = exec.k
  BY DEF IInv, Shape, Repairs
<1>Shape. Shape'
  BY DEF IInv, Shape, Repairs
<1>R. ReissueOK'
  BY DEF IInv, ReissueOK, Repairs
<1>O. OutputOK'
  BY DEF IInv, OutputOK, Repairs
<1>A. AskingOK'
  BY DEF IInv, AskingOK, Asking, Repairs
<1>N. NotAskingOK'
  BY DEF IInv, NotAskingOK, NotAsking, Repairs
<1>P. OnlyApprovedPasses'
  BY DEF IInv, OnlyApprovedPasses, Repairs
<1> QED
  BY <1>Shape, <1>R, <1>O, <1>A, <1>N, <1>P DEF IInv

\* The output cannot be saved.
LEMMA CannotSaveKeeps ==
    ASSUME IInv, CannotSave
    PROVE  IInv'
<1>1. exec.k \in DOMAIN att
  BY DEF IInv, Shape, CannotSave
<1>2. PICK a \in Attempts :
         /\ Touches(exec.k, a)
         /\ a.agent = att[exec.k].agent /\ a.result = att[exec.k].result
         /\ (a.ok <=> att[exec.k].ok) /\ (a.done <=> att[exec.k].done)
         /\ file' \in Files /\ file'.status = "failed" /\ ~file'.reissue
         /\ exec' = NoExec
  BY <1>1, Ended DEF IInv, CannotSave, Statuses
<1>3. UNCHANGED <<asks, waiters, slot, approved, excuse, reports>>
  BY DEF CannotSave
<1>Shape. Shape'
  BY <1>2, <1>3 DEF IInv, Shape, Touches, NoExec
<1>R. ReissueOK'
  BY <1>2 DEF ReissueOK
<1>O. OutputOK'
  BY <1>2 DEF OutputOK, NoExec
<1>A. AskingOK'
  BY <1>1, <1>2, <1>3, AskingKept DEF IInv, Shape
<1>N. NotAskingOK'
  BY <1>2, <1>3 DEF IInv, NotAskingOK, NotAsking, Touches
<1>P. OnlyApprovedPasses'
  BY <1>2 DEF OnlyApprovedPasses
<1> QED
  BY <1>Shape, <1>R, <1>O, <1>A, <1>N, <1>P DEF IInv

\* The node has taken too long.
LEMMA NodeTimeoutKeeps ==
    ASSUME IInv, NodeTimeout
    PROVE  IInv'
<1>1. exec.k \in DOMAIN att
  BY DEF IInv, Shape, NodeTimeout
<1>2. PICK a \in Attempts :
         /\ Touches(exec.k, a)
         /\ a.agent = att[exec.k].agent /\ a.result = att[exec.k].result
         /\ (a.ok <=> att[exec.k].ok) /\ (a.done <=> att[exec.k].done)
         /\ file' \in Files /\ file'.status = "failed" /\ ~file'.reissue
         /\ exec' = NoExec
  BY <1>1, Ended DEF IInv, NodeTimeout, Statuses
<1>3. UNCHANGED <<asks, waiters, slot, approved, excuse, reports>>
  BY DEF NodeTimeout
<1>Shape. Shape'
  BY <1>2, <1>3 DEF IInv, Shape, Touches, NoExec
<1>R. ReissueOK'
  BY <1>2 DEF ReissueOK
<1>O. OutputOK'
  BY <1>2 DEF OutputOK, NoExec
<1>A. AskingOK'
  BY <1>1, <1>2, <1>3, AskingKept DEF IInv, Shape
<1>N. NotAskingOK'
  BY <1>2, <1>3 DEF IInv, NotAskingOK, NotAsking, Touches
<1>P. OnlyApprovedPasses'
  BY <1>2 DEF OnlyApprovedPasses
<1> QED
  BY <1>Shape, <1>R, <1>O, <1>A, <1>N, <1>P DEF IInv

\* The output is saved, and the node is completed if its attempt went well.
LEMMA SavesKeeps ==
    ASSUME IInv, Saves
    PROVE  IInv'
<1>1. exec.k \in DOMAIN att /\ att[exec.k].done /\ exec.k \in Nat
  BY DEF IInv, Shape, OutputOK, Saves
<1>2. PICK status \in {"completed", "failed"} :
         (status = "completed" => att[exec.k].ok) /\ Ends(exec.k, status)
  BY DEF Saves
<1>3. PICK a \in Attempts :
         /\ Touches(exec.k, a)
         /\ a.agent = att[exec.k].agent /\ a.result = att[exec.k].result
         /\ (a.ok <=> att[exec.k].ok) /\ (a.done <=> att[exec.k].done)
         /\ file' \in Files /\ file'.status = status /\ ~file'.reissue
         /\ file'.attempt = exec.k /\ file'.result = att[exec.k].result
         /\ exec' = NoExec
  BY <1>1, <1>2, Ended DEF IInv, Statuses
<1>4. UNCHANGED <<asks, waiters, slot, approved, excuse, reports>>
  BY DEF Saves
<1>Shape. Shape'
  BY <1>3, <1>4 DEF IInv, Shape, Touches, NoExec
<1>R. ReissueOK'
  BY <1>3 DEF ReissueOK
<1>O. OutputOK'
  BY <1>3 DEF OutputOK, NoExec
<1>A. AskingOK'
  BY <1>1, <1>3, <1>4, AskingKept DEF IInv, Shape
<1>N. NotAskingOK'
  BY <1>1, <1>3, <1>4 DEF IInv, ReissueOK, NotAskingOK, NotAsking, Touches
<1>P. OnlyApprovedPasses'
  BY <1>1, <1>2, <1>3, <1>4 DEF IInv, AskingOK, Asking, NotAskingOK, NotAsking, OnlyApprovedPasses, Touches
<1> QED
  BY <1>Shape, <1>R, <1>O, <1>A, <1>N, <1>P DEF IInv

\* The attempt is done: there is an output to save, or the node fails.
LEMMA AwakesKeeps ==
    ASSUME IInv, Awakes
    PROVE  IInv'
<1>1. UNCHANGED <<asks, waiters, slot, approved, excuse, reports>> /\ exec.k \in DOMAIN att /\ att[exec.k].done
  BY DEF IInv, Shape, Awakes
<1>2. \/ /\ UNCHANGED <<file, att>>
         /\ exec' \in [at : {"none", "asking", "waiting", "output"}, k : Nat, repairs : Nat]
         /\ exec.at = "waiting" /\ exec'.at = "output" /\ exec'.k = exec.k
      \/ \E a \in Attempts :
            /\ Touches(exec.k, a)
            /\ a.agent = att[exec.k].agent /\ a.result = att[exec.k].result
            /\ (a.ok <=> att[exec.k].ok) /\ (a.done <=> att[exec.k].done)
            /\ file' \in Files /\ file'.status = "failed" /\ ~file'.reissue
            /\ exec' = NoExec
  <2>1. CASE att[exec.k].ok
    BY <2>1 DEF Awakes, IInv, Shape
  <2>2. CASE ~att[exec.k].ok
    BY <1>1, <2>2, Ended DEF Awakes, IInv, Statuses
  <2> QED
    BY <2>1, <2>2
<1>Shape. Shape'
  BY <1>1, <1>2 DEF IInv, Shape, Touches, NoExec
<1>R. ReissueOK'
  BY <1>2 DEF IInv, ReissueOK
<1>O. OutputOK'
  BY <1>1, <1>2 DEF OutputOK, NoExec
<1>A. AskingOK'
  BY <1>1, <1>2 DEF IInv, Shape, AskingOK, Asking, NotAskingOK, IsWaiter, Touches
<1>N. NotAskingOK'
  BY <1>1, <1>2 DEF IInv, NotAskingOK, NotAsking, Touches
<1>P. OnlyApprovedPasses'
  BY <1>1, <1>2 DEF IInv, OnlyApprovedPasses
<1> QED
  BY <1>Shape, <1>R, <1>O, <1>A, <1>N, <1>P DEF IInv

\* A user has the node tried again.
LEMMA UserRetriesKeeps ==
    ASSUME IInv, UserRetries
    PROVE  IInv'
<1>1. /\ file' \in Files /\ file'.status = "pending"
      /\ (file'.reissue <=> file.reissue)
  <2>1. file \in Files
    BY DEF IInv, Shape
  <2> QED
    BY <2>1 DEF UserRetries, Files, Statuses
<1>2. ~file.reissue
  BY DEF IInv, ReissueOK, UserRetries
<1>Shape. Shape'
  BY <1>1 DEF IInv, Shape, UserRetries
<1>R. ReissueOK'
  BY <1>1, <1>2 DEF ReissueOK
<1>O. OutputOK'
  BY DEF OutputOK, UserRetries
<1>A. AskingOK'
  BY DEF IInv, AskingOK, Asking, UserRetries
<1>N. NotAskingOK'
  BY DEF IInv, NotAskingOK, NotAsking, UserRetries
<1>P. OnlyApprovedPasses'
  BY <1>1 DEF OnlyApprovedPasses
<1> QED
  BY <1>Shape, <1>R, <1>O, <1>A, <1>N, <1>P DEF IInv

\* A waiter as it starts.
Starts(v, n, k, report) ==
    /\ v = [n |-> n, k |-> k, report |-> report, at |-> "new", woken |-> FALSE]
    /\ IsWaiter(v) /\ v.k = k /\ v.report = report /\ v.at = "new" /\ ~v.woken

\* There is a waiter that starts with any number, for any attempt and report.
LEMMA NewWaiter ==
    ASSUME NEW n, NEW k \in Nat, NEW report \in Nat
    PROVE  \E v : Starts(v, n, k, report)
<1> DEFINE v == [n |-> n, k |-> k, report |-> report, at |-> "new", woken |-> FALSE]
<1>1. IsWaiter(v) /\ v.k = k /\ v.report = report /\ v.at = "new" /\ ~v.woken
  BY DEF IsWaiter
<1>2. Starts(v, n, k, report)
  BY <1>1 DEF Starts
<1> QED
  BY <1>2

\* An agent reports, and the session of the workflow is asked about it.
LEMMA ReportKeeps ==
    ASSUME IInv, NEW k \in DOMAIN att, NEW ok \in BOOLEAN, Report(k, ok)
    PROVE  IInv'
<1>1. att[k] \in Attempts /\ k \in Nat /\ att[k].agent = "working"
  BY ElementOfSeq, LenProperties DEF IInv, Shape, Report
<1>2. PICK r \in Nat : r = reports + 1
  BY DEF IInv, Shape
<1> DEFINE a == [att[k] EXCEPT !.result = r, !.ok = ok, !.called = TRUE]
<1>3. /\ a \in Attempts
      /\ a.agent = "working" /\ a.result = r
      /\ (a.done <=> att[k].done)
  BY <1>1 DEF Attempts
<1>4. att' = [att EXCEPT ![k] = a]
  BY <1>1, <1>2 DEF Report
<1> HIDE DEF a
<1>5. Touches(k, a)
  BY <1>1, <1>3, <1>4, Touched DEF IInv
<1>6. reports' = r /\ UNCHANGED <<asks, file, exec, slot, approved>>
  BY <1>2 DEF Report
<1>7. ~file.reissue
  BY <1>1 DEF IInv, ReissueOK
<1>8. CASE asks
  <2>1. PICK n : waiters' = waiters \cup {[n |-> n, k |-> k, report |-> r, at |-> "new", woken |-> FALSE]}
    BY <1>2, <1>8 DEF Report, Opens
  <2>2. excuse' = (excuse \/ waiters # {} \/ att[k].done)
    BY <1>8 DEF Report
  <2>3. PICK v : Starts(v, n, k, r)
    BY <1>1, NewWaiter
  <2>4. waiters' = waiters \cup {v}
    BY <2>1, <2>3 DEF Starts
  <2>5. Shape'
    BY <1>3, <1>5, <1>6, <2>2, <2>3, <2>4 DEF IInv, Shape, Touches, IsWaiter, Starts
  <2>6. ReissueOK'
    BY <1>6, <1>7 DEF ReissueOK
  <2>7. OutputOK'
    BY <1>3, <1>5, <1>6 DEF IInv, Shape, OutputOK, Touches
  <2>8. AskingOK'
    <3> SUFFICES ASSUME ~excuse'
                 PROVE  Asking'
      BY DEF AskingOK
    <3>1. Asking /\ waiters = {} /\ ~att[k].done
      BY <1>8, <2>2 DEF IInv, AskingOK
    <3>2. waiters' = {v}
      BY <2>4, <3>1
    <3>3. v.report = att'[v.k].result
      BY <1>3, <1>5, <2>3 DEF Touches, Starts
    <3>4. slot'.waiter = 0
      BY <1>6, <3>1 DEF Asking
    <3>5. \A j \in DOMAIN att' : att'[j].done /\ att'[j].ok => att'[j].result \in approved'
      BY <1>3, <1>5, <1>6, <3>1 DEF Touches, Asking
    <3> QED
      BY <2>3, <3>2, <3>3, <3>4, <3>5 DEF Asking, Starts
  <2>9. NotAskingOK'
    BY <1>6, <1>8 DEF NotAskingOK
  <2>10. OnlyApprovedPasses'
    BY <1>6, <1>8, <2>2 DEF IInv, Shape, OnlyApprovedPasses
  <2> QED
    BY <2>5, <2>6, <2>7, <2>8, <2>9, <2>10 DEF IInv
<1>9. CASE ~asks
  <2>1. UNCHANGED <<waiters, excuse>>
    BY <1>9 DEF Report
  <2>2. Shape'
    BY <1>3, <1>5, <1>6, <2>1 DEF IInv, Shape, Touches, IsWaiter
  <2>3. ReissueOK'
    BY <1>6, <1>7 DEF ReissueOK
  <2>4. OutputOK'
    BY <1>3, <1>5, <1>6 DEF IInv, Shape, OutputOK, Touches
  <2>5. AskingOK'
    BY <1>6, <1>9 DEF AskingOK
  <2>6. NotAskingOK'
    BY <1>1, <1>3, <1>5, <1>6, <1>9, <2>1 DEF IInv, NotAskingOK, NotAsking, Touches
  <2>7. OnlyApprovedPasses'
    BY <1>1, <1>3, <1>5, <1>6, <1>9 DEF IInv, NotAskingOK, NotAsking, OnlyApprovedPasses, Touches
  <2> QED
    BY <2>2, <2>3, <2>4, <2>5, <2>6, <2>7 DEF IInv
<1> QED
  BY <1>8, <1>9

\* The agent's turn is over.
LEMMA AgentEndsKeeps ==
    ASSUME IInv, NEW k \in DOMAIN att, NEW ok \in BOOLEAN, AgentEnds(k, ok)
    PROVE  IInv'
<1>1. att[k] \in Attempts /\ UNCHANGED <<asks, file, exec, waiters, slot, approved, excuse, reports>>
  BY ElementOfSeq, LenProperties DEF IInv, Shape, AgentEnds
<1>2. PICK a \in Attempts :
         /\ Touches(k, a)
         /\ a.agent = "over" /\ a.result = att[k].result
         /\ att[k].done => a.done
         /\ asks => (a.ok <=> att[k].ok) /\ (a.done <=> att[k].done)
  <2>1. CASE asks
    <3> DEFINE a == [att[k] EXCEPT !.agent = "over"]
    <3>1. /\ a \in Attempts /\ a.agent = "over" /\ a.result = att[k].result
          /\ (a.ok <=> att[k].ok) /\ (a.done <=> att[k].done)
      BY <1>1 DEF Attempts
    <3>2. att' = [att EXCEPT ![k] = a]
      BY <1>1, <2>1 DEF AgentEnds, TurnEnds
    <3> HIDE DEF a
    <3>3. Touches(k, a)
      BY <3>1, <3>2, Touched DEF IInv
    <3> QED
      BY <3>1, <3>3
  <2>2. CASE ~asks
    <3>1. att[k].ok \in BOOLEAN
      BY <1>1 DEF Attempts
    <3>2. PICK good \in BOOLEAN : good = IF att[k].called THEN att[k].ok ELSE ok
      BY <3>1, Zenon
    <3> DEFINE a == [att[k] EXCEPT !.agent = "over", !.done = TRUE, !.called = TRUE, !.ok = good]
    <3>3. a \in Attempts /\ a.agent = "over" /\ a.result = att[k].result /\ a.done
      BY <1>1 DEF Attempts
    <3>4. att' = [att EXCEPT ![k] = a]
      BY <1>1, <2>2, <3>2 DEF AgentEnds, TurnEnds
    <3> HIDE DEF a
    <3>5. Touches(k, a)
      BY <3>3, <3>4, Touched DEF IInv
    <3> QED
      BY <2>2, <3>3, <3>5
  <2> QED
    BY <2>1, <2>2
<1>Shape. Shape'
  BY <1>1, <1>2 DEF IInv, Shape, Touches
<1>R. ReissueOK'
  BY <1>1, <1>2 DEF IInv, ReissueOK, Touches
<1>O. OutputOK'
  BY <1>1, <1>2 DEF IInv, Shape, OutputOK, Touches
<1>A. AskingOK'
  <2>1. CASE asks
    BY <1>1, <1>2, <2>1, AskingKept DEF IInv, Shape
  <2>2. CASE ~asks
    BY <1>1, <2>2 DEF AskingOK
  <2> QED
    BY <2>1, <2>2
<1>N. NotAskingOK'
  BY <1>1, <1>2 DEF IInv, NotAskingOK, NotAsking, Touches
<1>P. OnlyApprovedPasses'
  BY <1>1, <1>2 DEF IInv, NotAskingOK, NotAsking, OnlyApprovedPasses, Touches
<1> QED
  BY <1>Shape, <1>R, <1>O, <1>A, <1>N, <1>P DEF IInv

\* The approval a restart interrupted is asked about once more.
LEMMA ReissueKeeps ==
    ASSUME IInv, Reissue
    PROVE  IInv'
<1>1. PICK n \in Nat : n = Len(att) + 1
  BY NewAttempt DEF IInv
<1>2. PICK a \in Attempts : Adds(a) /\ ~a.done /\ a.result = file.result
  <2> DEFINE a == [Attempt("deaf") EXCEPT !.kept = TRUE, !.result = file.result]
  <2>1. file.result \in Nat
    BY DEF IInv, Shape, Files
  <2>2. a \in Attempts /\ ~a.done /\ a.result = file.result
    BY <2>1, NewAttempt DEF IInv, Attempts
  <2>3. att' = Append(att, a)
    BY DEF Reissue
  <2> HIDE DEF a
  <2> QED
    BY <2>2, <2>3, Added DEF IInv
<1>3. /\ file' \in Files /\ file'.status = "running" /\ ~file'.reissue
  <2>1. file' = [file EXCEPT !.status = "running", !.attempt = n, !.reissue = FALSE, !.live = TRUE]
    BY <1>1 DEF Reissue
  <2>2. file \in Files
    BY DEF IInv, Shape
  <2> QED
    BY <2>1, <2>2 DEF Files, Statuses
<1>4. /\ exec' \in [at : {"none", "asking", "waiting", "output"}, k : Nat, repairs : Nat]
      /\ exec'.at = "asking" /\ exec'.k = n
  BY <1>1 DEF Reissue, NoExec
<1>5. waiters = {} /\ UNCHANGED <<asks, slot, approved, excuse, reports>>
  BY DEF IInv, ReissueOK, Reissue
<1>6. PICK m : waiters' = {[n |-> m, k |-> n, report |-> file.result, at |-> "new", woken |-> FALSE]}
  BY <1>1, <1>5 DEF Reissue, Opens
<1>7. PICK v : Starts(v, m, n, file.result)
  <2>1. file.result \in Nat
    BY DEF IInv, Shape, Files
  <2> QED
    BY <2>1, NewWaiter
<1>8. waiters' = {v}
  BY <1>6, <1>7 DEF Starts
<1>9. asks
  BY DEF IInv, NotAskingOK, NotAsking, Reissue
<1>Shape. Shape'
  BY <1>1, <1>2, <1>3, <1>4, <1>5, <1>7, <1>8 DEF IInv, Shape, Adds, Starts
<1>R. ReissueOK'
  BY <1>3 DEF ReissueOK
<1>O. OutputOK'
  BY <1>4 DEF OutputOK
<1>A. AskingOK'
  BY <1>1, <1>2, <1>5, <1>7, <1>8 DEF IInv, AskingOK, Asking, Adds, Starts
<1>N. NotAskingOK'
  BY <1>5, <1>9 DEF NotAskingOK
<1>P. OnlyApprovedPasses'
  BY <1>3 DEF OnlyApprovedPasses
<1> QED
  BY <1>Shape, <1>R, <1>O, <1>A, <1>N, <1>P DEF IInv

\* The program dies and starts again.
LEMMA CrashKeeps ==
    ASSUME IInv, Crash
    PROVE  IInv'
<1>1. att' = [k \in DOMAIN att |-> [att[k] EXCEPT !.agent = "over"]]
  BY DEF Crash
<1>2. \A k \in DOMAIN att :
         /\ att'[k] \in Attempts
         /\ att'[k].agent = "over" /\ att'[k].result = att[k].result
         /\ (att'[k].ok <=> att[k].ok) /\ (att'[k].done <=> att[k].done)
  <2> TAKE k \in DOMAIN att
  <2>1. att[k] \in Attempts
    BY ElementOfSeq, LenProperties DEF IInv, Shape
  <2>2. att'[k] = [att[k] EXCEPT !.agent = "over"]
    BY <1>1
  <2> QED
    BY <2>1, <2>2 DEF Attempts
<1>3. DOMAIN att' = DOMAIN att /\ att' \in Seq(Attempts)
  <2>1. Len(att) \in Nat /\ DOMAIN att = 1 .. Len(att)
    BY LenProperties DEF IInv, Shape
  <2>2. att' \in [1 .. Len(att) -> Attempts]
    BY <1>1, <1>2, <2>1
  <2> QED
    BY <1>1, <2>1, <2>2, SeqDef
<1>4. /\ file' \in Files
      /\ file'.reissue => file'.status = "pending"
      /\ file'.status = "completed" => file' = file
      /\ file.status = "completed" => file' = file
      /\ file'.status = "waiting_approval" => file' = file
      /\ file'.reissue => file.reissue \/ file.status = "waiting_approval"
  <2>1. file \in Files /\ (file.reissue => file.status = "pending")
    BY DEF IInv, Shape, ReissueOK
  <2>2. CASE file.live /\ file.status = "running"
    <3>1. file' = [file EXCEPT !.status = "failed", !.live = FALSE]
      BY <2>2 DEF Crash
    <3> QED
      BY <2>1, <2>2, <3>1 DEF Files, Statuses
  <2>3. CASE file.live /\ file.status = "waiting_approval"
    <3>1. file' = [file EXCEPT !.status = "pending", !.reissue = file.kept]
      BY <2>3 DEF Crash
    <3> QED
      BY <2>1, <2>3, <3>1 DEF Files, Statuses
  <2>4. CASE ~(file.live /\ file.status = "running") /\ ~(file.live /\ file.status = "waiting_approval")
    <3>1. file' = file
      BY <2>4 DEF Crash
    <3> QED
      BY <2>1, <3>1
  <2> QED
    BY <2>2, <2>3, <2>4
<1>5. /\ exec' = NoExec /\ waiters' = {} /\ slot' = NoSlot
      /\ UNCHANGED <<asks, approved, excuse, reports>>
  BY DEF Crash
<1>Shape. Shape'
  BY <1>3, <1>4, <1>5 DEF IInv, Shape, NoExec, NoSlot
<1>R. ReissueOK'
  BY <1>2, <1>3, <1>4, <1>5 DEF ReissueOK, NoExec
<1>O. OutputOK'
  BY <1>5 DEF OutputOK, NoExec
<1>A. AskingOK'
  BY <1>2, <1>3, <1>5 DEF IInv, AskingOK, Asking, NoSlot
<1>N. NotAskingOK'
  BY <1>2, <1>3, <1>4, <1>5 DEF IInv, NotAskingOK, NotAsking
<1>P. OnlyApprovedPasses'
  BY <1>2, <1>4, <1>5 DEF IInv, NotAskingOK, NotAsking, OnlyApprovedPasses
<1> QED
  BY <1>Shape, <1>R, <1>O, <1>A, <1>N, <1>P DEF IInv

-----------------------------------------------------------------------------
(* The theorem                                                             *)

\* A node that has not been tried is as the invariant says.
LEMMA StartsRight == Init => IInv
<1> SUFFICES ASSUME Init
             PROVE  IInv
  OBVIOUS
<1>1. att \in Seq(Attempts) /\ DOMAIN att = {}
  BY EmptySeq, LenProperties DEF Init
<1> QED
  BY <1>1 DEF Init, Fresh, NoExec, NoSlot, IInv, Shape, ReissueOK, OutputOK, AskingOK, Asking, NotAskingOK,
              NotAsking, OnlyApprovedPasses, Files, Statuses

\* Every step keeps the invariant.
LEMMA NextKeeps ==
    ASSUME IInv, [Next]_vars
    PROVE  IInv'
<1>1. CASE UNCHANGED vars
  BY <1>1 DEF vars, IInv, Shape, ReissueOK, OutputOK, AskingOK, Asking, NotAskingOK, NotAsking,
     OnlyApprovedPasses
<1>2. CASE \E k \in DOMAIN att, ok \in BOOLEAN : Report(k, ok) \/ AgentEnds(k, ok)
  BY <1>2, ReportKeeps, AgentEndsKeeps
<1>3. CASE \E w \in waiters :
              Registers(w) \/ Sends(w) \/ NotSent(w) \/ NotSaved(w) \/ Passes(w) \/ Refused(w) \/ ApprovalTimeout(w)
  BY <1>3, RegistersKeeps, SendsKeeps, NotSentKeeps, NotSavedKeeps, PassesKeeps, RefusedKeeps,
     ApprovalTimeoutKeeps
<1>4. CASE \E answer \in {"yes", "no"} : Decide(answer)
  BY <1>4, DecideKeeps
<1>5. CASE Begin \/ NoSession \/ Reissue \/ Asked \/ Awakes \/ Saves \/ Repairs \/ CannotSave \/ NodeTimeout
  BY <1>5, BeginKeeps, NoSessionKeeps, ReissueKeeps, AskedKeeps, AwakesKeeps, SavesKeeps, RepairsKeeps,
     CannotSaveKeeps, NodeTimeoutKeeps
<1>6. CASE UserRetries \/ Crash
  BY <1>6, UserRetriesKeeps, CrashKeeps
<1> QED
  BY <1>1, <1>2, <1>3, <1>4, <1>5, <1>6 DEF Next

\* What a node of an agent passes on has been approved by somebody who was
\* asked about that very report, or for one of the reasons the code lets it
\* pass without; without approvals it is passed on when the turn is over.
THEOREM ReportsAreApproved == Spec => []OnlyApprovedPasses
<1>1. IInv => OnlyApprovedPasses
  BY DEF IInv
<1> QED
  BY <1>1, StartsRight, NextKeeps, PTL DEF Spec

-----------------------------------------------------------------------------
(* A workflow in a node, for any children, any definitions somebody saves  *)
(* meanwhile, any number of attempts, crashes, retries and iterations.     *)

KidStatuses == {"pending", "running", "waiting_approval", "retry_waiting", "completed", "failed", "skipped",
                "rejected"}
KidStates == [status : KidStatuses, attempt : Nat, auto : Nat,
              trigger : {"initial", "auto_retry", "manual_retry", "recovery_reissue", "validator_retry"},
              deadline : BOOLEAN, history : SUBSET Nat]
Resting == {"pending", "failed", "completed", "skipped"}

IsTask(t) == t \in [parent : KidStates, kids : [Sub!Everyone -> KidStates], snap : {t.snap}]
IsRun == run \in [at : {"none", "load", "plan", "step", "executing", "kidfailed"}, plan : {run.plan}, i : {run.i}]

\* A child that is at work has not completed; whoever is left out never works; and
\* without an excuse nobody else is in a state that could not be taken up again.
ChildInv ==
    /\ IsTask(disk) /\ task = disk /\ IsRun
    /\ kept \in [Sub!Everyone -> Nat]
    /\ Sub!ChildrenRunOnce
    /\ \A n \in Sub!Everyone \cap Unchosen : disk.kids[n].status \in {"pending", "skipped"}
    /\ run.at \in {"executing", "kidfailed"} => Sub!Here.node \notin Unchosen
    /\ run.at \in {"executing", "kidfailed"} /\ Sub!Here.node \in Sub!Everyone =>
          disk.kids[Sub!Here.node].status \in
              IF run.at = "executing" THEN {"running", "waiting_approval"} ELSE KidStatuses \ {"completed"}
    /\ ~lost => \A n \in Sub!Everyone :
          disk.kids[n].status \in Resting \/ (run.at = "executing" /\ n = Sub!Here.node)

-----------------------------------------------------------------------------
(* What the operators on a state make of it *)
LEMMA Begun ==
    ASSUME NEW s \in KidStates
    PROVE  Sub!Policy!BeginAttempt(s) \in KidStates /\ Sub!Policy!BeginAttempt(s).status = "running"
<1>1. PICK m \in Nat : m = s.attempt + 1
  BY DEF KidStates
<1>2. Sub!Policy!BeginAttempt(s) = [s EXCEPT !.status = "running", !.attempt = m, !.deadline = FALSE]
  BY <1>1 DEF Sub!Policy!BeginAttempt
<1> QED
  BY <1>2 DEF KidStates, KidStatuses

LEMMA Recorded ==
    ASSUME NEW s \in KidStates, NEW outcome \in KidStatuses
    PROVE  Sub!Policy!Record(s, outcome) \in KidStates /\ Sub!Policy!Record(s, outcome).status = outcome
BY DEF KidStates, KidStatuses, Sub!Policy!Record

LEMMA Interruption ==
    ASSUME NEW s \in KidStates
    PROVE  Sub!Policy!Interrupted(s) \in KidStates /\ Sub!Policy!Interrupted(s).status = "failed"
<1>1. PICK c : c = [s EXCEPT !.attempt = IF @ < 1 THEN 1 ELSE @]
  OBVIOUS
<1>2. c \in KidStates
  BY <1>1 DEF KidStates
<1>3. Sub!Policy!Interrupted(s) = Sub!Policy!Record(c, "failed")
  BY <1>1 DEF Sub!Policy!Interrupted
<1> QED
  BY <1>2, <1>3, Recorded DEF KidStatuses

LEMMA Reissued ==
    ASSUME NEW s \in KidStates
    PROVE  Sub!Policy!Reissue(s) \in KidStates /\ Sub!Policy!Reissue(s).status = "pending"
BY DEF KidStates, KidStatuses, Sub!Policy!Reissue

LEMMA PolicyApplied ==
    ASSUME NEW s \in KidStates
    PROVE  Sub!Policy!ApplyPolicy("parent", s) \in KidStates
<1>1. Sub!Policy!PrepareAutoRetry(s) \in KidStates
  <2>1. PICK m \in Nat : m = s.auto + 1
    BY DEF KidStates
  <2>2. Sub!Policy!PrepareAutoRetry(s) = [s EXCEPT !.status = "retry_waiting", !.auto = m,
                                              !.trigger = "auto_retry", !.deadline = TRUE]
    BY <2>1 DEF Sub!Policy!PrepareAutoRetry
  <2> QED
    BY <2>2 DEF KidStates, KidStatuses
<1>2. Sub!Policy!FailureSkip(s) \in KidStates
  BY DEF KidStates, KidStatuses, Sub!Policy!FailureSkip
<1> QED
  BY <1>1, <1>2 DEF Sub!Policy!ApplyPolicy

LEMMA Retried ==
    ASSUME NEW s \in KidStates
    PROVE  Sub!Policy!PrepareManualRetry(s) \in KidStates /\ Sub!Policy!ActivateRetry(s) \in KidStates
BY DEF KidStates, KidStatuses, Sub!Policy!PrepareManualRetry, Sub!Policy!ActivateRetry

LEMMA PreparedRight ==
    ASSUME NEW s \in KidStates, task \in [parent : KidStates, kids : {task.kids}, snap : {task.snap}]
    PROVE  Sub!Prepared(s) \in KidStates
<1>1. PICK m \in Nat : m = s.auto + 1
  BY DEF KidStates
<1>2. CASE s.status # "failed"
  BY <1>2 DEF Sub!Prepared
<1>3. CASE s.status = "failed" /\ task.parent.trigger = "auto_retry"
  <2>1. Sub!Prepared(s) = [s EXCEPT !.status = "pending", !.deadline = FALSE, !.auto = m, !.trigger = "auto_retry"]
    BY <1>1, <1>3 DEF Sub!Prepared, KidStates
  <2> QED
    BY <1>1, <2>1 DEF KidStates, KidStatuses
<1>4. CASE s.status = "failed" /\ task.parent.trigger # "auto_retry"
  <2>1. Sub!Prepared(s) = [s EXCEPT !.status = "pending", !.deadline = FALSE, !.auto = 0, !.trigger = "manual_retry"]
    BY <1>4 DEF Sub!Prepared, KidStates
  <2>2. PICK z \in Nat : z = 0
    OBVIOUS
  <2>3. Sub!Prepared(s) = [s EXCEPT !.status = "pending", !.deadline = FALSE, !.auto = z, !.trigger = "manual_retry"]
    BY <2>1, <2>2
  <2> QED
    BY <2>2, <2>3 DEF KidStates, KidStatuses
<1> QED
  BY <1>2, <1>3, <1>4

LEMMA KidRecoveredRight ==
    ASSUME NEW s \in KidStates
    PROVE  /\ Sub!KidRecovered(s) \in KidStates
           /\ s.status \in {"running", "waiting_approval"} => Sub!KidRecovered(s).status \in {"failed", "pending"}
           /\ s.status \notin {"running", "waiting_approval"} => Sub!KidRecovered(s) = s
BY Interruption, Reissued DEF Sub!KidRecovered

\* What Closed makes of the parent is no child's business.
LEMMA ClosedRight ==
    ASSUME NEW t, IsTask(t), NEW status \in KidStatuses
    PROVE  /\ IsTask(Sub!Closed(t, status))
           /\ Sub!Closed(t, status).kids = t.kids
<1>1. PICK s : s = Sub!Policy!Record(t.parent, status)
  OBVIOUS
<1>2. s \in KidStates
  BY <1>1, Recorded DEF IsTask
<1>3. PICK p : p = IF status = "failed" THEN Sub!Policy!ApplyPolicy("parent", s) ELSE s
  OBVIOUS
<1>4. p \in KidStates
  BY <1>2, <1>3, PolicyApplied
<1>5. Sub!Closed(t, status) = [t EXCEPT !.parent = p]
  BY <1>1, <1>3 DEF Sub!Closed
<1> QED
  BY <1>4, <1>5 DEF IsTask

LEMMA SetKidRight ==
    ASSUME IsTask(task), NEW s, Sub!Here.node \in Sub!Everyone => s \in KidStates
    PROVE  /\ IsTask(Sub!SetKid(s))
           /\ \A n \in Sub!Everyone : Sub!SetKid(s).kids[n] = IF n = Sub!Here.node THEN s ELSE task.kids[n]
BY DEF IsTask, Sub!SetKid

-----------------------------------------------------------------------------
(* The steps *)
\* What has completed stays so.
LEMMA SaveKeeps ==
    ASSUME ChildInv, Sub!Save, IsTask(task'),
           \A n \in Sub!Everyone : disk.kids[n].status = "completed" => task'.kids[n].status = "completed"
    PROVE  /\ IsTask(disk') /\ task' = disk' /\ kept' \in [Sub!Everyone -> Nat] /\ Sub!ChildrenRunOnce'
<1>1. disk' = task'
  BY DEF Sub!Save
<1>2. \A n \in Sub!Everyone : kept'[n] = IF disk'.kids[n].status = "completed" THEN 1 ELSE 0
  BY <1>1 DEF Sub!Save, ChildInv, Sub!ChildrenRunOnce
<1>3. kept' \in [Sub!Everyone -> Nat]
  BY <1>2 DEF Sub!Save
<1> QED
  BY <1>1, <1>2, <1>3 DEF Sub!ChildrenRunOnce

\* A step that ends the attempt, or leaves the children alone.
LEMMA EndsKeeps ==
    ASSUME ChildInv, NEW t, IsTask(t), NEW status \in KidStatuses, Sub!Ends(t, status),
           \A n \in Sub!Everyone : t.kids[n] = disk.kids[n], UNCHANGED lost \/ lost',
           run.at # "executing" \/ lost'
    PROVE  ChildInv'
<1>1. IsTask(task') /\ task'.kids = t.kids /\ Sub!Save /\ run' = Sub!NoRun
  BY ClosedRight DEF Sub!Ends
<1>2. IsTask(disk') /\ task' = disk' /\ kept' \in [Sub!Everyone -> Nat] /\ Sub!ChildrenRunOnce'
  BY <1>1, SaveKeeps
<1>3. IsRun' /\ run'.at = "none"
  BY <1>1 DEF Sub!NoRun, IsRun
<1> QED
  BY <1>1, <1>2, <1>3 DEF ChildInv
LEMMA ChildrenStart == Sub!Init => ChildInv
<1> SUFFICES ASSUME Sub!Init PROVE ChildInv
  OBVIOUS
<1>1. Sub!Policy!Fresh \in KidStates /\ Sub!Policy!Fresh.status = "pending"
  BY DEF Sub!Policy!Fresh, KidStates, KidStatuses
<1>2. IsTask(Sub!NewTask) /\ \A n \in Sub!Everyone : Sub!NewTask.kids[n].status = "pending"
  BY <1>1 DEF Sub!NewTask, IsTask
<1>3. IsRun /\ run.at = "none"
  BY DEF Sub!Init, Sub!NoRun, IsRun
<1> QED
  BY <1>2, <1>3 DEF Sub!Init, ChildInv, Sub!ChildrenRunOnce, Resting

LEMMA ParentBegins ==
    ASSUME ChildInv, Sub!Begins
    PROVE  ChildInv'
<1>1. PICK p : p = Sub!Policy!BeginAttempt(disk.parent)
  OBVIOUS
<1>2. p \in KidStates
  BY <1>1, Begun DEF ChildInv, IsTask
<1>3. PICK c : c = IF disk.parent.attempt = 0 \/ disk.parent.trigger = "initial" THEN <<>> ELSE disk.snap
  OBVIOUS
<1>4. task' = [disk EXCEPT !.parent = p, !.snap = c]
  BY <1>1, <1>3 DEF Sub!Begins
<1>5. IsTask(task') /\ task'.kids = disk.kids
  BY <1>2, <1>4 DEF ChildInv, IsTask
<1>6. IsTask(disk') /\ task' = disk' /\ kept' \in [Sub!Everyone -> Nat] /\ Sub!ChildrenRunOnce'
  BY <1>5, SaveKeeps DEF Sub!Begins
<1>7. IsRun' /\ run'.at = "load" /\ run.at = "none"
  BY DEF Sub!Begins, Sub!NoRun, IsRun
<1> QED
  BY <1>5, <1>6, <1>7 DEF ChildInv, Sub!Begins, Sub!GoesOn

LEMMA FreezesKeeps ==
    ASSUME ChildInv, Sub!Freezes
    PROVE  ChildInv'
<1>1. IsRun' /\ run'.at = "plan" /\ run.at = "load"
  BY DEF Sub!Freezes, ChildInv, IsRun
<1>2. /\ IsTask(disk') /\ task' = disk' /\ kept' \in [Sub!Everyone -> Nat] /\ Sub!ChildrenRunOnce'
      /\ disk'.kids = disk.kids
  <2>1. CASE task.snap = <<>>
    <3>1. PICK c : task' = [task EXCEPT !.snap = c]
      BY <2>1 DEF Sub!Freezes
    <3>2. IsTask(task') /\ task'.kids = disk.kids
      BY <3>1 DEF ChildInv, IsTask
    <3>3. disk' = task'
      BY <2>1 DEF Sub!Freezes, Sub!Save
    <3> QED
      BY <2>1, <3>2, <3>3, SaveKeeps DEF Sub!Freezes
  <2>2. CASE task.snap # <<>>
    BY <2>2 DEF Sub!Freezes, ChildInv, Sub!ChildrenRunOnce
  <2> QED
    BY <2>1, <2>2
<1> QED
  BY <1>1, <1>2 DEF ChildInv, Sub!Freezes, Sub!GoesOn

LEMMA NotFoundKeeps ==
    ASSUME ChildInv, Sub!NotFound
    PROVE  ChildInv'
BY EndsKeeps DEF Sub!NotFound, ChildInv, KidStatuses

LEMMA PlansKeeps ==
    ASSUME ChildInv, Sub!Plans
    PROVE  ChildInv'
<1>1. CASE Sub!Ends(task, "failed")
  BY <1>1, EndsKeeps DEF Sub!Plans, Sub!GoesOn, ChildInv, KidStatuses
<1>2. CASE ~Sub!Ends(task, "failed")
  <2>1. run' = [at |-> "step", plan |-> Sub!Plan(Sub!Child), i |-> 1] /\ UNCHANGED <<disk, task, kept, lost>>
    BY <1>2 DEF Sub!Plans, Sub!GoesOn
  <2>2. IsRun' /\ run'.at = "step" /\ run.at = "plan"
    BY <2>1 DEF IsRun, Sub!Plans
  <2> QED
    BY <2>1, <2>2 DEF ChildInv, Sub!ChildrenRunOnce
<1> QED
  BY <1>1, <1>2

\* A step that changes the child it stands at and goes on with the run.
LEMMA KidKeeps ==
    ASSUME ChildInv, NEW s, Sub!Save, IsTask(task'),
           \A n \in Sub!Everyone : task'.kids[n] = IF n = Sub!Here.node THEN s ELSE task.kids[n],
           Sub!Here.node \in Sub!Everyone =>
               /\ Sub!Kid.status = "completed" => s.status = "completed"
               /\ Sub!Here.node \in Unchosen => s.status = "skipped",
           IsRun', run'.at \in {"none", "step", "executing", "kidfailed"},
           run'.at \in {"executing", "kidfailed"} =>
               /\ run'.plan[run'.i] = Sub!Here /\ Sub!Here.node \notin Unchosen
               /\ Sub!Here.node \in Sub!Everyone => s.status \in
                      IF run'.at = "executing" THEN {"running", "waiting_approval"} ELSE KidStatuses \ {"completed"},
           \/ lost'
           \/ /\ ~lost
              /\ Sub!Here.node \in Sub!Everyone => s.status \in Resting \/ run'.at = "executing"
    PROVE  ChildInv'
<1>1. IsTask(task') /\ \A n \in Sub!Everyone : task'.kids[n] = IF n = Sub!Here.node THEN s ELSE disk.kids[n]
  BY DEF ChildInv
<1>2. \A n \in Sub!Everyone : disk.kids[n].status = "completed" => task'.kids[n].status = "completed"
  BY <1>1 DEF ChildInv, Sub!Kid
<1>3. IsTask(disk') /\ task' = disk' /\ kept' \in [Sub!Everyone -> Nat] /\ Sub!ChildrenRunOnce'
  BY <1>1, <1>2, SaveKeeps
<1>4. \A n \in Sub!Everyone \cap Unchosen : disk'.kids[n].status \in {"pending", "skipped"}
  BY <1>1, <1>3 DEF ChildInv
<1>5. run'.at \in {"executing", "kidfailed"} => Sub!Here' = Sub!Here
  BY DEF Sub!Here
<1>6. ~lost' => \A n \in Sub!Everyone :
          disk'.kids[n].status \in Resting \/ (run'.at = "executing" /\ n = Sub!Here'.node)
  <2> SUFFICES ASSUME ~lost', NEW n \in Sub!Everyone
               PROVE  disk'.kids[n].status \in Resting \/ (run'.at = "executing" /\ n = Sub!Here'.node)
    OBVIOUS
  <2>1. ~lost /\ (Sub!Here.node \in Sub!Everyone => s.status \in Resting \/ run'.at = "executing")
    OBVIOUS
  <2>2. CASE n = Sub!Here.node
    <3>1. disk'.kids[n] = s
      BY <1>1, <1>3, <2>2
    <3>2. run'.at = "executing" => n = Sub!Here'.node
      BY <1>5, <2>2
    <3> QED
      BY <2>1, <2>2, <3>1, <3>2
  <2>3. CASE n # Sub!Here.node
    BY <1>1, <1>3, <2>1, <2>3 DEF ChildInv
  <2> QED
    BY <2>2, <2>3
<1> QED
  BY <1>1, <1>3, <1>4, <1>5, <1>6 DEF ChildInv

\* What a step at a child starts from.
LEMMA KidIsState ==
    ASSUME ChildInv, Sub!Here.node \in Sub!Everyone
    PROVE  Sub!Kid \in KidStates /\ Sub!Kid = disk.kids[Sub!Here.node]
BY DEF ChildInv, IsTask, Sub!Kid

LEMMA StepIsRun ==
    ASSUME IsRun, NEW at \in {"step", "executing", "kidfailed"}, Sub!Step(at)
    PROVE  IsRun' /\ run'.at = at /\ run'.plan[run'.i] = Sub!Here
BY DEF IsRun, Sub!Step, Sub!Here

LEMMA NextStepIsRun ==
    ASSUME IsRun, Sub!NextStep
    PROVE  IsRun' /\ run'.at = "step"
<1>1. PICK j : j = run.i + 1
  OBVIOUS
<1>2. run' = [run EXCEPT !.at = "step", !.i = j]
  BY <1>1 DEF Sub!NextStep
<1> QED
  BY <1>2 DEF IsRun

LEMMA EndedIsRun ==
    ASSUME NEW t, NEW status, Sub!Ends(t, status)
    PROVE  IsRun' /\ run'.at = "none" /\ Sub!Save
BY DEF Sub!Ends, Sub!NoRun, IsRun

LEMMA LeavesOutKeeps ==
    ASSUME ChildInv, Sub!LeavesOut
    PROVE  ChildInv'
<1>1. PICK s : s = [Sub!Kid EXCEPT !.status = "skipped"]
  OBVIOUS
<1>2. Sub!Here.node \in Sub!Everyone => s \in KidStates /\ s.status = "skipped" /\ Sub!Kid.status \in {"pending", "skipped"}
  BY <1>1, KidIsState DEF KidStates, KidStatuses, Sub!LeavesOut, ChildInv
<1>3. task' = Sub!SetKid(s) /\ Sub!Save /\ UNCHANGED lost /\ IsTask(task)
  BY <1>1 DEF Sub!LeavesOut, Sub!GoesOn, ChildInv
<1>4. IsTask(task') /\ \A n \in Sub!Everyone : task'.kids[n] = IF n = Sub!Here.node THEN s ELSE task.kids[n]
  BY <1>2, <1>3, SetKidRight
<1>5. IsRun' /\ run'.at = "step" /\ run.at = "step"
  BY NextStepIsRun DEF Sub!LeavesOut, Sub!At, ChildInv
<1> QED
  BY <1>2, <1>3, <1>4, <1>5, KidKeeps DEF Resting

LEMMA PassesDoneKeeps ==
    ASSUME ChildInv, Sub!PassesDone
    PROVE  ChildInv'
<1>1. IsRun' /\ run'.at = "step" /\ run.at = "step"
  BY NextStepIsRun DEF Sub!PassesDone, Sub!At, ChildInv
<1> QED
  BY <1>1 DEF Sub!PassesDone, ChildInv, Sub!GoesOn, Sub!ChildrenRunOnce

LEMMA UncertainKeeps ==
    ASSUME ChildInv, Sub!Uncertain
    PROVE  ChildInv'
BY EndsKeeps DEF Sub!Uncertain, Sub!At, ChildInv, Sub!GoesOn, KidStatuses

LEMMA KidBeginsKeeps ==
    ASSUME ChildInv, Sub!KidBegins
    PROVE  ChildInv'
<1>1. PICK s : s = Sub!Policy!BeginAttempt(Sub!Prepared(Sub!Kid))
  OBVIOUS
<1>2. Sub!Here.node \in Sub!Everyone => s \in KidStates /\ s.status = "running" /\ Sub!Kid.status \in {"pending", "failed"}
  <2>1. SUFFICES ASSUME Sub!Here.node \in Sub!Everyone
                 PROVE  s \in KidStates /\ s.status = "running"
    BY DEF Sub!KidBegins
  <2>2. Sub!Kid \in KidStates /\ task \in [parent : KidStates, kids : {task.kids}, snap : {task.snap}]
    BY <2>1, KidIsState DEF ChildInv, IsTask
  <2> QED
    BY <1>1, <2>2, PreparedRight, Begun
<1>3. IsTask(Sub!SetKid(s)) /\ \A n \in Sub!Everyone : Sub!SetKid(s).kids[n] = IF n = Sub!Here.node THEN s ELSE task.kids[n]
  BY <1>2, SetKidRight DEF ChildInv
<1>4. run.at = "step" /\ Sub!Here.node \notin Unchosen /\ IsRun
  BY DEF Sub!KidBegins, Sub!At, ChildInv
<1>5. CASE task' = Sub!SetKid(s) /\ Sub!Save /\ Sub!Step("executing") /\ UNCHANGED lost
  <2>1. IsRun' /\ run'.at = "executing" /\ run'.plan[run'.i] = Sub!Here
    BY <1>4, <1>5, StepIsRun
  <2> QED
    BY <1>2, <1>3, <1>4, <1>5, <2>1, KidKeeps
<1>6. CASE Sub!Ends(Sub!SetKid(s), "failed") /\ lost'
  <2>1. IsRun' /\ run'.at = "none" /\ Sub!Save
    BY <1>6, EndedIsRun
  <2>2. IsTask(task') /\ task'.kids = Sub!SetKid(s).kids
    BY <1>3, <1>6, ClosedRight DEF Sub!Ends, KidStatuses
  <2> QED
    BY <1>2, <1>3, <1>4, <1>6, <2>1, <2>2, KidKeeps
<1> QED
  BY <1>1, <1>5, <1>6 DEF Sub!KidBegins

LEMMA KidAsksKeeps ==
    ASSUME ChildInv, Sub!KidAsks
    PROVE  ChildInv'
<1>1. PICK s : s = [Sub!Kid EXCEPT !.status = "waiting_approval"]
  OBVIOUS
<1>2. Sub!Here.node \in Sub!Everyone => s \in KidStates /\ s.status = "waiting_approval" /\ Sub!Kid.status = "running"
  BY <1>1, KidIsState DEF KidStates, KidStatuses, Sub!KidAsks
<1>3. task' = Sub!SetKid(s) /\ Sub!Save /\ UNCHANGED <<run, lost>> /\ IsTask(task)
  BY <1>1 DEF Sub!KidAsks, Sub!GoesOn, ChildInv
<1>4. IsTask(task') /\ \A n \in Sub!Everyone : task'.kids[n] = IF n = Sub!Here.node THEN s ELSE task.kids[n]
  BY <1>2, <1>3, SetKidRight
<1>5. IsRun' /\ run'.at = "executing" /\ run.at = "executing" /\ run'.plan[run'.i] = Sub!Here /\ Sub!Here.node \notin Unchosen
  BY <1>3 DEF Sub!KidAsks, ChildInv, IsRun, Sub!Here
<1> QED
  BY <1>2, <1>3, <1>4, <1>5, KidKeeps

LEMMA KidEndsKeeps ==
    ASSUME ChildInv, Sub!KidEnds
    PROVE  ChildInv'
<1>1. PICK outcome \in Sub!Outcomes :
         \/ /\ task' = Sub!SetKid(Sub!Policy!Record(Sub!Kid, outcome)) /\ Sub!Save
            /\ IF outcome = "completed" THEN Sub!NextStep ELSE Sub!Step("kidfailed")
            /\ lost' = (lost \/ outcome = "rejected")
         \/ Sub!Ends(Sub!SetKid(Sub!Policy!Record(Sub!Kid, outcome)), "failed") /\ lost' = (lost \/ outcome = "rejected")
  BY DEF Sub!KidEnds
<1>2. outcome \in KidStatuses /\ outcome \in {"completed", "failed", "rejected"}
  BY <1>1 DEF Sub!Outcomes, KidStatuses
<1>3. PICK s : s = Sub!Policy!Record(Sub!Kid, outcome)
  OBVIOUS
<1>4. Sub!Here.node \in Sub!Everyone => s \in KidStates /\ s.status = outcome /\ Sub!Kid.status # "completed"
  BY <1>2, <1>3, KidIsState, Recorded DEF ChildInv, Sub!KidEnds
<1>5. IsTask(Sub!SetKid(s)) /\ \A n \in Sub!Everyone : Sub!SetKid(s).kids[n] = IF n = Sub!Here.node THEN s ELSE task.kids[n]
  BY <1>4, SetKidRight DEF ChildInv
<1>6. run.at = "executing" /\ Sub!Here.node \notin Unchosen /\ IsRun
  BY DEF Sub!KidEnds, ChildInv
<1>7. lost' \/ (~lost /\ outcome \in Resting)
  <2>1. CASE outcome = "rejected"
    BY <1>1, <2>1
  <2>2. CASE outcome # "rejected"
    <3>1. outcome \in Resting
      BY <1>2, <2>2 DEF Resting
    <3>2. ~lost' => ~lost
      BY <1>1, <2>2
    <3> QED
      BY <3>1, <3>2
  <2> QED
    BY <2>1, <2>2
<1>8. CASE task' = Sub!SetKid(s) /\ Sub!Save /\ outcome = "completed" /\ Sub!NextStep
  <2>1. IsRun' /\ run'.at = "step"
    BY <1>6, <1>8, NextStepIsRun
  <2> QED
    BY <1>4, <1>5, <1>6, <1>7, <1>8, <2>1, KidKeeps
<1>9. CASE task' = Sub!SetKid(s) /\ Sub!Save /\ outcome # "completed" /\ Sub!Step("kidfailed")
  <2>1. IsRun' /\ run'.at = "kidfailed" /\ run'.plan[run'.i] = Sub!Here
    BY <1>6, <1>9, StepIsRun
  <2> QED
    BY <1>2, <1>4, <1>5, <1>6, <1>7, <1>9, <2>1, KidKeeps
<1>10. CASE Sub!Ends(Sub!SetKid(s), "failed")
  <2>1. IsRun' /\ run'.at = "none" /\ Sub!Save
    BY <1>10, EndedIsRun
  <2>2. IsTask(task') /\ task'.kids = Sub!SetKid(s).kids
    BY <1>5, <1>10, ClosedRight DEF Sub!Ends, KidStatuses
  <2> QED
    BY <1>4, <1>5, <1>6, <1>7, <2>1, <2>2, KidKeeps
<1> QED
  BY <1>1, <1>3, <1>8, <1>9, <1>10

LEMMA KidFailedKeeps ==
    ASSUME ChildInv, Sub!KidFailed
    PROVE  ChildInv'
<1>1. PICK s : s = [Sub!Kid EXCEPT !.status = "failed"]
  OBVIOUS
<1>2. Sub!Here.node \in Sub!Everyone => s \in KidStates /\ s.status = "failed" /\ Sub!Kid.status # "completed"
  BY <1>1, KidIsState DEF KidStates, KidStatuses, Sub!KidFailed, ChildInv
<1>3. IsTask(Sub!SetKid(s)) /\ \A n \in Sub!Everyone : Sub!SetKid(s).kids[n] = IF n = Sub!Here.node THEN s ELSE task.kids[n]
  BY <1>2, SetKidRight DEF ChildInv
<1>4. Sub!Ends(Sub!SetKid(s), "failed") /\ UNCHANGED lost /\ run.at = "kidfailed" /\ Sub!Here.node \notin Unchosen
  BY <1>1 DEF Sub!KidFailed, Sub!GoesOn, ChildInv
<1>5. IsRun' /\ run'.at = "none" /\ Sub!Save
  BY <1>4, EndedIsRun
<1>6. IsTask(task') /\ task'.kids = Sub!SetKid(s).kids
  BY <1>3, <1>4, ClosedRight DEF Sub!Ends, KidStatuses
<1> QED
  BY <1>2, <1>3, <1>4, <1>5, <1>6, KidKeeps DEF Resting

\* Choosing a way leaves children out that have not begun.
LEMMA ChoosesKeeps ==
    ASSUME ChildInv, Sub!Chooses
    PROVE  ChildInv'
<1>1. PICK t \in Sub!Candidates :
         IF Sub!Passable(t)
         THEN /\ task' = [[task EXCEPT !.snap[1].chosen[Sub!Here.id] = t] EXCEPT !.kids = [n \in Sub!Everyone |->
                    IF n \in UNION {Sub!Reach(Sub!Child, o, {Sub!Here.stop}) : o \in Sub!ToSet(Sub!Here.targets) \ {t}}
                       /\ @[n].status = "pending" THEN [@[n] EXCEPT !.status = "skipped"] ELSE @[n]]]
              /\ Sub!Save
              /\ run' = [run EXCEPT !.plan = Sub!Spliced(t), !.i = @ + 1]
         ELSE Sub!Ends([task EXCEPT !.snap[1].chosen[Sub!Here.id] = t], "failed")
  BY DEF Sub!Chooses
<1>2. PICK others : others = UNION {Sub!Reach(Sub!Child, o, {Sub!Here.stop}) : o \in Sub!ToSet(Sub!Here.targets) \ {t}}
  OBVIOUS
<1>3. PICK taken : taken = [task EXCEPT !.snap[1].chosen[Sub!Here.id] = t]
  OBVIOUS
<1>4. PICK c : c = [task.snap EXCEPT ![1].chosen[Sub!Here.id] = t]
  OBVIOUS
<1>5. taken = [task EXCEPT !.snap = c]
  BY <1>3, <1>4
<1>6. PICK p : p = Sub!Spliced(t)
  OBVIOUS
<1>7. \/ /\ task' = [taken EXCEPT !.kids = [n \in Sub!Everyone |->
                 IF n \in others /\ @[n].status = "pending" THEN [@[n] EXCEPT !.status = "skipped"] ELSE @[n]]]
         /\ Sub!Save
         /\ run' = [run EXCEPT !.plan = p, !.i = @ + 1]
      \/ Sub!Ends(taken, "failed")
  <2>1. CASE Sub!Passable(t)
    BY <1>1, <1>2, <1>3, <1>6, <2>1
  <2>2. CASE ~Sub!Passable(t)
    BY <1>1, <1>3, <2>2
  <2> QED
    BY <2>1, <2>2
<1>8. IsTask(taken) /\ taken.kids = disk.kids
  BY <1>5 DEF ChildInv, IsTask
<1>9. run.at = "step" /\ UNCHANGED lost
  BY DEF Sub!Chooses, Sub!At, Sub!GoesOn
<1>10. CASE Sub!Ends(taken, "failed")
  BY <1>8, <1>9, <1>10, EndsKeeps DEF KidStatuses
<1>11. CASE ~Sub!Ends(taken, "failed")
  <2>1. PICK f : f = [n \in Sub!Everyone |->
             IF n \in others /\ disk.kids[n].status = "pending" THEN [disk.kids[n] EXCEPT !.status = "skipped"]
             ELSE disk.kids[n]]
    OBVIOUS
  <2>2. task' = [taken EXCEPT !.kids = f] /\ Sub!Save
    BY <1>7, <1>8, <1>11, <2>1
  <2>3. f \in [Sub!Everyone -> KidStates]
    <3>1. ASSUME NEW n \in Sub!Everyone
          PROVE  f[n] \in KidStates
      <4>1. disk.kids[n] \in KidStates
        BY DEF ChildInv, IsTask
      <4>2. [disk.kids[n] EXCEPT !.status = "skipped"] \in KidStates
        BY <4>1 DEF KidStates, KidStatuses
      <4> QED
        BY <2>1, <4>1, <4>2
    <3> QED
      BY <2>1, <3>1
  <2>4. \A n \in Sub!Everyone : f[n].status = disk.kids[n].status
                              \/ (disk.kids[n].status = "pending" /\ f[n].status = "skipped")
    BY <2>1 DEF ChildInv, IsTask, KidStates
  <2>5. IsTask(task') /\ task'.kids = f
    BY <1>8, <2>2, <2>3 DEF IsTask
  <2>6. IsTask(disk') /\ task' = disk' /\ kept' \in [Sub!Everyone -> Nat] /\ Sub!ChildrenRunOnce'
    BY <2>2, <2>4, <2>5, SaveKeeps
  <2>7. PICK j : run' = [run EXCEPT !.plan = p, !.i = j]
    BY <1>7, <1>11
  <2>8. IsRun' /\ run'.at = "step"
    BY <1>9, <2>7 DEF ChildInv, IsRun
  <2> QED
    BY <1>9, <2>4, <2>5, <2>6, <2>8 DEF ChildInv, Resting
<1> QED
  BY <1>10, <1>11

LEMMA PlanEndsKeeps ==
    ASSUME ChildInv, Sub!PlanEnds
    PROVE  ChildInv'
BY EndsKeeps DEF Sub!PlanEnds, ChildInv, Sub!GoesOn, KidStatuses

LEMMA ResumesKeeps ==
    ASSUME ChildInv, NEW p \in KidStates, Sub!Resumes(p)
    PROVE  ChildInv'
<1>1. IsTask(disk') /\ disk'.kids = disk.kids /\ task' = disk'
  BY DEF Sub!Resumes, ChildInv, IsTask
<1> QED
  BY <1>1 DEF Sub!Resumes, Sub!Idle, ChildInv, IsRun, Sub!ChildrenRunOnce

LEMMA AfterwardsKeeps ==
    ASSUME ChildInv, Sub!UserRetries \/ Sub!RetryDue \/ Sub!SentBack
    PROVE  ChildInv'
<1>1. disk.parent \in KidStates
  BY DEF ChildInv, IsTask
<1>2. PICK p : p = [disk.parent EXCEPT !.status = "pending", !.auto = 0, !.trigger = "validator_retry"]
  OBVIOUS
<1>3. p \in KidStates
  <2>1. PICK z \in Nat : z = 0
    OBVIOUS
  <2> QED
    BY <1>1, <1>2, <2>1 DEF KidStates, KidStatuses
<1>4. Sub!Policy!PrepareManualRetry(disk.parent) \in KidStates /\ Sub!Policy!ActivateRetry(disk.parent) \in KidStates
  BY <1>1, Retried
<1> QED
  BY <1>2, <1>3, <1>4, ResumesKeeps DEF Sub!UserRetries, Sub!RetryDue, Sub!SentBack

LEMMA NextIterationKeeps ==
    ASSUME ChildInv, Sub!NextIteration
    PROVE  ChildInv'
<1>1. Sub!Policy!Fresh \in KidStates /\ Sub!Policy!Fresh.status = "pending"
  BY DEF Sub!Policy!Fresh, KidStates, KidStatuses
<1>2. PICK p : p = [disk.parent EXCEPT !.status = "pending", !.auto = 0, !.trigger = "initial"]
  OBVIOUS
<1>3. p \in KidStates
  <2>1. PICK z \in Nat : z = 0
    OBVIOUS
  <2>2. disk.parent \in KidStates
    BY DEF ChildInv, IsTask
  <2> QED
    BY <1>2, <2>1, <2>2 DEF KidStates, KidStatuses
<1>4. disk' = [Sub!NewTask EXCEPT !.parent = p]
  BY <1>2 DEF Sub!NextIteration
<1>5. IsTask(disk') /\ \A n \in Sub!Everyone : disk'.kids[n].status = "pending"
  BY <1>1, <1>3, <1>4 DEF Sub!NewTask, IsTask
<1>6. UNCHANGED run /\ run.at = "none" /\ task' = disk'
  BY DEF Sub!NextIteration, Sub!Idle
<1>7. kept' \in [Sub!Everyone -> Nat] /\ \A n \in Sub!Everyone : kept'[n] = 0
  BY DEF Sub!NextIteration
<1> QED
  BY <1>5, <1>6, <1>7 DEF ChildInv, IsRun, Sub!ChildrenRunOnce, Resting

LEMMA ChildCrash ==
    ASSUME ChildInv, Sub!Crash
    PROVE  ChildInv'
<1>1. PICK f : f = [n \in Sub!Everyone |-> Sub!KidRecovered(disk.kids[n])]
  OBVIOUS
<1>2. \A n \in Sub!Everyone :
         /\ f[n] \in KidStates
         /\ disk.kids[n].status \in {"running", "waiting_approval"} => f[n].status \in {"failed", "pending"}
         /\ disk.kids[n].status \notin {"running", "waiting_approval"} => f[n] = disk.kids[n]
  BY <1>1, KidRecoveredRight DEF ChildInv, IsTask
<1>3. \E p \in KidStates : disk' = [disk EXCEPT !.kids = f, !.parent = p]
  <2>1. PICK p : disk' = [disk EXCEPT !.kids = f, !.parent = p]
                 /\ p = IF disk.parent.status # "running" THEN disk.parent
                        ELSE IF \E n \in Sub!Everyone : f[n].status = "pending" /\ f[n].trigger = "recovery_reissue"
                             THEN Sub!Policy!Reissue(Sub!Policy!Interrupted(disk.parent))
                             ELSE Sub!Policy!ApplyPolicy("parent", Sub!Policy!Interrupted(disk.parent))
    BY <1>1 DEF Sub!Crash, Sub!Recovered
  <2>2. disk.parent \in KidStates /\ Sub!Policy!Interrupted(disk.parent) \in KidStates
    BY Interruption DEF ChildInv, IsTask
  <2>3. p \in KidStates
    BY <2>1, <2>2, Reissued, PolicyApplied
  <2> QED
    BY <2>1, <2>3
<1>4. IsTask(disk') /\ disk'.kids = f /\ task' = disk'
  BY <1>1, <1>2, <1>3 DEF Sub!Crash, ChildInv, IsTask
<1>5. IsRun' /\ run'.at = "none" /\ UNCHANGED <<kept, lost>>
  BY DEF Sub!Crash, Sub!NoRun, IsRun
<1>6. \A n \in Sub!Everyone : disk'.kids[n].status = "completed" <=> disk.kids[n].status = "completed"
  BY <1>2, <1>4
<1>7. Sub!ChildrenRunOnce'
  BY <1>5, <1>6 DEF ChildInv, Sub!ChildrenRunOnce
<1>8. \A n \in Sub!Everyone \cap Unchosen : disk'.kids[n].status \in {"pending", "skipped"}
  BY <1>2, <1>4 DEF ChildInv
<1>9. ~lost' => \A n \in Sub!Everyone : disk'.kids[n].status \in Resting
  <2> SUFFICES ASSUME ~lost', NEW n \in Sub!Everyone
               PROVE  f[n].status \in Resting
    BY <1>4
  <2>1. disk.kids[n].status \in Resting \/ disk.kids[n].status \in {"running", "waiting_approval"}
    BY <1>5 DEF ChildInv
  <2> QED
    BY <1>2, <2>1 DEF Resting
<1> QED
  BY <1>4, <1>5, <1>7, <1>8, <1>9 DEF ChildInv

LEMMA ChildStepKeeps ==
    ASSUME ChildInv, [Sub!Next]_(Sub!vars)
    PROVE  ChildInv'
<1>1. ASSUME NEW d \in Drafts, Sub!Edits(d)
      PROVE  ChildInv'
  BY <1>1 DEF Sub!Edits, ChildInv, IsRun, Sub!ChildrenRunOnce, Sub!Here
<1>2. CASE UNCHANGED Sub!vars
  BY <1>2 DEF Sub!vars, ChildInv, IsRun, Sub!ChildrenRunOnce, Sub!Here
<1> QED
  BY <1>1, <1>2, ParentBegins, FreezesKeeps, NotFoundKeeps, PlansKeeps, LeavesOutKeeps, PassesDoneKeeps,
     UncertainKeeps, KidBeginsKeeps, KidAsksKeeps, KidEndsKeeps, KidFailedKeeps, ChoosesKeeps, PlanEndsKeeps,
     AfterwardsKeeps, NextIterationKeeps, ChildCrash DEF Sub!Next

\* However often a subprocess is interrupted, edited and tried again, each of its
\* children completes once at most and nothing it has done is taken back; and when
\* it can be tried again, so can every child, but for a save that failed or a refusal.
THEOREM Resumable == Sub!Spec => [](Sub!ChildrenRunOnce /\ Sub!ChildrenCanBeRetried)
<1>1. ChildInv => Sub!ChildrenRunOnce /\ Sub!ChildrenCanBeRetried
  BY DEF ChildInv, Sub!ChildrenCanBeRetried, Sub!Idle, Resting
<1> QED
  BY <1>1, ChildrenStart, ChildStepKeeps, PTL DEF Sub!Spec
=============================================================================
